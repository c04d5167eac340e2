--------------------------- MODULE DocumentStores ---------------------------
(***************************************************************************)
(* The stores on document databases and object storage.  A call of the     *)
(* client library is one command.                                          *)
(***************************************************************************)
EXTENDS StoreCalls

(***************************************************************************)
(* state/mongodb.  An upsert filters on the etag, so it creates the        *)
(* document of an absent key whatever the etag; a document that the filter *)
(* misses makes it fail with a duplicate _id.  A first write filters on an *)
(* etag nobody has.                                                        *)
(***************************************************************************)
MongoSet(op, row) ==
  IF Exists(row) /\ ((HasETag(op) /\ ~Matches(op, row)) \/ Creates(op))
    THEN Mismatch(row)
    ELSE Done(Written(op, op.id, AddTTL(op)))

MongoDelete(op, row) ==
  IF HasETag(op) /\ ~Matches(op, row) THEN Mismatch(row) ELSE Done(NoRow)

MongoGet(row) == Unexpired(row)

(***************************************************************************)
(* state/azure/cosmosdb.  If-Match is only evaluated when the item exists. *)
(* An expired item is gone at once, and -1 is "never" to the service.      *)
(***************************************************************************)
CosmosRefuses(op, row) ==
  Exists(row) /\ ((HasETag(op) /\ ~Matches(op, row)) \/ Creates(op))

CosmosSet(op, row) ==
  IF CosmosRefuses(op, row) THEN Mismatch(row)
                            ELSE Done(Written(op, op.id, ParseTTL(op)))

CosmosDelete(op, row) ==
  IF CosmosRefuses(op, row) THEN Mismatch(row) ELSE Done(NoRow)

\* In the batch of Multi a delete of an absent item is a failure.
CosmosBatchDelete(op, row) ==
  IF Exists(row) THEN CosmosDelete(op, row) ELSE Fail(row, "transaction failed")

CosmosGet(row) == row

(***************************************************************************)
(* state/aws/dynamodb.  Conditions see an expired item until the service   *)
(* sweeps it.  The deletes of Multi carry no condition.                    *)
(***************************************************************************)
DynamoSet(op, row) ==
  CASE HasETag(op) /\ ~Matches(op, row) -> Mismatch(row)
    [] Creates(op) /\ Exists(row)       -> Fail(row, "condition failed")
    [] OTHER -> Done(Written(op, op.id, AddTTL(op)))

DynamoDelete(op, row) ==
  IF HasETag(op) /\ ~Matches(op, row) THEN Mismatch(row) ELSE Done(NoRow)

DynamoMultiDelete(op, row) == Done(NoRow)

DynamoGet(row) == Unexpired(row)

(***************************************************************************)
(* state/ravendb.  A first write loads the document and stores it blindly  *)
(* if there is none, else with a change vector; the session is saved by a  *)
(* second command.  A delete inside Multi loads, and ignores the etag.     *)
(***************************************************************************)
RavenSave(op, pc, row) ==
  CASE pc = "store"         -> Done(Written(op, op.id, ParseTTL(op)))
    [] pc = "compare" /\ Matches(op, row)
                            -> Done(Written(op, op.id, ParseTTL(op)))
    [] pc = "compare" /\ ~Matches(op, row) -> Mismatch(row)

RavenSet(op, pc, row) ==
  CASE pc # "start" -> RavenSave(op, pc, row)
    [] pc = "start" /\ IsFirstWrite(op) ->
         Go(row, IF Exists(row) THEN "compare" ELSE "store")
    [] OTHER -> RavenSave(op, IF HasETag(op) THEN "compare" ELSE "store", row)

RavenDelete(op, row) ==
  IF HasETag(op) /\ ~Matches(op, row) THEN Mismatch(row) ELSE Done(NoRow)

RavenMultiDelete(op, pc, row) ==
  CASE pc = "start"  -> Go(row, IF Exists(row) THEN "delete" ELSE "nothing")
    [] pc = "delete" -> Done(NoRow)
    [] OTHER         -> Done(row)

RavenGet(row) == Unexpired(row)

(***************************************************************************)
(* state/azure/tablestorage.  Set adds the entity and updates it if there  *)
(* is one already.                                                         *)
(***************************************************************************)
TableStorageSet(op, pc, row) ==
  CASE pc = "start" /\ ~Exists(row) -> Done(Written(op, op.id, "never"))
    [] pc = "start" /\ Creates(op)  -> Mismatch(row)
    [] pc = "start"                 -> Go(row, "update")
    [] ~Exists(row)                 -> Fail(row, "not found")
    [] HasETag(op) /\ ~Matches(op, row) -> Mismatch(row)
    [] OTHER -> Done(Written(op, op.id, "never"))

TableStorageDelete(op, row) ==
  IF HasETag(op) /\ ~Matches(op, row) THEN Mismatch(row) ELSE Done(NoRow)

TableStorageGet(row) == row

(***************************************************************************)
(* state/azure/blobstorage                                                 *)
(***************************************************************************)
BlobSet(op, row) ==
  CASE HasETag(op) /\ ~Matches(op, row) -> Mismatch(row)
    [] Creates(op) /\ Exists(row) -> Fail(row, "error uploading blob")
    [] OTHER -> Done(Written(op, op.id, "never"))

BlobDelete(op, row) ==
  IF HasETag(op) /\ Exists(row) /\ ~Matches(op, row) THEN Mismatch(row)
                                                     ELSE Done(NoRow)

BlobGet(row) == row

(***************************************************************************)
(* state/oci/objectstorage.  An etag is only sent with first-write         *)
(* concurrency, which is refused without one.                              *)
(***************************************************************************)
OCISet(op, row) ==
  CASE Creates(op) -> Fail(row, "a value must be provided for the ETag")
    [] IsFirstWrite(op) /\ ~Matches(op, row) -> Fail(row, "failed to write object")
    [] OTHER -> Done(Written(op, op.id, AddTTL(op)))

OCIDelete(op, row) ==
  CASE Creates(op) -> Fail(row, "a value must be provided for the ETag")
    [] ~Exists(row) -> Fail(row, "not found")
    [] IsFirstWrite(op) /\ ~Matches(op, row) -> Fail(row, "failed to delete object")
    [] OTHER -> Done(NoRow)

OCIGet(row) == Unexpired(row)
==============================================================================
