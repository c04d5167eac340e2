------------------------------ MODULE SqlStores ------------------------------
(***************************************************************************)
(* The stores on SQL databases.  A statement is one step of the database;  *)
(* Multi is one transaction of it.                                         *)
(***************************************************************************)
EXTENDS StoreCalls

(***************************************************************************)
(* state/sqlite                                                            *)
(***************************************************************************)
\* Slip: rows that have expired still count.
SqliteSet_SeesExpired(op, row) ==
  CASE HasETag(op) /\ ~Matches(op, row) -> Mismatch(row)
    [] Creates(op) /\ Exists(row) -> Mismatch(row)
    [] OTHER -> Done(Written(op, op.id, ParseTTL(op)))

SqliteSet(op, row) ==
  CASE HasETag(op) /\ ~(Matches(op, row) /\ IsLive(row)) -> Mismatch(row)
    [] Creates(op) /\ IsLive(row) -> Mismatch(row)
    [] OTHER -> Done(Written(op, op.id, ParseTTL(op)))

SqliteDelete(op, row) ==
  IF HasETag(op) /\ ~Matches(op, row) THEN Mismatch(row) ELSE Done(NoRow)

SqliteGet(row) == Unexpired(row)

(***************************************************************************)
(* state/mysql.  The INSERT of a first write selects only if there is no   *)
(* unexpired row, but an expired one still holds the primary key.          *)
(***************************************************************************)
MySQLSet(op, row) ==
  CASE HasETag(op) /\ ~(Matches(op, row) /\ IsLive(row)) -> Mismatch(row)
    [] Creates(op) /\ IsLive(row) -> Mismatch(row)
    [] Creates(op) /\ Exists(row) /\ ~IsLive(row) -> Fail(row, "duplicate key")
    [] OTHER -> Done(Written(op, op.id, ParseTTL(op)))

\* Slip: the statement without the eTag in its WHERE.
MySQLDelete_NoETag(op, row) == Done(NoRow)

MySQLDelete(op, row) ==
  IF HasETag(op) /\ ~Matches(op, row) THEN Mismatch(row) ELSE Done(NoRow)

MySQLGet(row) == Unexpired(row)

(***************************************************************************)
(* common/component/postgresql/v1 with the statements of                   *)
(* state/postgresql/v1 (the etag is xmin, the writing transaction) and of  *)
(* state/cockroachdb (the etag is a counter).                              *)
(***************************************************************************)
PostgresV1Query(op, row) == op.id

\* An upsert sets etag = EXCLUDED.etag + 1, and EXCLUDED.etag is the 1 of its
\* VALUES; an update with an etag counts on.
CockroachQuery(op, row) ==
  CASE ~Exists(row)  -> 1
    [] HasETag(op)   -> row.etag + 1
    [] OTHER         -> 2

PostgresV1Set(op, row, etag) ==
  CASE HasETag(op) /\ ~(Matches(op, row) /\ IsLive(row)) -> Mismatch(row)
    [] Creates(op) /\ IsLive(row) -> Fail(row, "no item was updated")
    [] OTHER -> Done(Written(op, etag, ParseTTL(op)))

PostgresV1Delete(op, row) ==
  IF HasETag(op) /\ ~Matches(op, row) THEN Mismatch(row) ELSE Done(NoRow)

PostgresV1Get(row) == Unexpired(row)

(***************************************************************************)
(* state/postgresql/v2                                                     *)
(***************************************************************************)
PostgresV2Set(op, row) ==
  CASE HasETag(op) /\ ~(Matches(op, row) /\ IsLive(row)) -> Mismatch(row)
    [] Creates(op) /\ IsLive(row) -> Fail(row, "no item was updated")
    [] OTHER -> Done(Written(op, op.id, ParseTTL(op)))

PostgresV2Delete(op, row) ==
  IF HasETag(op) /\ ~Matches(op, row) THEN Mismatch(row) ELSE Done(NoRow)

PostgresV2Get(row) == Unexpired(row)

(***************************************************************************)
(* state/sqlserver and state/sqlserver/v2.  In the stored procedure a      *)
(* first write without an etag looks for the key and then inserts; the     *)
(* CATCH of the insert turns a duplicate key into an update.               *)
(***************************************************************************)
SQLServerUpsert(op, pc, row) ==
  CASE pc = "start" /\ HasETag(op) /\ ~Matches(op, row) -> Mismatch(row)
    [] pc = "start" /\ Creates(op) /\ Exists(row) -> Fail(row, "already written")
    [] pc = "start" /\ Creates(op) /\ ~Exists(row) -> Go(row, "insert")
    [] OTHER -> Done(Written(op, op.id, AddTTL(op)))

SQLServerSet(op, pc, row) == SQLServerUpsert(op, pc, row)

SQLServerDelete(op, row) ==
  IF HasETag(op) /\ ~Matches(op, row) THEN Mismatch(row) ELSE Done(NoRow)

SQLServerGet(row) == Unexpired(row)

SQLServerV2Set(op, pc, row) == SQLServerUpsert(op, pc, row)

SQLServerV2Delete(op, row) ==
  IF HasETag(op) /\ ~Matches(op, row) THEN Mismatch(row) ELSE Done(NoRow)

SQLServerV2Get(row) == Unexpired(row)

(***************************************************************************)
(* state/oracledatabase                                                    *)
(***************************************************************************)
OracleSet(op, row) ==
  CASE HasETag(op) /\ ~(Matches(op, row) /\ IsLive(row)) -> Mismatch(row)
    [] Creates(op) /\ Exists(row) -> Fail(row, "duplicate key")
    [] OTHER -> Done(Written(op, op.id, ParseTTL(op)))

OracleDelete(op, row) ==
  IF HasETag(op) /\ ~Matches(op, row) THEN Mismatch(row) ELSE Done(NoRow)

OracleGet(row) == Unexpired(row)

==============================================================================
