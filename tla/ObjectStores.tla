---------------------------- MODULE ObjectStores ----------------------------
(***************************************************************************)
(* The bindings to object stores and file systems: Azure Blob Storage,     *)
(* S3, Google Cloud Storage, Huawei OBS, Alibaba OSS, the local file       *)
(* system and SFTP.                                                        *)
(*                                                                         *)
(* An operation is a program of requests to the service, one program for   *)
(* each item of a bulk operation.  Callers share the binding and the       *)
(* objects; requests fail, with or without having taken effect.            *)
(***************************************************************************)
EXTENDS Integers, Sequences, FiniteSets

CONSTANTS
  Bindings,        \* the bindings to check
  Callers,         \* numbers of the callers of Invoke, one call each
  ObjectNames,     \* 1..n, in the order of a listing
  MaxStoreFaults   \* bound on faults

ASSUME ObjectStoresAssumption ==
  /\ Callers \subseteq Nat \ {0} /\ MaxStoreFaults \in Nat
  /\ IsFiniteSet(ObjectNames) /\ ObjectNames = 1..Cardinality(ObjectNames)

VARIABLES
  binding,         \* the binding
  objects,         \* name -> content: 0 if there is none
  files,           \* local file, named after the object -> content
  invocation,      \* caller -> its call of Invoke
  held,            \* caller -> name -> contents during its call
  storeFaults,     \* faults so far
  link,            \* the SSH connection: up or down
  needsReconnect   \* needsReconnect of the SFTP client

objectVars == <<binding, objects, files, invocation, held, storeFaults, link,
                needsReconnect>>

\* The content of a file that has been created and not been written.
Partial == -1

\* The data item i of caller c writes.
Data(c, i) == Cardinality(ObjectNames) * c + i

(***************************************************************************)
(* The programs.                                                           *)
(***************************************************************************)
\* Azure Blob Storage.
BlobCreate     == <<"presign", "put">>
BlobGet        == <<"read", "properties">>
BlobGetToFile  == <<"open", "download">>
BlobDelete     == <<"delete">>
BlobBulkGet    == <<"read">>
BlobBulkCreate == <<"put">>
\* By batches, and one by one once a batch has failed.
BlobBulkDelete == <<"batch", "delete">>
BlobPresign    == <<"presign">>

\* S3.
S3Create      == <<"put", "presign">>
S3Get         == <<"read">>
S3Delete      == <<"delete">>
S3BulkGet     == <<"read", "open", "save">>
S3BulkCreate  == <<"put">>
S3BulkDelete  == <<"batch">>
S3Presign     == <<"presign">>

\* Google Cloud Storage.
GCSCreate  == <<"put">>
GCSGet     == <<"read">>
GCSDelete  == <<"delete">>
GCSBulkGet == <<"read">>
GCSCopy    == <<"copy">>
GCSMove    == <<"copy", "delete">>
GCSRename  == <<"copy", "delete">>
GCSSign    == <<"presign">>

\* Huawei OBS and Alibaba OSS.
OBSCreate == <<"put">>
OBSUpload == <<"put">>
OBSGet    == <<"read">>
OBSDelete == <<"delete">>
OSSCreate == <<"put">>

\* Files: os.Create or its SFTP counterpart truncates.
LocalCreate == <<"truncate", "write">>
LocalGet    == <<"read">>
LocalDelete == <<"remove">>
SftpCreate  == <<"truncate", "write">>
SftpGet     == <<"read">>
SftpDelete  == <<"remove">>
SftpList    == <<"readdir">>

Programs ==
  [azure |-> [create |-> BlobCreate, get |-> BlobGet, file |-> BlobGetToFile,
              delete |-> BlobDelete, bulkGet |-> BlobBulkGet, prefixGet |-> BlobGetToFile,
              bulkCreate |-> BlobBulkCreate, bulkDelete |-> BlobBulkDelete,
              prefixDelete |-> BlobBulkDelete, presign |-> BlobPresign, list |-> <<>>],
   s3    |-> [create |-> S3Create, get |-> S3Get, delete |-> S3Delete,
              bulkGet |-> S3BulkGet, bulkCreate |-> S3BulkCreate,
              bulkDelete |-> S3BulkDelete, presign |-> S3Presign, list |-> <<>>],
   gcs   |-> [create |-> GCSCreate, get |-> GCSGet, delete |-> GCSDelete,
              prefixGet |-> GCSBulkGet, copy |-> GCSCopy, move |-> GCSMove,
              rename |-> GCSRename, presign |-> GCSSign, list |-> <<>>],
   obs   |-> [create |-> OBSCreate, upload |-> OBSUpload, get |-> OBSGet,
              delete |-> OBSDelete, list |-> <<>>],
   oss   |-> [create |-> OSSCreate],
   local |-> [create |-> LocalCreate, get |-> LocalGet, delete |-> LocalDelete,
              list |-> <<>>],
   sftp  |-> [create |-> SftpCreate, get |-> SftpGet, delete |-> SftpDelete,
              list |-> SftpList],
   sequentialSftp |->
             [create |-> SftpCreate, get |-> SftpGet, delete |-> SftpDelete,
              list |-> SftpList]]

ASSUME BindingsAssumption == Bindings \subseteq DOMAIN Programs

Sftp == {"sftp", "sequentialSftp"}
Bulk == {"bulkGet", "bulkCreate", "bulkDelete"}

\* Operations that list first and then work on what they have found.
ByPrefix == {"prefixGet", "prefixDelete"}

ToFile(op) ==
  op = "file" \/ <<binding, op>> \in {<<"azure", "prefixGet">>, <<"s3", "bulkGet">>}

\* DeleteObject of S3 and of OBS succeeds when there is no such object.
DeletesNothing == {"s3", "obs"}

(***************************************************************************)
(* Invoke.                                                                 *)
(***************************************************************************)
\* at: the step it has come to.  val: what it has read.  res: its result.
\* retried: the operation has been started again after a reconnect.
Item(n, to) == [name |-> n, to |-> to, at |-> 1, val |-> 0, res |-> "running",
                retried |-> FALSE]

NoCall == [op |-> "none", pc |-> "idle", page |-> 1, found |-> {}, items |-> <<>>]

Destinations(op, n) == CASE op = "move"              -> ObjectNames \ {n}
                         [] op \in {"copy", "rename"} -> ObjectNames
                         [] OTHER                     -> {n}

ObjectInit ==
  /\ binding \in Bindings
  /\ objects = [n \in ObjectNames |-> IF n = 1 THEN 1 ELSE 0]
  /\ files = [n \in ObjectNames |-> 0]
  /\ invocation = [c \in Callers |-> NoCall]
  /\ held = [c \in Callers |-> [n \in ObjectNames |-> {}]]
  /\ storeFaults = 0
  /\ link = "up"
  /\ needsReconnect = FALSE

\* resolveCopyDestination refuses a move without a destination, and move one onto
\* the object itself.
Invoke(c) ==
  /\ invocation[c].pc = "idle"
  /\ \E op \in DOMAIN Programs[binding], n \in ObjectNames :
       LET lists == op \in ByPrefix \cup {"list"} /\ binding \notin Sftp
           called == [NoCall EXCEPT !.op = op, !.pc = IF lists THEN "listing" ELSE "items"]
       IN  /\ op \in Bulk \/ lists => n = 1
           /\ \E to \in Destinations(op, n) :
                invocation' = [invocation EXCEPT ![c] = [called EXCEPT !.items =
                  CASE lists      -> <<>>
                    [] op \in Bulk -> [m \in ObjectNames |-> Item(m, m)]
                    [] OTHER       -> <<Item(n, to)>>]]
  /\ held' = [held EXCEPT ![c] = [n \in ObjectNames |-> {objects[n]}]]
  /\ UNCHANGED <<binding, objects, files, storeFaults, link, needsReconnect>>

Program(c) == Programs[binding][invocation[c].op]
At(c, i) == Program(c)[invocation[c].items[i].at]

\* The objects are those of the binding's service from now on.
Holds(new) ==
  /\ objects' = new
  /\ held' = [c \in Callers |-> [n \in ObjectNames |->
                IF invocation[c].pc = "idle" THEN {} ELSE held[c][n] \cup {new[n]}]]

(***************************************************************************)
(* Listings, page by page.                                                 *)
(***************************************************************************)
\* The local file system: the names first, then what each is; walkPath uses the
\* FileInfo of a file that has gone in between, which is nil.
LastPage == IF binding = "local" THEN Cardinality(ObjectNames) + 1 ELSE Cardinality(ObjectNames)

Page(c) ==
  LET call == invocation[c]
      there == {n \in ObjectNames : objects[n] # 0}
  IN  IF binding = "local"
        THEN IF call.page = 1 THEN there
             ELSE call.found
        ELSE call.found \cup (there \cap {call.page})

\* bulkGet and bulkDelete refuse an empty selection, the bulkGet of Google Cloud
\* Storage does not.
Listed(call, found) ==
  CASE call.op = "list" -> [call EXCEPT !.pc = "ok", !.found = found]
    [] call.op # "list" /\ found = {} ->
         [call EXCEPT !.pc = IF binding = "azure" THEN "error" ELSE "ok"]
    [] OTHER -> [call EXCEPT !.pc = "items", !.found = found,
                             !.items = [n \in found |-> Item(n, n)]]

NextPage(c) ==
  LET call == invocation[c]
      found == Page(c)
      vanished == /\ binding = "local" /\ call.page > 1
                  /\ call.page - 1 \in call.found /\ objects[call.page - 1] = 0
  IN  /\ call.pc = "listing"
      /\ binding \in Sftp => link = "up"
      /\ invocation' = [invocation EXCEPT ![c] =
           CASE vanished              -> [call EXCEPT !.pc = "panicked"]
             [] ~vanished /\ call.page < LastPage -> [call EXCEPT !.page = @ + 1, !.found = found]
             [] OTHER                 -> Listed(call, found)]
      /\ UNCHANGED <<binding, objects, files, held, storeFaults, link, needsReconnect>>

\* The iterator of Google Cloud Storage returns an error: list goes on with a nil
\* pointer, and bulkGet calls Next for ever.
PageFails(c) ==
  /\ invocation[c].pc = "listing"
  /\ binding # "local"
  /\ storeFaults < MaxStoreFaults
  /\ storeFaults' = storeFaults + 1
  /\ invocation' = [invocation EXCEPT ![c].pc =
       CASE binding # "gcs" -> "error"
         [] binding = "gcs" /\ invocation[c].op = "list" -> "panicked"
         [] OTHER -> "looping"]
  /\ UNCHANGED <<binding, objects, files, held, link, needsReconnect>>

(***************************************************************************)
(* Requests.                                                               *)
(***************************************************************************)
\* The service refuses the request: there is no such object.
Missing(c, i) ==
  LET it == invocation[c].items[i]
  IN  /\ objects[it.name] = 0
      /\ \/ At(c, i) \in {"read", "properties", "download", "copy", "remove"}
         \/ At(c, i) \in {"delete", "batch"} /\ binding \notin DeletesNothing

\* What the request makes of the objects.
Effect(c, i) ==
  LET it == invocation[c].items[i]
  IN  CASE At(c, i) \in {"put", "write"} -> [objects EXCEPT ![it.name] = Data(c, i)]
        [] At(c, i) = "truncate" -> [objects EXCEPT ![it.name] = Partial]
        [] At(c, i) \in {"delete", "remove", "batch"} -> [objects EXCEPT ![it.name] = 0]
        [] At(c, i) = "copy" -> [objects EXCEPT ![it.to] = objects[it.name]]
        [] OTHER -> objects

\* What the step makes of the local file.
FileAfter(c, i) ==
  LET it == invocation[c].items[i]
  IN  CASE At(c, i) = "open" -> Partial
        [] At(c, i) = "download" -> objects[it.name]
        [] At(c, i) = "save" -> it.val
        [] OTHER -> files[it.name]

\* Another caller is between the first and the last step of an SFTP operation, and
\* has the lock of the client.
InUse(c) ==
  \E d \in Callers \ {c} : \E i \in DOMAIN invocation[d].items :
    invocation[d].items[i].res = "running" /\ invocation[d].items[i].at > 1

\* Item i of the call may take its next step.  Batches are sent one after the
\* other.
Running(c, i) ==
  LET it == invocation[c].items[i]
  IN  /\ invocation[c].pc = "items" /\ it.res = "running"
      /\ At(c, i) = "batch" =>
           \A j \in DOMAIN invocation[c].items : j < i => invocation[c].items[j].res # "running"
      /\ binding = "sequentialSftp" => ~InUse(c)

ItemIs(c, i, it) == invocation' = [invocation EXCEPT ![c].items[i] = it]

IsLast(c, i) ==
  \/ invocation[c].items[i].at = Len(Program(c))
  \/ At(c, i) = "batch"

\* The request, or the step with the local file, succeeds.
ItemStep(c, i) ==
  LET it == invocation[c].items[i]
      read == CASE At(c, i) \in {"read", "copy", "download"} -> objects[it.name]
                [] At(c, i) = "readdir" -> {n \in ObjectNames : objects[n] # 0}
                [] OTHER -> it.val
  IN  /\ Running(c, i) /\ ~Missing(c, i)
      /\ binding \in Sftp => link = "up"
      /\ Holds(Effect(c, i))
      /\ files' = [files EXCEPT ![it.name] = FileAfter(c, i)]
      /\ ItemIs(c, i, IF IsLast(c, i) THEN [it EXCEPT !.res = "ok", !.val = read]
                      ELSE [it EXCEPT !.at = @ + 1, !.val = read])
      /\ UNCHANGED <<binding, storeFaults, link, needsReconnect>>

\* Slip: the file stays.
Cleaned_Not(c, i) == files

\* downloadBlobToFile removes the file again.
Cleaned(c, i) ==
  LET it == invocation[c].items[i]
  IN  IF At(c, i) = "download" THEN [files EXCEPT ![it.name] = 0] ELSE files

NotFound(c, i) ==
  LET it == invocation[c].items[i]
  IN  /\ Running(c, i) /\ Missing(c, i)
      /\ binding \in Sftp => link = "up"
      /\ files' = Cleaned(c, i)
      /\ ItemIs(c, i, [it EXCEPT !.res = IF At(c, i) = "properties" THEN "error" ELSE "not found"])
      /\ UNCHANGED <<binding, objects, held, storeFaults, link, needsReconnect>>

\* The item's request has failed.  bulkDelete of Azure falls back to single deletes,
\* for this item and all after it.
Failed(c, i) ==
  LET call == invocation[c]
  IN  IF binding = "azure" /\ At(c, i) = "batch"
        THEN invocation' = [invocation EXCEPT ![c].items = [j \in DOMAIN call.items |->
               IF j >= i THEN [call.items[j] EXCEPT !.at = 2] ELSE call.items[j]]]
        ELSE ItemIs(c, i, [call.items[i] EXCEPT !.res = "error"])

\* A request fails before or after it has taken effect; a local step before.
StepFails(c, i) ==
  LET it == invocation[c].items[i]
  IN  /\ Running(c, i)
      /\ binding \notin Sftp
      /\ storeFaults < MaxStoreFaults
      /\ storeFaults' = storeFaults + 1
      /\ \/ UNCHANGED <<objects, held>>
         \/ /\ ~Missing(c, i) /\ Effect(c, i) # objects /\ At(c, i) \notin {"truncate", "write"}
            /\ Holds(Effect(c, i))
      /\ files' = Cleaned(c, i)
      /\ Failed(c, i)
      /\ UNCHANGED <<binding, link, needsReconnect>>

(***************************************************************************)
(* SFTP: withReconnection.                                                 *)
(***************************************************************************)
LinkLost ==
  /\ binding \in Sftp /\ link = "up"
  /\ storeFaults < MaxStoreFaults
  /\ storeFaults' = storeFaults + 1
  /\ link' = "down"
  /\ UNCHANGED <<binding, objects, files, invocation, held, needsReconnect>>

\* shouldReconnect: the error is not one of the protocol.
TransportError(c, i) ==
  LET it == invocation[c].items[i]
  IN  /\ ItemIs(c, i, [it EXCEPT !.res = IF it.retried THEN "error" ELSE "reconnecting"])
      /\ needsReconnect' = (needsReconnect \/ ~it.retried)
      /\ UNCHANGED <<binding, files>>

SftpStepFails(c, i) ==
  /\ binding \in Sftp /\ link = "down" /\ Running(c, i)
  /\ TransportError(c, i)
  /\ UNCHANGED <<objects, held, storeFaults, link>>

\* The answer to a request is lost with the connection.
AnswerLost(c, i) ==
  /\ binding \in Sftp /\ link = "up" /\ Running(c, i) /\ ~Missing(c, i)
  /\ storeFaults < MaxStoreFaults
  /\ storeFaults' = storeFaults + 1
  /\ link' = "down"
  /\ Holds(Effect(c, i))
  /\ TransportError(c, i)

\* doReconnect, with the lock, and the second attempt.
SftpReconnect(c, i) ==
  LET it == invocation[c].items[i]
  IN  /\ it.res = "reconnecting"
      /\ ~InUse(c)
      /\ link' = IF needsReconnect THEN "up" ELSE link
      /\ needsReconnect' = FALSE
      /\ ItemIs(c, i, [it EXCEPT !.res = "running", !.at = 1, !.retried = TRUE])
      /\ UNCHANGED <<binding, objects, files, held, storeFaults>>

ReconnectFails(c, i) ==
  LET it == invocation[c].items[i]
  IN  /\ it.res = "reconnecting"
      /\ ~InUse(c)
      /\ needsReconnect /\ link = "down"
      /\ storeFaults < MaxStoreFaults
      /\ storeFaults' = storeFaults + 1
      /\ ItemIs(c, i, [it EXCEPT !.res = "error"])
      /\ UNCHANGED <<binding, objects, files, held, link, needsReconnect>>

ObjectNext ==
  \/ LinkLost
  \/ \E c \in Callers :
       \/ Invoke(c) \/ NextPage(c) \/ PageFails(c)
       \/ \E i \in DOMAIN invocation[c].items :
            \/ ItemStep(c, i) \/ NotFound(c, i) \/ StepFails(c, i)
            \/ SftpStepFails(c, i) \/ AnswerLost(c, i) \/ SftpReconnect(c, i) \/ ReconnectFails(c, i)
ObjectSpec == ObjectInit /\ [][ObjectNext]_objectVars
-----------------------------------------------------------------------------
(***************************************************************************)
(* Properties.                                                             *)
(***************************************************************************)
Reads(op) == op \in {"get", "file", "bulkGet", "prefixGet"}
Writes(op) == op \in {"create", "upload", "bulkCreate"}
Deletes(op) == op \in {"delete", "bulkDelete", "prefixDelete"}
Moves(op) == op \in {"move", "rename"}

\* A file is truncated before it is written, and a reader may come in between,
\* unless the client has a lock for that; even then a write may fail in between.
MayBeTorn ==
  \/ binding \in {"local", "sftp"}
  \/ binding = "sequentialSftp" /\ storeFaults > 0

\* The result of an item was true at some moment of its call: what was written was
\* there, what was read was the whole of an object, what was not found or was
\* deleted was absent.
AnswersAreTrue ==
  \A c \in Callers : \A i \in DOMAIN invocation[c].items :
    LET op == invocation[c].op
        it == invocation[c].items[i]
        seen == held[c][it.name]
    IN  /\ it.res = "not found" => 0 \in seen
        /\ it.res = "ok" =>
             /\ Reads(op) => it.val \in seen \ {0}
             /\ Reads(op) /\ it.val = Partial => MayBeTorn
             /\ Writes(op) => Data(c, i) \in seen
             /\ Deletes(op) => 0 \in seen
             /\ op \in {"copy", "move", "rename"} => it.val \in held[c][it.to]

\* A listing has the names that were there all the time and none that never was.
ListingsAreTrue ==
  \A c \in Callers, n \in ObjectNames :
    LET call == invocation[c]
        listing == IF binding \in Sftp THEN call.items[1].val ELSE call.found
        done == \/ call.pc = "ok"
                \/ call.pc = "items" /\ call.items[1].res = "ok"
    IN  call.op = "list" /\ done =>
          /\ 0 \notin held[c][n] => n \in listing
          /\ held[c][n] = {0} => n \notin listing

\* No other call works on what item it of caller c does.
Alone(c, it) ==
  \A d \in Callers \ {c} : \A j \in DOMAIN invocation[d].items :
    {invocation[d].items[j].name, invocation[d].items[j].to} \cap {it.name, it.to} = {}

\* What is moved is at one of its places at any time.  A rename to the same name
\* deletes the object; move has a guard against that.
MovesLoseNothing ==
  \A c \in Callers : \A i \in DOMAIN invocation[c].items :
    LET it == invocation[c].items[i]
    IN  Moves(invocation[c].op) /\ it.name # it.to /\ it.val # 0 /\ Alone(c, it)
        => it.val \in {objects[it.name], objects[it.to]}

\* A download that has failed leaves no file behind (bulkGet of S3 does), and one
\* that has succeeded the whole object.
FilesAreWhole ==
  \A c \in Callers : \A i \in DOMAIN invocation[c].items :
    LET it == invocation[c].items[i]
    IN  ToFile(invocation[c].op) /\ Alone(c, it) =>
          /\ it.res = "ok" => files[it.name] \in held[c][it.name] \ {0, Partial}
          /\ it.res \in {"error", "not found"} /\ binding # "s3" => files[it.name] = 0

\* A create that could not sign a URL has created nothing; S3 signs afterwards.
RefusedLeavesNothing ==
  \A c \in Callers : \A i \in DOMAIN invocation[c].items :
    LET it == invocation[c].items[i]
    IN  /\ invocation[c].op = "create" /\ it.res = "error" /\ binding # "s3"
        /\ At(c, i) = "presign"
        => Data(c, i) \notin held[c][it.name]

\* Operations end with an answer.  Errors of the iterator (Google Cloud Storage) and
\* files that go away during a listing (local) are not handled.
AllAnswer ==
  \A c \in Callers : invocation[c].pc \in {"panicked", "looping"} => binding \in {"gcs", "local"}

\* SFTP: an operation gets over the loss of the connection.
OneLossIsRetried ==
  \A c \in Callers : \A i \in DOMAIN invocation[c].items :
    binding \in Sftp /\ storeFaults <= 1 => invocation[c].items[i].res # "error"

\* What Invoke of the object stores reports is true, and nothing is lost or left
\* over on the way.
ObjectCallsAreTrue ==
  /\ AnswersAreTrue /\ ListingsAreTrue /\ MovesLoseNothing /\ FilesAreWhole
  /\ RefusedLeavesNothing /\ AllAnswer /\ OneLossIsRetried
=============================================================================
