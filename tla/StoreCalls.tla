----------------------------- MODULE StoreCalls -----------------------------
(***************************************************************************)
(* What the state stores have in common: a row of the service behind a     *)
(* store, a request (state/requests.go) and what one command of a request  *)
(* does to a row.                                                          *)
(*                                                                         *)
(* The data of a row is the number of the request that wrote it.  A store  *)
(* is a set of operators, one per operation, that take a request, the      *)
(* command it has come to and the row, and return an outcome: the row the  *)
(* command leaves, the next command ("done" at the end) and the error.     *)
(***************************************************************************)
EXTENDS Integers, Sequences

CONSTANTS
  NoRow,      \* the service has nothing under the key
  NoETag      \* the request carries no etag

ASSUME NoETagAssumption == NoETag \notin Nat

\* A row: its etag, the request that wrote it, whether its time to live is
\* unset, running or over, what the writer asked for, and the "first-write"
\* field of Redis.
Row == [etag : Nat \cup {NoETag}, id : Nat,
        exp : {"never", "armed", "passed"},
        ttl : {"nil", "persist", "some"}, fw : BOOLEAN]

\* SetRequest and DeleteRequest.  id numbers the request; seen is the writer
\* of the row the caller read the etag from; ttl is the ttlInSeconds metadata
\* (absent, -1 or positive).
Operation(id, kind, key, etag, seen, conc, ttl) ==
  [id |-> id, kind |-> kind, key |-> key, etag |-> etag, seen |-> seen,
   conc |-> conc, ttl |-> ttl]

HasETag(op) == op.etag # NoETag

\* First-write concurrency without an etag: the key must not exist yet.
IsFirstWrite(op) == op.conc = "first-write"
Creates(op) == IsFirstWrite(op) /\ ~HasETag(op)

Exists(row)  == row # NoRow
IsLive(row)  == Exists(row) /\ row.exp # "passed"
Matches(op, row) == Exists(row) /\ row.etag = op.etag

\* Outcomes.
Done(row)      == [row |-> row, pc |-> "done", err |-> "ok"]
Fail(row, e)   == [row |-> row, pc |-> "done", err |-> e]
Go(row, pc)    == [row |-> row, pc |-> pc, err |-> "ok"]
Mismatch(row)  == Fail(row, "etag mismatch")

\* ParseTTL, where a store arms an expiry only for a positive value.
ParseTTL(op) == IF op.ttl = "some" THEN "armed" ELSE "never"

\* ParseTTL, where a store adds any value it is given to the current time:
\* -1 is a time that is over.
AddTTL(op) == CASE op.ttl = "nil" -> "never"
                [] op.ttl = "persist" -> "passed"
                [] OTHER -> "armed"

\* The row a request writes.
Written(op, etag, exp) ==
  [etag |-> etag, id |-> op.id, exp |-> exp, ttl |-> op.ttl, fw |-> FALSE]

\* Answers of Get: the row with its etag, or nothing.  Most services keep an
\* expired row for some time, and their stores filter it.
Unexpired(row) == IF IsLive(row) THEN row ELSE NoRow
==============================================================================
