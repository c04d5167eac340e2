------------------------------ MODULE TTLStore ------------------------------
(***************************************************************************)
(* What a Dapr state store with the features ETAG, TRANSACTIONAL and TTL   *)
(* promises its callers, in one piece of state per key.  The store is a    *)
(* map from keys to an entry (an etag and an expiry time).  Requests       *)
(* change it in one step each, whatever number of keys they touch; every   *)
(* write carries an etag that was never issued before; the store itself    *)
(* may drop an entry only once the entry's time is over; and a read        *)
(* returns, for all the keys it asks for at once, what is there now.       *)
(***************************************************************************)
EXTENDS Naturals

CONSTANTS Keys, NoItem, NoETag, Never

VARIABLES kv,      \* key -> entry or NoItem
          issued,  \* number of etags issued; etags are 0, 1, 2, ...
          now,     \* wall clock, in seconds
          view,    \* the answer of the latest bulk read
          origin   \* who made the latest change: a "request" or the "store"

absVars == <<kv, issued, now, view, origin>>

Dead(e) == e # NoItem /\ e.expire # Never /\ now > e.expire

Answer(e) == IF e = NoItem \/ Dead(e) THEN NoETag ELSE e.etag

Init == /\ kv = [k \in Keys |-> NoItem]
        /\ issued = 0
        /\ now = 0
        /\ view = << >>
        /\ origin = "store"

Tick == now' = now + 1 /\ UNCHANGED <<kv, issued, view, origin>>

\* One request: the keys of K are written or removed together; what is written
\* carries a new etag, no two of them the same.
Transact ==
  /\ issued' >= issued
  /\ \E K \in SUBSET Keys :
        /\ \A k \in Keys \ K : kv'[k] = kv[k]
        /\ \A k \in K : kv'[k] # NoItem => kv'[k].etag \in issued .. issued' - 1
        /\ \A k, l \in K : k # l /\ kv'[k] # NoItem /\ kv'[l] # NoItem
                              => kv'[k].etag # kv'[l].etag
  /\ origin' = "request"
  /\ UNCHANGED <<now, view>>

\* The store forgets entries, but only dead ones.
Collect ==
  /\ \A k \in Keys : \/ kv'[k] = kv[k]
                     \/ Dead(kv[k]) /\ kv'[k] = NoItem
  /\ origin' = "store"
  /\ UNCHANGED <<issued, now, view>>

Read ==
  /\ \E K \in SUBSET Keys : view' = [k \in K |-> Answer(kv[k])]
  /\ UNCHANGED <<kv, issued, now, origin>>

Next == Tick \/ Transact \/ Collect \/ Read

Spec == Init /\ [][Next]_absVars
=============================================================================
