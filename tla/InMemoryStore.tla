---------------------------- MODULE InMemoryStore ----------------------------
(***************************************************************************)
(* state/in-memory/in_memory.go: the in-memory state store.                *)
(*                                                                         *)
(* The store is a Go map guarded by one RWMutex.  Every request is one     *)
(* critical section and so one action, except Get (a read under RLock, an  *)
(* expiry check outside it and, for an expired item, a second critical     *)
(* section), Multi (validation of all etags, then the operations one by    *)
(* one, under one Lock) and Close (which waits for the cleaner goroutine   *)
(* while it holds the Lock).  An item's data is identified with its etag:  *)
(* both are set by doSet and never change afterwards.                      *)
(*                                                                         *)
(* An operator D_Slip before a definition D is D with a plausible slip,    *)
(* kept to show that some property fails with it.                          *)
(***************************************************************************)
EXTENDS Integers, Sequences, FiniteSets

CONSTANTS
  Keys,       \* state keys
  Prefixes,   \* what DeleteWithPrefix is called with, after Validate
  Parent,     \* Parent[k]: the part of k up to and with its last "||"
  Readers,    \* goroutines that call Get
  Scanners,   \* goroutines that page through the keys with KeysLike
  TTLs,       \* values of the ttlInSeconds metadata
  Patterns,   \* patterns of KeysLike, each the set of keys it matches
  PageSizes,  \* page sizes of KeysLike
  BulkReads,  \* sets of keys BulkGet is called with
  MaxNow,     \* bound: seconds the clock runs
  MaxWrites,  \* bound: number of doSet calls
  MaxOps,     \* bound: operations of one Multi
  NoItem, NoKey, NoETag, Never

Item == [etag : Nat, idx : Nat, expire : Nat \cup {Never}]

ASSUME ConstantsAssumption ==
  /\ Parent \in [Keys -> Prefixes]
  /\ TTLs \subseteq Int
  /\ IsFiniteSet(Keys)
  /\ Patterns \subseteq SUBSET Keys
  /\ PageSizes \subseteq Nat \ {0}
  /\ BulkReads \subseteq SUBSET Keys
  /\ NoETag \notin Nat
  /\ Never \notin Nat
  /\ NoItem \notin Item
  /\ NoKey \notin Keys

ConcurrencyModes == {"first-write", "last-write"}

VARIABLES
  items,    \* store.items
  idx,      \* store.idx
  uuids,    \* etags drawn so far: uuid.New() returns the next one
  now,      \* store.clock, in seconds
  writer,   \* who holds store.lock across steps: "none", "multi" or "close"
  txn,      \* operations the running Multi has still to apply
  cleaner,  \* startCleanThread: at its "select", in "clean", or "stopped"
  closer,   \* Close: not called ("open"), at "lock", at "wait", or "done"
  get,      \* get[r]: the Get call of reader r
  scan,     \* scan[s]: the paging loop of scanner s
  view,     \* answer of the latest BulkGet
  \* History variables, read by no action of the store:
  committed, \* items and uuids as they were when store.lock was last free
  origin,    \* who made the latest change: a "request" or the "store"
  spent,     \* etags some conditional request was accepted with
  twice,     \* etags two conditional requests were accepted with
  seen,      \* seen[r]: the answers that were right at some time in r's Get
  trail      \* trail[s]: what happened to the keys since s began its scan

storeVars == <<items, idx, uuids, now, writer, txn, cleaner, closer>>
callVars  == <<get, scan, view>>
winVars   == <<origin, spent, twice>>
vars == <<storeVars, callVars, winVars, committed, seen, trail>>

-----------------------------------------------------------------------------
(* The item and its helpers.                                               *)

closed == closer # "open"

isExpired(item) == item # NoItem /\ item.expire # Never /\ now > item.expire

\* A negative ttlInSeconds counts as 0, and 0 as no expiry.
doParseTTLInSeconds(ttl) == IF ttl < 0 THEN 0 ELSE ttl

Expiry_NegativeNotClamped(ttl) == now + ttl

Expiry(ttl) == IF doParseTTLInSeconds(ttl) > 0 THEN now + ttl ELSE Never

doValidateEtag_OnlyPresence(key, etag, concurrency) ==
  IF etag = NoETag
  THEN concurrency = "first-write" => items[key] = NoItem
  ELSE items[key] # NoItem

\* The etag check of Set, Delete and Multi.  An item that has expired and has
\* not been collected yet counts as present.
doValidateEtag(key, etag, concurrency) ==
  IF etag = NoETag
  THEN concurrency = "first-write" => items[key] = NoItem
  ELSE items[key] # NoItem /\ items[key].etag = etag

doSet(key, ttl) ==
  /\ items' = [items EXCEPT ![key] =
                  [etag |-> uuids, idx |-> idx, expire |-> Expiry(ttl)]]
  /\ idx' = idx + 1
  /\ uuids' = uuids + 1

doDelete(K) ==
  /\ items' = [k \in Keys |-> IF k \in K THEN NoItem ELSE items[k]]
  /\ UNCHANGED <<idx, uuids>>

Answer(item) == IF item = NoItem \/ isExpired(item) THEN NoETag ELSE item.etag

-----------------------------------------------------------------------------
(* Requests.  An operation of a Multi is a record of the same fields as    *)
(* the parameters of Set and Delete.                                       *)

Op == [kind : {"set", "delete"}, key : Keys, etag : Nat \cup {NoETag},
       concurrency : ConcurrencyModes, ttl : Int]

Accept(etags) == /\ spent' = spent \cup etags
                 /\ twice' = twice \cup (etags \cap spent)

Set(o) ==
  /\ o.kind = "set"
  /\ idx < MaxWrites
  /\ writer = "none"
  /\ doValidateEtag(o.key, o.etag, o.concurrency)
  /\ doSet(o.key, o.ttl)
  /\ Accept({o.etag} \ {NoETag})
  /\ origin' = "request"
  /\ UNCHANGED <<now, writer, txn, cleaner, closer, callVars>>

Delete(o) ==
  /\ o.kind = "delete"
  /\ writer = "none"
  /\ doValidateEtag(o.key, o.etag, o.concurrency)
  /\ doDelete({o.key})
  /\ Accept({o.etag} \ {NoETag})
  /\ origin' = "request"
  /\ UNCHANGED <<now, writer, txn, cleaner, closer, callVars>>

\* Removes the keys below the prefix, not those below a longer prefix of it.
DeleteWithPrefix(p) ==
  /\ writer = "none"
  /\ doDelete({k \in Keys : Parent[k] = p})
  /\ origin' = "request"
  /\ UNCHANGED <<now, writer, txn, cleaner, closer, callVars, spent, twice>>

\* Multi, steps 1 and 2: take the lock and validate every operation against the
\* items as they are before any operation is applied.
MultiValidate(ops) ==
  /\ writer = "none"
  /\ \A i \in DOMAIN ops : doValidateEtag(ops[i].key, ops[i].etag, ops[i].concurrency)
  /\ writer' = "multi"
  /\ txn' = ops
  /\ Accept({ops[i].etag : i \in DOMAIN ops} \ {NoETag})
  /\ UNCHANGED <<items, idx, uuids, now, cleaner, closer, callVars, origin>>

\* Multi, step 3: apply the next operation; the last one releases the lock.
MultiApply ==
  /\ writer = "multi"
  /\ IF Head(txn).kind = "set"
     THEN doSet(Head(txn).key, Head(txn).ttl)
     ELSE doDelete({Head(txn).key})
  /\ txn' = Tail(txn)
  /\ writer' = IF Len(txn) = 1 THEN "none" ELSE "multi"
  /\ origin' = "request"
  /\ UNCHANGED <<now, cleaner, closer, callVars, spent, twice>>

-----------------------------------------------------------------------------
(* Get and BulkGet.                                                        *)

GetState == [pc : {"idle", "check", "expire", "return"},
             key : Keys \cup {NoKey}, item : Item \cup {NoItem}]

GetAt(pc, key, item) == [pc |-> pc, key |-> key, item |-> item]

NoGet == GetAt("idle", NoKey, NoItem)

\* The item pointer is read under RLock ...
GetRead(r, k) ==
  /\ get[r].pc = "idle"
  /\ writer = "none"
  /\ get' = [get EXCEPT ![r] = GetAt("check", k, items[k])]
  /\ UNCHANGED <<storeVars, scan, view, winVars>>

\* ... and its expiry is checked after RUnlock, against the clock of that moment.
GetCheck(r) ==
  /\ get[r].pc = "check"
  /\ get' = [get EXCEPT ![r] =
                GetAt(IF isExpired(get[r].item) THEN "expire" ELSE "return",
                      get[r].key, get[r].item)]
  /\ UNCHANGED <<storeVars, scan, view, winVars>>

getAndExpire_ReturnsFirst(r) ==
  LET key == get[r].key  dead == isExpired(items[get[r].key]) IN
  /\ get[r].pc = "expire"
  /\ writer = "none"
  /\ doDelete(IF dead THEN {key} ELSE {})
  /\ get' = [get EXCEPT ![r] = GetAt("return", key, IF dead THEN NoItem ELSE get[r].item)]
  /\ origin' = IF dead THEN "store" ELSE origin
  /\ UNCHANGED <<now, writer, txn, cleaner, closer, scan, view, spent, twice>>

\* getAndExpire, under Lock: the item is looked up and checked again.
getAndExpire(r) ==
  LET key == get[r].key  dead == isExpired(items[get[r].key]) IN
  /\ get[r].pc = "expire"
  /\ writer = "none"
  /\ doDelete(IF dead THEN {key} ELSE {})
  /\ get' = [get EXCEPT ![r] =
                GetAt("return", key, IF dead THEN NoItem ELSE items[key])]
  /\ origin' = IF dead THEN "store" ELSE origin
  /\ UNCHANGED <<now, writer, txn, cleaner, closer, scan, view, spent, twice>>

GetReturn(r) ==
  /\ get[r].pc = "return"
  /\ get' = [get EXCEPT ![r] = NoGet]
  /\ UNCHANGED <<storeVars, scan, view, winVars>>

BulkGet_NoLock(K) ==
  /\ view' = [k \in K |-> Answer(items[k])]
  /\ UNCHANGED <<storeVars, get, scan, winVars>>

\* One RLock for all the keys; expired items are skipped and left in place.
BulkGet(K) ==
  /\ writer = "none"
  /\ view' = [k \in K |-> Answer(items[k])]
  /\ UNCHANGED <<storeVars, get, scan, winVars>>

-----------------------------------------------------------------------------
(* KeysLike, called in a loop that passes each continuation token on to    *)
(* the next call.  A pattern is the set of keys it matches.                *)

ScanState == [pc : {"idle", "paging", "done"}, pattern : SUBSET Keys, token : Nat,
              got : SUBSET Keys, dups : SUBSET Keys]

NoScan == [pc |-> "idle", pattern |-> {}, token |-> 0, got |-> {}, dups |-> {}]

ScanStart(s, pattern) ==
  /\ scan[s].pc = "idle"
  /\ scan' = [scan EXCEPT ![s] = [NoScan EXCEPT !.pc = "paging", !.pattern = pattern]]
  /\ UNCHANGED <<storeVars, get, view, winVars>>

KeysFrom_AfterToken(pattern, token) ==
  {k \in pattern : items[k] # NoItem /\ items[k].idx > token}

KeysFrom_BeforeToken(pattern, token) ==
  {k \in pattern : items[k] # NoItem /\ items[k].idx + 1 >= token}

\* The matching items from the token on; the token 0 stands for no token.
KeysFrom(pattern, token) ==
  {k \in pattern : items[k] # NoItem /\ items[k].idx >= token}

\* The n keys of K that were written first: the order of sortingKeys.
FirstPage(K, n) ==
  {k \in K : Cardinality({j \in K : items[j].idx < items[k].idx}) < n}

\* The scan after one more page; dups is what was returned before.
Paged(s, page, pc, token) ==
  [pc      |-> pc,
   pattern |-> scan[s].pattern,
   token   |-> token,
   got     |-> scan[s].got \cup page,
   dups    |-> scan[s].dups \cup (page \cap scan[s].got)]

\* One call: the page, and as token the idx of the first item after the page.
KeysLike(s, n) ==
  LET from == KeysFrom(scan[s].pattern, scan[s].token)
      page == FirstPage(from, n)
      rest == from \ page
  IN
  /\ scan[s].pc = "paging"
  /\ writer = "none"
  /\ \/ rest = {} /\ scan' = [scan EXCEPT ![s] = Paged(s, page, "done", 0)]
     \/ \E k \in rest :
          /\ \A j \in rest : items[k].idx <= items[j].idx
          /\ scan' = [scan EXCEPT ![s] = Paged(s, page, "paging", items[k].idx)]
  /\ UNCHANGED <<storeVars, get, view, winVars>>

ScanEnd(s) ==
  /\ scan[s].pc = "done"
  /\ scan' = [scan EXCEPT ![s] = NoScan]
  /\ UNCHANGED <<storeVars, get, view, winVars>>

-----------------------------------------------------------------------------
(* The cleaner goroutine, Close and the clock.                             *)

\* The select of startCleanThread: the timer and, once closed, closeCh are
\* ready in any order.
CleanThreadWakes ==
  /\ cleaner = "select"
  /\ cleaner' = "clean"
  /\ UNCHANGED <<items, idx, uuids, now, writer, txn, closer, callVars, winVars>>

CleanThreadStops ==
  /\ cleaner = "select"
  /\ closed
  /\ cleaner' = "stopped"
  /\ UNCHANGED <<items, idx, uuids, now, writer, txn, closer, callVars, winVars>>

doCleanExpiredItems_Once ==
  /\ cleaner = "clean"
  /\ writer = "none"
  /\ doDelete({k \in Keys : isExpired(items[k])})
  /\ cleaner' = "stopped"
  /\ origin' = "store"
  /\ UNCHANGED <<now, writer, txn, closer, callVars, spent, twice>>

doCleanExpiredItems ==
  LET dead == {k \in Keys : isExpired(items[k])} IN
  /\ cleaner = "clean"
  /\ writer = "none"
  /\ doDelete(dead)
  /\ cleaner' = "select"
  /\ origin' = IF dead = {} THEN origin ELSE "store"
  /\ UNCHANGED <<now, writer, txn, closer, callVars, spent, twice>>

\* Close: close(closeCh); then Lock and drop every item; then wg.Wait() for the
\* cleaner with the lock still held.
CloseSignals ==
  /\ closer = "open"
  /\ closer' = "lock"
  /\ UNCHANGED <<items, idx, uuids, now, writer, txn, cleaner, callVars, winVars>>

CloseDropsItems ==
  /\ closer = "lock"
  /\ writer = "none"
  /\ doDelete(Keys)
  /\ writer' = "close"
  /\ closer' = "wait"
  /\ origin' = "request"
  /\ UNCHANGED <<now, txn, cleaner, callVars, spent, twice>>

CloseReturns ==
  /\ closer = "wait"
  /\ cleaner = "stopped"
  /\ writer' = "none"
  /\ closer' = "done"
  /\ UNCHANGED <<items, idx, uuids, now, txn, cleaner, callVars, winVars>>

Tick ==
  /\ now < MaxNow
  /\ now' = now + 1
  /\ UNCHANGED <<items, idx, uuids, writer, txn, cleaner, closer, callVars, winVars>>

-----------------------------------------------------------------------------
(* The specification.                                                      *)

Visible(r) == Answer(committed.items[get[r].key])

NoTrail == [must |-> {}, rewritten |-> {}]

Present == {k \in Keys : items[k] # NoItem}

\* How the history variables follow the store.
Observe ==
  /\ committed' = IF writer' = "multi" THEN committed
                  ELSE [items |-> items', uuids |-> uuids']
  /\ seen' = [r \in Readers |-> IF get'[r].pc = "idle" THEN {}
                                ELSE seen[r] \cup {Visible(r)'}]
  /\ trail' = [s \in Scanners |->
       CASE scan'[s].pc = "idle" -> NoTrail
         [] scan'[s].pc # "idle" /\ scan[s].pc = "idle" ->
              [must |-> scan'[s].pattern \cap Present', rewritten |-> {}]
         [] OTHER ->
              [must |-> trail[s].must \cap Present',
               rewritten |-> trail[s].rewritten
                               \cup {k \in Keys : items'[k] # items[k]}]]

Init ==
  /\ items = [k \in Keys |-> NoItem]
  /\ idx = 0
  /\ uuids = 0
  /\ now = 0
  /\ writer = "none"
  /\ txn = << >>
  /\ cleaner = "select"
  /\ closer = "open"
  /\ get = [r \in Readers |-> NoGet]
  /\ scan = [s \in Scanners |-> NoScan]
  /\ view = << >>
  /\ committed = [items |-> items, uuids |-> uuids]
  /\ origin = "store"
  /\ spent = {}
  /\ twice = {}
  /\ seen = [r \in Readers |-> {}]
  /\ trail = [s \in Scanners |-> NoTrail]

\* The operations a caller can send: with no etag, or with one the store issued
\* (the concurrency mode is then not looked at); a delete has no TTL.
Ops == {o \in [kind : {"set", "delete"}, key : Keys, etag : 0 .. uuids - 1 \cup {NoETag},
               concurrency : ConcurrencyModes, ttl : TTLs \cup {0}] :
          /\ o.etag # NoETag => o.concurrency = "first-write"
          /\ o.ttl \in IF o.kind = "set" THEN TTLs ELSE {0}}

\* The transactions that fit the bounds.
Txns == UNION {[1 .. n -> Ops] : n \in {m \in 1 .. MaxOps : idx + m <= MaxWrites}}

Request == \/ \E o \in Ops : Set(o) \/ Delete(o)
           \/ \E p \in Prefixes : DeleteWithPrefix(p)
           \/ writer = "none" /\ \E ops \in Txns : MultiValidate(ops)
           \/ MultiApply
           \/ \E K \in BulkReads : BulkGet(K)

GetCall(r) == (\E k \in Keys : GetRead(r, k)) \/ GetCheck(r) \/ getAndExpire(r)
                \/ GetReturn(r)

KeysLikeCall(s) == \/ \E pattern \in Patterns : ScanStart(s, pattern)
                   \/ \E n \in PageSizes : KeysLike(s, n)
                   \/ ScanEnd(s)

Cleaner == CleanThreadWakes \/ doCleanExpiredItems \/ CleanThreadStops

Closer == CloseSignals \/ CloseDropsItems \/ CloseReturns

Next == /\ \/ Request
           \/ \E r \in Readers : GetCall(r)
           \/ \E s \in Scanners : KeysLikeCall(s)
           \/ Cleaner
           \/ Closer
           \/ Tick
        /\ Observe

Spec == Init /\ [][Next]_vars

\* The cleaner takes the lock as often as it wants it (Go's RWMutex does not
\* starve a writer), and a running Multi gets to its end.
Fairness == /\ WF_vars((CleanThreadWakes /\ Observe))
            /\ SF_vars((doCleanExpiredItems /\ Observe))
            /\ WF_vars((MultiApply /\ Observe))

FairSpec == Spec /\ Fairness

-----------------------------------------------------------------------------
(* Properties.                                                             *)

\* The values the variables can have.
TypeOK ==
  /\ items \in [Keys -> Item \cup {NoItem}]
  /\ idx \in Nat /\ uuids \in Nat /\ now \in Nat
  /\ writer \in {"none", "multi", "close"}
  /\ txn \in Seq(Op)
  /\ cleaner \in {"select", "clean", "stopped"}
  /\ closer \in {"open", "lock", "wait", "done"}
  /\ get \in [Readers -> GetState]
  /\ scan \in [Scanners -> ScanState]
  /\ committed \in [items : [Keys -> Item \cup {NoItem}], uuids : Nat]
  /\ view \in {<< >>} \cup UNION {[K -> Nat \cup {NoETag}] : K \in BulkReads}
  /\ origin \in {"request", "store"}
  /\ spent \subseteq Nat /\ twice \subseteq Nat
  /\ seen \in [Readers -> SUBSET (Nat \cup {NoETag})]
  /\ trail \in [Scanners -> [must : SUBSET Keys, rewritten : SUBSET Keys]]

\* Optimistic concurrency (doValidateEtag under the lock of Set, Delete and
\* Multi): of the requests that carry the same etag at most one is accepted, so
\* no update made between a caller's read and its conditional write is lost.
AtMostOneWinner == twice = {}

\* Get returns, after its unlocked expiry check and its second look under the
\* write lock, an item that was the committed and unexpired one at some time
\* during the call - never an expired item, never half of a Multi, and never
\* "not found" for a key that had a live item throughout.
GetLinearizable ==
  \A r \in Readers : get[r].pc = "return" =>
    (IF get[r].item = NoItem THEN NoETag ELSE get[r].item.etag) \in seen[r]

\* A scan that followed the continuation tokens to the end has returned every
\* matching key that was in the store all along, whatever was written, deleted
\* and collected between its pages.
ScanMissesNothing ==
  \A s \in Scanners : scan[s].pc = "done" => trail[s].must \subseteq scan[s].got

\* A key is on two pages of a scan only if it was written again in between.
ScanRepeatsOnlyRewritten ==
  \A s \in Scanners : scan[s].dups \subseteq trail[s].rewritten

\* The cleaner goroutine gets to every expired item, unless the store is closed.
ExpiredCollected ==
  \A k \in Keys : isExpired(items[k]) ~> (~isExpired(items[k]) \/ closed)

Abstract == INSTANCE TTLStore WITH kv <- committed.items, issued <- committed.uuids

\* Every request takes effect at one moment on all its keys, BulkGet answers for
\* all its keys at one moment, and what the store drops of its own accord
\* (getAndExpire, doCleanExpiredItems) has expired.
ImplementsTTLStore == Abstract!Spec
=============================================================================
