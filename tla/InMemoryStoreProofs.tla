------------------------- MODULE InMemoryStoreProofs -------------------------
(***************************************************************************)
(* The safety properties of InMemoryStore for any sets of keys, readers    *)
(* and scanners, any TTLs, page sizes and bounds.                          *)
(***************************************************************************)
EXTENDS InMemoryStore, FiniteSetTheorems, TLAPS

Actions == \/ Request
           \/ \E r \in Readers : GetCall(r)
           \/ \E s \in Scanners : KeysLikeCall(s)
           \/ Cleaner
           \/ Closer
           \/ Tick

\* A Get that has begun is for some key of the store.
KeyInv == \A r \in Readers : get[r].pc # "idle" => get[r].key \in Keys

\* While nobody is in the middle of a Multi, the items are the committed ones;
\* in the middle of one there is an operation to apply.  Close holds the lock
\* just while it waits for the cleaner.
LockInv == /\ writer = "multi" => txn # << >>
           /\ closer = "wait" <=> writer = "close"
           /\ writer # "multi" => committed = [items |-> items, uuids |-> uuids]

TypeInv == TypeOK /\ KeyInv /\ LockInv

\* The part of TypeOK that an action sets itself, without Observe.
Typed ==
  /\ items \in [Keys -> Item \cup {NoItem}]
  /\ idx \in Nat /\ uuids \in Nat /\ now \in Nat
  /\ writer \in {"none", "multi", "close"}
  /\ txn \in Seq(Op)
  /\ writer = "multi" => txn # << >>
  /\ closer = "wait" <=> writer = "close"
  /\ cleaner \in {"select", "clean", "stopped"}
  /\ closer \in {"open", "lock", "wait", "done"}
  /\ get \in [Readers -> GetState]
  /\ KeyInv
  /\ scan \in [Scanners -> ScanState]
  /\ view \in {<< >>} \cup UNION {[K -> Nat \cup {NoETag}] : K \in BulkReads}
  /\ origin \in {"request", "store"}
  /\ spent \subseteq Nat /\ twice \subseteq Nat

\* doSet puts a well-typed item in the map; doDelete only removes items.
LEMMA DoSetTyped ==
  ASSUME items \in [Keys -> Item \cup {NoItem}], idx \in Nat, uuids \in Nat, now \in Nat,
         NEW key \in Keys, NEW ttl \in Int, doSet(key, ttl)
  PROVE  items' \in [Keys -> Item \cup {NoItem}] /\ idx' \in Nat /\ uuids' \in Nat
  BY DEF doSet, Expiry, doParseTTLInSeconds, Item

LEMMA DoDeleteTyped ==
  ASSUME items \in [Keys -> Item \cup {NoItem}], idx \in Nat, uuids \in Nat,
         NEW K, doDelete(K)
  PROVE  items' \in [Keys -> Item \cup {NoItem}] /\ idx' \in Nat /\ uuids' \in Nat
  BY DEF doDelete, Item

\* An operation a caller can send has the type of a Multi's operations.
LEMMA OpsTyped == uuids \in Nat => Ops \subseteq Op
  <1> SUFFICES ASSUME uuids \in Nat, NEW o \in Ops
               PROVE  o \in Op
    OBVIOUS
  <1>1. o \in [kind : {"set", "delete"}, key : Keys, etag : 0 .. uuids - 1 \cup {NoETag},
               concurrency : ConcurrencyModes, ttl : TTLs \cup {0}]
    BY Zenon DEF Ops
  <1>2. TTLs \cup {0} \subseteq Int
    BY ConstantsAssumption
  <1>3. 0 .. uuids - 1 \cup {NoETag} \subseteq Nat \cup {NoETag}
    OBVIOUS
  <1> QED BY <1>1, <1>2, <1>3 DEF Op

LEMMA TxnsTyped ==
  ASSUME uuids \in Nat, NEW ops \in Txns
  PROVE  ops \in Seq(Op) /\ ops # << >>
  <1>1. PICK n \in 1 .. MaxOps : ops \in [1 .. n -> Ops]
    BY DEF Txns
  <1>2. ops \in [1 .. n -> Op]
    BY <1>1, OpsTyped
  <1>3. n \in Nat /\ n >= 1
    OBVIOUS
  <1>4. ops \in Seq(Op)
    BY <1>2, <1>3
  <1>5. Len(ops) = n
    BY <1>2, <1>3
  <1> QED BY <1>3, <1>4, <1>5


\* Every action keeps the types of what it changes.
LEMMA ActionsTyped ==
  ASSUME TypeInv, Actions
  PROVE  Typed'
  <1> USE DEF TypeInv, TypeOK, LockInv
  <1>1. ASSUME NEW o \in Ops, Set(o)
        PROVE  Typed'
    <2>1. o \in Op
      BY <1>1, OpsTyped
    <2>2. items' \in [Keys -> Item \cup {NoItem}] /\ idx' \in Nat /\ uuids' \in Nat
      BY <1>1, <2>1, DoSetTyped DEF Set, Op
    <2>3. spent' \subseteq Nat /\ twice' \subseteq Nat
      BY <1>1, <2>1 DEF Set, Accept, Op
    <2> QED BY <1>1, <2>2, <2>3 DEF Set, Typed, callVars, KeyInv
  <1>2. ASSUME NEW o \in Ops, Delete(o)
        PROVE  Typed'
    <2>1. o \in Op
      BY <1>2, OpsTyped
    <2>2. items' \in [Keys -> Item \cup {NoItem}] /\ idx' \in Nat /\ uuids' \in Nat
      BY <1>2, <2>1, DoDeleteTyped DEF Delete, Op
    <2>3. spent' \subseteq Nat /\ twice' \subseteq Nat
      BY <1>2, <2>1 DEF Delete, Accept, Op
    <2> QED BY <1>2, <2>2, <2>3 DEF Delete, Typed, callVars, KeyInv
  <1>3. ASSUME NEW p \in Prefixes, DeleteWithPrefix(p)
        PROVE  Typed'
    <2>1. items' \in [Keys -> Item \cup {NoItem}] /\ idx' \in Nat /\ uuids' \in Nat
      BY <1>3, DoDeleteTyped DEF DeleteWithPrefix
    <2> QED BY <1>3, <2>1 DEF DeleteWithPrefix, Typed, callVars, KeyInv
  <1>4. ASSUME NEW ops \in Txns, MultiValidate(ops)
        PROVE  Typed'
    <2>1. ops \in Seq(Op) /\ ops # << >>
      BY TxnsTyped
    <2> DEFINE etags == {ops[i].etag : i \in DOMAIN ops} \ {NoETag}
    <2>2. \A i \in DOMAIN ops : ops[i] \in Op
      BY <2>1
    <2>3. etags \subseteq Nat
      BY <2>2 DEF Op
    <2>4. spent' = spent \cup etags /\ twice' = twice \cup (etags \cap spent)
      BY <1>4 DEF MultiValidate, Accept
    <2>5. spent' \subseteq Nat /\ twice' \subseteq Nat
      BY <2>3, <2>4
    <2> QED BY <1>4, <2>1, <2>5 DEF MultiValidate, Typed, callVars, KeyInv
  <1>5. ASSUME MultiApply
        PROVE  Typed'
    <2>1. txn # << >> /\ Head(txn) \in Op /\ Tail(txn) \in Seq(Op)
      BY <1>5 DEF MultiApply
    <2>2. items' \in [Keys -> Item \cup {NoItem}] /\ idx' \in Nat /\ uuids' \in Nat
      BY <1>5, <2>1, DoSetTyped, DoDeleteTyped DEF MultiApply, Op
    <2>3. Len(txn) # 1 => Tail(txn) # << >>
      <3>1. txn \in Seq(Op) /\ Len(txn) \in Nat /\ Len(txn) # 0
        BY <2>1
      <3>2. Len(Tail(txn)) = Len(txn) - 1
        BY <2>1, <3>1
      <3>3. Len(<< >>) = 0
        OBVIOUS
      <3>4. Tail(txn) = << >> => Len(txn) - 1 = 0
        BY <3>2, <3>3, Zenon
      <3> QED BY <3>1, <3>4
    <2> QED BY <1>5, <2>1, <2>2, <2>3 DEF MultiApply, Typed, callVars, KeyInv
  <1>6. ASSUME NEW K \in BulkReads, BulkGet(K)
        PROVE  Typed'
    <2>1. K \subseteq Keys
      BY ConstantsAssumption
    <2>2. view' \in [K -> Nat \cup {NoETag}]
      BY <1>6, <2>1 DEF BulkGet, Answer, Item
    <2> QED BY <1>6, <2>2 DEF BulkGet, Typed, storeVars, winVars, KeyInv
  <1>7. ASSUME NEW r \in Readers, GetCall(r)
        PROVE  Typed'
    <2>1. ASSUME NEW k \in Keys, GetRead(r, k)
          PROVE  Typed'
      BY <2>1 DEF GetRead, GetAt, GetState, Typed, storeVars, winVars, KeyInv
    <2>2. CASE GetCheck(r)
      BY <2>2 DEF GetCheck, GetAt, GetState, Typed, storeVars, winVars, KeyInv
    <2>3. CASE getAndExpire(r)
      <3>1. items' \in [Keys -> Item \cup {NoItem}] /\ idx' \in Nat /\ uuids' \in Nat
        BY <2>3, DoDeleteTyped DEF getAndExpire
      <3>2. get' \in [Readers -> GetState] /\ KeyInv'
        BY <2>3 DEF getAndExpire, GetAt, GetState, KeyInv
      <3> QED BY <2>3, <3>1, <3>2 DEF getAndExpire, Typed
    <2>4. CASE GetReturn(r)
      BY <2>4 DEF GetReturn, NoGet, GetAt, GetState, Typed, storeVars, winVars, KeyInv
    <2> QED BY <1>7, <2>1, <2>2, <2>3, <2>4 DEF GetCall
  <1>8. ASSUME NEW s \in Scanners, KeysLikeCall(s)
        PROVE  Typed'
    <2>1. ASSUME NEW pattern \in Patterns, ScanStart(s, pattern)
          PROVE  Typed'
      <3>1. pattern \subseteq Keys
        BY ConstantsAssumption
      <3> QED BY <2>1, <3>1 DEF ScanStart, NoScan, ScanState, Typed, storeVars, winVars, KeyInv
    <2>2. ASSUME NEW n \in PageSizes, KeysLike(s, n)
          PROVE  Typed'
      <3> DEFINE from == KeysFrom(scan[s].pattern, scan[s].token)
                 page == FirstPage(from, n)
      <3>1. from \subseteq Keys /\ page \subseteq from
        BY DEF KeysFrom, FirstPage, ScanState
      <3>2. \A k \in from : items[k].idx \in Nat
        BY <3>1 DEF KeysFrom, Item
      <3>3. ASSUME NEW pc \in {"paging", "done"}, NEW token \in Nat
            PROVE  Paged(s, page, pc, token) \in
                     ScanState
        BY <3>1 DEF Paged, ScanState
      <3>4. \/ scan' = [scan EXCEPT ![s] = Paged(s, page, "done", 0)]
            \/ \E k \in from :
                 scan' = [scan EXCEPT ![s] = Paged(s, page, "paging", items[k].idx)]
        BY <2>2 DEF KeysLike
      <3>5. scan' \in [Scanners -> ScanState]
        <4>1. scan \in [Scanners -> ScanState]
          OBVIOUS
        <4> HIDE DEF from, page, TypeInv, TypeOK, LockInv
        <4>2. \A k \in from : Paged(s, page, "paging", items[k].idx) \in ScanState
          BY <3>2, <3>3
        <4>3. Paged(s, page, "done", 0) \in ScanState
          BY <3>3
        <4> QED BY <3>4, <4>1, <4>2, <4>3
      <3> QED BY <2>2, <3>5 DEF KeysLike, Typed, storeVars, winVars, KeyInv
    <2>3. CASE ScanEnd(s)
      BY <2>3 DEF ScanEnd, NoScan, ScanState, Typed, storeVars, winVars, KeyInv
    <2> QED BY <1>8, <2>1, <2>2, <2>3 DEF KeysLikeCall
  <1>9. ASSUME Cleaner
        PROVE  Typed'
    <2>1. CASE CleanThreadWakes \/ CleanThreadStops
      BY <2>1 DEF CleanThreadWakes, CleanThreadStops, Typed, callVars, winVars, KeyInv
    <2>2. CASE doCleanExpiredItems
      <3>1. items' \in [Keys -> Item \cup {NoItem}] /\ idx' \in Nat /\ uuids' \in Nat
        BY <2>2, DoDeleteTyped DEF doCleanExpiredItems
      <3> QED BY <2>2, <3>1 DEF doCleanExpiredItems, Typed, callVars, KeyInv
    <2> QED BY <1>9, <2>1, <2>2 DEF Cleaner
  <1>10. ASSUME Closer
         PROVE  Typed'
    <2>1. CASE CloseSignals \/ CloseReturns
      BY <2>1 DEF CloseSignals, CloseReturns, Typed, callVars, winVars, KeyInv
    <2>2. CASE CloseDropsItems
      <3>1. items' \in [Keys -> Item \cup {NoItem}] /\ idx' \in Nat /\ uuids' \in Nat
        BY <2>2, DoDeleteTyped DEF CloseDropsItems
      <3> QED BY <2>2, <3>1 DEF CloseDropsItems, Typed, callVars, KeyInv
    <2> QED BY <1>10, <2>1, <2>2 DEF Closer
  <1>11. CASE Tick
    BY <1>11 DEF Tick, Typed, callVars, winVars, KeyInv
  <1> QED BY <1>1, <1>2, <1>3, <1>4, <1>5, <1>6, <1>7, <1>8, <1>9, <1>10, <1>11
          DEF Actions, Request

\* The history variables follow, whatever the action.
LEMMA ObserveTyped ==
  ASSUME TypeInv, Typed', Observe
  PROVE  TypeInv'
  <1>1. committed' \in [items : [Keys -> Item \cup {NoItem}], uuids : Nat]
    BY DEF Observe, TypeInv, TypeOK, Typed
  <1>2. ASSUME NEW r \in Readers, get'[r].pc # "idle"
        PROVE  Visible(r)' \in Nat \cup {NoETag}
    <2>1. get'[r].key \in Keys
      BY <1>2 DEF Typed, KeyInv
    <2>2. committed'.items[get'[r].key] \in Item \cup {NoItem}
      BY <1>1, <2>1
    <2> QED BY <2>2 DEF Visible, Answer, Item
  <1>3. seen' \in [Readers -> SUBSET (Nat \cup {NoETag})]
    <2>1. ASSUME NEW r \in Readers
          PROVE  (IF get'[r].pc = "idle" THEN {} ELSE seen[r] \cup {Visible(r)'})
                    \in SUBSET (Nat \cup {NoETag})
      BY <1>2 DEF TypeInv, TypeOK
    <2> QED BY <2>1 DEF Observe
  <1>4. trail' \in [Scanners -> [must : SUBSET Keys, rewritten : SUBSET Keys]]
    <2>1. ASSUME NEW s \in Scanners
          PROVE  trail'[s] \in [must : SUBSET Keys, rewritten : SUBSET Keys]
      <3>1. CASE scan'[s].pc = "idle"
        BY <3>1 DEF Observe, NoTrail
      <3>2. CASE scan'[s].pc # "idle" /\ scan[s].pc = "idle"
        BY <3>2 DEF Observe, Present
      <3>3. CASE scan'[s].pc # "idle" /\ scan[s].pc # "idle"
        <4>1. trail[s].must \subseteq Keys /\ trail[s].rewritten \subseteq Keys
          BY DEF TypeInv, TypeOK
        <4>2. trail'[s] = [must |-> trail[s].must \cap Present',
                           rewritten |-> trail[s].rewritten
                                           \cup {k \in Keys : items'[k] # items[k]}]
          BY <3>3 DEF Observe
        <4> QED BY <4>1, <4>2
      <3> QED BY <3>1, <3>2, <3>3
    <2>2. trail' = [s \in Scanners |-> trail'[s]]
      BY DEF Observe
    <2> QED BY <2>1, <2>2
  <1>5. TypeOK'
    BY <1>1, <1>3, <1>4 DEF TypeOK, Typed
  <1>6. LockInv'
    BY DEF LockInv, Typed, Observe
  <1> QED BY <1>5, <1>6 DEF TypeInv, Typed

LEMMA NextSplits == Next <=> Actions /\ Observe
  BY DEF Next, Actions

LEMMA TypeInvInit == Init => TypeInv
  <1> SUFFICES ASSUME Init PROVE TypeInv
    OBVIOUS
  <1>1. NoGet \in GetState /\ NoScan \in ScanState
    BY DEF NoGet, GetAt, GetState, NoScan, ScanState
  <1>2. TypeOK
    BY <1>1 DEF Init, TypeOK, NoTrail, Item
  <1> QED BY <1>2 DEF Init, TypeInv, KeyInv, LockInv, NoGet, GetAt

LEMMA TypeInvStep == TypeInv /\ [Next]_vars => TypeInv'
  <1> SUFFICES ASSUME TypeInv, [Next]_vars PROVE TypeInv'
    OBVIOUS
  <1>1. CASE Next
    BY <1>1, NextSplits, ActionsTyped, ObserveTyped
  <1>2. CASE UNCHANGED vars
    BY <1>2 DEF TypeInv, TypeOK, KeyInv, LockInv, vars, storeVars, callVars, winVars
  <1> QED BY <1>1, <1>2

\* Every variable has its type in every reachable state, and between Multis the
\* committed state is the state of the store.
THEOREM TypeCorrect == Spec => []TypeOK
  <1>1. Spec => []TypeInv
    BY TypeInvInit, TypeInvStep, PTL DEF Spec
  <1>2. TypeInv => TypeOK
    BY DEF TypeInv
  <1> QED BY <1>1, <1>2, PTL

-----------------------------------------------------------------------------
(* What a step can do to the items: nothing, remove some, or apply the     *)
(* operation of a request.                                                 *)

Quiet == /\ UNCHANGED <<items, idx, uuids, spent, twice, txn>>
         /\ writer = "multi" <=> writer' = "multi"

Removal == /\ \E K \in SUBSET Keys : doDelete(K)
           /\ UNCHANGED <<spent, twice, txn>>
           /\ writer # "multi" /\ writer' # "multi"

Shapes == \/ Quiet
          \/ Removal
          \/ \E o \in Ops : Set(o) \/ Delete(o)
          \/ \E ops \in Txns : MultiValidate(ops)
          \/ MultiApply

LEMMA ActionShapes ==
  ASSUME TypeInv, Actions
  PROVE  Shapes
  <1>1. ASSUME NEW p \in Prefixes, DeleteWithPrefix(p)
        PROVE  Removal
    <2>1. {k \in Keys : Parent[k] = p} \in SUBSET Keys
      OBVIOUS
    <2> QED BY <1>1, <2>1 DEF DeleteWithPrefix, Removal
  <1>2. ASSUME NEW K \in BulkReads, BulkGet(K)
        PROVE  Quiet
    BY <1>2 DEF BulkGet, Quiet, storeVars, winVars
  <1>3. ASSUME NEW r \in Readers, GetCall(r)
        PROVE  Quiet \/ Removal
    <2>1. ASSUME NEW k \in Keys, GetRead(r, k)
          PROVE  Quiet
      BY <2>1 DEF GetRead, Quiet, storeVars, winVars
    <2>2. CASE GetCheck(r) \/ GetReturn(r)
      BY <2>2 DEF GetCheck, GetReturn, Quiet, storeVars, winVars
    <2>3. CASE getAndExpire(r)
      <3>1. get[r].key \in Keys
        BY <2>3 DEF getAndExpire, TypeInv, KeyInv
      <3>2. \E K \in SUBSET Keys : doDelete(K)
        BY <2>3, <3>1 DEF getAndExpire
      <3> QED BY <2>3, <3>2 DEF getAndExpire, Removal
    <2> QED BY <1>3, <2>1, <2>2, <2>3 DEF GetCall
  <1>4. ASSUME NEW s \in Scanners, KeysLikeCall(s)
        PROVE  Quiet
    BY <1>4 DEF KeysLikeCall, ScanStart, KeysLike, ScanEnd, Quiet, storeVars, winVars
  <1>5. ASSUME Cleaner
        PROVE  Quiet \/ Removal
    <2>1. CASE CleanThreadWakes \/ CleanThreadStops
      BY <2>1 DEF CleanThreadWakes, CleanThreadStops, Quiet, winVars
    <2>2. CASE doCleanExpiredItems
      <3>1. {k \in Keys : isExpired(items[k])} \in SUBSET Keys
        OBVIOUS
      <3>2. \E K \in SUBSET Keys : doDelete(K)
        BY <2>2, <3>1 DEF doCleanExpiredItems
      <3> QED BY <2>2, <3>2 DEF doCleanExpiredItems, Removal
    <2> QED BY <1>5, <2>1, <2>2 DEF Cleaner
  <1>6. ASSUME Closer
        PROVE  Quiet \/ Removal
    <2>1. CASE CloseSignals
      BY <2>1 DEF CloseSignals, Quiet, winVars
    <2>2. CASE CloseDropsItems
      <3>1. \E K \in SUBSET Keys : doDelete(K)
        BY <2>2 DEF CloseDropsItems
      <3> QED BY <2>2, <3>1 DEF CloseDropsItems, Removal
    <2>3. CASE CloseReturns
      <3>1. writer = "close"
        BY <2>3 DEF CloseReturns, TypeInv, LockInv
      <3> QED BY <2>3, <3>1 DEF CloseReturns, Quiet, winVars
    <2> QED BY <1>6, <2>1, <2>2, <2>3 DEF Closer
  <1>7. ASSUME Tick
        PROVE  Quiet
    BY <1>7 DEF Tick, Quiet, winVars
  <1> QED BY <1>1, <1>2, <1>3, <1>4, <1>5, <1>6, <1>7 DEF Actions, Request, Shapes

-----------------------------------------------------------------------------
(* Etags and positions are fresh, and an etag is spent at most once.       *)

\* No two items share an etag or a position, and the next ones are new.
FreshInv ==
  /\ \A k \in Keys : items[k] # NoItem => items[k].etag < uuids /\ items[k].idx < idx
  /\ \A k, l \in Keys : k # l /\ items[k] # NoItem /\ items[l] # NoItem
        => items[k].etag # items[l].etag /\ items[k].idx # items[l].idx
  /\ \A e \in spent : e < uuids

\* An etag some request was accepted with is gone from the store, but for a Multi
\* that has been validated and has still to reach the key.
SpentInv ==
  /\ twice = {}
  /\ \A e \in spent, k \in Keys :
       items[k] # NoItem /\ items[k].etag = e
         => writer = "multi" /\ \E i \in 1 .. Len(txn) : txn[i].key = k

WinnerInv == FreshInv /\ SpentInv

LEMMA FreshAfterSet ==
  ASSUME TypeInv, FreshInv, NEW key \in Keys, NEW ttl, doSet(key, ttl),
         \A e \in spent' : e \in Nat /\ e < uuids
  PROVE  FreshInv'
  <1>1. \A k \in Keys : k # key => items'[k] = items[k]
    BY DEF doSet, TypeInv, TypeOK
  <1>2. items'[key] # NoItem => items'[key].etag = uuids /\ items'[key].idx = idx
    BY DEF doSet, TypeInv, TypeOK
  <1>3. idx' = idx + 1 /\ uuids' = uuids + 1 /\ idx \in Nat /\ uuids \in Nat
    BY DEF doSet, TypeInv, TypeOK
  <1>4. \A k \in Keys : items[k] # NoItem => items[k].etag \in Nat /\ items[k].idx \in Nat
    BY DEF TypeInv, TypeOK, Item
  <1> QED BY <1>1, <1>2, <1>3, <1>4 DEF FreshInv

LEMMA FreshAfterDelete ==
  ASSUME TypeInv, FreshInv, NEW K, doDelete(K),
         \A e \in spent' : e \in Nat /\ e < uuids
  PROVE  FreshInv'
  BY DEF FreshInv, doDelete, TypeInv, TypeOK, Item

\* A validated etag is the etag of the item at the key, and not spent yet.
LEMMA ValidatedIsLive ==
  ASSUME TypeInv, WinnerInv, writer = "none",
         NEW key \in Keys, NEW etag \in Nat, NEW concurrency,
         doValidateEtag(key, etag, concurrency)
  PROVE  items[key] # NoItem /\ items[key].etag = etag /\ etag < uuids /\ etag \notin spent
  <1>1. etag # NoETag
    BY ConstantsAssumption
  <1>2. items[key] # NoItem /\ items[key].etag = etag
    BY <1>1 DEF doValidateEtag
  <1> QED BY <1>2 DEF WinnerInv, FreshInv, SpentInv

LEMMA WinnerStep ==
  ASSUME TypeInv, WinnerInv, Shapes
  PROVE  WinnerInv'
  <1>1. CASE Quiet
    <2>1. UNCHANGED <<items, idx, uuids, spent, twice, txn>> /\ (writer = "multi" <=> writer' = "multi")
      BY <1>1 DEF Quiet
    <2> QED BY <2>1 DEF WinnerInv, FreshInv, SpentInv
  <1>2. CASE Removal
    <2>1. PICK K \in SUBSET Keys : doDelete(K)
      BY <1>2 DEF Removal
    <2>2. FreshInv'
      BY <1>2, <2>1, FreshAfterDelete DEF WinnerInv, FreshInv, Removal, TypeInv, TypeOK
    <2>3. SpentInv'
      BY <1>2, <2>1 DEF WinnerInv, SpentInv, Removal, doDelete
    <2> QED BY <2>2, <2>3 DEF WinnerInv
  <1>3. ASSUME NEW o \in Ops, Set(o) \/ Delete(o)
        PROVE  WinnerInv'
    <2> DEFINE etags == {o.etag} \ {NoETag}
    <2>1. o \in Op
      BY OpsTyped DEF TypeInv, TypeOK
    <2>2. writer = "none" /\ writer' = "none" /\ doValidateEtag(o.key, o.etag, o.concurrency)
      BY <1>3 DEF Set, Delete
    <2>3. spent' = spent \cup etags /\ twice' = twice \cup (etags \cap spent)
      BY <1>3 DEF Set, Delete, Accept
    <2>4. \A e \in etags : /\ e \in Nat /\ e < uuids /\ e \notin spent
                           /\ items[o.key] # NoItem /\ items[o.key].etag = e
      BY <2>1, <2>2, ValidatedIsLive DEF Op
    <2>5. \A e \in spent' : e \in Nat /\ e < uuids
      BY <2>3, <2>4 DEF WinnerInv, FreshInv, TypeInv, TypeOK
    <2>6. doSet(o.key, o.ttl) \/ doDelete({o.key})
      BY <1>3 DEF Set, Delete
    <2>7. FreshInv'
      BY <2>1, <2>5, <2>6, FreshAfterSet, FreshAfterDelete DEF WinnerInv, Op
    <2>8. twice' = {}
      BY <2>3, <2>4 DEF WinnerInv, SpentInv
    <2>9. ASSUME NEW e \in spent', NEW k \in Keys, items'[k] # NoItem, items'[k].etag = e
          PROVE  FALSE
      <3>1. k # o.key
        BY <2>1, <2>5, <2>6, <2>9 DEF doSet, doDelete, TypeInv, TypeOK, Op
      <3>2. items'[k] = items[k]
        BY <2>6, <3>1 DEF doSet, doDelete, TypeInv, TypeOK
      <3>3. e \notin spent
        BY <2>2, <2>9, <3>2 DEF WinnerInv, SpentInv
      <3>4. items[o.key] # NoItem /\ items[o.key].etag = e
        BY <2>3, <2>4, <3>3
      <3> QED BY <2>1, <2>9, <3>1, <3>2, <3>4 DEF WinnerInv, FreshInv, Op
    <2> QED BY <2>7, <2>8, <2>9 DEF WinnerInv, SpentInv
  <1>4. ASSUME NEW ops \in Txns, MultiValidate(ops)
        PROVE  WinnerInv'
    <2> DEFINE etags == {ops[i].etag : i \in DOMAIN ops} \ {NoETag}
    <2>1. ops \in Seq(Op)
      BY TxnsTyped DEF TypeInv, TypeOK
    <2>2. writer = "none" /\ writer' = "multi" /\ txn' = ops /\ UNCHANGED <<items, idx, uuids>>
      BY <1>4 DEF MultiValidate
    <2>3. spent' = spent \cup etags /\ twice' = twice \cup (etags \cap spent)
      BY <1>4 DEF MultiValidate, Accept
    <2>4. ASSUME NEW e \in etags
          PROVE  /\ e < uuids /\ e \notin spent
                 /\ \E i \in 1 .. Len(ops) : /\ ops[i].key \in Keys
                                             /\ items[ops[i].key] # NoItem
                                             /\ items[ops[i].key].etag = e
      <3>1. PICK i \in DOMAIN ops : ops[i].etag = e
        OBVIOUS
      <3>2. i \in 1 .. Len(ops) /\ ops[i] \in Op
        BY <2>1
      <3>3. e \in Nat /\ ops[i].key \in Keys
        BY <3>1, <3>2 DEF Op
      <3>4. doValidateEtag(ops[i].key, e, ops[i].concurrency)
        BY <1>4, <3>1 DEF MultiValidate
      <3> QED BY <2>2, <3>2, <3>3, <3>4, ValidatedIsLive
    <2>5. FreshInv'
      <3>1. \A e \in spent' : e < uuids
        BY <2>3, <2>4 DEF WinnerInv, FreshInv
      <3> QED BY <2>2, <3>1 DEF WinnerInv, FreshInv
    <2>6. twice' = {}
      BY <2>3, <2>4 DEF WinnerInv, SpentInv
    <2>7. ASSUME NEW e \in spent', NEW k \in Keys, items[k] # NoItem, items[k].etag = e
          PROVE  \E i \in 1 .. Len(ops) : ops[i].key = k
      <3>1. e \notin spent
        BY <2>2, <2>7 DEF WinnerInv, SpentInv
      <3>2. e \in etags
        BY <2>3, <3>1
      <3>3. PICK i \in 1 .. Len(ops) : /\ ops[i].key \in Keys
                                       /\ items[ops[i].key] # NoItem
                                       /\ items[ops[i].key].etag = e
        BY <2>4, <3>2
      <3>4. ops[i].key = k
        BY <2>7, <3>3 DEF WinnerInv, FreshInv
      <3> QED BY <3>4
    <2> QED BY <2>2, <2>5, <2>6, <2>7 DEF WinnerInv, SpentInv
  <1>5. CASE MultiApply
    <2> DEFINE op == Head(txn)
    <2>1. /\ txn \in Seq(Op) /\ txn # << >> /\ op \in Op /\ op = txn[1]
          /\ Tail(txn) \in Seq(Op) /\ Len(txn) \in Nat /\ Len(txn) >= 1
          /\ Len(Tail(txn)) = Len(txn) - 1
          /\ \A i \in 1 .. Len(txn) - 1 : Tail(txn)[i] = txn[i + 1]
      BY <1>5 DEF MultiApply, TypeInv, TypeOK, LockInv
    <2>2. doSet(op.key, op.ttl) \/ doDelete({op.key})
      BY <1>5 DEF MultiApply
    <2>3. UNCHANGED <<spent, twice>> /\ txn' = Tail(txn)
          /\ writer' = IF Len(txn) = 1 THEN "none" ELSE "multi"
      BY <1>5 DEF MultiApply
    <2>4. FreshInv'
      <3>1. \A e \in spent' : e \in Nat /\ e < uuids
        BY <2>3 DEF WinnerInv, FreshInv, TypeInv, TypeOK
      <3> QED BY <2>1, <2>2, <3>1, FreshAfterSet, FreshAfterDelete DEF WinnerInv, Op
    <2>5. ASSUME NEW e \in spent, NEW k \in Keys, items'[k] # NoItem, items'[k].etag = e
          PROVE  writer' = "multi" /\ \E i \in 1 .. Len(txn') : txn'[i].key = k
      <3>1. k # op.key
        <4>1. e < uuids
          BY DEF WinnerInv, FreshInv
        <4> QED BY <2>1, <2>2, <2>5, <4>1 DEF doSet, doDelete, TypeInv, TypeOK, Op
      <3>2. items'[k] = items[k]
        BY <2>2, <3>1 DEF doSet, doDelete, TypeInv, TypeOK
      <3>3. PICK i \in 1 .. Len(txn) : txn[i].key = k
        BY <2>5, <3>2 DEF WinnerInv, SpentInv
      <3>4. i # 1
        BY <2>1, <3>1, <3>3
      <3>5. i - 1 \in 1 .. Len(txn) - 1 /\ Tail(txn)[i - 1].key = k
        BY <2>1, <3>3, <3>4
      <3>6. Len(txn') = Len(txn) - 1 /\ txn'[i - 1].key = k
        BY <2>1, <2>3, <3>5
      <3>7. Len(txn) # 1
        BY <2>1, <3>3, <3>4
      <3>8. writer' = "multi"
        BY <2>3, <3>7
      <3>9. \E j \in 1 .. Len(txn') : txn'[j].key = k
        BY <3>5, <3>6
      <3> QED BY <3>8, <3>9
    <2> QED BY <2>3, <2>4, <2>5 DEF WinnerInv, SpentInv
  <1> QED BY <1>1, <1>2, <1>3, <1>4, <1>5 DEF Shapes

LEMMA WinnerInvStep == TypeInv /\ WinnerInv /\ [Next]_vars => WinnerInv'
  <1> SUFFICES ASSUME TypeInv, WinnerInv, [Next]_vars PROVE WinnerInv'
    OBVIOUS
  <1>1. CASE Next
    BY <1>1, NextSplits, ActionShapes, WinnerStep
  <1>2. CASE UNCHANGED vars
    BY <1>2 DEF WinnerInv, FreshInv, SpentInv, vars, storeVars, winVars
  <1> QED BY <1>1, <1>2

\* Of the requests that carry the same etag at most one is accepted: for any
\* number of callers, keys and operations per Multi, and however expiry, GC and
\* prefix deletes interleave with them.
THEOREM AtMostOneWinnerHolds == Spec => []AtMostOneWinner
  <1>1. Init => TypeInv /\ WinnerInv
    BY TypeInvInit DEF Init, WinnerInv, FreshInv, SpentInv
  <1>2. TypeInv /\ WinnerInv /\ [Next]_vars => (TypeInv /\ WinnerInv)'
    BY TypeInvStep, WinnerInvStep
  <1>3. TypeInv /\ WinnerInv => AtMostOneWinner
    BY DEF WinnerInv, SpentInv, AtMostOneWinner
  <1> QED BY <1>1, <1>2, <1>3, PTL DEF Spec

-----------------------------------------------------------------------------
(* Get.                                                                    *)

\* What a Get knows between its steps: the item it read under RLock was the
\* right answer then, unless it has expired since or had expired already.
GetInv ==
  \A r \in Readers :
    /\ get[r].pc = "check" =>
         \/ get[r].item = NoItem /\ NoETag \in seen[r]
         \/ get[r].item # NoItem /\ get[r].item.etag \in seen[r]
         \/ isExpired(get[r].item)
    /\ get[r].pc = "return" =>
         \/ get[r].item = NoItem /\ NoETag \in seen[r]
         \/ get[r].item # NoItem /\ get[r].item.etag \in seen[r]

\* No step turns the clock back, and only the steps of r change r's Get.
LEMMA GetFrame ==
  ASSUME TypeInv, Actions
  PROVE  /\ now' \in Nat /\ now' >= now
         /\ (\E q \in Readers : GetCall(q)) \/ get' = get
  <1>1. ASSUME Request
        PROVE  now' = now /\ get' = get
    <2>1. ASSUME NEW o \in Ops, Set(o) \/ Delete(o)
          PROVE  now' = now /\ get' = get
      BY <2>1 DEF Set, Delete, callVars
    <2>2. ASSUME NEW p \in Prefixes, DeleteWithPrefix(p)
          PROVE  now' = now /\ get' = get
      BY <2>2 DEF DeleteWithPrefix, callVars
    <2>3. ASSUME NEW ops \in Txns, MultiValidate(ops)
          PROVE  now' = now /\ get' = get
      BY <2>3 DEF MultiValidate, callVars
    <2>4. ASSUME MultiApply
          PROVE  now' = now /\ get' = get
      BY <2>4 DEF MultiApply, callVars
    <2>5. ASSUME NEW K \in BulkReads, BulkGet(K)
          PROVE  now' = now /\ get' = get
      BY <2>5 DEF BulkGet, storeVars
    <2> QED BY <1>1, <2>1, <2>2, <2>3, <2>4, <2>5 DEF Request
  <1>2. ASSUME NEW q \in Readers, GetCall(q)
        PROVE  now' = now
    BY <1>2 DEF GetCall, GetRead, GetCheck, getAndExpire, GetReturn, storeVars
  <1>3. ASSUME NEW s \in Scanners, KeysLikeCall(s)
        PROVE  now' = now /\ get' = get
    BY <1>3 DEF KeysLikeCall, ScanStart, KeysLike, ScanEnd, storeVars
  <1>4. CASE Cleaner \/ Closer
    BY <1>4 DEF Cleaner, CleanThreadWakes, CleanThreadStops, doCleanExpiredItems,
                Closer, CloseSignals, CloseDropsItems, CloseReturns, callVars, TypeInv, TypeOK
  <1>5. CASE Tick
    BY <1>5 DEF Tick, callVars, TypeInv, TypeOK
  <1> QED BY <1>1, <1>2, <1>3, <1>4, <1>5 DEF Actions, TypeInv, TypeOK

LEMMA GetStep ==
  ASSUME TypeInv, GetInv, TypeInv', Actions, Observe
  PROVE  GetInv'
  <1> SUFFICES ASSUME NEW r \in Readers
               PROVE  /\ get'[r].pc = "check" =>
                           \/ get'[r].item = NoItem /\ NoETag \in seen'[r]
                           \/ get'[r].item # NoItem /\ get'[r].item.etag \in seen'[r]
                           \/ isExpired(get[r].item)'
                      /\ get'[r].pc = "return" =>
                           \/ get'[r].item = NoItem /\ NoETag \in seen'[r]
                           \/ get'[r].item # NoItem /\ get'[r].item.etag \in seen'[r]
    BY DEF GetInv
  <1>1. get'[r].pc # "idle" => seen'[r] = seen[r] \cup {Visible(r)'}
    BY DEF Observe
  <1>2. ASSUME get'[r] = get[r], now' >= now, now' \in Nat
        PROVE  /\ get'[r].pc = "check" =>
                    \/ get'[r].item = NoItem /\ NoETag \in seen'[r]
                    \/ get'[r].item # NoItem /\ get'[r].item.etag \in seen'[r]
                    \/ isExpired(get[r].item)'
               /\ get'[r].pc = "return" =>
                    \/ get'[r].item = NoItem /\ NoETag \in seen'[r]
                    \/ get'[r].item # NoItem /\ get'[r].item.etag \in seen'[r]
    <2>1. isExpired(get[r].item) => isExpired(get[r].item)'
      <3>1. get[r].item \in Item \cup {NoItem} /\ now \in Nat
        BY DEF TypeInv, TypeOK, GetState
      <3> QED BY <1>2, <3>1 DEF isExpired, Item
    <2> QED BY <1>1, <1>2, <2>1 DEF GetInv
  <1>3. ASSUME NEW q \in Readers, GetCall(q), q # r
        PROVE  get'[r] = get[r]
    BY <1>3 DEF GetCall, GetRead, GetCheck, getAndExpire, GetReturn, TypeInv, TypeOK
  <1>4. ASSUME NEW k \in Keys, GetRead(r, k)
        PROVE  /\ get'[r].pc = "check"
               /\ \/ get'[r].item = NoItem /\ NoETag \in seen'[r]
                  \/ get'[r].item # NoItem /\ get'[r].item.etag \in seen'[r]
                  \/ isExpired(get[r].item)'
    <2>1. get'[r] = GetAt("check", k, items[k]) /\ now' = now /\ items' = items
          /\ writer' = "none" /\ writer = "none"
      BY <1>4 DEF GetRead, storeVars, TypeInv, TypeOK
    <2>2. committed'.items = items
      BY <2>1 DEF Observe
    <2>3. get'[r].pc = "check" /\ get'[r].key = k /\ get'[r].item = items[k]
      BY <2>1 DEF GetAt
    <2>4. Visible(r)' = IF items[k] = NoItem \/ isExpired(items[k]) THEN NoETag ELSE items[k].etag
      BY <2>1, <2>2, <2>3 DEF Visible, Answer, isExpired
    <2>5. isExpired(items[k]) => isExpired(get[r].item)'
      BY <2>1, <2>3 DEF isExpired
    <2> QED BY <1>1, <2>3, <2>4, <2>5
  <1>5. ASSUME GetCheck(r)
        PROVE  /\ get'[r].pc # "check"
               /\ get'[r].pc = "return" =>
                    \/ get'[r].item = NoItem /\ NoETag \in seen'[r]
                    \/ get'[r].item # NoItem /\ get'[r].item.etag \in seen'[r]
    <2>1. get'[r] = GetAt(IF isExpired(get[r].item) THEN "expire" ELSE "return",
                          get[r].key, get[r].item)
      BY <1>5 DEF GetCheck, TypeInv, TypeOK
    <2>2. get[r].pc = "check"
      BY <1>5 DEF GetCheck
    <2> QED BY <1>1, <2>1, <2>2 DEF GetAt, GetInv
  <1>6. ASSUME getAndExpire(r)
        PROVE  /\ get'[r].pc = "return"
               /\ \/ get'[r].item = NoItem /\ NoETag \in seen'[r]
                  \/ get'[r].item # NoItem /\ get'[r].item.etag \in seen'[r]
    <2> DEFINE key == get[r].key
               dead == isExpired(items[key])
    <2>1. /\ get'[r] = GetAt("return", key, IF dead THEN NoItem ELSE items[key])
          /\ now' = now /\ writer' = "none" /\ key \in Keys
          /\ items' = [k \in Keys |-> IF k \in (IF dead THEN {key} ELSE {}) THEN NoItem ELSE items[k]]
      BY <1>6 DEF getAndExpire, doDelete, TypeInv, TypeOK, KeyInv
    <2>2. committed'.items = items'
      BY <2>1 DEF Observe
    <2>3. get'[r].pc = "return" /\ get'[r].key = key
          /\ get'[r].item = IF dead THEN NoItem ELSE items[key]
      BY <2>1 DEF GetAt
    <2>4. items'[key] = IF dead THEN NoItem ELSE items[key]
      BY <2>1
    <2>5. Visible(r)' = IF items'[key] = NoItem \/ isExpired(items[key])' THEN NoETag ELSE items'[key].etag
      BY <2>1, <2>2, <2>3 DEF Visible, Answer
    <2>6. ~dead => ~isExpired(items[key])'
      BY <2>1, <2>3, <2>4 DEF isExpired
    <2> QED BY <1>1, <2>3, <2>4, <2>5, <2>6
  <1>7. ASSUME GetReturn(r)
        PROVE  get'[r].pc = "idle"
    BY <1>7 DEF GetReturn, NoGet, GetAt, TypeInv, TypeOK
  <1>8. ASSUME NEW q \in Readers, GetCall(q)
        PROVE  \/ get'[r] = get[r]
               \/ \E k \in Keys : GetRead(r, k)
               \/ GetCheck(r) \/ getAndExpire(r) \/ GetReturn(r)
    BY <1>3, <1>8 DEF GetCall
  <1> QED BY <1>2, <1>4, <1>5, <1>6, <1>7, <1>8, GetFrame

\* Get is linearizable: what it returns was the committed, unexpired item of the
\* key at some time between its call and its return.
THEOREM GetLinearizableHolds == Spec => []GetLinearizable
  <1>1. Init => TypeInv /\ GetInv
    BY TypeInvInit DEF Init, GetInv, NoGet, GetAt
  <1>2. TypeInv /\ GetInv /\ [Next]_vars => (TypeInv /\ GetInv)'
    <2> SUFFICES ASSUME TypeInv, GetInv, [Next]_vars PROVE TypeInv' /\ GetInv'
      OBVIOUS
    <2>1. TypeInv'
      BY TypeInvStep
    <2>2. CASE Next
      BY <2>1, <2>2, NextSplits, GetStep
    <2>3. CASE UNCHANGED vars
      BY <2>1, <2>3 DEF GetInv, isExpired, vars, storeVars, callVars
    <2> QED BY <2>1, <2>2, <2>3
  <1>3. TypeInv /\ GetInv => GetLinearizable
    BY DEF GetInv, GetLinearizable
  <1> QED BY <1>1, <1>2, <1>3, PTL DEF Spec

-----------------------------------------------------------------------------
(* KeysLike.                                                               *)

\* A page holds the keys written before all the keys after the page.
LEMMA PageOrder ==
  ASSUME TypeInv, NEW K \in SUBSET Keys, \A k \in K : items[k] # NoItem,
         NEW n \in Nat, NEW j \in FirstPage(K, n), NEW k \in K \ FirstPage(K, n)
  PROVE  items[j].idx < items[k].idx
  <1> DEFINE Before(l) == {i \in K : items[i].idx < items[l].idx}
  <1>1. \A l \in K : items[l].idx \in Nat
    BY DEF TypeInv, TypeOK, Item
  <1>2. IsFiniteSet(K)
    BY ConstantsAssumption, FS_Subset
  <1>3. j \in K /\ Cardinality(Before(j)) < n /\ ~(Cardinality(Before(k)) < n)
    BY DEF FirstPage
  <1>4. IsFiniteSet(Before(j)) /\ Cardinality(Before(j)) \in Nat
        /\ IsFiniteSet(Before(k)) /\ Cardinality(Before(k)) \in Nat
    BY <1>2, FS_Subset, FS_CardinalityType
  <1>5. ASSUME items[k].idx <= items[j].idx
        PROVE  FALSE
    <2>1. Before(k) \subseteq Before(j)
      BY <1>1, <1>3, <1>5
    <2>2. Cardinality(Before(k)) <= Cardinality(Before(j))
      BY <1>4, <2>1, FS_Subset
    <2> HIDE DEF Before
    <2> QED BY <1>3, <1>4, <2>2
  <1> QED BY <1>1, <1>3, <1>5

\* What is known between two pages: a key that stayed in the store and has not
\* been returned lies at or after the token; one that was returned and not
\* rewritten since lies before it.
ScanInvOf(s) ==
  /\ scan[s].pc = "idle" => scan[s].dups = {}
  /\ scan[s].pc = "paging" =>
       /\ scan[s].token <= idx
       /\ \A k \in trail[s].must :
            /\ k \in scan[s].pattern
            /\ items[k] # NoItem
            /\ k \notin scan[s].got => items[k].idx >= scan[s].token
       /\ \A k \in scan[s].got \ trail[s].rewritten :
            items[k] # NoItem => items[k].idx < scan[s].token
  /\ scan[s].pc = "done" => trail[s].must \subseteq scan[s].got
  /\ scan[s].dups \subseteq trail[s].rewritten

ScanInv == \A s \in Scanners : ScanInvOf(s)

\* An item that a step writes gets the position after all earlier ones.
LEMMA ItemFrame ==
  ASSUME TypeInv, Shapes
  PROVE  /\ idx' \in Nat /\ idx' >= idx
         /\ \A k \in Keys : \/ items'[k] = items[k]
                            \/ items'[k] = NoItem
                            \/ items'[k].idx = idx
  <1>1. ASSUME NEW key \in Keys, NEW ttl, doSet(key, ttl)
        PROVE  /\ idx' \in Nat /\ idx' >= idx
               /\ \A k \in Keys : \/ items'[k] = items[k]
                                  \/ items'[k] = NoItem
                                  \/ items'[k].idx = idx
    BY <1>1 DEF doSet, TypeInv, TypeOK
  <1>2. ASSUME NEW K, doDelete(K)
        PROVE  /\ idx' \in Nat /\ idx' >= idx
               /\ \A k \in Keys : \/ items'[k] = items[k]
                                  \/ items'[k] = NoItem
    BY <1>2 DEF doDelete, TypeInv, TypeOK
  <1>3. ASSUME NEW o \in Ops, Set(o) \/ Delete(o)
        PROVE  (o.key \in Keys /\ doSet(o.key, o.ttl)) \/ doDelete({o.key})
    BY <1>3, OpsTyped DEF Set, Delete, TypeInv, TypeOK, Op
  <1>4. ASSUME MultiApply
        PROVE  \/ Head(txn).key \in Keys /\ doSet(Head(txn).key, Head(txn).ttl)
               \/ doDelete({Head(txn).key})
    <2>1. Head(txn) \in Op
      BY <1>4 DEF MultiApply, TypeInv, TypeOK, LockInv
    <2> QED BY <1>4, <2>1 DEF MultiApply, Op
  <1>5. ASSUME Quiet \/ \E ops \in Txns : MultiValidate(ops)
        PROVE  items' = items /\ idx' = idx /\ idx \in Nat
    BY <1>5 DEF Quiet, MultiValidate, TypeInv, TypeOK
  <1>6. CASE Removal
    BY <1>2, <1>6 DEF Removal
  <1>7. CASE \E o \in Ops : Set(o) \/ Delete(o)
    BY <1>1, <1>2, <1>3, <1>7
  <1>8. CASE MultiApply
    BY <1>1, <1>2, <1>4, <1>8
  <1>9. CASE Quiet \/ \E ops \in Txns : MultiValidate(ops)
    BY <1>5, <1>9
  <1> QED BY <1>6, <1>7, <1>8, <1>9 DEF Shapes

LEMMA ScanFrame ==
  ASSUME TypeInv, Actions
  PROVE  (\E q \in Scanners : KeysLikeCall(q)) \/ scan' = scan
  <1>1. ASSUME Request
        PROVE  scan' = scan
    <2>1. ASSUME NEW o \in Ops, Set(o) \/ Delete(o)
          PROVE  scan' = scan
      BY <2>1 DEF Set, Delete, callVars
    <2>2. ASSUME NEW p \in Prefixes, DeleteWithPrefix(p)
          PROVE  scan' = scan
      BY <2>2 DEF DeleteWithPrefix, callVars
    <2>3. ASSUME NEW ops \in Txns, MultiValidate(ops)
          PROVE  scan' = scan
      BY <2>3 DEF MultiValidate, callVars
    <2>4. ASSUME MultiApply
          PROVE  scan' = scan
      BY <2>4 DEF MultiApply, callVars
    <2>5. ASSUME NEW K \in BulkReads, BulkGet(K)
          PROVE  scan' = scan
      BY <2>5 DEF BulkGet
    <2> QED BY <1>1, <2>1, <2>2, <2>3, <2>4, <2>5 DEF Request
  <1>2. ASSUME NEW q \in Readers, GetCall(q)
        PROVE  scan' = scan
    BY <1>2 DEF GetCall, GetRead, GetCheck, getAndExpire, GetReturn
  <1>3. CASE Cleaner \/ Closer
    BY <1>3 DEF Cleaner, CleanThreadWakes, CleanThreadStops, doCleanExpiredItems,
                Closer, CloseSignals, CloseDropsItems, CloseReturns, callVars
  <1>4. CASE Tick
    BY <1>4 DEF Tick, callVars
  <1> QED BY <1>1, <1>2, <1>3, <1>4 DEF Actions

\* The steps of everyone else.
LEMMA ScanUndisturbed ==
  ASSUME TypeInv, TypeInv', Shapes, Observe, NEW s \in Scanners, ScanInvOf(s),
         scan'[s] = scan[s]
  PROVE  ScanInvOf(s)'
  <1>1. CASE scan[s].pc = "idle"
    <2>1. trail'[s].rewritten = {}
      BY <1>1 DEF Observe, NoTrail
    <2> QED BY <1>1, <2>1 DEF ScanInvOf
  <1>2. CASE scan[s].pc # "idle"
    <2>1. trail'[s] = [must |-> trail[s].must \cap Present',
                       rewritten |-> trail[s].rewritten
                                       \cup {k \in Keys : items'[k] # items[k]}]
      BY <1>2 DEF Observe
    <2>2. /\ trail'[s].must = trail[s].must \cap Present'
          /\ trail'[s].rewritten = trail[s].rewritten \cup {k \in Keys : items'[k] # items[k]}
      BY <2>1
    <2>3. scan[s] \in ScanState /\ idx \in Nat /\ trail[s].must \subseteq Keys
      BY DEF TypeInv, TypeOK
    <2>4. scan[s].token \in Nat /\ scan[s].got \subseteq Keys
      BY <2>3 DEF ScanState
    <2>5. \A k \in trail'[s].must : k \in trail[s].must /\ k \in Keys /\ items'[k] # NoItem
      BY <2>2, <2>3 DEF Present
    <2>6. ASSUME scan[s].pc = "paging"
          PROVE  /\ scan[s].token <= idx'
                 /\ \A k \in trail'[s].must : k \notin scan[s].got => items'[k].idx >= scan[s].token
      BY <2>3, <2>4, <2>5, <2>6, ItemFrame DEF ScanInvOf
    <2>7. ASSUME scan[s].pc = "paging", NEW k \in scan[s].got \ trail'[s].rewritten, items'[k] # NoItem
          PROVE  items'[k].idx < scan[s].token
      BY <2>2, <2>4, <2>7 DEF ScanInvOf
    <2> QED BY <1>2, <2>2, <2>5, <2>6, <2>7 DEF ScanInvOf
  <1> QED BY <1>1, <1>2

LEMMA ScanStep ==
  ASSUME TypeInv, TypeInv', WinnerInv, ScanInv, Actions, Observe
  PROVE  ScanInv'
  <1> SUFFICES ASSUME NEW s \in Scanners
               PROVE  ScanInvOf(s)'
    BY DEF ScanInv
  <1>0. ScanInvOf(s)
    BY DEF ScanInv
  <1>1. CASE scan'[s] = scan[s]
    BY <1>0, <1>1, ActionShapes, ScanUndisturbed
  <1>2. ASSUME NEW pattern \in Patterns, ScanStart(s, pattern)
        PROVE  ScanInvOf(s)'
    <2>1. scan'[s] = [NoScan EXCEPT !.pc = "paging", !.pattern = pattern] /\ scan[s].pc = "idle"
      BY <1>2 DEF ScanStart, TypeInv, TypeOK
    <2>2. /\ scan'[s].pc = "paging" /\ scan'[s].pattern = pattern /\ scan'[s].token = 0
          /\ scan'[s].got = {} /\ scan'[s].dups = {}
      BY <2>1 DEF NoScan
    <2>3. trail'[s] = [must |-> scan'[s].pattern \cap Present', rewritten |-> {}]
      BY <2>1, <2>2 DEF Observe
    <2>4. trail'[s].must = pattern \cap Present'
      BY <2>2, <2>3
    <2>5. \A k \in trail'[s].must : k \in pattern /\ items'[k] # NoItem /\ items'[k].idx \in Nat
      BY <2>4 DEF Present, TypeInv, TypeOK, Item
    <2>6. idx' \in Nat
      BY DEF TypeInv, TypeOK
    <2> QED BY <2>2, <2>5, <2>6 DEF ScanInvOf
  <1>3. ASSUME NEW n \in PageSizes, KeysLike(s, n)
        PROVE  ScanInvOf(s)'
    <2> DEFINE from == KeysFrom(scan[s].pattern, scan[s].token)
               page == FirstPage(from, n)
               rest == from \ page
    <2>1. items' = items /\ idx' = idx /\ scan[s].pc = "paging"
      BY <1>3 DEF KeysLike, storeVars
    <2>2. \/ rest = {} /\ scan'[s] = Paged(s, page, "done", 0)
          \/ \E k \in rest : /\ \A j \in rest : items[k].idx <= items[j].idx
                             /\ scan'[s] = Paged(s, page, "paging", items[k].idx)
      BY <1>3 DEF KeysLike, TypeInv, TypeOK
    <2>3. /\ scan'[s].pc \in {"done", "paging"}
          /\ scan'[s].pattern = scan[s].pattern
          /\ scan'[s].got = scan[s].got \cup page
          /\ scan'[s].dups = scan[s].dups \cup (page \cap scan[s].got)
      <3>1. \E pc \in {"done", "paging"} : \E t : scan'[s] = Paged(s, page, pc, t)
        BY <2>2
      <3> HIDE DEF page
      <3> QED BY <3>1 DEF Paged
    <2>4. trail'[s] = [must |-> trail[s].must \cap Present',
                       rewritten |-> trail[s].rewritten
                                       \cup {k \in Keys : items'[k] # items[k]}]
      BY <2>1, <2>3 DEF Observe
    <2>5. trail'[s].must \subseteq trail[s].must /\ trail'[s].rewritten = trail[s].rewritten
      BY <2>1, <2>4
    <2>6. scan[s] \in ScanState /\ idx \in Nat /\ trail[s].must \subseteq Keys
      BY DEF TypeInv, TypeOK
    <2>7. /\ scan[s].token \in Nat
          /\ from \subseteq Keys /\ page \subseteq from
          /\ \A k \in from : /\ items[k] # NoItem /\ items[k].idx \in Nat
                             /\ items[k].idx >= scan[s].token /\ items[k].idx < idx
      <3>1. scan[s].token \in Nat /\ scan[s].pattern \subseteq Keys
        BY <2>6 DEF ScanState
      <3>2. from \subseteq Keys /\ page \subseteq from
        BY <3>1 DEF KeysFrom, FirstPage
      <3>3. \A k \in from : items[k] # NoItem /\ items[k].idx >= scan[s].token
        BY DEF KeysFrom
      <3>4. \A k \in Keys : items[k] # NoItem => items[k].idx \in Nat /\ items[k].idx < idx
        BY DEF TypeInv, TypeOK, Item, WinnerInv, FreshInv
      <3> QED BY <3>1, <3>2, <3>3, <3>4
    <2>8. \A k \in trail[s].must \ scan[s].got : k \in from
      BY <1>0, <2>1 DEF ScanInvOf, KeysFrom
    <2>9. page \cap scan[s].got \subseteq trail[s].rewritten
      BY <1>0, <2>1, <2>7 DEF ScanInvOf
    <2>10. scan'[s].dups \subseteq trail'[s].rewritten
      BY <1>0, <2>3, <2>5, <2>9 DEF ScanInvOf
    <2>11. CASE rest = {} /\ scan'[s] = Paged(s, page, "done", 0)
      <3>1. scan'[s].pc = "done"
        BY <2>11 DEF Paged
      <3>2. trail'[s].must \subseteq scan'[s].got
        BY <2>3, <2>5, <2>8, <2>11
      <3> QED BY <2>10, <3>1, <3>2 DEF ScanInvOf
    <2>12. ASSUME NEW k \in rest, \A j \in rest : items[k].idx <= items[j].idx,
                  scan'[s] = Paged(s, page, "paging", items[k].idx)
           PROVE  ScanInvOf(s)'
      <3>1. scan'[s].pc = "paging" /\ scan'[s].token = items[k].idx
        BY <2>12 DEF Paged
      <3>2. \A j \in page : items[j].idx < items[k].idx
        <4>1. n \in Nat /\ from \in SUBSET Keys
          BY <2>7, ConstantsAssumption
        <4>2. \A i \in from : items[i] # NoItem
          BY <2>7
        <4> HIDE DEF from
        <4> QED BY <4>1, <4>2, PageOrder
      <3>3. \A j \in trail'[s].must :
              /\ j \in scan'[s].pattern
              /\ items'[j] # NoItem
              /\ j \notin scan'[s].got => items'[j].idx >= scan'[s].token
        <4> HIDE DEF page
        <4> QED BY <1>0, <2>1, <2>3, <2>5, <2>7, <2>8, <2>12, <3>1 DEF ScanInvOf
      <3>4. \A j \in scan'[s].got \ trail'[s].rewritten :
              items'[j] # NoItem => items'[j].idx < scan'[s].token
        <4>1. ASSUME NEW j \in scan[s].got \ trail[s].rewritten, items[j] # NoItem
              PROVE  items[j].idx < items[k].idx
          <5>1. items[j].idx < scan[s].token /\ items[j].idx \in Nat
            BY <1>0, <2>1, <2>6, <4>1 DEF ScanInvOf, ScanState, TypeInv, TypeOK, Item
          <5>2. items[k].idx \in Nat /\ items[k].idx >= scan[s].token
            BY <2>7
          <5> QED BY <2>7, <5>1, <5>2
        <4> HIDE DEF page
        <4> QED BY <2>1, <2>3, <2>5, <3>1, <3>2, <4>1
      <3>5. scan'[s].token <= idx'
        BY <2>1, <2>6, <2>7, <3>1
      <3> QED BY <2>10, <3>1, <3>3, <3>4, <3>5 DEF ScanInvOf
    <2> QED BY <2>2, <2>11, <2>12
  <1>4. ASSUME ScanEnd(s)
        PROVE  ScanInvOf(s)'
    <2>1. scan'[s] = NoScan
      BY <1>4 DEF ScanEnd, TypeInv, TypeOK
    <2> QED BY <2>1 DEF NoScan, ScanInvOf
  <1>5. ASSUME NEW q \in Scanners, KeysLikeCall(q), q # s
        PROVE  scan'[s] = scan[s]
    BY <1>5 DEF KeysLikeCall, ScanStart, KeysLike, ScanEnd, TypeInv, TypeOK
  <1>6. \/ scan'[s] = scan[s]
        \/ KeysLikeCall(s)
    BY <1>5, ScanFrame
  <1> QED BY <1>1, <1>2, <1>3, <1>4, <1>6 DEF KeysLikeCall

ScanIInv == TypeInv /\ WinnerInv /\ ScanInv

LEMMA ScanIInvHolds == Spec => []ScanIInv
  <1>1. Init => ScanIInv
    BY TypeInvInit DEF Init, ScanIInv, WinnerInv, FreshInv, SpentInv, ScanInv, ScanInvOf, NoScan
  <1>2. ScanIInv /\ [Next]_vars => ScanIInv'
    <2> SUFFICES ASSUME ScanIInv, [Next]_vars PROVE ScanIInv'
      OBVIOUS
    <2>1. TypeInv' /\ WinnerInv'
      BY TypeInvStep, WinnerInvStep DEF ScanIInv
    <2>2. CASE Next
      BY <2>1, <2>2, NextSplits, ScanStep DEF ScanIInv
    <2>3. CASE UNCHANGED vars
      <3>1. UNCHANGED <<items, idx, scan, trail>>
        BY <2>3 DEF vars, storeVars, callVars
      <3>2. ScanInv'
        BY <3>1 DEF ScanIInv, ScanInv, ScanInvOf
      <3> QED BY <2>1, <3>2 DEF ScanIInv
    <2> QED BY <2>2, <2>3
  <1> QED BY <1>1, <1>2, PTL DEF Spec

\* A scan that follows the continuation tokens to the end misses no key that was
\* in the store all along.
THEOREM ScanMissesNothingHolds == Spec => []ScanMissesNothing
  <1>1. ScanIInv => ScanMissesNothing
    BY DEF ScanIInv, ScanInv, ScanInvOf, ScanMissesNothing
  <1> QED BY <1>1, ScanIInvHolds, PTL

\* It returns a key twice only if the key was written again in between.
THEOREM ScanRepeatsOnlyRewrittenHolds == Spec => []ScanRepeatsOnlyRewritten
  <1>1. ScanIInv => ScanRepeatsOnlyRewritten
    BY DEF ScanIInv, ScanInv, ScanInvOf, ScanRepeatsOnlyRewritten
  <1> QED BY <1>1, ScanIInvHolds, PTL

-----------------------------------------------------------------------------
(* The store implements TTLStore.                                          *)

\* What a running Multi has done to the items since it took the lock: removed some,
\* and written others with etags drawn since.
TxnInv ==
  /\ committed.uuids <= uuids
  /\ \A k \in Keys : \/ items[k] = committed.items[k]
                     \/ items[k] = NoItem
                     \/ items[k].etag >= committed.uuids

\* The same of the items after a step, when the step commits them.
Changed ==
  /\ committed.uuids <= uuids'
  /\ \A k \in Keys : \/ items'[k] = committed.items[k]
                     \/ items'[k] = NoItem
                     \/ items'[k].etag >= committed.uuids

LEMMA ChangedBySet ==
  ASSUME TypeInv, TxnInv, NEW key \in Keys, NEW ttl, doSet(key, ttl)
  PROVE  Changed
  <1>1. committed.uuids \in Nat /\ uuids \in Nat
    BY DEF TypeInv, TypeOK
  <1>2. uuids' = uuids + 1 /\ \A k \in Keys : k # key => items'[k] = items[k]
    BY DEF doSet, TypeInv, TypeOK
  <1>3. items'[key].etag = uuids
    BY DEF doSet, TypeInv, TypeOK
  <1> QED BY <1>1, <1>2, <1>3 DEF TxnInv, Changed

LEMMA ChangedByDelete ==
  ASSUME TxnInv, NEW K, doDelete(K)
  PROVE  Changed
  BY DEF doDelete, TxnInv, Changed

LEMMA ChangedByApply ==
  ASSUME TypeInv, TxnInv, MultiApply
  PROVE  Changed
  <1>1. txn \in Seq(Op) /\ txn # << >>
    BY DEF MultiApply, TypeInv, TypeOK, LockInv
  <1>2. Head(txn) \in Op
    BY <1>1
  <1>3. Head(txn).key \in Keys
    BY <1>2 DEF Op
  <1> QED BY <1>3, ChangedBySet, ChangedByDelete DEF MultiApply

LEMMA TxnStep ==
  ASSUME TypeInv, TypeInv', TxnInv, Shapes, Observe
  PROVE  TxnInv'
  <1>1. CASE writer' # "multi"
    <2>1. committed'.items = items' /\ committed'.uuids = uuids' /\ uuids' \in Nat
      BY <1>1 DEF Observe, TypeInv, TypeOK
    <2> QED BY <2>1 DEF TxnInv
  <1>2. CASE writer' = "multi"
    <2>1. committed' = committed
      BY <1>2 DEF Observe
    <2>2. CASE Quiet
      BY <2>1, <2>2 DEF Quiet, TxnInv
    <2>3. CASE \E ops \in Txns : MultiValidate(ops)
      BY <2>1, <2>3 DEF MultiValidate, TxnInv
    <2>4. CASE MultiApply
      BY <2>1, <2>4, ChangedByApply DEF Changed, TxnInv
    <2>5. ~Removal /\ \A o \in Ops : ~Set(o) /\ ~Delete(o)
      BY <1>2 DEF Removal, Set, Delete
    <2> QED BY <2>2, <2>3, <2>4, <2>5 DEF Shapes
  <1> QED BY <1>1, <1>2

Simulates == [Abstract!Next]_(Abstract!absVars)

\* A step that commits what a request has done is one Transact.
LEMMA CommitIsTransact ==
  ASSUME TypeInv, TypeInv', FreshInv', Changed, writer' # "multi", Observe,
         UNCHANGED <<now, view>>, origin' = "request"
  PROVE  Abstract!Transact
  <1>1. /\ committed'.items = items' /\ committed'.uuids = uuids'
        /\ committed.uuids \in Nat /\ uuids' \in Nat
    BY DEF Observe, TypeInv, TypeOK
  <1>2. \A k \in Keys : items'[k] # NoItem => items'[k].etag \in Nat
    BY DEF TypeInv, TypeOK, Item
  <1> DEFINE K == {k \in Keys : items'[k] # committed.items[k]}
  <1>3. K \in SUBSET Keys
    OBVIOUS
  <1>4. \A k \in K : committed'.items[k] # NoItem
          => committed'.items[k].etag \in committed.uuids .. committed'.uuids - 1
    BY <1>1, <1>2 DEF Changed, FreshInv
  <1>5. \A k, l \in K : /\ k # l /\ committed'.items[k] # NoItem /\ committed'.items[l] # NoItem
                        => committed'.items[k].etag # committed'.items[l].etag
    BY <1>1 DEF FreshInv
  <1>6. \A k \in Keys \ K : committed'.items[k] = committed.items[k]
    BY <1>1
  <1>7. committed'.uuids >= committed.uuids
    BY <1>1 DEF Changed
  <1> HIDE DEF K
  <1> QED BY <1>3, <1>4, <1>5, <1>6, <1>7 DEF Abstract!Transact

\* A step in which the store drops expired items is one Collect.
LEMMA DropIsCollect ==
  ASSUME TypeInv, writer # "multi", writer' # "multi", Observe, UNCHANGED <<now, view>>,
         NEW K, doDelete(K), \A k \in K : isExpired(items[k]), origin' = "store"
  PROVE  Abstract!Collect
  <1>1. /\ committed'.items = items' /\ committed'.uuids = uuids'
        /\ committed.items = items /\ committed.uuids = uuids
    BY DEF Observe, TypeInv, LockInv
  <1>2. \A k \in Keys : items'[k] = items[k] \/ (k \in K /\ items'[k] = NoItem)
    BY DEF doDelete
  <1>3. uuids' = uuids
    BY DEF doDelete
  <1> QED BY <1>1, <1>2, <1>3 DEF Abstract!Collect, Abstract!Dead, isExpired

\* Steps that change no item and no answer: nothing happens, or time passes.
LEMMA QuietIsStutter ==
  ASSUME TypeInv, Observe, Quiet, UNCHANGED <<view, origin>>,
         now' = now \/ now' = now + 1
  PROVE  Simulates
  <1>1. committed' = committed
    BY DEF Observe, Quiet, TypeInv, LockInv
  <1> QED BY <1>1 DEF Simulates, Abstract!Next, Abstract!Tick, Abstract!absVars

LEMMA StepSimulates ==
  ASSUME TypeInv, TypeInv', WinnerInv', TxnInv, Actions, Observe
  PROVE  Simulates
  <1>0. FreshInv' /\ items \in [Keys -> Item \cup {NoItem}]
    BY DEF WinnerInv, TypeInv, TypeOK
  <1>1. CASE Abstract!Transact \/ Abstract!Collect \/ Abstract!Read
    BY <1>1 DEF Simulates, Abstract!Next
  <1>2. ASSUME NEW o \in Ops, Set(o) \/ Delete(o) PROVE Simulates
    <2>1. o.key \in Keys
      BY OpsTyped DEF TypeInv, TypeOK, Op
    <2>2. Changed
      BY <1>2, <2>1, ChangedBySet, ChangedByDelete DEF Set, Delete
    <2>3. writer' # "multi" /\ UNCHANGED <<now, view>> /\ origin' = "request"
      BY <1>2 DEF Set, Delete, callVars
    <2> QED BY <1>0, <1>1, <2>2, <2>3, CommitIsTransact
  <1>3. ASSUME NEW p \in Prefixes, DeleteWithPrefix(p) PROVE Simulates
    <2>1. Changed
      BY <1>3, ChangedByDelete DEF DeleteWithPrefix
    <2>2. writer' # "multi" /\ UNCHANGED <<now, view>> /\ origin' = "request"
      BY <1>3 DEF DeleteWithPrefix, callVars
    <2> QED BY <1>0, <1>1, <2>1, <2>2, CommitIsTransact
  <1>4. ASSUME NEW ops \in Txns, MultiValidate(ops) PROVE Simulates
    <2>1. committed' = committed /\ UNCHANGED <<now, view, origin>>
      BY <1>4 DEF MultiValidate, Observe, callVars
    <2> QED BY <2>1 DEF Simulates, Abstract!absVars
  <1>5. ASSUME MultiApply PROVE Simulates
    <2>1. Changed /\ UNCHANGED <<now, view>> /\ origin' = "request"
      BY <1>5, ChangedByApply DEF MultiApply, callVars
    <2>2. CASE writer' # "multi"
      BY <1>0, <1>1, <2>1, <2>2, CommitIsTransact
    <2>3. CASE writer' = "multi"
      <3>1. committed' = committed /\ committed.uuids \in Nat
        BY <2>3 DEF Observe, TypeInv, TypeOK
      <3>2. PICK K \in SUBSET Keys : K = {}
        OBVIOUS
      <3>3. /\ \A k \in Keys \ K : committed'.items[k] = committed.items[k]
            /\ \A k \in K : committed'.items[k] # NoItem
                  => committed'.items[k].etag \in committed.uuids .. committed'.uuids - 1
            /\ \A k, l \in K : k # l /\ committed'.items[k] # NoItem /\ committed'.items[l] # NoItem
                                  => committed'.items[k].etag # committed'.items[l].etag
        BY <3>1, <3>2
      <3>4. committed'.uuids >= committed.uuids
        BY <3>1
      <3>5. Abstract!Transact
        BY <2>1, <3>3, <3>4 DEF Abstract!Transact
      <3> QED BY <1>1, <3>5
    <2> QED BY <2>2, <2>3
  <1>6. ASSUME NEW K \in BulkReads, BulkGet(K) PROVE Simulates
    <2>1. K \in SUBSET Keys
      BY ConstantsAssumption
    <2>2. /\ committed.items = items /\ committed' = committed
          /\ UNCHANGED <<now, origin>>
      BY <1>6 DEF BulkGet, Observe, TypeInv, LockInv, storeVars, winVars
    <2>3. view' = [k \in K |-> Abstract!Answer(committed.items[k])]
      BY <1>6, <2>2 DEF BulkGet, Answer, isExpired, Abstract!Answer, Abstract!Dead
    <2>4. Abstract!Read
      BY <2>1, <2>2, <2>3 DEF Abstract!Read
    <2> QED BY <1>1, <2>4
  <1>7. ASSUME NEW r \in Readers, GetCall(r) PROVE Simulates
    <2>1. CASE (\E k \in Keys : GetRead(r, k)) \/ GetCheck(r) \/ GetReturn(r)
      BY <2>1, QuietIsStutter
         DEF GetRead, GetCheck, GetReturn, Quiet, storeVars, winVars
    <2>2. CASE getAndExpire(r)
      <3>1. writer = "none" /\ writer' = "none" /\ UNCHANGED <<now, view>>
        BY <2>2 DEF getAndExpire
      <3>2. CASE isExpired(items[get[r].key])
        <4>1. doDelete({get[r].key}) /\ origin' = "store"
          BY <2>2, <3>2 DEF getAndExpire
        <4>2. Abstract!Collect
          BY <3>1, <3>2, <4>1, DropIsCollect
        <4> QED BY <1>1, <4>2
      <3>3. CASE ~isExpired(items[get[r].key])
        <4>1. doDelete({}) /\ origin' = origin /\ UNCHANGED <<txn, spent, twice>>
          BY <2>2, <3>3 DEF getAndExpire
        <4>2. items' = items
          BY <1>0, <4>1 DEF doDelete
        <4>3. Quiet
          BY <3>1, <4>1, <4>2 DEF Quiet, doDelete
        <4> QED BY <3>1, <4>1, <4>3, QuietIsStutter
      <3> QED BY <3>2, <3>3
    <2> QED BY <1>7, <2>1, <2>2 DEF GetCall
  <1>8. ASSUME NEW s \in Scanners, KeysLikeCall(s) PROVE Simulates
    BY <1>8, QuietIsStutter
       DEF KeysLikeCall, ScanStart, KeysLike, ScanEnd, Quiet, storeVars, winVars
  <1>9. ASSUME Cleaner PROVE Simulates
    <2>1. CASE CleanThreadWakes \/ CleanThreadStops
      BY <2>1, QuietIsStutter DEF CleanThreadWakes, CleanThreadStops, Quiet, winVars, callVars
    <2>2. CASE doCleanExpiredItems
      <3> DEFINE dead == {k \in Keys : isExpired(items[k])}
      <3>1. /\ writer = "none" /\ writer' = "none" /\ UNCHANGED <<now, view, txn, spent, twice>>
            /\ doDelete(dead) /\ origin' = IF dead = {} THEN origin ELSE "store"
        BY <2>2 DEF doCleanExpiredItems, callVars
      <3>2. \A k \in dead : isExpired(items[k])
        OBVIOUS
      <3> HIDE DEF dead
      <3>3. CASE dead # {}
        <4>1. Abstract!Collect
          BY <3>1, <3>2, <3>3, DropIsCollect
        <4> QED BY <1>1, <4>1
      <3>4. CASE dead = {}
        <4>1. items' = items
          BY <1>0, <3>1, <3>4 DEF doDelete
        <4>2. Quiet
          BY <3>1, <4>1 DEF Quiet, doDelete
        <4> QED BY <3>1, <3>4, <4>2, QuietIsStutter
      <3> QED BY <3>3, <3>4
    <2> QED BY <1>9, <2>1, <2>2 DEF Cleaner
  <1>10. ASSUME Closer PROVE Simulates
    <2>1. CASE CloseSignals
      BY <2>1, QuietIsStutter DEF CloseSignals, Quiet, winVars, callVars
    <2>2. CASE CloseDropsItems
      <3>1. Changed
        BY <2>2, ChangedByDelete DEF CloseDropsItems
      <3>2. writer' # "multi" /\ UNCHANGED <<now, view>> /\ origin' = "request"
        BY <2>2 DEF CloseDropsItems, callVars
      <3> QED BY <1>0, <1>1, <3>1, <3>2, CommitIsTransact
    <2>3. CASE CloseReturns
      <3>1. writer = "close"
        BY <2>3 DEF CloseReturns, TypeInv, LockInv
      <3> QED BY <2>3, <3>1, QuietIsStutter DEF CloseReturns, Quiet, winVars, callVars
    <2> QED BY <1>10, <2>1, <2>2, <2>3 DEF Closer
  <1>11. ASSUME Tick PROVE Simulates
    BY <1>11, QuietIsStutter DEF Tick, Quiet, winVars, callVars
  <1> QED BY <1>2, <1>3, <1>4, <1>5, <1>6, <1>7, <1>8, <1>9, <1>10, <1>11 DEF Actions, Request

\* The store with its lock, its Multi in several steps, its cleaner and its unlocked
\* reads implements TTLStore: every step of it is a step of TTLStore on the committed
\* items, or none.
THEOREM StoreImplementsTTLStore == Spec => ImplementsTTLStore
  <1> DEFINE RInv == TypeInv /\ WinnerInv /\ TxnInv
  <1>1. Init => RInv
    <2>1. Init => TxnInv
      BY DEF Init, TxnInv
    <2> QED BY <2>1, TypeInvInit DEF Init, WinnerInv, FreshInv, SpentInv
  <1>2. RInv /\ [Next]_vars => RInv' /\ Simulates
    <2> SUFFICES ASSUME TypeInv, WinnerInv, TxnInv, [Next]_vars
                 PROVE  RInv' /\ Simulates
      OBVIOUS
    <2>1. TypeInv' /\ WinnerInv'
      BY TypeInvStep, WinnerInvStep
    <2>2. CASE Next
      BY <2>1, <2>2, NextSplits, ActionShapes, TxnStep, StepSimulates
    <2>3. CASE UNCHANGED vars
      BY <2>1, <2>3 DEF TxnInv, Simulates, Abstract!absVars, vars, storeVars, callVars, winVars
    <2> QED BY <2>2, <2>3
  <1>3. Init => Abstract!Init
    BY DEF Init, Abstract!Init
  <1> HIDE DEF RInv
  <1> QED BY <1>1, <1>2, <1>3, PTL DEF Spec, ImplementsTTLStore, Abstract!Spec, Simulates
=============================================================================
