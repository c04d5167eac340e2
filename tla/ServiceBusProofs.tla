--------------------------- MODULE ServiceBusProofs ---------------------------
(***************************************************************************)
(* Theorems about ServiceBusSubscription: types, the accounts of tokens,   *)
(* handles and active messages, and what may be completed, in which order. *)
(*                                                                         *)
(* The order of a session rests on a chain of facts none of which is       *)
(* visible in one place of the code: a session has one loop, a loop with   *)
(* sessions has one batch, the batch's lock is renewed as long as the loop *)
(* has the session, so that a locked message is always the one being       *)
(* handled and the loop never meets one when it receives.  OrderInv is     *)
(* that chain; it ends when the subscription is cancelled, but then        *)
(* nothing is received any more.                                           *)
(***************************************************************************)
EXTENDS ServiceBusSubscription, FiniteSetTheorems, TLAPS

LoopRec == [pc : {"connect", "acquire", "receive", "handling", "ended"},
            session : Sessions \cup {NoSession}]

OpRec == [pc : {"free", "wait", "handler", "settle", "release", "unhandled"},
          batch : SUBSET Messages, held : SUBSET Messages,
          loop : Loops \cup {NoSession}, done : BOOLEAN, ok : SUBSET Messages]

SettlementRec == [m : Messages, held : BOOLEAN, what : {"complete", "abandon"}]

\* The types that hold step by step.
TypeInv ==
  /\ config \in Configs
  /\ msg \in [Messages -> {"waiting", "locked", "done"}]
  /\ loop \in [Loops -> LoopRec]
  /\ tokens \in Nat /\ handles \in Nat
  /\ active \subseteq Messages
  /\ op \in [Slots -> OpRec]
  /\ settling \subseteq SettlementRec
  /\ cancelled \in BOOLEAN
  /\ handled \subseteq Messages /\ early \subseteq Messages
  /\ faults \in 0 .. MaxFaults

Receivers == {l \in Loops : loop[l].pc = "receive"}
Busy      == {o \in Slots : op[o].pc # "free"}
Handling  == {o \in Slots : op[o].pc \in {"handler", "settle", "release"}}

\* A batch under way has come from a loop, which with sessions waits for it and for
\* no other.
LoopInv ==
  \A o \in Busy :
    /\ op[o].loop \in Loops
    /\ RequireSessions =>
         /\ loop[op[o].loop].pc = "handling"
         /\ \A p \in Busy : op[p].loop = op[o].loop => p = o

TokenInv ==
  /\ IsFiniteSet(Receivers) /\ IsFiniteSet(Busy)
  /\ tokens = Cardinality(Receivers) + Cardinality(Busy)
  /\ tokens <= MaxOperations

HandleInv ==
  config.maxHandlers > 0 =>
    /\ IsFiniteSet(Handling)
    /\ handles = Cardinality(Handling)
    /\ handles <= config.maxHandlers

\* A slot that is free keeps nothing active.
ActiveInv ==
  /\ \A o \in Slots : op[o].pc = "free" => op[o].batch = {}
  /\ ActiveAreHandled

\* Nothing is to be completed that was not handled.
CompleteInv ==
  /\ CompletedWereHandled
  /\ \A o \in Slots : op[o].ok \subseteq handled
  /\ \A s \in settling : s.what = "complete" => s.m \in handled

\* SessionOrder speaks of these subscriptions.
Ordered == /\ RequireSessions
           /\ config.maxBulk = 1
           /\ config.failures \subseteq {"receive", "handler"}

Predecessors(m) == {n \in 1 .. m - 1 : Session(n) = Session(m)}

Connected == {"acquire", "receive", "handling"}

Unsettled == {"wait", "handler", "settle"}

\* Before the subscription is cancelled: sessions have one loop each, a batch that
\* is not settled is of its loop's session and holds its locks, and a locked message
\* is in such a batch.
ChainInv ==
  /\ \A l, k \in Loops :
       /\ loop[l].pc \in Connected /\ loop[k].pc \in Connected
       /\ loop[l].session = loop[k].session
       => l = k
  /\ \A o \in Busy : ~op[o].done /\ op[o].pc # "unhandled"
  /\ \A o \in Slots : op[o].pc \in Unsettled =>
       /\ op[o].held = op[o].batch
       /\ \A m \in op[o].batch : Session(m) = loop[op[o].loop].session
  /\ \A m \in Messages : msg[m] = "locked" =>
       \E o \in Slots : op[o].pc \in Unsettled /\ m \in op[o].held

OrderInv ==
  Ordered =>
    /\ early = {} /\ settling = {}
    /\ \A o \in Busy : /\ Cardinality(op[o].batch) = 1
                       /\ \A m \in op[o].batch : Predecessors(m) \subseteq handled
    /\ ~cancelled => ChainInv

IInv == TypeInv /\ LoopInv /\ TokenInv /\ HandleInv /\ ActiveInv /\ CompleteInv /\ OrderInv

-----------------------------------------------------------------------------
(* The types.                                                              *)

LEMMA ConfigFixed ==
  ASSUME TypeInv, [Next]_vars
  PROVE  /\ config' = config /\ config \in Config
         /\ RequireSessions' = RequireSessions /\ MaxOperations' = MaxOperations
         /\ Sessions' = Sessions
         /\ \A m : Session(m)' = Session(m)
<1>1. config \in Config
  BY ConstantsAssumption DEF TypeInv
<1>2. config' = config
  BY DEF Next, vars, subVars, LockExpires, LoopStep, Connect, Acquire, Receive, ReceiveSkips,
    ReceiveFails, LoopEnds, Cancel, OpStep, TakeHandle, NoHandle, HandlerReturns, SettleNow,
    SettleLater, handleMessagesEnds, SettlerRuns
<1>3. QED
  BY <1>1, <1>2 DEF RequireSessions, MaxOperations, Sessions, Session

\* What becomes of the handleMessages calls when locks are lost, and of the
\* settlements that wait.
LEMMA LocksLostTyped ==
  ASSUME op \in [Slots -> OpRec], NEW M
  PROVE  [o \in Slots |-> [op[o] EXCEPT !.held = @ \ M]] \in [Slots -> OpRec]
  BY DEF OpRec

LEMMA SettlingTyped ==
  ASSUME settling \subseteq SettlementRec, NEW M
  PROVE  {[s EXCEPT !.held = @ /\ s.m \notin M] : s \in settling} \subseteq SettlementRec
<1> SUFFICES ASSUME NEW s \in settling
             PROVE  [s EXCEPT !.held = @ /\ s.m \notin M] \in SettlementRec
  OBVIOUS
<1>1. (s.held /\ s.m \notin M) \in BOOLEAN
  OBVIOUS
<1>2. QED
  BY <1>1 DEF SettlementRec

LEMMA DisconnectedTyped ==
  ASSUME op \in [Slots -> OpRec], NEW l, NEW M
  PROVE  [o \in Slots |-> IF op[o].loop = l
                          THEN [op[o] EXCEPT !.done = TRUE, !.held = @ \ M] ELSE op[o]]
         \in [Slots -> OpRec]
<1>1. ASSUME NEW o \in Slots PROVE [op[o] EXCEPT !.done = TRUE, !.held = @ \ M] \in OpRec
  BY DEF OpRec
<1>2. QED
  BY <1>1

\* The fields of a handleMessages call after HandlerReturns and after its messages
\* are settled or handed to settlers.
LEMMA ReturnsEffect ==
  ASSUME op \in [Slots -> OpRec], NEW o \in Slots, HandlerReturns(o)
  PROVE  \E ok \in SUBSET op[o].batch :
           /\ op' \in [Slots -> OpRec] /\ \A p \in Slots \ {o} : op'[p] = op[p]
           /\ op'[o].pc = "settle" /\ op'[o].ok = ok
           /\ op'[o].batch = op[o].batch /\ op'[o].held = op[o].held
           /\ op'[o].loop = op[o].loop /\ op'[o].done = op[o].done
           /\ handled' = handled \cup ok
<1>1. PICK ok \in SUBSET op[o].batch :
        /\ op' = [op EXCEPT ![o] = [op[o] EXCEPT !.pc = "settle", !.ok = ok]]
        /\ handled' = handled \cup ok
  BY DEF HandlerReturns
<1> DEFINE new == [op[o] EXCEPT !.pc = "settle", !.ok = ok]
<1>2. /\ new \in OpRec
      /\ new.pc = "settle" /\ new.ok = ok
      /\ new.batch = op[o].batch /\ new.held = op[o].held
      /\ new.loop = op[o].loop /\ new.done = op[o].done
  BY DEF OpRec
<1>3. op' = [op EXCEPT ![o] = new]
  BY <1>1
<1> HIDE DEF new
<1>4. op'[o] = new /\ op' \in [Slots -> OpRec] /\ \A p \in Slots \ {o} : op'[p] = op[p]
  BY <1>2, <1>3
<1>5. QED
  BY <1>1, <1>2, <1>4

LEMMA SettleEffect ==
  ASSUME op \in [Slots -> OpRec], NEW o \in Slots, SettleNow(o) \/ SettleLater(o)
  PROVE  /\ op' \in [Slots -> OpRec] /\ \A p \in Slots \ {o} : op'[p] = op[p]
         /\ op'[o].pc = "release" /\ op'[o].held = {}
         /\ op'[o].batch = op[o].batch /\ op'[o].ok = op[o].ok
         /\ op'[o].loop = op[o].loop /\ op'[o].done = op[o].done
         /\ op[o].pc = "settle"
<1>1. /\ op' = [op EXCEPT ![o] = [op[o] EXCEPT !.pc = "release", !.held = {}]]
      /\ op[o].pc = "settle"
  BY DEF SettleNow, SettleLater
<1> DEFINE new == [op[o] EXCEPT !.pc = "release", !.held = {}]
<1>2. /\ new \in OpRec
      /\ new.pc = "release" /\ new.held = {}
      /\ new.batch = op[o].batch /\ new.ok = op[o].ok
      /\ new.loop = op[o].loop /\ new.done = op[o].done
  BY DEF OpRec
<1>3. op' = [op EXCEPT ![o] = new]
  BY <1>1
<1> HIDE DEF new
<1>4. op'[o] = new /\ op' \in [Slots -> OpRec] /\ \A p \in Slots \ {o} : op'[p] = op[p]
  BY <1>2, <1>3
<1>5. QED
  BY <1>1, <1>2, <1>4

\* A batch has come: a free slot gets it.
LEMMA ReceiveEffect ==
  ASSUME op \in [Slots -> OpRec], NEW l \in Loops, Receive(l)
  PROVE  \E batch \in ReceiveMessages(l), o \in Slots :
           /\ op' \in [Slots -> OpRec] /\ \A p \in Slots \ {o} : op'[p] = op[p]
           /\ op[o].pc = "free"
           /\ op'[o].pc = "wait" /\ op'[o].batch = batch /\ op'[o].held = batch
           /\ op'[o].loop = l /\ op'[o].done = FALSE /\ op'[o].ok = {}
           /\ msg' = Lock(batch) /\ active' = active \cup batch
           /\ batch \subseteq Messages
<1>1. PICK batch \in ReceiveMessages(l), o \in Slots :
        /\ op[o].pc = "free"
        /\ msg' = Lock(batch) /\ active' = active \cup batch
        /\ op' = [op EXCEPT ![o] = [pc |-> "wait", batch |-> batch, held |-> batch,
                                    loop |-> l, done |-> FALSE, ok |-> {}]]
  BY DEF Receive
<1>2. batch \in SUBSET Messages
  BY DEF ReceiveMessages, Batches, Waiting
<1> DEFINE new == [pc |-> "wait", batch |-> batch, held |-> batch,
                   loop |-> l, done |-> FALSE, ok |-> {}]
<1>3. /\ new \in OpRec
      /\ new.pc = "wait" /\ new.batch = batch /\ new.held = batch
      /\ new.loop = l /\ new.done = FALSE /\ new.ok = {}
  BY <1>2 DEF OpRec
<1>4. op' = [op EXCEPT ![o] = new]
  BY <1>1
<1> HIDE DEF new
<1>5. op'[o] = new /\ op' \in [Slots -> OpRec] /\ \A p \in Slots \ {o} : op'[p] = op[p]
  BY <1>3, <1>4
<1>6. QED
  BY <1>1, <1>2, <1>3, <1>5

\* The receiver is closed: calls and settlements may lose locks and the calls' context.
LEMMA DisconnectedEffect ==
  ASSUME op \in [Slots -> OpRec], settling \subseteq SettlementRec,
         NEW l, NEW pc, Disconnected(l, pc)
  PROVE  /\ op' \in [Slots -> OpRec] /\ settling' \subseteq SettlementRec
         /\ \A o \in Slots :
              /\ op'[o].pc = op[o].pc /\ op'[o].batch = op[o].batch
              /\ op'[o].loop = op[o].loop /\ op'[o].ok = op[o].ok
              /\ op[o].loop # l => op'[o] = op[o]
<1>1. PICK M : M = Unlocked(loop[l].session)
  OBVIOUS
<1>2. op' = [o \in Slots |-> IF op[o].loop = l
                             THEN [op[o] EXCEPT !.done = TRUE, !.held = @ \ M] ELSE op[o]]
  BY <1>1 DEF Disconnected
<1>3. settling' = {[s EXCEPT !.held = @ /\ s.m \notin M] : s \in settling}
  BY <1>1 DEF Disconnected
<1>4. op' \in [Slots -> OpRec]
  BY <1>2, DisconnectedTyped
<1>5. settling' \subseteq SettlementRec
  BY <1>3, SettlingTyped
<1>6. ASSUME NEW o \in Slots
      PROVE  /\ op'[o].pc = op[o].pc /\ op'[o].batch = op[o].batch
             /\ op'[o].loop = op[o].loop /\ op'[o].ok = op[o].ok
             /\ op[o].loop # l => op'[o] = op[o]
  <2>1. CASE op[o].loop # l
    BY <1>2, <2>1
  <2>2. CASE op[o].loop = l
    <3>1. op'[o] = [op[o] EXCEPT !.done = TRUE, !.held = @ \ M]
      BY <1>2, <2>2
    <3>2. QED
      BY <2>2, <3>1 DEF OpRec
  <2>3. QED
    BY <2>1, <2>2
<1>7. QED
  BY <1>4, <1>5, <1>6

LEMMA OpTyped ==
  ASSUME TypeInv, [Next]_vars
  PROVE  op' \in [Slots -> OpRec] /\ settling' \subseteq SettlementRec
<1>0. op \in [Slots -> OpRec] /\ settling \subseteq SettlementRec
  BY DEF TypeInv
<1>1. ASSUME NEW m \in Messages, LockExpires(m)
      PROVE  op' \in [Slots -> OpRec] /\ settling' \subseteq SettlementRec
  BY <1>0, <1>1, LocksLostTyped, SettlingTyped DEF LockExpires, LocksLost
<1>2. ASSUME NEW l \in Loops, ReceiveFails(l) \/ LoopEnds(l)
      PROVE  op' \in [Slots -> OpRec] /\ settling' \subseteq SettlementRec
  BY <1>0, <1>2, DisconnectedEffect DEF ReceiveFails, LoopEnds
<1>3. ASSUME NEW l \in Loops, Receive(l)
      PROVE  op' \in [Slots -> OpRec] /\ settling' \subseteq SettlementRec
  BY <1>0, <1>3, ReceiveEffect DEF Receive
<1>4. ASSUME NEW o \in Slots, TakeHandle(o) \/ NoHandle(o)
      PROVE  op' \in [Slots -> OpRec] /\ settling' \subseteq SettlementRec
  BY <1>0, <1>4 DEF TakeHandle, NoHandle, OpRec
<1>5. ASSUME NEW o \in Slots, HandlerReturns(o)
      PROVE  op' \in [Slots -> OpRec] /\ settling' \subseteq SettlementRec
  BY <1>0, <1>5, ReturnsEffect DEF HandlerReturns
<1>6. ASSUME NEW o \in Slots, SettleNow(o)
      PROVE  op' \in [Slots -> OpRec] /\ settling' \subseteq SettlementRec
  BY <1>0, <1>6, SettleEffect DEF SettleNow
<1>7. ASSUME NEW o \in Slots, SettleLater(o)
      PROVE  op' \in [Slots -> OpRec] /\ settling' \subseteq SettlementRec
  <2>1. \A m \in op[o].batch : Settlement(o, m) \in SettlementRec
    <3> SUFFICES ASSUME NEW m \in op[o].batch PROVE Settlement(o, m) \in SettlementRec
      OBVIOUS
    <3>1. m \in Messages /\ (m \in op[o].held) \in BOOLEAN
      BY <1>0 DEF OpRec
    <3>2. QED
      BY <3>1 DEF Settlement, SettlementRec
  <2>2. settling' \subseteq SettlementRec
    BY <1>0, <1>7, <2>1 DEF SettleLater
  <2>3. op' \in [Slots -> OpRec]
    BY <1>0, <1>7, SettleEffect
  <2>4. QED
    BY <2>2, <2>3
<1>8. ASSUME NEW o \in Slots, handleMessagesEnds(o)
      PROVE  op' \in [Slots -> OpRec] /\ settling' \subseteq SettlementRec
  BY <1>0, <1>8 DEF handleMessagesEnds, NoOp, OpRec
<1>9. ASSUME NEW s \in settling, SettlerRuns(s)
      PROVE  op' \in [Slots -> OpRec] /\ settling' \subseteq SettlementRec
  BY <1>0, <1>9 DEF SettlerRuns
<1>10. ASSUME \/ \E l \in Loops : Connect(l) \/ Acquire(l) \/ ReceiveSkips(l)
              \/ Cancel \/ UNCHANGED vars
       PROVE  UNCHANGED <<op, settling>>
  BY <1>10 DEF Connect, Acquire, ReceiveSkips, Cancel, vars, subVars
<1>11. QED
  BY <1>0, <1>1, <1>2, <1>3, <1>4, <1>5, <1>6, <1>7, <1>8, <1>9, <1>10
  DEF Next, LoopStep, OpStep

LEMMA LoopTyped ==
  ASSUME TypeInv, [Next]_vars
  PROVE  loop' \in [Loops -> LoopRec]
<1>0. loop \in [Loops -> LoopRec]
  BY DEF TypeInv
<1>1. ASSUME NEW l \in Loops, LoopStep(l) PROVE loop' \in [Loops -> LoopRec]
  <2>1. CASE Connect(l)
    BY <1>0, <2>1 DEF Connect, LoopRec
  <2>2. CASE Acquire(l) \/ Receive(l) \/ ReceiveSkips(l)
    BY <1>0, <2>2 DEF Acquire, Receive, ReceiveSkips, LoopRec
  <2>3. ASSUME NEW pc \in {"connect", "ended"}, Disconnected(l, pc)
        PROVE  loop' \in [Loops -> LoopRec]
    BY <1>0, <2>3 DEF Disconnected, LoopRec
  <2>4. QED
    BY <1>1, <2>1, <2>2, <2>3 DEF LoopStep, ReceiveFails, LoopEnds
<1>2. ASSUME NEW o \in Slots, handleMessagesEnds(o) PROVE loop' \in [Loops -> LoopRec]
  BY <1>0, <1>2 DEF handleMessagesEnds, LoopRec
<1>3. ASSUME \/ \E m \in Messages : LockExpires(m)
             \/ Cancel \/ UNCHANGED vars
             \/ \E o \in Slots : \/ TakeHandle(o) \/ NoHandle(o) \/ HandlerReturns(o)
                                 \/ SettleNow(o) \/ SettleLater(o)
             \/ \E s \in settling : SettlerRuns(s)
      PROVE  UNCHANGED loop
  BY <1>3 DEF LockExpires, Cancel, TakeHandle, NoHandle, HandlerReturns, SettleNow, SettleLater,
    SettlerRuns, vars, subVars
<1>4. QED
  BY <1>0, <1>1, <1>2, <1>3 DEF Next, OpStep

-----------------------------------------------------------------------------
(* Tokens and handles.                                                     *)

LEMMA OneMore ==
  ASSUME NEW S, IsFiniteSet(S), NEW x, x \notin S
  PROVE  IsFiniteSet(S \cup {x}) /\ Cardinality(S) \in Nat
         /\ Cardinality(S \cup {x}) = Cardinality(S) + 1
  BY FS_AddElement, FS_CardinalityType

LEMMA OneLess ==
  ASSUME NEW S, IsFiniteSet(S), NEW x \in S
  PROVE  /\ IsFiniteSet(S \ {x}) /\ Cardinality(S) \in Nat /\ Cardinality(S) >= 1
         /\ Cardinality(S \ {x}) = Cardinality(S) - 1
<1>1. IsFiniteSet(S \ {x}) /\ Cardinality(S \ {x}) = Cardinality(S) - 1
  BY FS_RemoveElement
<1>2. Cardinality(S) \in Nat /\ Cardinality(S \ {x}) \in Nat
  BY <1>1, FS_CardinalityType
<1>3. QED
  BY <1>1, <1>2

\* The loops that are in ReceiveMessages, and the token count, after a step of a loop.
LEMMA LoopCounts ==
  ASSUME TypeInv, NEW l \in Loops
  PROVE  /\ Connect(l) => Receivers' = Receivers /\ tokens' = tokens
         /\ Acquire(l) => /\ l \notin Receivers /\ Receivers' = Receivers \cup {l}
                          /\ tokens < MaxOperations /\ tokens' = tokens + 1
         /\ Receive(l) => /\ l \in Receivers /\ Receivers' = Receivers \ {l}
                          /\ tokens' = tokens
         /\ ReceiveSkips(l) \/ ReceiveFails(l)
              => /\ l \in Receivers /\ Receivers' = Receivers \ {l} /\ tokens' = tokens - 1
         /\ LoopEnds(l) =>
              \/ l \in Receivers /\ Receivers' = Receivers \ {l} /\ tokens' = tokens - 1
              \/ Receivers' = Receivers /\ tokens' = tokens
<1>0. loop \in [Loops -> LoopRec]
  BY DEF TypeInv
<1> USE DEF Receivers
<1>1. ASSUME Connect(l) PROVE Receivers' = Receivers /\ tokens' = tokens
  BY <1>0, <1>1 DEF Connect, LoopRec
<1>2. ASSUME Acquire(l)
      PROVE  /\ l \notin Receivers /\ Receivers' = Receivers \cup {l}
             /\ tokens < MaxOperations /\ tokens' = tokens + 1
  BY <1>0, <1>2 DEF Acquire, LoopRec
<1>3. ASSUME Receive(l)
      PROVE  l \in Receivers /\ Receivers' = Receivers \ {l} /\ tokens' = tokens
  BY <1>0, <1>3 DEF Receive, LoopRec
<1>4. ASSUME ReceiveSkips(l)
      PROVE  l \in Receivers /\ Receivers' = Receivers \ {l} /\ tokens' = tokens - 1
  BY <1>0, <1>4 DEF ReceiveSkips, LoopRec
<1>5. ASSUME ReceiveFails(l)
      PROVE  l \in Receivers /\ Receivers' = Receivers \ {l} /\ tokens' = tokens - 1
  BY <1>0, <1>5 DEF ReceiveFails, Disconnected, LoopRec
<1>6. ASSUME LoopEnds(l)
      PROVE  \/ l \in Receivers /\ Receivers' = Receivers \ {l} /\ tokens' = tokens - 1
             \/ Receivers' = Receivers /\ tokens' = tokens
  <2>1. /\ loop' = [loop EXCEPT ![l] = [pc |-> "ended", session |-> NoSession]]
        /\ tokens' = IF loop[l].pc = "receive" THEN tokens - 1 ELSE tokens
    BY <1>6 DEF LoopEnds, Disconnected
  <2>2. CASE loop[l].pc = "receive"
    BY <1>0, <2>1, <2>2
  <2>3. CASE loop[l].pc # "receive"
    BY <1>0, <2>1, <2>3
  <2>4. QED
    BY <2>2, <2>3
<1>7. QED
  BY <1>1, <1>2, <1>3, <1>4, <1>5, <1>6

\* The steps of handleMessages but the last: the call stays, and so do its batch and
\* its loop.
LEMMA OpStays ==
  ASSUME TypeInv, NEW o \in Slots,
         \/ TakeHandle(o) \/ NoHandle(o) \/ HandlerReturns(o) \/ SettleNow(o) \/ SettleLater(o)
  PROVE  /\ \A p \in Slots \ {o} : op'[p] = op[p]
         /\ op[o].pc # "free" /\ op'[o].pc # "free"
         /\ op'[o].batch = op[o].batch /\ op'[o].loop = op[o].loop
         /\ op'[o].done = op[o].done
         /\ UNCHANGED <<loop, tokens, active, cancelled>>
<1>0. op \in [Slots -> OpRec]
  BY DEF TypeInv
<1>1. CASE TakeHandle(o) \/ NoHandle(o)
  BY <1>0, <1>1 DEF TakeHandle, NoHandle, OpRec
<1>2. CASE HandlerReturns(o)
  BY <1>0, <1>2, ReturnsEffect DEF HandlerReturns
<1>3. CASE SettleNow(o) \/ SettleLater(o)
  BY <1>0, <1>3, SettleEffect DEF SettleNow, SettleLater
<1>4. QED
  BY <1>1, <1>2, <1>3

\* The last step of handleMessages.
LEMMA EndsEffect ==
  ASSUME TypeInv, LoopInv, NEW o \in Slots, handleMessagesEnds(o)
  PROVE  /\ o \in Busy /\ Busy' = Busy \ {o}
         /\ \A p \in Slots \ {o} : op'[p] = op[p]
         /\ op'[o] = NoOp
         /\ RequireSessions => /\ op[o].loop \in Loops /\ loop[op[o].loop].pc = "handling"
                               /\ loop'[op[o].loop].pc = "acquire"
         /\ \A l \in Loops : /\ loop'[l].session = loop[l].session
                             /\ l # op[o].loop \/ ~RequireSessions => loop'[l] = loop[l]
         /\ tokens' = tokens - 1
<1>0. op \in [Slots -> OpRec] /\ loop \in [Loops -> LoopRec]
  BY DEF TypeInv
<1>1. /\ op[o].pc \in {"release", "unhandled"}
      /\ op' = [op EXCEPT ![o] = NoOp]
      /\ tokens' = tokens - 1
      /\ loop' = IF RequireSessions THEN [loop EXCEPT ![op[o].loop].pc = "acquire"] ELSE loop
  BY DEF handleMessagesEnds
<1>2. op'[o] = NoOp /\ \A p \in Slots \ {o} : op'[p] = op[p]
  BY <1>0, <1>1
<1>3. o \in Busy /\ Busy' = Busy \ {o}
  BY <1>1, <1>2 DEF Busy, NoOp
<1>4. ASSUME RequireSessions
      PROVE  op[o].loop \in Loops /\ loop[op[o].loop].pc = "handling"
  BY <1>3, <1>4 DEF LoopInv
<1>5. CASE RequireSessions
  <2>1. loop' = [loop EXCEPT ![op[o].loop].pc = "acquire"]
    BY <1>1, <1>5
  <2>2. QED
    BY <1>0, <1>1, <1>2, <1>3, <1>4, <1>5, <2>1 DEF LoopRec
<1>6. CASE ~RequireSessions
  BY <1>1, <1>2, <1>3, <1>6
<1>7. QED
  BY <1>5, <1>6

LEMMA BusyCounts ==
  ASSUME TypeInv, [Next]_vars,
         \A l \in Loops : ~Receive(l), \A o \in Slots : ~handleMessagesEnds(o)
  PROVE  Busy' = Busy
<1>0. op \in [Slots -> OpRec] /\ settling \subseteq SettlementRec
  BY DEF TypeInv
<1>1. ASSUME NEW m \in Messages, LockExpires(m) PROVE Busy' = Busy
  BY <1>0, <1>1 DEF Busy, LockExpires, LocksLost, OpRec
<1>2. ASSUME NEW l \in Loops, ReceiveFails(l) \/ LoopEnds(l) PROVE Busy' = Busy
  BY <1>0, <1>2, DisconnectedEffect DEF Busy, ReceiveFails, LoopEnds
<1>3. ASSUME NEW o \in Slots, OpStep(o) PROVE Busy' = Busy
  BY <1>3, OpStays DEF Busy, OpStep
<1>4. ASSUME \/ \E l \in Loops : Connect(l) \/ Acquire(l) \/ ReceiveSkips(l)
             \/ Cancel \/ UNCHANGED vars \/ \E s \in settling : SettlerRuns(s)
      PROVE  op' = op
  BY <1>4 DEF Connect, Acquire, ReceiveSkips, Cancel, SettlerRuns, vars, subVars
<1>5. CASE op' = op
  BY <1>5 DEF Busy
<1>6. QED
  BY <1>1, <1>2, <1>3, <1>4, <1>5 DEF Next, LoopStep

LEMMA ReceiveCounts ==
  ASSUME TypeInv, NEW l \in Loops, Receive(l)
  PROVE  \E o \in Slots : o \notin Busy /\ Busy' = Busy \cup {o}
<1>1. PICK o \in Slots : /\ \A p \in Slots \ {o} : op'[p] = op[p]
                         /\ op[o].pc = "free" /\ op'[o].pc = "wait"
  BY ReceiveEffect DEF TypeInv
<1>2. QED
  BY <1>1 DEF Busy

LEMMA LoopStepInv ==
  ASSUME TypeInv, LoopInv, [Next]_vars
  PROVE  LoopInv'
<1>0. /\ op \in [Slots -> OpRec] /\ loop \in [Loops -> LoopRec]
      /\ settling \subseteq SettlementRec
      /\ RequireSessions' = RequireSessions
  BY ConfigFixed DEF TypeInv
<1>1. CASE /\ Busy' = Busy /\ \A o \in Busy : op'[o].loop = op[o].loop
           /\ \A l \in Loops : loop[l].pc = "handling" => loop'[l].pc = "handling"
  BY <1>0, <1>1 DEF LoopInv
<1>2. ASSUME NEW l \in Loops, Receive(l) PROVE LoopInv'
  <2>1. PICK batch \in ReceiveMessages(l), o \in Slots :
          /\ op' \in [Slots -> OpRec] /\ \A p \in Slots \ {o} : op'[p] = op[p]
          /\ op[o].pc = "free"
          /\ op'[o].pc = "wait" /\ op'[o].batch = batch /\ op'[o].held = batch
          /\ op'[o].loop = l /\ op'[o].done = FALSE /\ op'[o].ok = {}
          /\ msg' = Lock(batch) /\ active' = active \cup batch
          /\ batch \subseteq Messages
    BY <1>0, <1>2, ReceiveEffect
  <2>2. Busy' = Busy \cup {o} /\ o \notin Busy
    BY <2>1 DEF Busy
  <2>3. /\ loop[l].pc = "receive"
        /\ RequireSessions => loop'[l].pc = "handling"
        /\ \A k \in Loops \ {l} : loop'[k] = loop[k]
    BY <1>0, <1>2 DEF Receive, LoopRec
  <2>4. RequireSessions => \A p \in Busy : op[p].loop # l
    BY <2>3 DEF LoopInv
  <2>5. \A p \in Busy : op'[p] = op[p]
    BY <2>1, <2>2 DEF Busy
  <2>6. QED
    BY <1>0, <2>1, <2>2, <2>3, <2>4, <2>5 DEF LoopInv
<1>3. ASSUME NEW o \in Slots, handleMessagesEnds(o) PROVE LoopInv'
  <2>1. /\ o \in Busy /\ Busy' = Busy \ {o}
        /\ \A p \in Slots \ {o} : op'[p] = op[p]
        /\ \A l \in Loops : l # op[o].loop \/ ~RequireSessions => loop'[l] = loop[l]
    BY <1>3, EndsEffect
  <2>2. \A p \in Busy' : /\ p \in Busy /\ op'[p] = op[p]
                         /\ RequireSessions => op[p].loop # op[o].loop
    BY <2>1 DEF LoopInv, Busy
  <2>3. QED
    BY <1>0, <2>1, <2>2 DEF LoopInv
<1>4. ASSUME NEW m \in Messages, LockExpires(m)
      PROVE  loop' = loop /\ \A o \in Busy : op'[o].loop = op[o].loop
  BY <1>0, <1>4 DEF LockExpires, LocksLost, Busy, OpRec
<1>5. ASSUME NEW l \in Loops, ReceiveFails(l) \/ LoopEnds(l)
      PROVE  /\ \A o \in Busy : op'[o].loop = op[o].loop
             /\ \A k \in Loops : loop[k].pc = "handling" => loop'[k].pc = "handling"
  <2>1. \A o \in Busy : op'[o].loop = op[o].loop
    BY <1>0, <1>5, DisconnectedEffect DEF ReceiveFails, LoopEnds, Busy
  <2>2. loop[l].pc # "handling" /\ \A k \in Loops \ {l} : loop'[k] = loop[k]
    BY <1>0, <1>5 DEF ReceiveFails, LoopEnds, Disconnected
  <2>3. QED
    BY <2>1, <2>2
<1>6. ASSUME NEW l \in Loops, Connect(l) \/ Acquire(l) \/ ReceiveSkips(l)
      PROVE  /\ op' = op
             /\ \A k \in Loops : loop[k].pc = "handling" => loop'[k].pc = "handling"
  BY <1>0, <1>6 DEF Connect, Acquire, ReceiveSkips, LoopRec
<1>7. ASSUME NEW o \in Slots, OpStep(o), ~handleMessagesEnds(o)
      PROVE  loop' = loop /\ \A p \in Busy : op'[p].loop = op[p].loop
  BY <1>7, OpStays DEF OpStep, Busy
<1>8. ASSUME Cancel \/ UNCHANGED vars \/ \E s \in settling : SettlerRuns(s)
      PROVE  op' = op /\ loop' = loop
  BY <1>8 DEF Cancel, SettlerRuns, vars, subVars
<1>9. CASE /\ \A l \in Loops : ~Receive(l)
           /\ \A o \in Slots : ~handleMessagesEnds(o)
  <2>1. Busy' = Busy
    BY <1>9, BusyCounts
  <2>2. QED
    BY <1>1, <1>4, <1>5, <1>6, <1>7, <1>8, <1>9, <2>1 DEF Next, LoopStep
<1>10. QED
  BY <1>2, <1>3, <1>9

LEMMA MaxOperationsNat ==
  ASSUME TypeInv
  PROVE  MaxOperations \in Nat
<1>1. config.maxActive \in Nat /\ config.maxBulk \in Nat \ {0}
  BY ConstantsAssumption DEF TypeInv, Config
<1>2. QED
  BY <1>1 DEF MaxOperations

LEMMA TokenStep ==
  ASSUME TypeInv, LoopInv, TokenInv, [Next]_vars
  PROVE  TokenInv' /\ tokens' \in Nat
<1>0. /\ IsFiniteSet(Receivers) /\ IsFiniteSet(Busy) /\ tokens \in Nat
      /\ tokens = Cardinality(Receivers) + Cardinality(Busy)
      /\ tokens <= MaxOperations
      /\ MaxOperations' = MaxOperations /\ MaxOperations \in Nat
      /\ Cardinality(Receivers) \in Nat /\ Cardinality(Busy) \in Nat
  BY ConfigFixed, MaxOperationsNat, FS_CardinalityType DEF TypeInv, TokenInv
<1>1. ASSUME Receivers' = Receivers, Busy' = Busy, tokens' = tokens
      PROVE  TokenInv' /\ tokens' \in Nat
  BY <1>0, <1>1 DEF TokenInv
<1>2. ASSUME NEW l \in Receivers, Receivers' = Receivers \ {l}, Busy' = Busy, tokens' = tokens - 1
      PROVE  TokenInv' /\ tokens' \in Nat
  <2>1. /\ IsFiniteSet(Receivers') /\ Cardinality(Receivers) >= 1
        /\ Cardinality(Receivers') = Cardinality(Receivers) - 1
    BY <1>0, <1>2, OneLess
  <2>2. tokens' = Cardinality(Receivers') + Cardinality(Busy)
    BY <1>0, <1>2, <2>1
  <2>3. tokens' \in Nat /\ tokens' <= MaxOperations
    BY <1>0, <1>2, <2>1
  <2>4. QED
    BY <1>0, <1>2, <2>1, <2>2, <2>3 DEF TokenInv
<1>3. ASSUME NEW l \in Loops, Acquire(l) PROVE TokenInv' /\ tokens' \in Nat
  <2>1. /\ l \notin Receivers /\ Receivers' = Receivers \cup {l}
        /\ tokens < MaxOperations /\ tokens' = tokens + 1
    BY <1>3, LoopCounts
  <2>2. Busy' = Busy
    BY <1>3 DEF Busy, Acquire
  <2>3. /\ IsFiniteSet(Receivers')
        /\ Cardinality(Receivers') = Cardinality(Receivers) + 1
    BY <1>0, <2>1, OneMore
  <2>4. tokens' = Cardinality(Receivers') + Cardinality(Busy)
    BY <1>0, <2>1, <2>3
  <2>5. tokens' \in Nat /\ tokens' <= MaxOperations
    BY <1>0, <2>1
  <2>6. QED
    BY <1>0, <2>2, <2>3, <2>4, <2>5 DEF TokenInv
<1>4. ASSUME NEW l \in Loops, Receive(l) PROVE TokenInv' /\ tokens' \in Nat
  <2>1. l \in Receivers /\ Receivers' = Receivers \ {l} /\ tokens' = tokens
    BY <1>4, LoopCounts
  <2>2. PICK o \in Slots : o \notin Busy /\ Busy' = Busy \cup {o}
    BY <1>4, ReceiveCounts
  <2>3. /\ IsFiniteSet(Receivers') /\ Cardinality(Receivers) >= 1
        /\ Cardinality(Receivers') = Cardinality(Receivers) - 1
    BY <1>0, <2>1, OneLess
  <2>4. /\ IsFiniteSet(Busy')
        /\ Cardinality(Busy') = Cardinality(Busy) + 1
    BY <1>0, <2>2, OneMore
  <2>5. tokens' = Cardinality(Receivers') + Cardinality(Busy')
    BY <1>0, <2>1, <2>3, <2>4
  <2>6. QED
    BY <1>0, <2>1, <2>3, <2>4, <2>5 DEF TokenInv
<1>5. ASSUME NEW o \in Slots, handleMessagesEnds(o) PROVE TokenInv' /\ tokens' \in Nat
  <2>1. /\ o \in Busy /\ Busy' = Busy \ {o} /\ tokens' = tokens - 1
        /\ RequireSessions => /\ op[o].loop \in Loops /\ loop[op[o].loop].pc = "handling"
                              /\ loop'[op[o].loop].pc = "acquire"
        /\ \A l \in Loops : l # op[o].loop \/ ~RequireSessions => loop'[l] = loop[l]
    BY <1>5, EndsEffect
  <2>2. Receivers' = Receivers
    BY <2>1 DEF Receivers
  <2>3. /\ IsFiniteSet(Busy') /\ Cardinality(Busy) >= 1
        /\ Cardinality(Busy') = Cardinality(Busy) - 1
    BY <1>0, <2>1, OneLess
  <2>4. tokens' = Cardinality(Receivers) + Cardinality(Busy')
    BY <1>0, <2>1, <2>3
  <2>5. tokens' \in Nat /\ tokens' <= MaxOperations
    BY <1>0, <2>1, <2>3
  <2>6. QED
    BY <1>0, <2>2, <2>3, <2>4, <2>5 DEF TokenInv
<1>6. CASE /\ \A l \in Loops : ~Receive(l) /\ ~Acquire(l)
           /\ \A o \in Slots : ~handleMessagesEnds(o)
  <2>1. Busy' = Busy
    BY <1>6, BusyCounts
  <2>2. ASSUME NEW l \in Loops, LoopStep(l) PROVE TokenInv' /\ tokens' \in Nat
    BY <1>1, <1>2, <1>6, <2>1, <2>2, LoopCounts DEF LoopStep
  <2>3. ASSUME \/ \E m \in Messages : LockExpires(m)
               \/ \E o \in Slots : OpStep(o)
               \/ Cancel \/ UNCHANGED vars \/ \E s \in settling : SettlerRuns(s)
        PROVE  loop' = loop /\ tokens' = tokens
    BY <1>6, <2>3, OpStays DEF LockExpires, OpStep, Cancel, SettlerRuns, vars, subVars
  <2>4. CASE loop' = loop /\ tokens' = tokens
    BY <1>1, <2>1, <2>4 DEF Receivers
  <2>5. QED
    BY <2>2, <2>3, <2>4 DEF Next
<1>7. QED
  BY <1>3, <1>4, <1>5, <1>6

LEMMA HandleStep ==
  ASSUME TypeInv, LoopInv, HandleInv, [Next]_vars
  PROVE  HandleInv' /\ handles' \in Nat
<1>0. /\ op \in [Slots -> OpRec] /\ handles \in Nat /\ settling \subseteq SettlementRec
      /\ config' = config /\ config.maxHandlers \in Nat
  BY ConfigFixed DEF TypeInv, Config
<1>1. ASSUME Handling' = Handling, handles' = handles
      PROVE  HandleInv' /\ handles' \in Nat
  BY <1>0, <1>1 DEF HandleInv
<1>2. ASSUME NEW o \in Slots, TakeHandle(o) PROVE HandleInv' /\ handles' \in Nat
  <2>1. /\ op[o].pc = "wait" /\ op'[o].pc = "handler"
        /\ \A p \in Slots \ {o} : op'[p] = op[p]
    BY <1>0, <1>2 DEF TakeHandle, OpRec
  <2>2. o \notin Handling /\ Handling' = Handling \cup {o}
    BY <2>1 DEF Handling
  <2>3. CASE config.maxHandlers > 0
    <3>1. handles' = handles + 1 /\ handles < config.maxHandlers
      BY <1>2, <2>3 DEF TakeHandle
    <3>2. IsFiniteSet(Handling) /\ handles = Cardinality(Handling)
      BY <2>3 DEF HandleInv
    <3>3. IsFiniteSet(Handling') /\ Cardinality(Handling') = handles + 1
      BY <2>2, <3>2, OneMore
    <3>4. handles' \in Nat /\ handles' <= config.maxHandlers
      BY <1>0, <3>1
    <3>5. QED
      BY <1>0, <3>1, <3>3, <3>4 DEF HandleInv
  <2>4. CASE ~(config.maxHandlers > 0)
    BY <1>0, <1>2, <2>4 DEF HandleInv, TakeHandle
  <2>5. QED
    BY <2>3, <2>4
<1>3. ASSUME NEW o \in Slots, handleMessagesEnds(o) PROVE HandleInv' /\ handles' \in Nat
  <2>1. /\ \A p \in Slots \ {o} : op'[p] = op[p]
        /\ op'[o].pc = "free" /\ op[o].pc \in {"release", "unhandled"}
    <3>1. op'[o] = NoOp /\ \A p \in Slots \ {o} : op'[p] = op[p]
      BY <1>3, EndsEffect
    <3>2. op[o].pc \in {"release", "unhandled"}
      BY <1>3 DEF handleMessagesEnds
    <3>3. QED
      BY <3>1, <3>2 DEF NoOp
  <2>2. CASE config.maxHandlers > 0 /\ op[o].pc = "release"
    <3>1. o \in Handling /\ Handling' = Handling \ {o}
      BY <2>1, <2>2 DEF Handling
    <3>2. handles' = handles - 1
      BY <1>3, <2>2 DEF handleMessagesEnds
    <3>3. IsFiniteSet(Handling) /\ handles = Cardinality(Handling) /\ handles <= config.maxHandlers
      BY <2>2 DEF HandleInv
    <3>4. IsFiniteSet(Handling') /\ Cardinality(Handling') = handles - 1 /\ handles >= 1
      BY <3>1, <3>3, OneLess
    <3>5. handles' \in Nat /\ handles' <= config.maxHandlers
      BY <1>0, <3>2, <3>3, <3>4
    <3>6. QED
      BY <1>0, <3>2, <3>4, <3>5 DEF HandleInv
  <2>3. CASE op[o].pc = "unhandled"
    <3>1. Handling' = Handling
      BY <2>1, <2>3 DEF Handling
    <3>2. handles' = handles
      BY <1>3, <2>3 DEF handleMessagesEnds
    <3>3. QED
      BY <1>1, <3>1, <3>2
  <2>4. CASE ~(config.maxHandlers > 0)
    BY <1>0, <1>3, <2>4 DEF HandleInv, handleMessagesEnds
  <2>5. QED
    BY <2>1, <2>2, <2>3, <2>4
<1>4. ASSUME NEW o \in Slots, OpStep(o), ~TakeHandle(o), ~handleMessagesEnds(o)
      PROVE  Handling' = Handling /\ handles' = handles
  <2>1. CASE NoHandle(o)
    BY <1>0, <2>1 DEF NoHandle, OpRec, Handling
  <2>2. CASE HandlerReturns(o)
    BY <1>0, <2>2, ReturnsEffect DEF HandlerReturns, Handling
  <2>3. CASE SettleNow(o) \/ SettleLater(o)
    BY <1>0, <2>3, SettleEffect DEF SettleNow, SettleLater, Handling
  <2>4. QED
    BY <1>4, <2>1, <2>2, <2>3 DEF OpStep
<1>5. ASSUME NEW m \in Messages, LockExpires(m) PROVE Handling' = Handling /\ handles' = handles
  BY <1>0, <1>5 DEF LockExpires, LocksLost, OpRec, Handling
<1>6. ASSUME NEW l \in Loops, ReceiveFails(l) \/ LoopEnds(l)
      PROVE  Handling' = Handling /\ handles' = handles
  BY <1>0, <1>6, DisconnectedEffect DEF ReceiveFails, LoopEnds, Handling
<1>7. ASSUME NEW l \in Loops, Receive(l) PROVE Handling' = Handling /\ handles' = handles
  <2>1. PICK o \in Slots : /\ \A p \in Slots \ {o} : op'[p] = op[p]
                           /\ op[o].pc = "free" /\ op'[o].pc = "wait"
    BY <1>0, <1>7, ReceiveEffect
  <2>2. QED
    BY <1>7, <2>1 DEF Handling, Receive
<1>8. ASSUME \/ \E l \in Loops : Connect(l) \/ Acquire(l) \/ ReceiveSkips(l)
             \/ Cancel \/ UNCHANGED vars \/ \E s \in settling : SettlerRuns(s)
      PROVE  op' = op /\ handles' = handles
  BY <1>8 DEF Connect, Acquire, ReceiveSkips, Cancel, SettlerRuns, vars, subVars
<1>9. CASE op' = op /\ handles' = handles
  BY <1>1, <1>9 DEF Handling
<1>10. QED
  BY <1>1, <1>2, <1>3, <1>4, <1>5, <1>6, <1>7, <1>8, <1>9 DEF Next, LoopStep

-----------------------------------------------------------------------------
(* What the broker's messages, the active messages and the history become. *)

States == {"waiting", "locked", "done"}

LEMMA SettlementTyped ==
  ASSUME op \in [Slots -> OpRec], NEW o \in Slots, NEW m \in op[o].batch
  PROVE  /\ Settlement(o, m) \in SettlementRec
         /\ Settlement(o, m).m = m /\ m \in Messages
         /\ Settlement(o, m).what = "complete" <=> m \in op[o].ok
         /\ Settlement(o, m).held <=> m \in op[o].held
<1>1. m \in Messages /\ (m \in op[o].held) \in BOOLEAN
  BY DEF OpRec
<1>2. QED
  BY <1>1 DEF Settlement, SettlementRec

LEMMA SettleMsg ==
  ASSUME msg \in [Messages -> States], faults \in 0 .. MaxFaults, MaxFaults \in Nat,
         NEW s \in SettlementRec, Settle(s)
  PROVE  /\ msg' \in [Messages -> States]
         /\ faults' \in 0 .. MaxFaults
         /\ \A n \in Messages : n # s.m => msg'[n] = msg[n]
         /\ \/ msg'[s.m] = "done" /\ s.what = "complete"
            \/ msg'[s.m] = "waiting"
            \/ msg'[s.m] = msg[s.m]
         /\ "settle" \notin config.failures /\ s.held => msg'[s.m] # "locked"
         /\ "settle" \notin config.failures /\ s.held /\ s.what = "complete" => msg'[s.m] = "done"
<1>1. s.m \in Messages
  BY DEF SettlementRec
<1>2. CASE /\ s.held
           /\ msg' = [msg EXCEPT ![s.m] = IF s.what = "complete" THEN "done" ELSE "waiting"]
           /\ UNCHANGED faults
  BY <1>1, <1>2 DEF States
<1>3. CASE s.held /\ Fault("settle") /\ UNCHANGED msg
  BY <1>1, <1>3 DEF Fault
<1>4. CASE ~s.held /\ UNCHANGED <<msg, faults>>
  BY <1>1, <1>4
<1>5. QED
  BY <1>2, <1>3, <1>4 DEF Settle

\* What a step of the broker's messages may be: done stays done, nothing is done that
\* was not to be completed.
LEMMA MsgStep ==
  ASSUME TypeInv, CompleteInv, [Next]_vars
  PROVE  /\ msg' \in [Messages -> States]
         /\ handled' \subseteq Messages /\ handled \subseteq handled'
         /\ \A m \in Messages : msg'[m] = "done" => m \in handled'
<1>0. /\ msg \in [Messages -> States] /\ op \in [Slots -> OpRec]
      /\ settling \subseteq SettlementRec
      /\ handled \subseteq Messages /\ faults \in 0 .. MaxFaults /\ MaxFaults \in Nat
  BY ConstantsAssumption DEF TypeInv, States
<1>1. \A m \in Messages : msg[m] = "done" => m \in handled
  BY DEF CompleteInv, CompletedWereHandled
<1>2. CASE /\ msg' \in [Messages -> States] /\ handled' = handled
           /\ \A m \in Messages : msg'[m] = "done" => msg[m] = "done"
  BY <1>0, <1>1, <1>2
<1>3. ASSUME NEW s \in SettlementRec, Settle(s), s.what = "complete" => s.m \in handled,
             handled' = handled
      PROVE  /\ msg' \in [Messages -> States]
             /\ \A m \in Messages : msg'[m] = "done" => m \in handled
  <2>1. /\ msg' \in [Messages -> States]
        /\ \A n \in Messages : n # s.m => msg'[n] = msg[n]
        /\ \/ msg'[s.m] = "done" /\ s.what = "complete"
           \/ msg'[s.m] = "waiting"
           \/ msg'[s.m] = msg[s.m]
    BY <1>0, <1>3, SettleMsg
  <2>2. QED
    BY <1>1, <1>3, <2>1
<1>4. ASSUME NEW m \in Messages, LockExpires(m)
      PROVE  /\ msg' \in [Messages -> States] /\ handled' = handled
             /\ \A n \in Messages : msg'[n] = "done" => msg[n] = "done"
  BY <1>0, <1>4 DEF LockExpires, States
<1>5. ASSUME NEW l \in Loops, Receive(l) \/ ReceiveSkips(l)
      PROVE  /\ msg' \in [Messages -> States] /\ handled' = handled
             /\ \A n \in Messages : msg'[n] = "done" => msg[n] = "done"
  <2>1. PICK batch : msg' = Lock(batch)
    BY <1>5 DEF Receive, ReceiveSkips
  <2>2. QED
    BY <1>0, <1>5, <2>1 DEF Lock, States, Receive, ReceiveSkips, histVars
<1>6. ASSUME NEW l \in Loops, ReceiveFails(l) \/ LoopEnds(l)
      PROVE  /\ msg' \in [Messages -> States] /\ handled' = handled
             /\ \A n \in Messages : msg'[n] = "done" => msg[n] = "done"
  <2>1. PICK M : msg' = [m \in Messages |-> IF m \in M THEN "waiting" ELSE msg[m]]
    BY <1>6 DEF ReceiveFails, LoopEnds, Disconnected
  <2>2. QED
    BY <1>0, <1>6, <2>1 DEF States, ReceiveFails, LoopEnds, histVars
<1>7. ASSUME NEW o \in Slots, SettleNow(o)
      PROVE  /\ msg' \in [Messages -> States] /\ handled' = handled
             /\ \A m \in Messages : msg'[m] = "done" => m \in handled
  <2>1. PICK m \in op[o].batch : Settle(Settlement(o, m))
    BY <1>7 DEF SettleNow
  <2>2. /\ Settlement(o, m) \in SettlementRec
        /\ Settlement(o, m).what = "complete" => Settlement(o, m).m \in handled
    BY <1>0, SettlementTyped DEF CompleteInv
  <2>3. handled' = handled
    BY <1>7 DEF SettleNow
  <2>4. QED
    BY <1>3, <2>1, <2>2, <2>3
<1>8. ASSUME NEW s \in settling, SettlerRuns(s)
      PROVE  /\ msg' \in [Messages -> States] /\ handled' = handled
             /\ \A m \in Messages : msg'[m] = "done" => m \in handled
  BY <1>0, <1>3, <1>8 DEF SettlerRuns, CompleteInv
<1>9. ASSUME NEW o \in Slots, HandlerReturns(o)
      PROVE  msg' = msg /\ handled \subseteq handled' /\ handled' \subseteq Messages
  BY <1>0, <1>9 DEF HandlerReturns, OpRec
<1>10. ASSUME \/ \E l \in Loops : Connect(l) \/ Acquire(l)
              \/ Cancel \/ UNCHANGED vars
              \/ \E o \in Slots : \/ TakeHandle(o) \/ NoHandle(o) \/ SettleLater(o)
                                  \/ handleMessagesEnds(o)
       PROVE  msg' = msg /\ handled' = handled
  BY <1>10 DEF Connect, Acquire, Cancel, TakeHandle, NoHandle, SettleLater, handleMessagesEnds,
    vars, histVars
<1>11. QED
  BY <1>0, <1>1, <1>2, <1>4, <1>5, <1>6, <1>7, <1>8, <1>9, <1>10 DEF Next, LoopStep, OpStep

LEMMA CompleteStep ==
  ASSUME TypeInv, CompleteInv, [Next]_vars
  PROVE  CompleteInv'
<1>0. /\ op \in [Slots -> OpRec] /\ settling \subseteq SettlementRec
      /\ \A o \in Slots : op[o].ok \subseteq handled
      /\ \A s \in settling : s.what = "complete" => s.m \in handled
  BY DEF TypeInv, CompleteInv
<1>1. /\ handled \subseteq handled'
      /\ CompletedWereHandled'
  BY MsgStep DEF CompletedWereHandled
<1>2. CASE /\ \A o \in Slots : op'[o].ok \subseteq handled'
           /\ \A s \in settling' : s.what = "complete" => \E r \in settling : r.what = s.what /\ r.m = s.m
  BY <1>0, <1>1, <1>2 DEF CompleteInv
<1>3. ASSUME NEW M, settling' = {[s EXCEPT !.held = @ /\ s.m \notin M] : s \in settling}
      PROVE  \A s \in settling' : \E r \in settling : r.what = s.what /\ r.m = s.m
  BY <1>0, <1>3 DEF SettlementRec
<1>4. ASSUME NEW m \in Messages, LockExpires(m)
      PROVE  /\ \A o \in Slots : op'[o].ok = op[o].ok
             /\ \A s \in settling' : \E r \in settling : r.what = s.what /\ r.m = s.m
  <2>1. \A o \in Slots : op'[o].ok = op[o].ok
    BY <1>0, <1>4 DEF LockExpires, LocksLost, OpRec
  <2>2. QED
    BY <1>3, <1>4, <2>1 DEF LockExpires, LocksLost
<1>5. ASSUME NEW l \in Loops, ReceiveFails(l) \/ LoopEnds(l)
      PROVE  /\ \A o \in Slots : op'[o].ok = op[o].ok
             /\ \A s \in settling' : \E r \in settling : r.what = s.what /\ r.m = s.m
  <2>1. \A o \in Slots : op'[o].ok = op[o].ok
    BY <1>0, <1>5, DisconnectedEffect DEF ReceiveFails, LoopEnds
  <2>2. QED
    BY <1>3, <1>5, <2>1 DEF ReceiveFails, LoopEnds, Disconnected
<1>6. ASSUME NEW l \in Loops, Receive(l)
      PROVE  settling' = settling /\ \A o \in Slots : op'[o].ok \subseteq handled
  <2>1. PICK o \in Slots : /\ \A p \in Slots \ {o} : op'[p] = op[p]
                           /\ op'[o].ok = {}
    BY <1>0, <1>6, ReceiveEffect
  <2>2. QED
    BY <1>0, <1>6, <2>1 DEF Receive
<1>7. ASSUME NEW o \in Slots, HandlerReturns(o)
      PROVE  settling' = settling /\ \A p \in Slots : op'[p].ok \subseteq handled'
  <2>1. PICK ok \in SUBSET op[o].batch :
          /\ op' \in [Slots -> OpRec] /\ \A p \in Slots \ {o} : op'[p] = op[p]
          /\ op'[o].pc = "settle" /\ op'[o].ok = ok
          /\ op'[o].batch = op[o].batch /\ op'[o].held = op[o].held
          /\ op'[o].loop = op[o].loop /\ op'[o].done = op[o].done
          /\ handled' = handled \cup ok
    BY <1>0, <1>7, ReturnsEffect
  <2>2. QED
    BY <1>0, <1>7, <2>1 DEF HandlerReturns
<1>8. ASSUME NEW o \in Slots, SettleNow(o)
      PROVE  settling' = settling /\ \A p \in Slots : op'[p].ok = op[p].ok
  BY <1>0, <1>8, SettleEffect DEF SettleNow
<1>9. ASSUME NEW o \in Slots, SettleLater(o) PROVE CompleteInv'
  <2>1. \A p \in Slots : op'[p].ok = op[p].ok
    BY <1>0, <1>9, SettleEffect
  <2>2. settling' = settling \cup {Settlement(o, m) : m \in op[o].batch}
    BY <1>9 DEF SettleLater
  <2>3. ASSUME NEW m \in op[o].batch, Settlement(o, m).what = "complete"
        PROVE  Settlement(o, m).m \in handled
    BY <1>0, <2>3, SettlementTyped
  <2>4. \A s \in settling' : s.what = "complete" => s.m \in handled
    BY <1>0, <2>2, <2>3
  <2>5. QED
    BY <1>0, <1>1, <2>1, <2>4 DEF CompleteInv
<1>10. ASSUME NEW o \in Slots, handleMessagesEnds(o)
       PROVE  settling' = settling /\ \A p \in Slots : op'[p].ok \subseteq handled
  BY <1>0, <1>10 DEF handleMessagesEnds, NoOp
<1>11. ASSUME NEW o \in Slots, TakeHandle(o) \/ NoHandle(o)
       PROVE  settling' = settling /\ \A p \in Slots : op'[p].ok = op[p].ok
  BY <1>0, <1>11 DEF TakeHandle, NoHandle, OpRec
<1>12. ASSUME \/ \E l \in Loops : Connect(l) \/ Acquire(l) \/ ReceiveSkips(l)
              \/ Cancel \/ UNCHANGED vars \/ \E s \in settling : SettlerRuns(s)
       PROVE  op' = op /\ settling' \subseteq settling
  BY <1>12 DEF Connect, Acquire, ReceiveSkips, Cancel, SettlerRuns, vars, subVars
<1>13. CASE settling' \subseteq settling /\ \A p \in Slots : op'[p].ok \subseteq handled'
  BY <1>2, <1>13
<1>14. CASE /\ \A o \in Slots : op'[o].ok = op[o].ok
            /\ \A s \in settling' : \E r \in settling : r.what = s.what /\ r.m = s.m
  BY <1>0, <1>1, <1>2, <1>14
<1>15. QED
  BY <1>0, <1>1, <1>4, <1>5, <1>6, <1>7, <1>8, <1>9, <1>10, <1>11, <1>12, <1>13, <1>14
  DEF Next, LoopStep, OpStep

LEMMA RestTyped ==
  ASSUME TypeInv, [Next]_vars
  PROVE  /\ active' \subseteq Messages /\ cancelled' \in BOOLEAN
         /\ early' \subseteq Messages /\ faults' \in 0 .. MaxFaults
<1>0. /\ msg \in [Messages -> States] /\ op \in [Slots -> OpRec]
      /\ settling \subseteq SettlementRec
      /\ active \subseteq Messages /\ cancelled \in BOOLEAN
      /\ early \subseteq Messages /\ faults \in 0 .. MaxFaults /\ MaxFaults \in Nat
  BY ConstantsAssumption DEF TypeInv, States
<1>1. cancelled' \in BOOLEAN
  BY <1>0 DEF Next, vars, subVars, LockExpires, LoopStep, Connect, Acquire, Receive, ReceiveSkips,
    ReceiveFails, LoopEnds, Cancel, OpStep, TakeHandle, NoHandle, HandlerReturns, SettleNow,
    SettleLater, handleMessagesEnds, SettlerRuns
<1>2. ASSUME NEW l \in Loops, NEW batch \in ReceiveMessages(l) PROVE batch \subseteq Messages
  BY DEF ReceiveMessages, Batches, Waiting
<1>3. active' \subseteq Messages
  BY <1>0, <1>2 DEF Next, vars, subVars, LockExpires, LoopStep, Connect, Acquire, Receive,
    ReceiveSkips, ReceiveFails, LoopEnds, Cancel, OpStep, TakeHandle, NoHandle, HandlerReturns,
    SettleNow, SettleLater, handleMessagesEnds, SettlerRuns
<1>4. early' \subseteq Messages
  <2>1. ASSUME NEW o \in Slots, TakeHandle(o) PROVE early' \subseteq Messages
    BY <1>0, <2>1 DEF TakeHandle, OpRec
  <2>2. CASE early' = early
    BY <1>0, <2>2
  <2>3. QED
    BY <2>1, <2>2 DEF Next, vars, subVars, histVars, LockExpires, LoopStep, Connect, Acquire,
      Receive, ReceiveSkips, ReceiveFails, LoopEnds, Cancel, OpStep, NoHandle, HandlerReturns,
      SettleNow, SettleLater, handleMessagesEnds, SettlerRuns
<1>5. faults' \in 0 .. MaxFaults
  <2>1. ASSUME NEW kind, Fault(kind) PROVE faults' \in 0 .. MaxFaults
    BY <1>0, <2>1 DEF Fault
  <2>2. ASSUME NEW s, Settle(s) PROVE faults' \in 0 .. MaxFaults
    BY <1>0, <2>1, <2>2 DEF Settle
  <2>3. CASE faults' = faults
    BY <1>0, <2>3
  <2>4. QED
    BY <2>1, <2>2, <2>3 DEF Next, vars, subVars, histVars, LockExpires, LoopStep, Connect, Acquire,
      Receive, ReceiveSkips, ReceiveFails, LoopEnds, Cancel, OpStep, TakeHandle, NoHandle,
      HandlerReturns, SettleNow, SettleLater, handleMessagesEnds, SettlerRuns
<1>6. QED
  BY <1>1, <1>3, <1>4, <1>5

LEMMA ActiveStep ==
  ASSUME TypeInv, LoopInv, ActiveInv, [Next]_vars
  PROVE  ActiveInv'
<1>0. /\ op \in [Slots -> OpRec] /\ settling \subseteq SettlementRec /\ config' = config
      /\ \A o \in Slots : op[o].pc = "free" => op[o].batch = {}
      /\ "batch" \notin config.failures => \A m \in active : \E o \in Slots : m \in op[o].batch
  BY ConfigFixed DEF TypeInv, ActiveInv, ActiveAreHandled
<1>1. ASSUME /\ \A o \in Slots : op'[o].pc = "free" => op'[o].batch = {}
             /\ "batch" \notin config.failures
                  => \A m \in active' : \E o \in Slots : m \in op'[o].batch
      PROVE  ActiveInv'
  BY <1>0, <1>1 DEF ActiveInv, ActiveAreHandled
<1>2. ASSUME /\ \A o \in Slots : /\ op'[o].batch = op[o].batch
                                 /\ op[o].pc # "free" => op'[o].pc # "free"
             /\ "batch" \in config.failures \/ active' = active
      PROVE  ActiveInv'
  BY <1>0, <1>1, <1>2
<1>3. ASSUME NEW l \in Loops, Receive(l) PROVE ActiveInv'
  <2>1. PICK batch \in ReceiveMessages(l), o \in Slots :
          /\ op' \in [Slots -> OpRec] /\ \A p \in Slots \ {o} : op'[p] = op[p]
          /\ op[o].pc = "free"
          /\ op'[o].pc = "wait" /\ op'[o].batch = batch /\ op'[o].held = batch
          /\ op'[o].loop = l /\ op'[o].done = FALSE /\ op'[o].ok = {}
          /\ msg' = Lock(batch) /\ active' = active \cup batch
          /\ batch \subseteq Messages
    BY <1>0, <1>3, ReceiveEffect
  <2>2. op[o].batch = {} /\ op'[o].batch = batch /\ op'[o].pc # "free" /\ active' = active \cup batch
    BY <1>0, <2>1
  <2>3. \A p \in Slots \ {o} : op'[p] = op[p]
    BY <2>1
  <2>4. QED
    BY <1>0, <1>1, <2>2, <2>3
<1>4. ASSUME NEW o \in Slots, handleMessagesEnds(o) PROVE ActiveInv'
  <2>1. op'[o] = NoOp /\ \A p \in Slots \ {o} : op'[p] = op[p]
    BY <1>4, EndsEffect
  <2>2. active' = active \ op[o].batch
    BY <1>4 DEF handleMessagesEnds
  <2>3. op'[o].batch = {}
    BY <2>1 DEF NoOp
  <2>4. QED
    BY <1>0, <1>1, <2>1, <2>2, <2>3
<1>5. ASSUME NEW m \in Messages, LockExpires(m)
      PROVE  active' = active /\ \A o \in Slots : op'[o].batch = op[o].batch /\ op'[o].pc = op[o].pc
  BY <1>0, <1>5 DEF LockExpires, LocksLost, OpRec
<1>6. ASSUME NEW l \in Loops, ReceiveFails(l) \/ LoopEnds(l)
      PROVE  active' = active /\ \A o \in Slots : op'[o].batch = op[o].batch /\ op'[o].pc = op[o].pc
  BY <1>0, <1>6, DisconnectedEffect DEF ReceiveFails, LoopEnds
<1>7. ASSUME NEW l \in Loops, ReceiveSkips(l) PROVE op' = op /\ "batch" \in config.failures
  BY <1>7 DEF ReceiveSkips, Fault
<1>8. ASSUME NEW o \in Slots, OpStep(o), ~handleMessagesEnds(o)
      PROVE  /\ active' = active
             /\ \A p \in Slots : /\ op'[p].batch = op[p].batch
                                 /\ op[p].pc # "free" => op'[p].pc # "free"
  BY <1>8, OpStays DEF OpStep
<1>9. ASSUME \/ \E l \in Loops : Connect(l) \/ Acquire(l)
             \/ Cancel \/ UNCHANGED vars \/ \E s \in settling : SettlerRuns(s)
      PROVE  op' = op /\ active' = active
  BY <1>9 DEF Connect, Acquire, Cancel, SettlerRuns, vars, subVars
<1>10. QED
  BY <1>2, <1>3, <1>4, <1>5, <1>6, <1>7, <1>8, <1>9 DEF Next, LoopStep

-----------------------------------------------------------------------------
(* The order of a session.                                                 *)

LEMMA OneElement ==
  ASSUME NEW S, S \subseteq Messages, NEW x \in S, Cardinality(S) <= 1
  PROVE  S = {x} /\ Cardinality(S) = 1
<1>1. IsFiniteSet(S)
  <2>1. IsFiniteSet(Messages)
    BY ConstantsAssumption, FS_Interval DEF Messages
  <2>2. QED
    BY <2>1, FS_Subset
<1>2. Cardinality(S) \in Nat /\ Cardinality(S) # 0
  BY <1>1, FS_CardinalityType, FS_EmptySet
<1>3. Cardinality(S) = 1
  BY <1>2
<1>4. \E y : S = {y}
  BY <1>1, <1>3, FS_Singleton
<1>5. QED
  BY <1>3, <1>4

LEMMA OrderedFixed ==
  ASSUME TypeInv, [Next]_vars
  PROVE  /\ Ordered' = Ordered
         /\ \A m \in Messages : Predecessors(m)' = Predecessors(m)
         /\ cancelled => cancelled'
<1>1. config' = config /\ RequireSessions' = RequireSessions /\ \A m : Session(m)' = Session(m)
  BY ConfigFixed
<1>2. cancelled => cancelled'
  BY DEF Next, vars, subVars, LockExpires, LoopStep, Connect, Acquire, Receive, ReceiveSkips,
    ReceiveFails, LoopEnds, Cancel, OpStep, TakeHandle, NoHandle, HandlerReturns, SettleNow,
    SettleLater, handleMessagesEnds, SettlerRuns
<1>3. Ordered' = Ordered
  BY <1>1 DEF Ordered
<1>4. QED
  BY <1>1, <1>2, <1>3 DEF Predecessors, Session, RequireSessions

\* The lock of a message that is being handled is renewed: it does not expire.
LEMMA NoExpiry ==
  ASSUME TypeInv, LoopInv, ChainInv, Ordered, NEW m \in Messages
  PROVE  ~LockExpires(m)
<1> SUFFICES ASSUME LockExpires(m) PROVE FALSE
  OBVIOUS
<1>1. PICK o \in Slots : op[o].pc \in Unsettled /\ m \in op[o].held
  BY DEF LockExpires, ChainInv
<1>2. Session(m) = loop[op[o].loop].session
  BY <1>1 DEF ChainInv
<1>3. op[o].loop \in Loops
  BY <1>1 DEF LoopInv, Busy, Unsettled
<1>4. Renewed(m)
  BY <1>2, <1>3 DEF Renewed, Ordered
<1>5. Fault("lock")
  BY <1>4 DEF LockExpires
<1>6. QED
  BY <1>5 DEF Fault, Ordered

\* What a loop receives is one message, and the app has handled all before it: one
\* that waits would have come first, one that is locked would be in a batch of this
\* very loop, which is not handling any.
LEMMA ReceivedInOrder ==
  ASSUME TypeInv, LoopInv, CompleteInv, ChainInv, Ordered,
         NEW l \in Loops, loop[l].pc = "receive", NEW batch \in ReceiveMessages(l)
  PROVE  /\ Cardinality(batch) = 1
         /\ \A m \in batch : Session(m) = loop[l].session /\ Predecessors(m) \subseteq handled
<1>1. PICK s : s = loop[l].session
  OBVIOUS
<1>2. /\ batch \in Batches(s) /\ Cardinality(batch) <= 1
  BY <1>1 DEF ReceiveMessages, Ordered
<1>3. PICK n \in Waiting(s) : batch = {m \in Waiting(s) : m <= n}
  BY <1>2 DEF Batches
<1>4. n \in Messages /\ n \in Nat /\ Session(n) = s
  BY <1>3 DEF Waiting, Messages
<1>5. n \in batch /\ batch \subseteq Messages
  BY <1>3, <1>4 DEF Waiting
<1>6. batch = {n} /\ Cardinality(batch) = 1
  BY <1>2, <1>5, OneElement
<1>7. ASSUME NEW k \in Predecessors(n) PROVE k \in handled
  <2>1. k \in 1 .. n - 1 /\ Session(k) = s
    BY <1>4 DEF Predecessors
  <2>2. k \in Messages /\ k <= n /\ k # n
    BY <1>4, <2>1, ConstantsAssumption DEF Messages
  <2>3. msg[k] # "waiting"
    BY <1>3, <1>6, <2>1, <2>2 DEF Waiting
  <2>4. msg[k] # "locked"
    <3> SUFFICES ASSUME msg[k] = "locked" PROVE FALSE
      OBVIOUS
    <3>1. PICK o \in Slots : op[o].pc \in Unsettled /\ k \in op[o].held
      BY <2>2 DEF ChainInv
    <3>2. Session(k) = loop[op[o].loop].session
      BY <3>1 DEF ChainInv
    <3>3. op[o].loop \in Loops /\ loop[op[o].loop].pc = "handling"
      BY <3>1 DEF LoopInv, Busy, Unsettled, Ordered
    <3>4. op[o].loop = l
      BY <1>1, <2>1, <3>2, <3>3 DEF ChainInv, Connected
    <3>5. QED
      BY <3>3, <3>4
  <2>5. msg[k] = "done"
    BY <2>2, <2>3, <2>4 DEF TypeInv
  <2>6. QED
    BY <2>2, <2>5 DEF CompleteInv, CompletedWereHandled
<1>8. QED
  BY <1>1, <1>4, <1>6, <1>7

\* Sessions keep one loop each, and a loop keeps its session while it handles a batch.
LEMMA LoopChain ==
  ASSUME TypeInv, LoopInv, ChainInv, Ordered, ~cancelled', [Next]_vars
  PROVE  /\ \A l, k \in Loops :
              /\ loop'[l].pc \in Connected /\ loop'[k].pc \in Connected
              /\ loop'[l].session = loop'[k].session
              => l = k
         /\ \A l \in Loops : loop[l].pc = "handling" => loop'[l].session = loop[l].session
<1>0. /\ loop \in [Loops -> LoopRec] /\ op \in [Slots -> OpRec]
      /\ \A l, k \in Loops :
           /\ loop[l].pc \in Connected /\ loop[k].pc \in Connected
           /\ loop[l].session = loop[k].session
           => l = k
      /\ ~cancelled
  BY OrderedFixed DEF TypeInv, ChainInv
<1>1. ASSUME \A l \in Loops : loop'[l].pc \in Connected
               => loop[l].pc \in Connected /\ loop'[l].session = loop[l].session
      PROVE  \A l, k \in Loops :
               /\ loop'[l].pc \in Connected /\ loop'[k].pc \in Connected
               /\ loop'[l].session = loop'[k].session
               => l = k
  BY <1>0, <1>1
<1>2. ASSUME NEW l \in Loops, Connect(l)
      PROVE  /\ \A j, k \in Loops :
                  /\ loop'[j].pc \in Connected /\ loop'[k].pc \in Connected
                  /\ loop'[j].session = loop'[k].session
                  => j = k
             /\ \A k \in Loops : loop[k].pc = "handling" => loop'[k].session = loop[k].session
  <2>1. PICK s \in Sessions :
          /\ \A k \in Loops : loop[k].session # s
          /\ loop' = [loop EXCEPT ![l] = [pc |-> "acquire", session |-> s]]
    BY <1>2 DEF Connect
  <2>2. loop[l].pc = "connect"
    BY <1>2 DEF Connect
  <2>3. loop'[l].session = s /\ \A k \in Loops \ {l} : loop'[k] = loop[k]
    BY <1>0, <2>1
  <2>4. QED
    BY <1>0, <2>1, <2>2, <2>3
<1>3. ASSUME NEW l \in Loops, Acquire(l) \/ Receive(l)
      PROVE  \A k \in Loops : /\ loop'[k].session = loop[k].session
                              /\ loop'[k].pc \in Connected => loop[k].pc \in Connected
  BY <1>0, <1>3 DEF Acquire, Receive, LoopRec, Connected
<1>4. ASSUME NEW l \in Loops, ReceiveFails(l)
      PROVE  /\ loop[l].pc # "handling" /\ loop'[l].pc \notin Connected
             /\ \A k \in Loops \ {l} : loop'[k] = loop[k]
  BY <1>0, <1>4 DEF ReceiveFails, Disconnected, Connected
<1>5. \A l \in Loops : ~ReceiveSkips(l) /\ ~LoopEnds(l)
  BY <1>0 DEF ReceiveSkips, Fault, LoopEnds, Ordered
<1>6. ASSUME NEW o \in Slots, handleMessagesEnds(o)
      PROVE  \A k \in Loops : /\ loop'[k].session = loop[k].session
                              /\ loop'[k].pc \in Connected => loop[k].pc \in Connected
  <2>1. /\ RequireSessions => loop[op[o].loop].pc = "handling"
        /\ \A l \in Loops : /\ loop'[l].session = loop[l].session
                            /\ l # op[o].loop \/ ~RequireSessions => loop'[l] = loop[l]
    BY <1>6, EndsEffect
  <2>2. QED
    BY <2>1 DEF Connected
<1>7. ASSUME \/ \E m \in Messages : LockExpires(m)
             \/ \E o \in Slots : OpStep(o) /\ ~handleMessagesEnds(o)
             \/ Cancel \/ UNCHANGED vars \/ \E s \in settling : SettlerRuns(s)
      PROVE  loop' = loop
  BY <1>7, OpStays DEF LockExpires, OpStep, Cancel, SettlerRuns, vars, subVars
<1>8. QED
  BY <1>1, <1>2, <1>3, <1>4, <1>5, <1>6, <1>7 DEF Next, LoopStep

\* The batches under way and the locked messages stay in step.
LEMMA ChainStep ==
  ASSUME TypeInv, LoopInv, CompleteInv, OrderInv, Ordered, ~cancelled', [Next]_vars
  PROVE  ChainInv'
<1>0. /\ loop \in [Loops -> LoopRec] /\ op \in [Slots -> OpRec] /\ settling = {}
      /\ msg \in [Messages -> States] /\ faults \in 0 .. MaxFaults /\ MaxFaults \in Nat
      /\ ~cancelled /\ ChainInv
  BY OrderedFixed, ConstantsAssumption DEF TypeInv, States, OrderInv
<1>1. \A m : Session(m)' = Session(m)
  BY ConfigFixed
<1>2. /\ \A l, k \in Loops :
           /\ loop'[l].pc \in Connected /\ loop'[k].pc \in Connected
           /\ loop'[l].session = loop'[k].session
           => l = k
      /\ \A l \in Loops : loop[l].pc = "handling" => loop'[l].session = loop[l].session
  BY <1>0, LoopChain
<1> DEFINE
      Going(p) == ~op'[p].done /\ op'[p].pc # "unhandled"
      Holding(p) == /\ op'[p].held = op'[p].batch
                    /\ \A m \in op'[p].batch : Session(m) = loop'[op'[p].loop].session
      Covered(m) == \E p \in Slots : op'[p].pc \in Unsettled /\ m \in op'[p].held
<1>3. ASSUME \A p \in Slots : op'[p].pc # "free" => Going(p),
             \A p \in Slots : op'[p].pc \in Unsettled => Holding(p),
             \A m \in Messages : msg'[m] = "locked" => Covered(m)
      PROVE  ChainInv'
  BY <1>1, <1>2, <1>3 DEF ChainInv, Busy
<1>4. \A p \in Slots : op[p].pc # "free" =>
        /\ op[p].loop \in Loops /\ loop[op[p].loop].pc = "handling"
        /\ ~op[p].done /\ op[p].pc # "unhandled"
        /\ loop'[op[p].loop].session = loop[op[p].loop].session
  BY <1>0, <1>2 DEF LoopInv, ChainInv, Busy, Ordered
<1>5. \A p \in Slots : op[p].pc \in Unsettled =>
        /\ op[p].held = op[p].batch
        /\ \A m \in op[p].batch : Session(m) = loop'[op[p].loop].session
  BY <1>0, <1>4 DEF ChainInv, Unsettled
<1>6. \A m \in Messages : msg[m] = "locked" =>
        \E p \in Slots : op[p].pc \in Unsettled /\ m \in op[p].held
  BY <1>0 DEF ChainInv
\* A step that touches no batch under way and locks nothing.
<1>7. ASSUME \A p \in Slots : op[p].pc # "free" => op'[p] = op[p],
             \A p \in Slots : op[p].pc = "free" => op'[p].pc = "free",
             \A m \in Messages : msg'[m] = "locked" => msg[m] = "locked"
      PROVE  ChainInv'
  <2>1. \A p \in Slots : op'[p].pc # "free" => Going(p)
    BY <1>4, <1>7
  <2>2. \A p \in Slots : op'[p].pc \in Unsettled => Holding(p)
    BY <1>5, <1>7 DEF Unsettled
  <2>3. \A m \in Messages : msg'[m] = "locked" => Covered(m)
    BY <1>6, <1>7 DEF Unsettled
  <2>4. QED
    BY <1>3, <2>1, <2>2, <2>3
<1>8. ASSUME NEW l \in Loops, Receive(l) PROVE ChainInv'
  <2>1. PICK batch \in ReceiveMessages(l), o \in Slots :
          /\ op' \in [Slots -> OpRec] /\ \A p \in Slots \ {o} : op'[p] = op[p]
          /\ op[o].pc = "free"
          /\ op'[o].pc = "wait" /\ op'[o].batch = batch /\ op'[o].held = batch
          /\ op'[o].loop = l /\ op'[o].done = FALSE /\ op'[o].ok = {}
          /\ msg' = Lock(batch) /\ active' = active \cup batch
          /\ batch \subseteq Messages
    BY <1>0, <1>8, ReceiveEffect
  <2>2. loop[l].pc = "receive" /\ loop'[l].session = loop[l].session
    BY <1>0, <1>8 DEF Receive, LoopRec
  <2>3. \A m \in batch : Session(m) = loop[l].session
    BY <1>0, <2>2, ReceivedInOrder
  <2>4. \A p \in Slots : op'[p].pc # "free" => Going(p)
    <3>1. Going(o)
      BY <2>1
    <3>2. QED
      BY <1>4, <2>1, <3>1
  <2>5. \A p \in Slots : op'[p].pc \in Unsettled => Holding(p)
    <3>1. Holding(o)
      BY <2>1, <2>2, <2>3
    <3>2. QED
      BY <1>5, <2>1, <3>1
  <2>6. \A m \in Messages : msg'[m] = "locked" => Covered(m)
    <3> SUFFICES ASSUME NEW m \in Messages, msg'[m] = "locked" PROVE Covered(m)
      OBVIOUS
    <3>1. CASE m \in batch
      BY <2>1, <3>1 DEF Unsettled
    <3>2. CASE m \notin batch
      <4>1. msg[m] = "locked"
        BY <2>1, <3>2 DEF Lock
      <4>2. PICK p \in Slots : op[p].pc \in Unsettled /\ m \in op[p].held
        BY <1>6, <4>1
      <4>3. QED
        BY <2>1, <4>2 DEF Unsettled
    <3>3. QED
      BY <3>1, <3>2
  <2>7. QED
    BY <1>3, <2>4, <2>5, <2>6
<1>9. ASSUME NEW l \in Loops, ReceiveFails(l) PROVE ChainInv'
  <2>1. /\ loop[l].pc = "receive"
        /\ \A m \in Messages : msg'[m] = "locked" => msg[m] = "locked"
    BY <1>9 DEF ReceiveFails, Disconnected
  <2>2. \A p \in Slots : op'[p].pc = op[p].pc /\ (op[p].loop # l => op'[p] = op[p])
    BY <1>0, <1>9, DisconnectedEffect DEF ReceiveFails
  <2>3. \A p \in Slots : op[p].pc # "free" => op[p].loop # l
    BY <1>4, <2>1
  <2>4. QED
    BY <1>7, <2>1, <2>2, <2>3
<1>10. ASSUME NEW o \in Slots, TakeHandle(o) \/ HandlerReturns(o)
       PROVE  ChainInv'
  <2>1. /\ \A p \in Slots \ {o} : op'[p] = op[p]
        /\ op[o].pc \in Unsettled /\ op'[o].pc \in Unsettled
        /\ op'[o].batch = op[o].batch /\ op'[o].held = op[o].held
        /\ op'[o].loop = op[o].loop /\ op'[o].done = op[o].done
    <3>1. CASE TakeHandle(o)
      BY <1>0, <3>1 DEF TakeHandle, OpRec, Unsettled
    <3>2. CASE HandlerReturns(o)
      <4>1. op[o].pc = "handler"
        BY <3>2 DEF HandlerReturns
      <4>2. QED
        BY <1>0, <3>2, <4>1, ReturnsEffect DEF Unsettled
    <3>3. QED
      BY <1>10, <3>1, <3>2
  <2>2. msg' = msg
    BY <1>10 DEF TakeHandle, HandlerReturns
  <2>3. \A p \in Slots : op'[p].pc # "free" => Going(p)
    BY <1>4, <2>1 DEF Unsettled
  <2>4. \A p \in Slots : op'[p].pc \in Unsettled => Holding(p)
    BY <1>5, <2>1
  <2>5. \A m \in Messages : msg'[m] = "locked" => Covered(m)
    BY <1>6, <2>1, <2>2
  <2>6. QED
    BY <1>3, <2>3, <2>4, <2>5
<1>11. ASSUME NEW o \in Slots, SettleNow(o) PROVE ChainInv'
  <2>1. /\ \A p \in Slots \ {o} : op'[p] = op[p]
        /\ op'[o].pc = "release" /\ op'[o].done = op[o].done
        /\ op[o].pc = "settle"
    BY <1>0, <1>11, SettleEffect
  <2>2. PICK m \in op[o].batch : Settle(Settlement(o, m))
    BY <1>11 DEF SettleNow
  <2>3. op[o].held = op[o].batch /\ op[o].batch \subseteq Messages
    BY <1>0, <1>5, <2>1 DEF Unsettled, OpRec
  <2>4. Cardinality(op[o].batch) <= 1
    BY <1>11 DEF SettleNow, SettledInPlace
  <2>5. op[o].held = {m}
    BY <2>2, <2>3, <2>4, OneElement
  <2>6. /\ Settlement(o, m) \in SettlementRec
        /\ Settlement(o, m).m = m /\ Settlement(o, m).held
    BY <1>0, <2>5, SettlementTyped
  <2>7. /\ \A n \in Messages : n # m => msg'[n] = msg[n]
        /\ msg'[m] # "locked"
    BY <1>0, <2>2, <2>6, SettleMsg DEF Ordered
  <2>8. \A p \in Slots : op'[p].pc # "free" => Going(p)
    BY <1>4, <2>1
  <2>9. \A p \in Slots : op'[p].pc \in Unsettled => Holding(p)
    BY <1>5, <2>1 DEF Unsettled
  <2>10. \A n \in Messages : msg'[n] = "locked" => Covered(n)
    <3> SUFFICES ASSUME NEW n \in Messages, msg'[n] = "locked" PROVE Covered(n)
      OBVIOUS
    <3>1. n # m /\ msg[n] = "locked"
      BY <2>7
    <3>2. PICK p \in Slots : op[p].pc \in Unsettled /\ n \in op[p].held
      BY <1>6, <3>1
    <3>3. p # o
      BY <2>5, <3>1, <3>2
    <3>4. QED
      BY <2>1, <3>2, <3>3
  <2>11. QED
    BY <1>3, <2>8, <2>9, <2>10
<1>12. ASSUME NEW o \in Slots, SettleLater(o) PROVE FALSE
  <2>1. o \in Busy
    BY <1>12 DEF SettleLater, Busy
  <2>2. Cardinality(op[o].batch) = 1
    BY <2>1 DEF OrderInv
  <2>3. QED
    BY <1>12, <2>2 DEF SettleLater, SettledInPlace, Ordered
<1>13. ASSUME NEW o \in Slots, NoHandle(o) PROVE FALSE
  BY <1>0, <1>4, <1>13 DEF NoHandle
<1>14. ASSUME NEW o \in Slots, handleMessagesEnds(o) PROVE ChainInv'
  <2>1. op'[o] = NoOp /\ \A p \in Slots \ {o} : op'[p] = op[p]
    BY <1>14, EndsEffect
  <2>2. op[o].pc \in {"release", "unhandled"} /\ msg' = msg
    BY <1>14 DEF handleMessagesEnds
  <2>3. op'[o].pc = "free"
    BY <2>1 DEF NoOp
  <2>4. \A p \in Slots : op'[p].pc # "free" => Going(p)
    BY <1>4, <2>1, <2>3
  <2>5. \A p \in Slots : op'[p].pc \in Unsettled => Holding(p)
    BY <1>5, <2>1, <2>3 DEF Unsettled
  <2>6. \A m \in Messages : msg'[m] = "locked" => Covered(m)
    BY <1>6, <2>1, <2>2 DEF Unsettled
  <2>7. QED
    BY <1>3, <2>4, <2>5, <2>6
<1>15. /\ \A m \in Messages : ~LockExpires(m)
       /\ \A l \in Loops : ~ReceiveSkips(l) /\ ~LoopEnds(l)
  BY <1>0, NoExpiry DEF ReceiveSkips, Fault, LoopEnds, Ordered
<1>16. ASSUME \/ \E l \in Loops : Connect(l) \/ Acquire(l)
              \/ Cancel \/ UNCHANGED vars \/ \E s \in settling : SettlerRuns(s)
       PROVE  ChainInv'
  <2>1. op' = op /\ msg' = msg
    BY <1>0, <1>16 DEF Connect, Acquire, Cancel, vars, subVars
  <2>2. QED
    BY <1>7, <2>1
<1>17. QED
  BY <1>8, <1>9, <1>10, <1>11, <1>12, <1>13, <1>14, <1>15, <1>16 DEF Next, LoopStep, OpStep

LEMMA OrderStep ==
  ASSUME TypeInv, LoopInv, CompleteInv, OrderInv, [Next]_vars
  PROVE  OrderInv'
<1> SUFFICES ASSUME Ordered' PROVE OrderInv'
  BY DEF OrderInv
<1>0. /\ Ordered /\ settling = {} /\ early = {} /\ op \in [Slots -> OpRec]
      /\ handled \subseteq handled'
      /\ \A m \in Messages : Predecessors(m)' = Predecessors(m)
  BY OrderedFixed, MsgStep DEF OrderInv, TypeInv
<1>1. ~cancelled' => ChainInv'
  BY <1>0, ChainStep
<1>2. \A o \in Slots : op[o].pc # "free" =>
        /\ Cardinality(op[o].batch) = 1 /\ op[o].batch \subseteq Messages
        /\ \A m \in op[o].batch : Predecessors(m) \subseteq handled
  BY <1>0 DEF OrderInv, Busy, OpRec
<1>3. settling' = {}
  <2>1. \A o \in Slots : ~SettleLater(o)
    BY <1>0, <1>2 DEF SettleLater, SettledInPlace, Ordered
  <2>2. QED
    BY <1>0, <2>1 DEF Next, vars, subVars, LockExpires, LocksLost, LoopStep, Connect, Acquire,
      Receive, ReceiveSkips, ReceiveFails, LoopEnds, Disconnected, Cancel, OpStep, TakeHandle,
      NoHandle, HandlerReturns, SettleNow, handleMessagesEnds, SettlerRuns
<1>4. early' = {}
  <2>1. ASSUME NEW o \in Slots, TakeHandle(o) PROVE early' = {}
    <3>1. op[o].pc # "free"
      BY <2>1 DEF TakeHandle
    <3>2. \A m \in op[o].batch : \A n \in 1 .. m - 1 : Session(n) = Session(m) => n \in handled
      BY <1>2, <3>1 DEF Predecessors
    <3>3. QED
      BY <1>0, <2>1, <3>2 DEF TakeHandle
  <2>2. CASE early' = early
    BY <1>0, <2>2
  <2>3. QED
    BY <2>1, <2>2 DEF Next, vars, subVars, histVars, LockExpires, LoopStep, Connect, Acquire,
      Receive, ReceiveSkips, ReceiveFails, LoopEnds, Cancel, OpStep, NoHandle, HandlerReturns,
      SettleNow, SettleLater, handleMessagesEnds, SettlerRuns
<1>5. \A o \in Slots : op'[o].pc # "free" =>
        /\ Cardinality(op'[o].batch) = 1
        /\ \A m \in op'[o].batch : Predecessors(m)' \subseteq handled'
  <2>1. ASSUME NEW l \in Loops, Receive(l),
               NEW q \in Slots, op'[q].pc # "free"
        PROVE  /\ Cardinality(op'[q].batch) = 1 /\ op'[q].batch \subseteq Messages
               /\ \A m \in op'[q].batch : Predecessors(m) \subseteq handled
    <3>1. PICK batch \in ReceiveMessages(l), o \in Slots :
            /\ op' \in [Slots -> OpRec] /\ \A p \in Slots \ {o} : op'[p] = op[p]
            /\ op[o].pc = "free"
            /\ op'[o].pc = "wait" /\ op'[o].batch = batch /\ op'[o].held = batch
            /\ op'[o].loop = l /\ op'[o].done = FALSE /\ op'[o].ok = {}
            /\ msg' = Lock(batch) /\ active' = active \cup batch
            /\ batch \subseteq Messages
      BY <1>0, <2>1, ReceiveEffect
    <3>2. loop[l].pc = "receive" /\ ~cancelled
      BY <2>1 DEF Receive
    <3>3. ChainInv
      BY <1>0, <3>2 DEF OrderInv
    <3>4. /\ Cardinality(batch) = 1
          /\ \A m \in batch : Predecessors(m) \subseteq handled
      BY <1>0, <3>2, <3>3, ReceivedInOrder
    <3>5. CASE q = o
      BY <3>1, <3>4, <3>5
    <3>6. CASE q # o
      BY <1>2, <2>1, <3>1, <3>6
    <3>7. QED
      BY <3>5, <3>6
  <2>2. ASSUME \A l \in Loops : ~Receive(l)
        PROVE  \A o \in Slots : op'[o].pc # "free" =>
                 op[o].pc # "free" /\ op'[o].batch = op[o].batch
    <3>0. settling \subseteq SettlementRec
      BY DEF TypeInv
    <3>1. ASSUME NEW m \in Messages, LockExpires(m)
          PROVE  \A o \in Slots : op'[o].batch = op[o].batch /\ op'[o].pc = op[o].pc
      BY <1>0, <3>1 DEF LockExpires, LocksLost, OpRec
    <3>2. ASSUME NEW l \in Loops, ReceiveFails(l) \/ LoopEnds(l)
          PROVE  \A o \in Slots : op'[o].batch = op[o].batch /\ op'[o].pc = op[o].pc
      BY <1>0, <3>0, <3>2, DisconnectedEffect DEF ReceiveFails, LoopEnds
    <3>3. ASSUME NEW o \in Slots, OpStep(o), ~handleMessagesEnds(o)
          PROVE  \A p \in Slots : op'[p].pc # "free" =>
                   op[p].pc # "free" /\ op'[p].batch = op[p].batch
      BY <3>3, OpStays DEF OpStep
    <3>4. ASSUME NEW o \in Slots, handleMessagesEnds(o)
          PROVE  \A p \in Slots : op'[p].pc # "free" => op'[p] = op[p]
      BY <1>0, <3>4 DEF handleMessagesEnds, NoOp
    <3>5. ASSUME \/ \E l \in Loops : Connect(l) \/ Acquire(l) \/ ReceiveSkips(l)
                 \/ Cancel \/ UNCHANGED vars \/ \E s \in settling : SettlerRuns(s)
          PROVE  op' = op
      BY <3>5 DEF Connect, Acquire, ReceiveSkips, Cancel, SettlerRuns, vars, subVars
    <3>6. QED
      BY <2>2, <3>1, <3>2, <3>3, <3>4, <3>5 DEF Next, LoopStep
  <2>3. CASE \A l \in Loops : ~Receive(l)
    BY <1>0, <1>2, <2>2, <2>3
  <2>4. CASE \E l \in Loops : Receive(l)
    BY <1>0, <2>1, <2>4
  <2>5. QED
    BY <2>3, <2>4
<1>6. QED
  BY <1>1, <1>3, <1>4, <1>5 DEF OrderInv, Busy

-----------------------------------------------------------------------------
(* The theorems.                                                           *)

LEMMA InitIInv == Init => IInv
<1> SUFFICES ASSUME Init PROVE IInv
  OBVIOUS
<1>1. /\ config \in Configs /\ config \in Config
      /\ MaxFaults \in Nat
  BY ConstantsAssumption DEF Init
<1>2. NoOp \in OpRec /\ NoOp.pc = "free" /\ NoOp.batch = {} /\ NoOp.ok = {}
  BY DEF NoOp, OpRec
<1>3. \A o \in Slots : op[o] = NoOp
  BY DEF Init
<1>4. TypeInv
  <2>1. loop \in [Loops -> LoopRec]
    BY DEF Init, LoopRec
  <2>2. op \in [Slots -> OpRec]
    BY <1>2 DEF Init
  <2>3. /\ msg \in [Messages -> {"waiting", "locked", "done"}]
        /\ settling \subseteq SettlementRec /\ cancelled \in BOOLEAN
        /\ active \subseteq Messages /\ handled \subseteq Messages /\ early \subseteq Messages
    BY DEF Init
  <2>4. tokens \in Nat /\ handles \in Nat /\ faults \in 0 .. MaxFaults
    BY <1>1 DEF Init
  <2>5. QED
    BY <1>1, <2>1, <2>2, <2>3, <2>4 DEF TypeInv
<1>5. Receivers = {} /\ Busy = {} /\ Handling = {}
  BY <1>2, <1>3 DEF Init, Receivers, Busy, Handling
<1>6. LoopInv
  BY <1>5 DEF LoopInv
<1>7. TokenInv
  <2>1. tokens = 0 /\ Cardinality(Receivers) = 0 /\ Cardinality(Busy) = 0
    BY <1>5, FS_EmptySet DEF Init
  <2>2. MaxOperations \in Nat
    BY <1>4, MaxOperationsNat
  <2>3. IsFiniteSet(Receivers) /\ IsFiniteSet(Busy)
    BY <1>5, FS_EmptySet
  <2>4. tokens = Cardinality(Receivers) + Cardinality(Busy) /\ tokens <= MaxOperations
    BY <2>1, <2>2
  <2>5. QED
    BY <2>3, <2>4 DEF TokenInv
<1>8. HandleInv
  <2>1. IsFiniteSet(Handling) /\ handles = Cardinality(Handling) /\ handles = 0
    BY <1>5, FS_EmptySet DEF Init
  <2>2. QED
    BY <1>1, <2>1 DEF HandleInv, Config
<1>9. ActiveInv
  BY <1>2, <1>3 DEF Init, ActiveInv, ActiveAreHandled
<1>10. CompleteInv
  BY <1>2, <1>3 DEF Init, CompleteInv, CompletedWereHandled
<1>11. OrderInv
  <2>1. ChainInv
    BY <1>2, <1>3, <1>5 DEF Init, ChainInv, Connected, Unsettled
  <2>2. QED
    BY <1>5, <2>1 DEF Init, OrderInv
<1>12. QED
  BY <1>4, <1>6, <1>7, <1>8, <1>9, <1>10, <1>11 DEF IInv

LEMMA StepIInv == IInv /\ [Next]_vars => IInv'
<1> SUFFICES ASSUME IInv, [Next]_vars PROVE IInv'
  OBVIOUS
<1>0. TypeInv /\ LoopInv /\ TokenInv /\ HandleInv /\ ActiveInv /\ CompleteInv /\ OrderInv
  BY DEF IInv
<1>1. TypeInv'
  <2>1. config' \in Configs /\ Sessions' = Sessions
    BY <1>0, ConfigFixed DEF TypeInv
  <2>2. loop' \in [Loops -> LoopRec']
    BY <1>0, <2>1, LoopTyped DEF LoopRec
  <2>3. op' \in [Slots -> OpRec] /\ settling' \subseteq SettlementRec
    BY <1>0, OpTyped
  <2>4. tokens' \in Nat /\ handles' \in Nat
    BY <1>0, TokenStep, HandleStep
  <2>5. msg' \in [Messages -> {"waiting", "locked", "done"}] /\ handled' \subseteq Messages
    BY <1>0, MsgStep DEF States
  <2>6. QED
    BY <1>0, <2>1, <2>2, <2>3, <2>4, <2>5, RestTyped DEF TypeInv
<1>2. QED
  BY <1>0, <1>1, LoopStepInv, TokenStep, HandleStep, ActiveStep, CompleteStep, OrderStep DEF IInv

\* The inductive invariant holds in every reachable state.
THEOREM Invariance == Spec => []IInv
  BY InitIInv, StepIInv, PTL DEF Spec

\* Types, and the two limits the channels enforce: no more operations than
\* activeOperationsChan has room for, no more handlers than handleChan has.
THEOREM TypeCorrect == Spec => []TypeOK
<1>1. IInv => TypeOK
  <2> SUFFICES ASSUME IInv PROVE TypeOK
    OBVIOUS
  <2>1. tokens \in 0 .. MaxOperations
    BY MaxOperationsNat DEF IInv, TypeInv, TokenInv
  <2>2. QED
    BY <2>1 DEF IInv, TypeInv, HandleInv, TypeOK, LoopRec, OpRec, SettlementRec
<1>2. QED
  BY <1>1, Invariance, PTL

\* On every path through the receiver loops and handleMessages, errors and early
\* returns included, tokens, handles and active messages are exactly those of the
\* work under way.
THEOREM WorkAccounted == Spec => []Accounted
<1>1. IInv => Accounted
  BY DEF IInv, TokenInv, HandleInv, ActiveInv, Accounted, TokensAccounted, Receivers, Busy, Handling
<1>2. QED
  BY <1>1, Invariance, PTL

\* A message is completed only after the app has handled it, and those of a session
\* are handled in order.
THEOREM CompletedOrderly == Spec => []CompletedInOrder
<1>1. IInv => CompletedInOrder
  BY DEF IInv, CompleteInv, OrderInv, Ordered, CompletedInOrder, SessionOrder
<1>2. QED
  BY <1>1, Invariance, PTL
=============================================================================
