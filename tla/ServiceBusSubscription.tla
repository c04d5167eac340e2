------------------------ MODULE ServiceBusSubscription ------------------------
(***************************************************************************)
(* common/component/azure/servicebus/subscription.go, with the reconnect   *)
(* loops of pubsub/azure/servicebus/topics/servicebus.go around it.        *)
(*                                                                         *)
(* A receiver loop takes a token of activeOperationsChan, receives a batch *)
(* of locked messages and hands it to handleMessages: in a goroutine of    *)
(* its own or, with sessions, in the loop itself.  The messages of a batch *)
(* are in activeMessages, whose locks the renewal loop keeps, until        *)
(* handleMessages ends.  The messages of a bulk batch are completed and    *)
(* abandoned by goroutines nobody waits for.                               *)
(*                                                                         *)
(* The broker is external: a message waits, is locked for its latest       *)
(* delivery, or is done.  A delivery knows whether the lock is still its   *)
(* own.  Without sessions there is one loop and everything belongs to one  *)
(* session.                                                                *)
(*                                                                         *)
(* An operator D_Slip before a definition D is D with a plausible slip,    *)
(* kept to show that some property fails with it.                          *)
(***************************************************************************)
EXTENDS Naturals, FiniteSets

CONSTANTS
  MaxMessages,  \* the messages are 1 .. MaxMessages, in broker order
  SessionOf,    \* SessionOf[m]: the session of message m
  Loops,        \* goroutines that can be in ReceiveBlocking
  Configs,      \* the subscriptions to look at, see Config
  MaxFaults,    \* bound: failures
  NoSession, AnySession

FaultKinds == {"receive", "settle", "lock", "batch", "handler"}

\* A subscription: its options, as NewSubscription corrects them (maxHandlers 0 is no
\* limit), the number of its loops (maxConcurrentSessions), and what may fail.
Config == [requireSessions : BOOLEAN, maxActive : Nat, maxBulk : Nat \ {0},
           maxHandlers : Nat, loops : SUBSET Loops, failures : SUBSET FaultKinds]

ASSUME ConstantsAssumption ==
  /\ MaxMessages \in Nat /\ MaxFaults \in Nat
  /\ Configs \subseteq Config
  /\ \A c \in Configs : /\ c.maxBulk <= c.maxActive
                        /\ ~c.requireSessions => Cardinality(c.loops) = 1

Messages == 1 .. MaxMessages

\* Names for the handleMessages calls under way.
Slots == UNION {1 .. (c.maxActive \div c.maxBulk) : c \in Configs}

VARIABLES
  config,    \* the options of the subscription
  msg,       \* msg[m]: "waiting", "locked" or "done"
  loop,      \* loop[l]: pc and session of a receiver loop
  tokens,    \* len(activeOperationsChan)
  handles,   \* len(handleChan)
  active,    \* the keys of activeMessages
  op,        \* op[o]: the handleMessages calls under way
  settling,  \* completions and abandonments not sent yet
  cancelled, \* the subscription's context is done
  \* history
  handled,   \* messages the app handled without error
  early,     \* messages handled before an earlier unhandled one of their session
  faults

subVars == <<config, loop, tokens, handles, active, op, settling, cancelled>>
histVars == <<handled, early, faults>>
vars == <<msg, subVars, histVars>>

RequireSessions == config.requireSessions
Session(m) == IF RequireSessions THEN SessionOf[m] ELSE AnySession
Sessions == {Session(m) : m \in Messages}

\* cap(activeOperationsChan)
MaxOperations == config.maxActive \div config.maxBulk

\* A handleMessages call: its messages, those of them whose lock it holds, the loop
\* it was called from, whether its context is done, and the messages handled well.
NoOp == [pc |-> "free", batch |-> {}, held |-> {}, loop |-> NoSession,
         done |-> FALSE, ok |-> {}]

Fault(kind) == kind \in config.failures /\ faults < MaxFaults /\ faults' = faults + 1

\* The deliveries of the messages in M no longer hold their locks.
LocksLost(M) ==
  /\ op' = [o \in Slots |-> [op[o] EXCEPT !.held = @ \ M]]
  /\ settling' = {[s EXCEPT !.held = @ /\ s.m \notin M] : s \in settling}

-----------------------------------------------------------------------------
(* The broker.                                                             *)

\* renewLocksBlocking renews the lock of every active message or, with sessions,
\* that of the session.
Renewed(m) == IF RequireSessions THEN \E l \in Loops : loop[l].session = Session(m)
              ELSE m \in active

\* A renewed lock is lost only if a renewal fails or comes late.  A lock that is not
\* renewed runs out, though not before a settlement that is being sent arrives.
LockExpires(m) ==
  /\ msg[m] = "locked"
  /\ IF Renewed(m) \/ \E s \in settling : s.m = m /\ s.held
     THEN Fault("lock")
     ELSE UNCHANGED faults
  /\ msg' = [msg EXCEPT ![m] = "waiting"]
  /\ LocksLost({m})
  /\ UNCHANGED <<loop, tokens, handles, active, cancelled, config, handled, early>>

Waiting(s) == {m \in Messages : Session(m) = s /\ msg[m] = "waiting"}

\* The messages ReceiveMessages can return: the first few that are waiting.
Batches(s) == {{m \in Waiting(s) : m <= n} : n \in Waiting(s)}

ReceiveMessages(l) == {batch \in Batches(loop[l].session) : Cardinality(batch) <= config.maxBulk}

Lock(batch) == [m \in Messages |-> IF m \in batch THEN "locked" ELSE msg[m]]

\* What closing the receiver of session s unlocks.
Unlocked(s) == {m \in Messages : RequireSessions /\ Session(m) = s /\ msg[m] = "locked"}

-----------------------------------------------------------------------------
(* The receiver loops.                                                     *)

Connect(l) ==
  /\ loop[l].pc = "connect"
  /\ ~cancelled
  /\ \E s \in Sessions :
       /\ \A k \in Loops : loop[k].session # s
       /\ RequireSessions => Waiting(s) # {}
       /\ loop' = [loop EXCEPT ![l] = [pc |-> "acquire", session |-> s]]
  /\ UNCHANGED <<msg, tokens, handles, active, op, settling, cancelled, config, histVars>>

\* activeOperationsChan <- struct{}{}
Acquire(l) ==
  /\ loop[l].pc = "acquire"
  /\ tokens < MaxOperations
  /\ tokens' = tokens + 1
  /\ loop' = [loop EXCEPT ![l].pc = "receive"]
  /\ UNCHANGED <<msg, handles, active, op, settling, cancelled, config, histVars>>

\* A batch: the messages become active, and handleMessages is called.
Receive(l) ==
  /\ loop[l].pc = "receive"
  /\ ~cancelled
  /\ \E batch \in ReceiveMessages(l), o \in Slots :
       /\ op[o].pc = "free"
       /\ \A p \in Slots : op[p].pc = "free" => o <= p
       /\ msg' = Lock(batch)
       /\ active' = active \cup batch
       /\ op' = [op EXCEPT ![o] = [pc |-> "wait", batch |-> batch, held |-> batch,
                                   loop |-> l, done |-> FALSE, ok |-> {}]]
  /\ loop' = [loop EXCEPT ![l].pc = IF RequireSessions THEN "handling" ELSE "acquire"]
  /\ UNCHANGED <<tokens, handles, settling, cancelled, config, histVars>>

\* addActiveMessage refuses a message of the batch: those before it stay active,
\* and none of the batch is handled.
ReceiveSkips(l) ==
  /\ loop[l].pc = "receive"
  /\ ~cancelled
  /\ Fault("batch")
  /\ \E batch \in ReceiveMessages(l) : \E bad \in batch :
       /\ msg' = Lock(batch)
       /\ active' = active \cup {m \in batch : m < bad}
  /\ tokens' = tokens - 1
  /\ loop' = [loop EXCEPT ![l].pc = "acquire"]
  /\ UNCHANGED <<handles, op, settling, cancelled, config, handled, early>>

\* ReceiveBlocking returns, which ends the context of the batches it received.
Disconnected(l, pc) ==
  LET M == Unlocked(loop[l].session) IN
  /\ msg' = [m \in Messages |-> IF m \in M THEN "waiting" ELSE msg[m]]
  /\ loop' = [loop EXCEPT ![l] = [pc |-> pc, session |-> NoSession]]
  /\ op' = [o \in Slots |-> IF op[o].loop = l
                            THEN [op[o] EXCEPT !.done = TRUE, !.held = @ \ M] ELSE op[o]]
  /\ settling' = {[s EXCEPT !.held = @ /\ s.m \notin M] : s \in settling}

ReceiveFails_KeepsToken(l) ==
  /\ loop[l].pc = "receive"
  /\ IF RequireSessions /\ Waiting(loop[l].session) = {} THEN UNCHANGED faults
     ELSE Fault("receive")
  /\ Disconnected(l, "connect")
  /\ UNCHANGED <<tokens, handles, active, cancelled, config, handled, early>>

\* ReceiveMessages fails, or a session has been idle for sessionIdleTimeout: the
\* token is given back, the receiver closed, and the component reconnects.
ReceiveFails(l) ==
  /\ loop[l].pc = "receive"
  /\ IF RequireSessions /\ Waiting(loop[l].session) = {} THEN UNCHANGED faults
     ELSE Fault("receive")
  /\ tokens' = tokens - 1
  /\ Disconnected(l, "connect")
  /\ UNCHANGED <<handles, active, cancelled, config, handled, early>>

\* The subscription's context is done.
Cancel ==
  /\ ~cancelled
  /\ cancelled' = TRUE
  /\ UNCHANGED <<msg, loop, tokens, handles, active, op, settling, config, histVars>>

LoopEnds(l) ==
  /\ cancelled
  /\ loop[l].pc \in {"connect", "acquire", "receive"}
  /\ tokens' = IF loop[l].pc = "receive" THEN tokens - 1 ELSE tokens
  /\ Disconnected(l, "ended")
  /\ UNCHANGED <<handles, active, cancelled, config, histVars>>

-----------------------------------------------------------------------------
(* handleMessages.                                                         *)

TakeHandle(o) ==
  /\ op[o].pc = "wait"
  /\ config.maxHandlers > 0 => handles < config.maxHandlers
  /\ handles' = IF config.maxHandlers > 0 THEN handles + 1 ELSE handles
  /\ op' = [op EXCEPT ![o].pc = "handler"]
  /\ early' = early \cup
       {m \in op[o].batch : \E n \in 1 .. m - 1 :
          Session(n) = Session(m) /\ n \notin handled \cup op[o].batch}
  /\ UNCHANGED <<msg, loop, tokens, active, settling, cancelled, config, handled, faults>>

\* The context is done while the batch waits for handleChan: it is not handled.
NoHandle(o) ==
  /\ op[o].pc = "wait"
  /\ config.maxHandlers > 0
  /\ op[o].done \/ cancelled
  /\ op' = [op EXCEPT ![o].pc = "unhandled"]
  /\ UNCHANGED <<msg, loop, tokens, handles, active, settling, cancelled, config, histVars>>

HandlerReturns_LosesErrors(o) ==
  /\ op[o].pc = "handler"
  /\ op' = [op EXCEPT ![o] = [@ EXCEPT !.pc = "settle", !.ok = op[o].batch]]
  /\ \E ok \in SUBSET op[o].batch :
       /\ IF ok = op[o].batch THEN UNCHANGED faults ELSE Fault("handler")
       /\ handled' = handled \cup ok
  /\ UNCHANGED <<msg, loop, tokens, handles, active, settling, cancelled, config, early>>

\* The app's handler answers for each message of the batch.
HandlerReturns(o) ==
  /\ op[o].pc = "handler"
  /\ \E ok \in SUBSET op[o].batch :
       /\ IF ok = op[o].batch THEN UNCHANGED faults ELSE Fault("handler")
       /\ op' = [op EXCEPT ![o] = [@ EXCEPT !.pc = "settle", !.ok = ok]]
       /\ handled' = handled \cup ok
  /\ UNCHANGED <<msg, loop, tokens, handles, active, settling, cancelled, config, early>>

\* What is to be done with message m of call o, and whether its lock is still held.
Settlement(o, m) == [m |-> m, held |-> m \in op[o].held,
                     what |-> IF m \in op[o].ok THEN "complete" ELSE "abandon"]

\* CompleteMessage and AbandonMessage work if the lock is still held; errors are
\* logged and otherwise ignored.
Settle(s) ==
  \/ /\ s.held
     /\ msg' = [msg EXCEPT ![s.m] = IF s.what = "complete" THEN "done" ELSE "waiting"]
     /\ UNCHANGED faults
  \/ s.held /\ Fault("settle") /\ UNCHANGED msg
  \/ ~s.held /\ UNCHANGED <<msg, faults>>

\* A single message is settled by handleMessages itself, unless it failed in a bulk
\* subscription; in all other cases goroutines do it that nobody waits for.
SettledInPlace(o) == /\ Cardinality(op[o].batch) = 1
                     /\ config.maxBulk = 1 \/ op[o].ok = op[o].batch

SettleNow(o) ==
  /\ op[o].pc = "settle"
  /\ SettledInPlace(o)
  /\ \E m \in op[o].batch : Settle(Settlement(o, m))
  /\ op' = [op EXCEPT ![o] = [@ EXCEPT !.pc = "release", !.held = {}]]
  /\ UNCHANGED <<loop, tokens, handles, active, settling, cancelled, config, handled, early>>

SettleLater(o) ==
  /\ op[o].pc = "settle"
  /\ ~SettledInPlace(o)
  /\ settling' = settling \cup {Settlement(o, m) : m \in op[o].batch}
  /\ op' = [op EXCEPT ![o] = [@ EXCEPT !.pc = "release", !.held = {}]]
  /\ UNCHANGED <<msg, loop, tokens, handles, active, cancelled, config, histVars>>

SettlerRuns(s) ==
  /\ s \in settling
  /\ settling' = settling \ {s}
  /\ Settle(s)
  /\ UNCHANGED <<loop, tokens, handles, active, op, cancelled, config, handled, early>>

handleMessagesEnds_StaysActive(o) ==
  /\ op[o].pc \in {"release", "unhandled"}
  /\ handles' = IF config.maxHandlers > 0 /\ op[o].pc = "release" THEN handles - 1 ELSE handles
  /\ tokens' = tokens - 1
  /\ loop' = IF RequireSessions THEN [loop EXCEPT ![op[o].loop].pc = "acquire"] ELSE loop
  /\ op' = [op EXCEPT ![o] = NoOp]
  /\ UNCHANGED <<msg, active, settling, cancelled, config, histVars>>

\* The deferred function: the handle, the active messages and, last, the token are
\* released; with sessions the loop goes on.
handleMessagesEnds(o) ==
  /\ op[o].pc \in {"release", "unhandled"}
  /\ handles' = IF config.maxHandlers > 0 /\ op[o].pc = "release" THEN handles - 1 ELSE handles
  /\ active' = active \ op[o].batch
  /\ tokens' = tokens - 1
  /\ loop' = IF RequireSessions THEN [loop EXCEPT ![op[o].loop].pc = "acquire"] ELSE loop
  /\ op' = [op EXCEPT ![o] = NoOp]
  /\ UNCHANGED <<msg, settling, cancelled, config, histVars>>

-----------------------------------------------------------------------------
Init ==
  /\ config \in Configs
  /\ msg = [m \in Messages |-> "waiting"]
  /\ loop = [l \in Loops |-> [pc |-> IF l \in config.loops THEN "connect" ELSE "ended",
                              session |-> NoSession]]
  /\ tokens = 0 /\ handles = 0
  /\ active = {}
  /\ op = [o \in Slots |-> NoOp]
  /\ settling = {}
  /\ cancelled = FALSE
  /\ handled = {} /\ early = {} /\ faults = 0

LoopStep(l) == \/ Connect(l) \/ Acquire(l) \/ Receive(l) \/ ReceiveSkips(l)
               \/ ReceiveFails(l) \/ LoopEnds(l)

OpStep(o) == \/ TakeHandle(o) \/ NoHandle(o) \/ HandlerReturns(o) \/ SettleNow(o)
             \/ SettleLater(o) \/ handleMessagesEnds(o)

Next == \/ \E m \in Messages : LockExpires(m)
        \/ \E l \in Loops : LoopStep(l)
        \/ Cancel
        \/ \E o \in Slots : OpStep(o)
        \/ \E s \in settling : SettlerRuns(s)

Spec == Init /\ [][Next]_vars

\* Goroutines run, handlers return, a sender waiting for a channel gets its turn
\* (Go serves them in order), and locks nobody keeps run out.
Fairness ==
  /\ \A l \in Loops : /\ WF_vars(Connect(l)) /\ SF_vars(Acquire(l)) /\ WF_vars(LoopEnds(l))
                      /\ WF_vars(Receive(l) \/ ReceiveFails(l))
  /\ \A o \in Slots : SF_vars(TakeHandle(o)) /\ WF_vars(OpStep(o))
  /\ WF_vars(\E s \in settling : SettlerRuns(s))
  /\ \A m \in Messages : WF_vars(LockExpires(m))

FairSpec == Spec /\ Fairness

-----------------------------------------------------------------------------
(* Properties.                                                             *)

\* The values the variables can have; no more handlers run than
\* maxConcurrentHandlers allows.
TypeOK ==
  /\ config \in Configs
  /\ msg \in [Messages -> {"waiting", "locked", "done"}]
  /\ loop \in [Loops -> [pc : {"connect", "acquire", "receive", "handling", "ended"},
                         session : Sessions \cup {NoSession}]]
  /\ tokens \in 0 .. MaxOperations
  /\ handles \in Nat /\ (config.maxHandlers > 0 => handles <= config.maxHandlers)
  /\ active \subseteq Messages
  /\ op \in [Slots -> [pc : {"free", "wait", "handler", "settle", "release", "unhandled"},
                       batch : SUBSET Messages, held : SUBSET Messages,
                       loop : Loops \cup {NoSession}, done : BOOLEAN,
                       ok : SUBSET Messages]]
  /\ settling \subseteq [m : Messages, held : BOOLEAN, what : {"complete", "abandon"}]
  /\ cancelled \in BOOLEAN
  /\ handled \subseteq Messages /\ early \subseteq Messages
  /\ faults \in 0 .. MaxFaults

\* On every path, early returns and errors included, the tokens taken are those of
\* the loops in ReceiveMessages and of the batches being handled, and the handles
\* those of the batches past handleChan: none leaks, none is released twice.
TokensAccounted ==
  /\ tokens = Cardinality({l \in Loops : loop[l].pc = "receive"})
                + Cardinality({o \in Slots : op[o].pc # "free"})
  /\ config.maxHandlers > 0 =>
       handles = Cardinality({o \in Slots : op[o].pc \in {"handler", "settle", "release"}})

\* A message leaves the subscription only after the app has handled it: never when
\* the app's handler failed, was not called, or handled another message of the batch.
CompletedWereHandled == \A m \in Messages : msg[m] = "done" => m \in handled

\* Only messages of batches under way are active: a lock is not renewed, and so its
\* message not kept from being delivered again, once handleMessages is over (unless
\* addActiveMessage refused another message of the batch).
ActiveAreHandled ==
  "batch" \notin config.failures => active \subseteq UNION {op[o].batch : o \in Slots}

\* Tokens, handles and renewed locks are those of work under way.
Accounted == TokensAccounted /\ ActiveAreHandled

\* What the metadata promises of lock renewal: a message whose lock the component
\* holds is active, and so renewed, until its handler has returned.
HandledAreActive ==
  \A o \in Slots : op[o].pc \in {"wait", "handler"} => op[o].held \subseteq active

\* With sessions and single messages, the app gets the messages of a session in
\* order, none before an earlier one has been handled, across handler errors and
\* reconnects - as long as settlements reach the broker and locks are kept.
SessionOrder ==
  /\ RequireSessions
  /\ config.maxBulk = 1
  /\ config.failures \subseteq {"receive", "handler"}
  => early = {}

\* Messages leave the subscription because the app has handled them, those of a
\* session in order.
CompletedInOrder == CompletedWereHandled /\ SessionOrder

\* Every message is handled and completed in the end, whatever receives, handlers
\* and settlements fail on the way, or the subscription ends.  (With two operations
\* at a time and no sessions, HandledAreActive fails, and a message can lose its lock
\* in every one of its deliveries.)
EventuallyCompleted ==
  \A m \in Messages :
    <>(\/ msg[m] = "done"
       \/ cancelled
       \/ config.failures \cap {"lock", "batch"} # {}
       \/ ~RequireSessions /\ MaxOperations > 1)
=============================================================================
