-------------------------- MODULE ConsumerGroupProofs --------------------------
(***************************************************************************)
(* The safety of the two components that read a log as members of a        *)
(* consumer group: Kafka, for any number of topics, messages,              *)
(* subscriptions, rebalances and crashes and for every configuration, and  *)
(* RedisStreams, for any number of workers and messages, any queue depth   *)
(* and any number of faults and restarts.                                  *)
(***************************************************************************)
EXTENDS Kafka, RedisStreams, FiniteSetTheorems, TLAPS

-----------------------------------------------------------------------------
(* Kafka: the invariants.                                                  *)

\* Outside a session there are no claims, and nothing is marked that is not
\* committed.
SessionInv ==
  consumer.state # "session" => /\ claim = [t \in Topics |-> NoClaim]
                                /\ marked = committed

\* subscribeLock is held by the subscription that registers or leaves; a topic is
\* in the map only for a subscription of it that has neither left nor begun to.
LockInv ==
  /\ \A s \in Subscriptions :
       lock = s <=> sub[s] \in {"registering", "leaving", "closing group"}
  /\ \A t \in Topics : topics[t] # None =>
       /\ TopicOf[topics[t]] = t
       /\ sub[topics[t]] \in {"registering", "live", "cancelled", "shutdown"}

\* The handler of a claim has not left; Close returns when there is no consumer,
\* and none is started after it.
QuietInv ==
  /\ \A t \in Topics : Working(t) =>
       claim[t].handler # None /\ sub[claim[t].handler] # "left"
  /\ closing = "returned" => consumer.state = "none"

\* A subscription that is not in bulk has the message before the next one in its
\* hands, or nothing.
SingleInv ==
  ~Bulk => \A t \in Topics :
    /\ claim[t].state \in {"none", "waiting"} => claim[t].batch = << >>
    /\ claim[t].state \in {"calling", "handling", "failed"} =>
         claim[t].next > 1 /\ claim[t].batch = <<claim[t].next - 1>>

\* What is before the message in hand has been handled, if the retries never give
\* up; and what is marked or committed has been.
ForeverInv ==
  ~Bulk /\ mode.retry = "forever" => \A t \in Topics :
    /\ 1..committed[t] \subseteq handled[t] /\ 1..marked[t] \subseteq handled[t]
    /\ claim[t].state = "waiting" => 1..claim[t].next - 1 \subseteq handled[t]
    /\ claim[t].state \in {"calling", "handling", "failed"} =>
         1..claim[t].next - 2 \subseteq handled[t]

\* Without a crash, what has been handled is marked, and lies before the message
\* in hand.
OnceInv ==
  ~Bulk /\ ~crashed => \A t \in Topics :
    /\ handled[t] \subseteq 1..marked[t]
    /\ claim[t].state = "waiting" => marked[t] < claim[t].next
    /\ claim[t].state \in {"calling", "handling", "failed"} => marked[t] + 1 < claim[t].next

\* While nobody is changing the subscriptions, the consumer has the topics of the map.
ConsumedInv ==
  /\ group = "nil" => Closed
  /\ lock = None /\ ~Closed =>
       /\ ~consumer.cancelled
       /\ Subscribed # {} => consumer.state # "none" /\ consumer.topics = Subscribed

\* A claim ends with its session.
ServedInv ==
  consumer.state = "session" => \A t \in consumer.topics :
    (Working(t) \/ Over) /\ (claim[t].final => Over)

\* A subscription's topic is in the map as long as it lasts.
OneEachInv ==
  \A s \in Subscriptions :
    sub[s] \in {"registering", "live", "cancelled", "shutdown"} => topics[TopicOf[s]] = s

IInv == /\ TypeOK /\ SessionInv /\ LockInv /\ QuietInv /\ SingleInv /\ ForeverInv
        /\ OnceInv /\ ConsumedInv /\ ServedInv

\* The runtime subscribes to a topic once.
TopicsDiffer == \A s1, s2 \in Subscriptions : TopicOf[s1] = TopicOf[s2] => s1 = s2

LEMMA NoClaimTyped == \A t \in Topics : NoClaim \in Claim(t)
  <1> SUFFICES ASSUME NEW t \in Topics PROVE NoClaim \in Claim(t)
    OBVIOUS
  <1>1. 1 \in 1..LastOf[t] + 1
    BY KafkaAssumption
  <1>2. << >> \in Seq(1..LastOf[t])
    OBVIOUS
  <1> QED BY <1>1, <1>2 DEF NoClaim, Claim

LEMMA NoConsumerTyped ==
  NoConsumer \in [state : {"none", "idle", "session"}, topics : SUBSET Topics,
                  cancelled : BOOLEAN, over : BOOLEAN]
  BY DEF NoConsumer

\* The initial states satisfy every invariant.
LEMMA InvInit == Init => IInv /\ OneEachInv
  <1> SUFFICES ASSUME Init PROVE IInv /\ OneEachInv
    OBVIOUS
  <1>1. TypeOK
    <2>1. \A t \in Topics : 0 <= LastOf[t]
      BY KafkaAssumption
    <2>2. marked \in [Topics -> Nat] /\ committed \in [Topics -> Nat]
          /\ handled \in [Topics -> SUBSET Nat] /\ DOMAIN claim = Topics
          /\ topics \in [Topics -> Subscriptions \cup {None}]
      BY DEF Init
    <2>3. sub \in [Subscriptions -> {"none"}]
      BY DEF Init
    <2> QED BY <2>1, <2>2, <2>3, NoClaimTyped, NoConsumerTyped DEF Init, TypeOK
  <1>2. \A t \in Topics : claim[t] = NoClaim /\ topics[t] = None /\ marked[t] = 0
                          /\ committed[t] = 0 /\ handled[t] = {}
    BY DEF Init
  <1>3. SessionInv /\ LockInv /\ QuietInv
    BY <1>2, KafkaAssumption DEF Init, SessionInv, LockInv, QuietInv, Working, NoClaim, NoConsumer
  <1>4. SingleInv /\ ForeverInv /\ OnceInv
    BY <1>2 DEF Init, SingleInv, ForeverInv, OnceInv, NoClaim
  <1>5. ConsumedInv /\ ServedInv /\ OneEachInv
    BY <1>2 DEF Init, ConsumedInv, ServedInv, OneEachInv, NoConsumer, Subscribed, Closed
  <1> QED BY <1>1, <1>3, <1>4, <1>5 DEF IInv

\* The next message of a claim, and the messages in hand.
LEMMA BatchTyped ==
  ASSUME TypeOK, NEW t \in Topics
  PROVE  /\ claim[t].next \in Nat /\ claim[t].next >= 1 /\ claim[t].next <= LastOf[t] + 1
         /\ LastOf[t] \in Nat
         /\ claim[t].batch \in Seq(1..LastOf[t]) /\ Len(claim[t].batch) \in Nat
         /\ \A i \in 1..Len(claim[t].batch) : claim[t].batch[i] \in 1..LastOf[t]
  <1>1. claim[t] \in Claim(t) /\ LastOf[t] \in Nat
    BY KafkaAssumption DEF TypeOK
  <1> QED BY <1>1 DEF Claim

\* A step of a claim changes only that claim, its marked offset and what is handled.
Frame(t) ==
  /\ UNCHANGED <<mode, sub, topics, lock, consumer, committed, group, closing, crashed, faults>>
  /\ claim' = [claim EXCEPT ![t] = claim'[t]]
  /\ marked' = [marked EXCEPT ![t] = marked'[t]]
  /\ handled' = [handled EXCEPT ![t] = handled'[t]]

LEMMA ClaimStepFrame ==
  ASSUME TypeOK, NEW t \in Topics, ClaimStep(t)
  PROVE  Frame(t)
  <1> USE DEF TypeOK, subscribing, history, Frame
  <1>1. CASE Take(t)
    BY <1>1 DEF Take
  <1>2. CASE Tick(t)
    BY <1>2 DEF Tick
  <1>3. CASE ClaimEnds(t)
    BY <1>3 DEF ClaimEnds
  <1>4. CASE CallHandler(t)
    BY <1>4 DEF CallHandler
  <1>5. CASE Retry(t)
    BY <1>5 DEF Retry
  <1>6. CASE GiveUp(t)
    BY <1>6 DEF GiveUp
  <1>7. ASSUME NEW k \in 0..LastOf[t], Return(t, k) PROVE Frame(t)
    BY <1>7 DEF Return
  <1> QED BY <1>1, <1>2, <1>3, <1>4, <1>5, <1>6, <1>7 DEF ClaimStep

\* Take puts the next message of the topic in hand.
LEMMA TakeClaim ==
  ASSUME TypeOK, NEW t \in Topics, Take(t)
  PROVE  /\ claim[t].state = "waiting" /\ claim[t].next <= LastOf[t]
         /\ claim'[t] = [claim[t] EXCEPT !.next = @ + 1, !.batch = Append(@, claim[t].next),
                           !.state = IF Len(claim[t].batch) + 1 < mode.bulk
                                       THEN "waiting" ELSE "calling"]
         /\ UNCHANGED <<marked, handled>>
  BY DEF Take, TypeOK, Claim

\* The ticker calls the handler with what was collected.
LEMMA TickClaim ==
  ASSUME TypeOK, NEW t \in Topics, Tick(t)
  PROVE  /\ claim[t].state = "waiting" /\ claim[t].batch # << >> /\ Bulk
         /\ claim'[t] = [claim[t] EXCEPT !.state = "calling"]
         /\ UNCHANGED <<marked, handled>>
  BY DEF Tick, TypeOK, Claim

\* The end of the session flushes what was collected.
LEMMA ClaimEndsClaim ==
  ASSUME TypeOK, NEW t \in Topics, ClaimEnds(t)
  PROVE  /\ claim[t].state = "waiting"
         /\ claim'[t] = [claim[t] EXCEPT !.final = TRUE,
              !.state = IF claim[t].batch = << >> THEN "done" ELSE "calling"]
         /\ UNCHANGED <<marked, handled>>
  BY DEF ClaimEnds, TypeOK, Claim

\* doCallback finds the handler, or none.
LEMMA CallHandlerClaim ==
  ASSUME TypeOK, NEW t \in Topics, CallHandler(t)
  PROVE  /\ claim[t].state = "calling"
         /\ claim'[t] = [claim[t] EXCEPT
              !.state = IF topics[t] = None THEN "failed" ELSE "handling",
              !.handler = IF Bulk \/ topics[t] = None THEN @ ELSE topics[t]]
         /\ UNCHANGED <<marked, handled>>
  BY DEF CallHandler, TypeOK, Claim

\* A retry calls the handler with the same messages.
LEMMA RetryClaim ==
  ASSUME TypeOK, NEW t \in Topics, Retry(t)
  PROVE  /\ claim[t].state = "failed"
         /\ claim'[t] = [claim[t] EXCEPT !.state = "calling"]
         /\ UNCHANGED <<marked, handled>>
  BY DEF Retry, TypeOK, Claim

\* The end of the retries drops the messages; an aborted single message ends the claim.
LEMMA GiveUpClaim ==
  ASSUME TypeOK, NEW t \in Topics, GiveUp(t)
  PROVE  /\ claim[t].state = "failed" /\ (mode.retry = "forever" => Over)
         /\ claim'[t] = IF ~Bulk /\ mode.retry # "off" /\ Over
                          THEN [claim[t] EXCEPT !.state = "done"]
                          ELSE Waits(claim[t])
         /\ UNCHANGED <<marked, handled>>
  BY DEF GiveUp, TypeOK, Claim

\* A handler that has dealt with the first k messages moves the marked offset to
\* the last of them.
LEMMA ReturnClaim ==
  ASSUME TypeOK, NEW t \in Topics, NEW k \in 0..LastOf[t], Return(t, k)
  PROVE  /\ claim[t].state = "handling" /\ k \in 0..Len(claim[t].batch)
         /\ marked'[t] = IF k = 0 THEN marked[t] ELSE claim[t].batch[k]
         /\ handled'[t] = handled[t] \cup {claim[t].batch[i] : i \in 1..k}
         /\ claim'[t] = IF k = Len(claim[t].batch) THEN Waits(claim[t])
                        ELSE [claim[t] EXCEPT !.state = "failed"]
  BY DEF Return, TypeOK, Mark

-----------------------------------------------------------------------------
(* Every step keeps the invariants.                                        *)

\* Every claim step keeps the types.
LEMMA ClaimTyped ==
  ASSUME TypeOK, NEW t \in Topics, ClaimStep(t)
  PROVE  TypeOK'
  <1>1. claim[t] \in Claim(t) /\ LastOf[t] \in Nat /\ marked[t] \in 0..LastOf[t]
        /\ handled[t] \subseteq 1..LastOf[t]
    <2>1. LastOf[t] \in Nat
      BY KafkaAssumption
    <2>2. claim[t] \in Claim(t) /\ handled[t] \subseteq 1..LastOf[t]
      BY DEF TypeOK
    <2>3. marked[t] \in Nat /\ marked[t] <= LastOf[t]
      BY DEF TypeOK
    <2> QED BY <2>1, <2>2, <2>3
  <1>2. Frame(t)
    BY ClaimStepFrame
  <1> SUFFICES /\ claim'[t] \in Claim(t) /\ marked'[t] \in 0..LastOf[t]
               /\ handled'[t] \subseteq 1..LastOf[t]
    <2> SUFFICES ASSUME claim'[t] \in Claim(t), marked'[t] \in 0..LastOf[t],
                        handled'[t] \subseteq 1..LastOf[t]
                 PROVE  TypeOK'
      OBVIOUS
    <2>1. DOMAIN claim' = Topics /\ \A u \in Topics : claim'[u] \in Claim(u)
      BY <1>2 DEF Frame, TypeOK
    <2>2. marked'[t] \in Nat /\ marked'[t] <= LastOf[t] /\ handled'[t] \in SUBSET Nat
      BY <1>1
    <2>3. marked' \in [Topics -> Nat] /\ handled' \in [Topics -> SUBSET Nat]
      BY <1>2, <2>2 DEF Frame, TypeOK
    <2>4. \A u \in Topics : marked'[u] <= LastOf[u] /\ handled'[u] \subseteq 1..LastOf[u]
      BY <1>2, <2>2 DEF Frame, TypeOK
    <2> QED BY <1>2, <2>1, <2>3, <2>4 DEF Frame, TypeOK
  <1>3. ASSUME NEW c \in Claim(t) PROVE Waits(c) \in Claim(t)
    <2> DEFINE state == IF c.final THEN "done" ELSE "waiting"
    <2>1. state \in {"done", "waiting"}
      OBVIOUS
    <2>2. Waits(c) = [c EXCEPT !.batch = << >>, !.state = state]
      BY DEF Waits
    <2> HIDE DEF state
    <2>3. << >> \in Seq(1..LastOf[t])
      OBVIOUS
    <2> QED BY <2>1, <2>2, <2>3 DEF Claim
  <1>4. CASE Take(t)
    <2>1. claim[t].next \in 1..LastOf[t] /\ claim[t].next + 1 \in 1..LastOf[t] + 1
      <3>1. claim[t].next <= LastOf[t]
        BY <1>4, TakeClaim
      <3>2. claim[t].next \in Nat /\ claim[t].next >= 1 /\ LastOf[t] \in Nat
        BY BatchTyped
      <3> QED BY <3>1, <3>2
    <2>2. Append(claim[t].batch, claim[t].next) \in Seq(1..LastOf[t])
      BY <2>1, BatchTyped
    <2>3. PICK state \in {"waiting", "calling"} :
            claim'[t] = [claim[t] EXCEPT !.next = @ + 1, !.state = state,
                                         !.batch = Append(@, claim[t].next)]
      BY <1>4, TakeClaim, Zenon
    <2>4. UNCHANGED <<marked, handled>>
      BY <1>4, TakeClaim
    <2>5. claim'[t] \in Claim(t)
      BY <1>1, <2>1, <2>2, <2>3 DEF Claim
    <2> QED BY <1>1, <2>4, <2>5
  <1>5. CASE Tick(t)
    <2>1. claim'[t] = [claim[t] EXCEPT !.state = "calling"] /\ UNCHANGED <<marked, handled>>
      BY <1>5, TickClaim
    <2>2. claim'[t] \in Claim(t)
      BY <1>1, <2>1 DEF Claim
    <2> QED BY <1>1, <2>1, <2>2
  <1>6. CASE ClaimEnds(t)
    <2>1. PICK state \in {"done", "calling"} :
            claim'[t] = [claim[t] EXCEPT !.final = TRUE, !.state = state]
      BY <1>6, ClaimEndsClaim, Zenon
    <2>2. UNCHANGED <<marked, handled>>
      BY <1>6, ClaimEndsClaim
    <2>3. claim'[t] \in Claim(t)
      BY <1>1, <2>1 DEF Claim
    <2> QED BY <1>1, <2>2, <2>3
  <1>7. CASE CallHandler(t)
    <2>1. PICK state \in {"failed", "handling"}, handler \in {claim[t].handler, topics[t]} :
            claim'[t] = [claim[t] EXCEPT !.state = state, !.handler = handler]
      BY <1>7, CallHandlerClaim, Zenon
    <2>2. UNCHANGED <<marked, handled>>
      BY <1>7, CallHandlerClaim
    <2>3. topics[t] \in Subscriptions \cup {None}
      BY DEF TypeOK
    <2>4. claim'[t] \in Claim(t)
      BY <1>1, <2>1, <2>3 DEF Claim
    <2> QED BY <1>1, <2>2, <2>4
  <1>8. CASE Retry(t)
    <2>1. claim'[t] = [claim[t] EXCEPT !.state = "calling"] /\ UNCHANGED <<marked, handled>>
      BY <1>8, RetryClaim
    <2>2. claim'[t] \in Claim(t)
      BY <1>1, <2>1 DEF Claim
    <2> QED BY <1>1, <2>1, <2>2
  <1>9. CASE GiveUp(t)
    <2>1. [claim[t] EXCEPT !.state = "done"] \in Claim(t)
      BY <1>1 DEF Claim
    <2> QED BY <1>1, <1>3, <1>9, <2>1, GiveUpClaim
  <1>10. ASSUME NEW k \in 0..LastOf[t], Return(t, k)
         PROVE  /\ claim'[t] \in Claim(t) /\ marked'[t] \in 0..LastOf[t]
                /\ handled'[t] \subseteq 1..LastOf[t]
    <2>1. [claim[t] EXCEPT !.state = "failed"] \in Claim(t)
      BY <1>1 DEF Claim
    <2>2. claim'[t] \in Claim(t)
      BY <1>1, <1>3, <1>10, <2>1, ReturnClaim
    <2>3. /\ k \in 0..Len(claim[t].batch)
          /\ marked'[t] = IF k = 0 THEN marked[t] ELSE claim[t].batch[k]
          /\ handled'[t] = handled[t] \cup {claim[t].batch[i] : i \in 1..k}
      BY <1>10, ReturnClaim
    <2>4. Len(claim[t].batch) \in Nat
          /\ \A i \in 1..Len(claim[t].batch) : claim[t].batch[i] \in 1..LastOf[t]
      BY BatchTyped
    <2>5. \A i \in 1..k : claim[t].batch[i] \in 1..LastOf[t]
      BY <2>3, <2>4
    <2>6. handled'[t] \subseteq 1..LastOf[t]
      BY <1>1, <2>3, <2>5
    <2>7. marked'[t] \in 0..LastOf[t]
      <3>1. CASE k = 0
        BY <1>1, <2>3, <3>1
      <3>2. CASE k # 0
        <4>1. k \in 1..k
          BY <3>2
        <4>2. claim[t].batch[k] \in 1..LastOf[t]
          BY <2>5, <4>1
        <4> QED BY <1>1, <2>3, <3>2, <4>2
      <3> QED BY <3>1, <3>2
    <2> QED BY <2>2, <2>6, <2>7
  <1> QED BY <1>4, <1>5, <1>6, <1>7, <1>8, <1>9, <1>10 DEF ClaimStep

LEMMA TypeStep == TypeOK /\ [Next]_vars => TypeOK'
  <1> SUFFICES ASSUME TypeOK, [Next]_vars PROVE TypeOK'
    OBVIOUS
  <1>0. CancelConsumer => consumer' \in [state : {"none", "idle", "session"},
                            topics : SUBSET Topics, cancelled : BOOLEAN, over : BOOLEAN]
    BY DEF CancelConsumer, TypeOK
  <1>1. ASSUME NEW s \in Subscriptions, Call(s) \/ Cancel(s) PROVE TypeOK'
    BY <1>1 DEF TypeOK, Call, Cancel, history
  <1>2. ASSUME NEW s \in Subscriptions, Register(s) PROVE TypeOK'
    BY <1>0, <1>2, KafkaAssumption DEF TypeOK, Register, history
  <1>3. ASSUME NEW s \in Subscriptions, Leave(s) PROVE TypeOK'
    BY <1>0, <1>3, KafkaAssumption DEF TypeOK, Leave, history
  <1>4. ASSUME NEW s \in Subscriptions, Reload(s) PROVE TypeOK'
    <2>1. consumer' \in [state : {"none", "idle", "session"},
                         topics : SUBSET Topics, cancelled : BOOLEAN, over : BOOLEAN]
      BY <1>4 DEF Reload, NoConsumer, Subscribed
    <2> QED BY <1>4, <2>1 DEF TypeOK, Reload, history
  <1>5. ASSUME NEW t \in Topics, ClaimStep(t) PROVE TypeOK'
    BY <1>5, ClaimTyped
  <1>6. CASE StartSession
    <2>1. ASSUME NEW t \in Topics PROVE claim'[t] \in Claim(t)
      <3>1. committed[t] + 1 \in 1..LastOf[t] + 1
        <4>1. committed[t] \in Nat /\ committed[t] <= LastOf[t]
          BY DEF TypeOK
        <4>2. LastOf[t] \in Nat
          BY KafkaAssumption
        <4> QED BY <4>1, <4>2
      <3>2. topics[t] \in Subscriptions \cup {None}
        BY DEF TypeOK
      <3>3. [NoClaim EXCEPT !.state = IF topics[t] = None THEN "done" ELSE "waiting",
                            !.next = committed[t] + 1, !.handler = topics[t]] \in Claim(t)
        BY <3>1, <3>2, NoClaimTyped DEF Claim
      <3> QED BY <1>6, <3>3, NoClaimTyped DEF StartSession
    <2>2. consumer' \in [state : {"none", "idle", "session"},
                         topics : SUBSET Topics, cancelled : BOOLEAN, over : BOOLEAN]
      BY <1>6 DEF StartSession, TypeOK
    <2>3. DOMAIN claim' = Topics
      BY <1>6 DEF StartSession
    <2> QED BY <1>6, <2>1, <2>2, <2>3 DEF StartSession, TypeOK, subscribing, history
  <1>7. CASE SessionEnds
    BY <1>7, NoClaimTyped DEF SessionEnds, TypeOK, subscribing, history
  <1>8. CASE ConsumerEnds
    BY <1>8, NoConsumerTyped DEF ConsumerEnds, TypeOK, subscribing, history
  <1>9. CASE CloseCalled \/ CloseGroup \/ CloseReturns \/ AutoCommit
    BY <1>9 DEF CloseCalled, CloseGroup, CloseReturns, AutoCommit, TypeOK, subscribing, history
  <1>10. CASE CloseCancels
    BY <1>0, <1>10 DEF CloseCancels, TypeOK, subscribing, history
  <1>11. CASE Rebalance
    BY <1>11 DEF Rebalance, TypeOK, subscribing
  <1>12. CASE Crash
    <2>1. DOMAIN claim' = Topics /\ \A t \in Topics : claim'[t] \in Claim(t)
      BY <1>12, NoClaimTyped DEF Crash
    <2>2. sub' \in [Subscriptions -> {"none"}] /\ topics' \in [Topics -> {None}]
      BY <1>12 DEF Crash
    <2> QED BY <1>12, <2>1, <2>2, NoConsumerTyped DEF Crash, TypeOK
  <1>13. CASE UNCHANGED vars
    BY <1>13 DEF TypeOK, vars
  <1> QED BY <1>1, <1>2, <1>3, <1>4, <1>5, <1>6, <1>7, <1>8, <1>9, <1>10, <1>11, <1>12, <1>13
          DEF Next, SubStep, ConsumerStep, CloseStep

\* A claim takes steps only in the course of a session.
LEMMA ClaimStepWorks ==
  ASSUME NEW t \in Topics, ClaimStep(t)
  PROVE  Working(t)
  BY DEF ClaimStep, Take, Tick, ClaimEnds, CallHandler, Return, Retry, GiveUp, Working

LEMMA WorkingInSession ==
  ASSUME SessionInv, NEW t \in Topics, Working(t)
  PROVE  consumer.state = "session"
  BY DEF SessionInv, Working, NoClaim

\* Outside a session there is nothing to claim or commit.
LEMMA SessionStep ==
  ASSUME TypeOK, SessionInv, [Next]_vars
  PROVE  SessionInv'
  <1> USE DEF SessionInv
  <1>0. CancelConsumer => consumer'.state = consumer.state
    BY DEF CancelConsumer, TypeOK
  <1>1. ASSUME NEW s \in Subscriptions, Call(s) \/ Cancel(s) PROVE SessionInv'
    BY <1>1 DEF Call, Cancel
  <1>2. ASSUME NEW s \in Subscriptions, Register(s) \/ Leave(s) PROVE SessionInv'
    BY <1>0, <1>2 DEF Register, Leave
  <1>3. ASSUME NEW s \in Subscriptions, Reload(s) PROVE SessionInv'
    BY <1>3 DEF Reload
  <1>4. ASSUME NEW t \in Topics, ClaimStep(t) PROVE SessionInv'
    <2>1. consumer.state = "session"
      BY <1>4, ClaimStepWorks, WorkingInSession
    <2>2. consumer' = consumer
      BY <1>4, ClaimStepFrame DEF Frame
    <2> QED BY <2>1, <2>2
  <1>5. CASE StartSession
    BY <1>5 DEF StartSession, TypeOK
  <1>6. CASE SessionEnds
    BY <1>6 DEF SessionEnds
  <1>7. CASE ConsumerEnds
    BY <1>7 DEF ConsumerEnds
  <1>8. CASE CloseCalled \/ CloseGroup \/ CloseReturns
    BY <1>8 DEF CloseCalled, CloseGroup, CloseReturns
  <1>9. CASE CloseCancels
    BY <1>0, <1>9 DEF CloseCancels
  <1>10. CASE AutoCommit
    BY <1>10 DEF AutoCommit
  <1>11. CASE Rebalance
    BY <1>11 DEF Rebalance, TypeOK
  <1>12. CASE Crash
    BY <1>12 DEF Crash
  <1>13. CASE UNCHANGED vars
    BY <1>13 DEF vars
  <1> QED BY <1>1, <1>2, <1>3, <1>4, <1>5, <1>6, <1>7, <1>8, <1>9, <1>10, <1>11, <1>12, <1>13
          DEF Next, SubStep, ConsumerStep, CloseStep

\* The steps that leave the subscriptions alone.
LEMMA SubscribingFrame ==
  ASSUME TypeOK, [Next]_vars
  PROVE  \/ UNCHANGED <<sub, topics, lock>>
         \/ Crash
         \/ \E s \in Subscriptions : Call(s) \/ Cancel(s) \/ Register(s) \/ Leave(s) \/ Reload(s)
  <1>1. ASSUME NEW t \in Topics, ClaimStep(t) PROVE UNCHANGED <<sub, topics, lock>>
    BY <1>1, ClaimStepFrame DEF Frame
  <1>2. CASE ConsumerStep \/ CloseCalled \/ CloseStep \/ AutoCommit \/ Rebalance
    BY <1>2 DEF ConsumerStep, StartSession, SessionEnds, ConsumerEnds, CloseCalled, CloseStep,
                CloseCancels, CloseGroup, CloseReturns, AutoCommit, Rebalance, subscribing
  <1>3. CASE UNCHANGED vars
    BY <1>3 DEF vars
  <1> QED BY <1>1, <1>2, <1>3 DEF Next, SubStep

\* The lock and the map agree with where the subscriptions are.
LEMMA LockStep ==
  ASSUME TypeOK, LockInv, [Next]_vars
  PROVE  LockInv'
  <1>0. /\ TopicOf \in [Subscriptions -> Topics] /\ None \notin Subscriptions
        /\ DOMAIN sub = Subscriptions /\ DOMAIN topics = Topics
        /\ \A t \in Topics : topics[t] # None => topics[t] \in Subscriptions
    BY KafkaAssumption DEF TypeOK
  <1> USE <1>0 DEF LockInv
  <1>1. CASE UNCHANGED <<sub, topics, lock>>
    BY <1>1
  <1>2. CASE Crash
    BY <1>2 DEF Crash
  <1>3. ASSUME NEW s \in Subscriptions, Call(s) PROVE LockInv'
    BY <1>3 DEF Call
  <1>4. ASSUME NEW s \in Subscriptions, Cancel(s) PROVE LockInv'
    BY <1>4 DEF Cancel
  <1>5. ASSUME NEW s \in Subscriptions, Register(s) PROVE LockInv'
    BY <1>5 DEF Register
  <1>6. ASSUME NEW s \in Subscriptions, Leave(s) PROVE LockInv'
    BY <1>6 DEF Leave
  <1>7. ASSUME NEW s \in Subscriptions, Reload(s) PROVE LockInv'
    BY <1>7 DEF Reload
  <1> QED BY <1>1, <1>2, <1>3, <1>4, <1>5, <1>6, <1>7, SubscribingFrame

\* No claim is left with the handler of a subscription that has left.
LEMMA QuietStep ==
  ASSUME TypeOK, SessionInv, LockInv, QuietInv, [Next]_vars
  PROVE  QuietInv'
  <1>0. CancelConsumer => consumer'.state = consumer.state
    BY DEF CancelConsumer, TypeOK
  <1>a. /\ None \notin Subscriptions /\ DOMAIN sub = Subscriptions /\ DOMAIN claim = Topics
        /\ \A t \in Topics : topics[t] # None => topics[t] \in Subscriptions
        /\ \A t \in Topics : claim[t].handler # None => claim[t].handler \in Subscriptions
    BY KafkaAssumption DEF TypeOK, Claim
  <1> USE DEF QuietInv
  <1>1. ASSUME NEW s \in Subscriptions, Call(s) \/ Cancel(s) PROVE QuietInv'
    BY <1>1, <1>a DEF Call, Cancel, Working
  <1>2. ASSUME NEW s \in Subscriptions, Register(s) \/ Leave(s) PROVE QuietInv'
    <2>1. /\ claim' = claim /\ closing' = closing /\ consumer'.state = consumer.state
          /\ sub'[s] # "left" /\ \A r \in Subscriptions \ {s} : sub'[r] = sub[r]
      BY <1>0, <1>2, <1>a DEF Register, Leave
    <2> QED BY <1>a, <2>1 DEF Working
  <1>3. ASSUME NEW s \in Subscriptions, Reload(s) PROVE QuietInv'
    <2>1. \A t \in Topics : ~Working(t)'
      <3>1. claim' = [t \in Topics |-> NoClaim]
        BY <1>3 DEF Reload, SessionInv
      <3> QED BY <3>1 DEF Working, NoClaim
    <2>2. closing' = "returned" => consumer'.state = "none"
      BY <1>3 DEF Reload, Closed, NoConsumer
    <2> QED BY <2>1, <2>2
  <1>4. ASSUME NEW t \in Topics, ClaimStep(t) PROVE QuietInv'
    <2>1. Frame(t) /\ Working(t)
      BY <1>4, ClaimStepFrame, ClaimStepWorks
    <2>2. claim'[t].handler \in {claim[t].handler} \cup ({topics[t]} \ {None})
      <3>0. claim[t] \in Claim(t)
        BY DEF TypeOK
      <3>1. ASSUME Take(t) PROVE claim'[t].handler = claim[t].handler
        BY <3>0, <3>1, TakeClaim DEF Claim
      <3>2. ASSUME Tick(t) \/ Retry(t) PROVE claim'[t].handler = claim[t].handler
        <4>1. claim'[t] = [claim[t] EXCEPT !.state = "calling"]
          BY <3>2, TickClaim, RetryClaim
        <4> QED BY <3>0, <4>1 DEF Claim
      <3>3. ASSUME ClaimEnds(t) PROVE claim'[t].handler = claim[t].handler
        <4>1. PICK state : claim'[t] = [claim[t] EXCEPT !.final = TRUE, !.state = state]
          BY <3>3, ClaimEndsClaim, Zenon
        <4> QED BY <3>0, <4>1 DEF Claim
      <3>4. ASSUME CallHandler(t)
            PROVE  claim'[t].handler = IF Bulk \/ topics[t] = None
                                         THEN claim[t].handler ELSE topics[t]
        <4> DEFINE handler == IF Bulk \/ topics[t] = None THEN claim[t].handler ELSE topics[t]
        <4>1. PICK state : claim'[t] = [claim[t] EXCEPT !.state = state, !.handler = handler]
          BY <3>4, CallHandlerClaim
        <4> HIDE DEF handler
        <4>2. claim'[t].handler = handler
          BY <3>0, <4>1 DEF Claim
        <4> QED BY <4>2 DEF handler
      <3>5. Waits(claim[t]).handler = claim[t].handler
        <4>1. PICK state : Waits(claim[t]) = [claim[t] EXCEPT !.batch = << >>, !.state = state]
          BY DEF Waits
        <4> QED BY <3>0, <4>1 DEF Claim
      <3>6. ASSUME GiveUp(t) PROVE claim'[t].handler = claim[t].handler
        <4>1. claim'[t] = Waits(claim[t]) \/ claim'[t] = [claim[t] EXCEPT !.state = "done"]
          BY <3>6, GiveUpClaim
        <4> QED BY <3>0, <3>5, <4>1 DEF Claim
      <3>7. ASSUME NEW k \in 0..LastOf[t], Return(t, k)
            PROVE  claim'[t].handler = claim[t].handler
        <4>1. claim'[t] = Waits(claim[t]) \/ claim'[t] = [claim[t] EXCEPT !.state = "failed"]
          BY <3>7, ReturnClaim
        <4> QED BY <3>0, <3>5, <4>1 DEF Claim
      <3>8. CASE CallHandler(t)
        BY <3>4, <3>8
      <3> QED BY <1>4, <3>1, <3>2, <3>3, <3>6, <3>7, <3>8 DEF ClaimStep
    <2>3. topics[t] # None => sub[topics[t]] # "left"
      BY DEF LockInv
    <2>4. ASSUME NEW u \in Topics, Working(u)'
          PROVE  claim'[u].handler # None /\ sub'[claim'[u].handler] # "left"
      BY <1>a, <2>1, <2>2, <2>3, <2>4 DEF Frame, Working
    <2> QED BY <2>1, <2>4 DEF Frame
  <1>5. CASE StartSession
    <2>1. ASSUME NEW t \in Topics, Working(t)'
          PROVE  claim'[t].handler = topics[t] /\ topics[t] # None
      BY <1>5, <2>1 DEF StartSession, Working, NoClaim
    <2> QED BY <1>5, <2>1 DEF StartSession, subscribing, LockInv
  <1>6. CASE SessionEnds
    <2>1. \A t \in Topics : ~Working(t)'
      BY <1>6 DEF SessionEnds, Working, NoClaim
    <2> QED BY <1>6, <2>1 DEF SessionEnds
  <1>7. CASE ConsumerEnds
    BY <1>7 DEF ConsumerEnds, Working, NoConsumer, subscribing
  <1>8. CASE CloseCalled \/ CloseGroup \/ CloseReturns \/ AutoCommit
    BY <1>8 DEF CloseCalled, CloseGroup, CloseReturns, AutoCommit, Working, subscribing
  <1>9. CASE CloseCancels
    BY <1>0, <1>9 DEF CloseCancels, Working, subscribing
  <1>10. CASE Rebalance
    BY <1>10 DEF Rebalance, Working, subscribing
  <1>11. CASE Crash
    BY <1>11 DEF Crash, Working, NoClaim
  <1>12. CASE UNCHANGED vars
    BY <1>12 DEF vars, Working
  <1> QED BY <1>1, <1>2, <1>3, <1>4, <1>5, <1>6, <1>7, <1>8, <1>9, <1>10, <1>11, <1>12
          DEF Next, SubStep, ConsumerStep, CloseStep

\* The steps of a claim that is not in bulk: it takes the next message, it ends, it
\* calls, fails or retries with the message in hand, it is done with the message, or
\* it gives the message up.
InHand == {"calling", "handling", "failed"}

TakesOne(t) ==
  /\ claim[t].state = "waiting" /\ claim'[t].state = "calling"
  /\ claim'[t].next = claim[t].next + 1 /\ claim'[t].batch = <<claim[t].next>>
  /\ marked'[t] = marked[t] /\ handled'[t] = handled[t]

EndsEmpty(t) ==
  /\ claim[t].state = "waiting" /\ claim'[t].state = "done"
  /\ marked'[t] = marked[t] /\ handled'[t] = handled[t]

TriesOne(t) ==
  /\ claim[t].state \in InHand /\ claim'[t].state \in InHand
  /\ claim'[t].next = claim[t].next /\ claim'[t].batch = claim[t].batch
  /\ marked'[t] = marked[t] /\ handled'[t] = handled[t]

FinishesOne(t) ==
  /\ claim[t].state = "handling" /\ claim'[t].state \in {"waiting", "done"}
  /\ claim'[t].next = claim[t].next /\ claim'[t].batch = << >>
  /\ marked'[t] = claim[t].next - 1 /\ handled'[t] = handled[t] \cup {claim[t].next - 1}

DropsOne(t) ==
  /\ claim[t].state = "failed" /\ claim'[t].state \in {"waiting", "done"}
  /\ claim'[t].next = claim[t].next
  /\ claim'[t].state = "waiting" => claim'[t].batch = << >>
  /\ mode.retry = "forever" => claim'[t].state = "done"
  /\ marked'[t] = marked[t] /\ handled'[t] = handled[t]

SingleMove(t) == TakesOne(t) \/ EndsEmpty(t) \/ TriesOne(t) \/ FinishesOne(t) \/ DropsOne(t)

LEMMA WaitsClaim ==
  ASSUME NEW t \in Topics, NEW c \in Claim(t)
  PROVE  /\ Waits(c).state \in {"waiting", "done"}
         /\ Waits(c).next = c.next /\ Waits(c).batch = << >>
  <1> DEFINE state == IF c.final THEN "done" ELSE "waiting"
  <1>1. state \in {"done", "waiting"}
    OBVIOUS
  <1>2. Waits(c) = [c EXCEPT !.batch = << >>, !.state = state]
    BY DEF Waits
  <1> HIDE DEF state
  <1> QED BY <1>1, <1>2 DEF Claim

LEMMA SingleMoves ==
  ASSUME TypeOK, SingleInv, ~Bulk, NEW t \in Topics, ClaimStep(t)
  PROVE  SingleMove(t)
  <1>0. claim[t] \in Claim(t) /\ ~(mode.bulk > 0)
    BY DEF TypeOK, Bulk
  <1>1. CASE Take(t)
    <2>1. claim[t].state = "waiting" /\ UNCHANGED <<marked, handled>>
      BY <1>1, TakeClaim
    <2>2. claim[t].batch = << >>
      BY <2>1 DEF SingleInv
    <2>3. ~(Len(<< >>) + 1 < mode.bulk)
      <3>1. mode.bulk \in Nat
        BY KafkaAssumption DEF TypeOK
      <3> QED BY <1>0, <3>1
    <2>4. claim'[t] = [claim[t] EXCEPT !.next = @ + 1, !.batch = Append(@, claim[t].next),
                                       !.state = IF Len(claim[t].batch) + 1 < mode.bulk
                                                   THEN "waiting" ELSE "calling"]
      BY <1>1, TakeClaim
    <2>5. claim'[t] = [claim[t] EXCEPT !.next = @ + 1, !.batch = Append(<< >>, claim[t].next),
                                       !.state = "calling"]
      BY <1>0, <2>2, <2>3, <2>4 DEF Claim
    <2>6. Append(<< >>, claim[t].next) = <<claim[t].next>>
      OBVIOUS
    <2>7. /\ claim'[t].state = "calling" /\ claim'[t].next = claim[t].next + 1
          /\ claim'[t].batch = <<claim[t].next>>
      BY <1>0, <2>5, <2>6 DEF Claim
    <2>8. TakesOne(t)
      BY <2>1, <2>7 DEF TakesOne
    <2> QED BY <2>8 DEF SingleMove
  <1>2. CASE Tick(t)
    BY <1>2, TickClaim
  <1>3. CASE ClaimEnds(t)
    <2>1. claim[t].state = "waiting" /\ UNCHANGED <<marked, handled>>
      BY <1>3, ClaimEndsClaim
    <2>2. claim[t].batch = << >>
      BY <2>1 DEF SingleInv
    <2>3. claim'[t] = [claim[t] EXCEPT !.final = TRUE, !.state = "done"]
      BY <1>3, <2>2, ClaimEndsClaim
    <2>4. EndsEmpty(t)
      BY <1>0, <2>1, <2>3 DEF EndsEmpty, Claim
    <2> QED BY <2>4 DEF SingleMove
  <1>4. CASE CallHandler(t)
    <2>1. claim[t].state = "calling" /\ UNCHANGED <<marked, handled>>
      BY <1>4, CallHandlerClaim
    <2> DEFINE state == IF topics[t] = None THEN "failed" ELSE "handling"
               handler == IF Bulk \/ topics[t] = None THEN claim[t].handler ELSE topics[t]
    <2>2. /\ claim'[t] = [claim[t] EXCEPT !.state = state, !.handler = handler]
          /\ state \in {"failed", "handling"}
      BY <1>4, CallHandlerClaim, Zenon
    <2> HIDE DEF state, handler
    <2>3. TriesOne(t)
      BY <1>0, <2>1, <2>2 DEF TriesOne, InHand, Claim
    <2> QED BY <2>3 DEF SingleMove
  <1>5. CASE Retry(t)
    <2>1. claim[t].state = "failed" /\ UNCHANGED <<marked, handled>>
          /\ claim'[t] = [claim[t] EXCEPT !.state = "calling"]
      BY <1>5, RetryClaim
    <2>2. TriesOne(t)
      BY <1>0, <2>1 DEF TriesOne, InHand, Claim
    <2> QED BY <2>2 DEF SingleMove
  <1>6. CASE GiveUp(t)
    <2>1. /\ claim[t].state = "failed" /\ UNCHANGED <<marked, handled>>
          /\ mode.retry = "forever" => Over
      BY <1>6, GiveUpClaim
    <2>2. CASE mode.retry # "off" /\ Over
      <3>1. claim'[t] = [claim[t] EXCEPT !.state = "done"]
        BY <1>6, <2>2, GiveUpClaim
      <3>2. claim'[t].state = "done" /\ claim'[t].next = claim[t].next
        BY <1>0, <3>1 DEF Claim
      <3> QED BY <2>1, <3>2 DEF SingleMove, DropsOne
    <2>3. CASE ~(mode.retry # "off" /\ Over)
      <3>1. claim'[t] = Waits(claim[t])
        BY <1>6, <2>3, GiveUpClaim
      <3>2. mode.retry # "forever"
        BY <2>1, <2>3
      <3>3. /\ claim'[t].state \in {"waiting", "done"}
            /\ claim'[t].next = claim[t].next /\ claim'[t].batch = << >>
        BY <1>0, <3>1, WaitsClaim
      <3> QED BY <2>1, <3>2, <3>3 DEF SingleMove, DropsOne
    <2> QED BY <2>2, <2>3
  <1>7. ASSUME NEW k \in 0..LastOf[t], Return(t, k) PROVE SingleMove(t)
    <2>1. /\ claim[t].state = "handling" /\ k \in 0..Len(claim[t].batch)
          /\ marked'[t] = IF k = 0 THEN marked[t] ELSE claim[t].batch[k]
          /\ handled'[t] = handled[t] \cup {claim[t].batch[i] : i \in 1..k}
      BY <1>7, ReturnClaim
    <2>2. claim'[t] = IF k = Len(claim[t].batch) THEN Waits(claim[t])
                       ELSE [claim[t] EXCEPT !.state = "failed"]
      BY <1>7, ReturnClaim
    <2>3. claim[t].batch = <<claim[t].next - 1>>
      BY <2>1 DEF SingleInv
    <2>4. Len(claim[t].batch) = 1 /\ claim[t].batch[1] = claim[t].next - 1
      BY <2>3
    <2>5. CASE k = 0
      <3>1. claim'[t] = [claim[t] EXCEPT !.state = "failed"]
        BY <2>2, <2>4, <2>5
      <3>2. {claim[t].batch[i] : i \in 1..k} = {}
        BY <2>5
      <3>3. marked'[t] = marked[t] /\ handled'[t] = handled[t]
        BY <2>1, <2>5, <3>2
      <3>4. /\ claim'[t].state = "failed" /\ claim'[t].next = claim[t].next
            /\ claim'[t].batch = claim[t].batch
        BY <1>0, <3>1 DEF Claim
      <3> QED BY <2>1, <3>3, <3>4 DEF SingleMove, TriesOne, InHand
    <2>6. CASE k # 0
      <3>1. k = 1
        BY <2>1, <2>4, <2>6
      <3>2. claim'[t] = Waits(claim[t])
        BY <2>2, <2>4, <3>1
      <3>3. {claim[t].batch[i] : i \in 1..k} = {claim[t].next - 1}
        BY <2>4, <3>1
      <3>4. /\ marked'[t] = claim[t].next - 1
            /\ handled'[t] = handled[t] \cup {claim[t].next - 1}
        BY <2>1, <2>4, <3>1, <3>3
      <3>5. /\ claim'[t].state \in {"waiting", "done"}
            /\ claim'[t].next = claim[t].next /\ claim'[t].batch = << >>
        BY <1>0, <3>2, WaitsClaim
      <3> QED BY <2>1, <3>4, <3>5 DEF SingleMove, FinishesOne
    <2> QED BY <2>5, <2>6
  <1> QED BY <1>1, <1>2, <1>3, <1>4, <1>5, <1>6, <1>7 DEF ClaimStep

\* The steps that move offsets or claims.
LEMMA OffsetFrame ==
  ASSUME [Next]_vars
  PROVE  \/ UNCHANGED <<mode, claim, marked, committed, handled, crashed>>
         \/ StartSession \/ SessionEnds \/ AutoCommit \/ Crash
         \/ \E t \in Topics : ClaimStep(t)
  <1>1. ASSUME NEW s \in Subscriptions, Call(s) \/ Cancel(s) \/ SubStep(s)
        PROVE  UNCHANGED <<mode, claim, marked, committed, handled, crashed>>
    BY <1>1 DEF Call, Cancel, SubStep, Register, Leave, Reload, history
  <1>2. CASE ConsumerEnds \/ CloseCalled \/ CloseStep \/ Rebalance
    BY <1>2 DEF ConsumerEnds, CloseCalled, CloseStep, CloseCancels, CloseGroup, CloseReturns,
                Rebalance, history
  <1>3. CASE UNCHANGED vars
    BY <1>3 DEF vars
  <1> QED BY <1>1, <1>2, <1>3 DEF Next, ConsumerStep

\* What a session starts with: claims that wait for the message after the committed
\* offset, or that are done.
LEMMA FreshClaims ==
  ASSUME TypeOK, StartSession, NEW t \in Topics
  PROVE  /\ claim'[t].batch = << >> /\ claim'[t].state \in {"none", "waiting", "done"}
         /\ claim'[t].state = "waiting" => claim'[t].next = committed[t] + 1
         /\ marked' = committed /\ UNCHANGED <<mode, committed, handled, crashed>>
  <1> DEFINE state == IF topics[t] = None THEN "done" ELSE "waiting"
  <1>1. state \in {"done", "waiting"}
    OBVIOUS
  <1>2. claim'[t] = IF t \in consumer.topics
                      THEN [NoClaim EXCEPT !.state = state, !.next = committed[t] + 1,
                                           !.handler = topics[t]]
                      ELSE NoClaim
    BY DEF StartSession
  <1> HIDE DEF state
  <1>3. marked' = committed /\ UNCHANGED <<mode, committed, handled, crashed>>
    BY DEF StartSession, history
  <1> QED BY <1>1, <1>2, <1>3 DEF NoClaim

\* Without bulk, the claims hold one message at most.
LEMMA SingleStep ==
  ASSUME TypeOK, SingleInv, [Next]_vars
  PROVE  SingleInv'
  <1> SUFFICES ASSUME ~Bulk', NEW t \in Topics
               PROVE  /\ claim'[t].state \in {"none", "waiting"} => claim'[t].batch = << >>
                      /\ claim'[t].state \in InHand =>
                           claim'[t].next > 1 /\ claim'[t].batch = <<claim'[t].next - 1>>
    BY DEF SingleInv, InHand
  <1>0. /\ Bulk = Bulk' => ~Bulk
        /\ ~Bulk => /\ claim[t].state \in {"none", "waiting"} => claim[t].batch = << >>
                    /\ claim[t].state \in InHand =>
                         claim[t].next > 1 /\ claim[t].batch = <<claim[t].next - 1>>
    BY DEF SingleInv, InHand
  <1>1. CASE UNCHANGED <<mode, claim, marked, committed, handled, crashed>>
    BY <1>0, <1>1 DEF Bulk
  <1>2. CASE StartSession
    BY <1>2, FreshClaims DEF InHand
  <1>3. CASE SessionEnds
    BY <1>3 DEF SessionEnds, NoClaim, InHand
  <1>4. CASE AutoCommit
    BY <1>0, <1>4 DEF AutoCommit, Bulk
  <1>5. CASE Crash
    BY <1>5 DEF Crash, NoClaim, InHand
  <1>6. ASSUME NEW u \in Topics, ClaimStep(u)
        PROVE  /\ claim'[t].state \in {"none", "waiting"} => claim'[t].batch = << >>
               /\ claim'[t].state \in InHand =>
                    claim'[t].next > 1 /\ claim'[t].batch = <<claim'[t].next - 1>>
    <2>1. Frame(u)
      BY <1>6, ClaimStepFrame
    <2>2. ~Bulk
      BY <2>1 DEF Frame, Bulk
    <2>3. CASE t # u
      <3>1. claim'[t] = claim[t]
        BY <2>1, <2>3 DEF Frame, TypeOK
      <3> QED BY <1>0, <2>2, <3>1
    <2>4. CASE t = u
      <3>1. SingleMove(t)
        BY <1>6, <2>2, <2>4, SingleMoves
      <3>2. claim[t].next \in Nat /\ claim[t].next >= 1
        BY BatchTyped
      <3>4. CASE TakesOne(t)
        <4>1. claim'[t].next - 1 = claim[t].next /\ claim'[t].next > 1
          BY <3>2, <3>4 DEF TakesOne
        <4>2. claim'[t].state = "calling" /\ claim'[t].batch = <<claim[t].next>>
          BY <3>4 DEF TakesOne
        <4>3. claim'[t].batch = <<claim'[t].next - 1>>
          BY <4>1, <4>2, Zenon
        <4> QED BY <4>1, <4>2, <4>3
      <3>5. CASE EndsEmpty(t)
        BY <3>5 DEF EndsEmpty, InHand
      <3>6. CASE TriesOne(t)
        BY <1>0, <2>2, <3>6 DEF TriesOne, InHand
      <3>7. CASE FinishesOne(t)
        BY <3>7 DEF FinishesOne, InHand
      <3>8. CASE DropsOne(t)
        BY <3>8 DEF DropsOne, InHand
      <3> QED BY <3>1, <3>4, <3>5, <3>6, <3>7, <3>8 DEF SingleMove
    <2> QED BY <2>3, <2>4
  <1> QED BY <1>1, <1>2, <1>3, <1>4, <1>5, <1>6, OffsetFrame

\* What ForeverInv says of one topic.
NoneMissed(t) ==
  /\ 1..committed[t] \subseteq handled[t] /\ 1..marked[t] \subseteq handled[t]
  /\ claim[t].state = "waiting" => 1..claim[t].next - 1 \subseteq handled[t]
  /\ claim[t].state \in InHand => 1..claim[t].next - 2 \subseteq handled[t]

\* With endless retries nothing before the message in hand is left out.
LEMMA ForeverStep ==
  ASSUME TypeOK, SingleInv, ForeverInv, [Next]_vars
  PROVE  ForeverInv'
  <1> SUFFICES ASSUME ~Bulk', mode'.retry = "forever", NEW t \in Topics
               PROVE  NoneMissed(t)'
    BY DEF ForeverInv, NoneMissed, InHand
  <1>0. mode' = mode => ~Bulk /\ mode.retry = "forever" /\ NoneMissed(t)
    BY DEF Bulk, ForeverInv, NoneMissed, InHand
  <1>1. CASE UNCHANGED <<mode, claim, marked, committed, handled, crashed>>
    BY <1>0, <1>1 DEF NoneMissed
  <1>2. CASE StartSession
    <2>1. /\ claim'[t].state \in {"none", "waiting", "done"}
          /\ claim'[t].state = "waiting" => claim'[t].next = committed[t] + 1
          /\ marked' = committed /\ UNCHANGED <<mode, committed, handled>>
      BY <1>2, FreshClaims
    <2>2. committed[t] \in Nat
      BY DEF TypeOK
    <2>3. claim'[t].state = "waiting" => claim'[t].next - 1 = committed[t]
      BY <2>1, <2>2
    <2>4. 1..committed[t] \subseteq handled[t]
      BY <1>0, <2>1 DEF NoneMissed
    <2>5. claim'[t].state = "waiting" => 1..claim'[t].next - 1 \subseteq handled[t]
      BY <2>3, <2>4, Zenon
    <2> QED BY <2>1, <2>4, <2>5 DEF NoneMissed, InHand
  <1>3. CASE SessionEnds
    BY <1>0, <1>3 DEF SessionEnds, NoneMissed, NoClaim, InHand
  <1>4. CASE AutoCommit
    BY <1>0, <1>4 DEF AutoCommit, NoneMissed
  <1>5. CASE Crash
    BY <1>0, <1>5 DEF Crash, NoneMissed, NoClaim, InHand
  <1>6. ASSUME NEW u \in Topics, ClaimStep(u) PROVE NoneMissed(t)'
    <2>1. Frame(u)
      BY <1>6, ClaimStepFrame
    <2>2. ~Bulk /\ mode.retry = "forever" /\ NoneMissed(t) /\ committed' = committed
      BY <1>0, <2>1 DEF Frame
    <2>3. CASE t # u
      <3>1. claim'[t] = claim[t] /\ marked'[t] = marked[t] /\ handled'[t] = handled[t]
        BY <2>1, <2>3 DEF Frame, TypeOK
      <3> QED BY <2>2, <3>1 DEF NoneMissed
    <2>4. CASE t = u
      <3>1. SingleMove(t)
        BY <1>6, <2>2, <2>4, SingleMoves
      <3>2. claim[t].next \in Nat /\ claim[t].next >= 1
        BY BatchTyped
      <3>3. CASE TakesOne(t)
        <4>1. claim'[t].next - 2 = claim[t].next - 1
          BY <3>2, <3>3 DEF TakesOne
        <4>2. 1..claim[t].next - 1 \subseteq handled[t]
          BY <2>2, <3>3 DEF TakesOne, NoneMissed
        <4>3. 1..claim'[t].next - 2 \subseteq handled[t]
          BY <4>1, <4>2, Zenon
        <4> QED BY <2>2, <3>3, <4>3 DEF TakesOne, NoneMissed, InHand
      <3>4. CASE EndsEmpty(t)
        BY <2>2, <3>4 DEF EndsEmpty, NoneMissed, InHand
      <3>5. CASE TriesOne(t)
        BY <2>2, <3>5 DEF TriesOne, NoneMissed, InHand
      <3>6. CASE FinishesOne(t)
        <4>1. 1..claim[t].next - 2 \subseteq handled[t]
          BY <2>2, <3>6 DEF FinishesOne, NoneMissed, InHand
        <4>2. handled'[t] = handled[t] \cup {claim[t].next - 1}
          BY <3>6 DEF FinishesOne
        <4>3. 1..claim[t].next - 1 \subseteq handled'[t]
          BY <3>2, <4>1, <4>2
        <4> QED BY <2>2, <3>6, <4>2, <4>3 DEF FinishesOne, NoneMissed, InHand
      <3>7. CASE DropsOne(t)
        BY <2>2, <3>7 DEF DropsOne, NoneMissed, InHand
      <3> QED BY <3>1, <3>3, <3>4, <3>5, <3>6, <3>7 DEF SingleMove
    <2> QED BY <2>3, <2>4
  <1> QED BY <1>1, <1>2, <1>3, <1>4, <1>5, <1>6, OffsetFrame

\* What OnceInv says of one topic.
MarkedFirst(t) ==
  /\ handled[t] \subseteq 1..marked[t]
  /\ claim[t].state = "waiting" => marked[t] < claim[t].next
  /\ claim[t].state \in InHand => marked[t] + 1 < claim[t].next

\* Without a crash nothing that was handled is taken again.
LEMMA OnceStep ==
  ASSUME TypeOK, SessionInv, SingleInv, OnceInv, [Next]_vars
  PROVE  OnceInv'
  <1> SUFFICES ASSUME ~Bulk', ~crashed', NEW t \in Topics
               PROVE  MarkedFirst(t)'
    BY DEF OnceInv, MarkedFirst, InHand
  <1>0. UNCHANGED <<mode, crashed>> => ~Bulk /\ ~crashed /\ MarkedFirst(t)
    BY DEF Bulk, OnceInv, MarkedFirst, InHand
  <1>1. CASE UNCHANGED <<mode, claim, marked, committed, handled, crashed>>
    BY <1>0, <1>1 DEF MarkedFirst
  <1>2. CASE StartSession
    <2>1. /\ claim'[t].state \in {"none", "waiting", "done"}
          /\ claim'[t].state = "waiting" => claim'[t].next = committed[t] + 1
          /\ marked' = committed /\ UNCHANGED <<mode, committed, handled, crashed>>
      BY <1>2, FreshClaims
    <2>2. committed[t] \in Nat
      BY DEF TypeOK
    <2>3. marked = committed
      BY <1>2 DEF StartSession, SessionInv
    <2>4. claim'[t].state = "waiting" => marked'[t] < claim'[t].next
      BY <2>1, <2>2
    <2> QED BY <1>0, <2>1, <2>3, <2>4 DEF MarkedFirst, InHand
  <1>3. CASE SessionEnds
    BY <1>0, <1>3 DEF SessionEnds, MarkedFirst, NoClaim, InHand, history
  <1>4. CASE AutoCommit
    BY <1>0, <1>4 DEF AutoCommit, MarkedFirst, history
  <1>5. CASE Crash
    BY <1>5 DEF Crash
  <1>6. ASSUME NEW u \in Topics, ClaimStep(u) PROVE MarkedFirst(t)'
    <2>1. Frame(u)
      BY <1>6, ClaimStepFrame
    <2>2. ~Bulk /\ ~crashed /\ MarkedFirst(t)
      BY <1>0, <2>1 DEF Frame
    <2>3. CASE t # u
      <3>1. claim'[t] = claim[t] /\ marked'[t] = marked[t] /\ handled'[t] = handled[t]
        BY <2>1, <2>3 DEF Frame, TypeOK
      <3> QED BY <2>2, <3>1 DEF MarkedFirst
    <2>4. CASE t = u
      <3>1. SingleMove(t)
        BY <1>6, <2>2, <2>4, SingleMoves
      <3>2. claim[t].next \in Nat /\ claim[t].next >= 1 /\ marked[t] \in Nat
        BY BatchTyped DEF TypeOK
      <3>3. CASE TakesOne(t)
        <4>1. marked[t] < claim[t].next /\ claim'[t].next = claim[t].next + 1
              /\ marked'[t] = marked[t]
          BY <2>2, <3>3 DEF TakesOne, MarkedFirst
        <4>2. marked'[t] + 1 < claim'[t].next
          BY <3>2, <4>1
        <4> QED BY <2>2, <3>3, <4>2 DEF TakesOne, MarkedFirst, InHand
      <3>4. CASE EndsEmpty(t)
        BY <2>2, <3>4 DEF EndsEmpty, MarkedFirst, InHand
      <3>5. CASE TriesOne(t)
        BY <2>2, <3>5 DEF TriesOne, MarkedFirst, InHand
      <3>6. CASE FinishesOne(t)
        <4>1. handled[t] \subseteq 1..marked[t] /\ marked[t] + 1 < claim[t].next
          BY <2>2, <3>6 DEF FinishesOne, MarkedFirst, InHand
        <4>2. /\ handled'[t] = handled[t] \cup {claim[t].next - 1}
              /\ marked'[t] = claim[t].next - 1 /\ claim'[t].next = claim[t].next
              /\ claim'[t].state \in {"waiting", "done"}
          BY <3>6 DEF FinishesOne
        <4>3. marked'[t] \in Nat /\ marked[t] <= marked'[t] /\ marked'[t] >= 1
              /\ marked'[t] < claim'[t].next
          BY <3>2, <4>1, <4>2
        <4>4. handled'[t] \subseteq 1..marked'[t]
          <5>1. handled'[t] = handled[t] \cup {marked'[t]}
            BY <4>2
          <5> QED BY <3>2, <4>1, <4>3, <5>1
        <4> QED BY <4>2, <4>3, <4>4 DEF MarkedFirst, InHand
      <3>7. CASE DropsOne(t)
        <4>1. marked[t] + 1 < claim[t].next => marked[t] < claim[t].next
          BY <3>2
        <4> QED BY <2>2, <3>7, <4>1 DEF DropsOne, MarkedFirst, InHand
      <3> QED BY <3>1, <3>3, <3>4, <3>5, <3>6, <3>7 DEF SingleMove
    <2> QED BY <2>3, <2>4
  <1> QED BY <1>1, <1>2, <1>3, <1>4, <1>5, <1>6, OffsetFrame

\* The consumer has the topics of the map while nobody changes them.
LEMMA ConsumedStep ==
  ASSUME TypeOK, LockInv, ConsumedInv, [Next]_vars
  PROVE  ConsumedInv'
  <1> USE DEF ConsumedInv, Closed
  <1>0. /\ DOMAIN consumer = {"state", "topics", "cancelled", "over"}
        /\ None \notin Subscriptions
    BY KafkaAssumption DEF TypeOK
  <1>1. ASSUME NEW s \in Subscriptions, Call(s) \/ Cancel(s) PROVE ConsumedInv'
    BY <1>1 DEF Call, Cancel, Subscribed
  <1>2. ASSUME NEW s \in Subscriptions, Register(s) \/ Leave(s) PROVE ConsumedInv'
    BY <1>0, <1>2 DEF Register, Leave
  <1>3. ASSUME NEW s \in Subscriptions, Reload(s) PROVE ConsumedInv'
    <2>1. /\ closing' = closing /\ topics' = topics
          /\ group' = "nil" => group = "nil"
          /\ consumer' = IF Subscribed = {} \/ Closed THEN NoConsumer
                         ELSE [NoConsumer EXCEPT !.state = "idle", !.topics = Subscribed]
      BY <1>3 DEF Reload
    <2>2. Subscribed' = Subscribed
      BY <2>1 DEF Subscribed
    <2>3. ~consumer'.cancelled
      BY <2>1 DEF NoConsumer
    <2>4. ~Closed /\ Subscribed # {} =>
            consumer'.state # "none" /\ consumer'.topics = Subscribed
      BY <2>1 DEF NoConsumer
    <2> QED BY <2>1, <2>2, <2>3, <2>4
  <1>4. ASSUME NEW t \in Topics, ClaimStep(t) PROVE ConsumedInv'
    BY <1>4, ClaimStepFrame DEF Frame, Subscribed
  <1>5. CASE StartSession
    <2>1. /\ UNCHANGED <<topics, lock, group, closing>>
          /\ consumer'.topics = consumer.topics /\ consumer'.cancelled = consumer.cancelled
          /\ consumer'.state = "session"
      BY <1>0, <1>5 DEF StartSession, subscribing
    <2> QED BY <2>1 DEF Subscribed
  <1>6. CASE SessionEnds
    <2>1. /\ UNCHANGED <<topics, lock, group, closing>>
          /\ consumer'.topics = consumer.topics /\ consumer'.cancelled = consumer.cancelled
          /\ consumer'.state = "idle"
      BY <1>0, <1>6 DEF SessionEnds, subscribing
    <2> QED BY <2>1 DEF Subscribed
  <1>7. CASE ConsumerEnds
    <2>1. consumer.cancelled \/ Closed
      BY <1>7 DEF ConsumerEnds
    <2> QED BY <1>7, <2>1 DEF ConsumerEnds, subscribing
  <1>8. CASE CloseCalled \/ CloseGroup \/ CloseReturns \/ CloseCancels
    BY <1>8 DEF CloseCalled, CloseGroup, CloseReturns, CloseCancels
  <1>9. CASE AutoCommit
    BY <1>9 DEF AutoCommit, subscribing, Subscribed
  <1>10. CASE Rebalance
    <2>1. /\ UNCHANGED <<topics, lock, group, closing>>
          /\ consumer'.topics = consumer.topics /\ consumer'.cancelled = consumer.cancelled
          /\ consumer'.state = consumer.state
      BY <1>0, <1>10 DEF Rebalance, subscribing
    <2> QED BY <2>1 DEF Subscribed
  <1>11. CASE Crash
    BY <1>11 DEF Crash, NoConsumer, Subscribed
  <1>12. CASE UNCHANGED vars
    BY <1>12 DEF vars, Subscribed
  <1> QED BY <1>1, <1>2, <1>3, <1>4, <1>5, <1>6, <1>7, <1>8, <1>9, <1>10, <1>11, <1>12
          DEF Next, SubStep, ConsumerStep, CloseStep

\* With one subscription for each topic, nobody takes the topic of another out.
LEMMA OneEachStep ==
  ASSUME TopicsDiffer, TypeOK, LockInv, OneEachInv, [Next]_vars
  PROVE  OneEachInv'
  <1>0. /\ TopicOf \in [Subscriptions -> Topics]
        /\ DOMAIN sub = Subscriptions /\ DOMAIN topics = Topics
    BY KafkaAssumption DEF TypeOK
  <1> USE <1>0 DEF OneEachInv
  <1>1. CASE UNCHANGED <<sub, topics, lock>>
    BY <1>1
  <1>2. CASE Crash
    BY <1>2 DEF Crash
  <1>3. ASSUME NEW s \in Subscriptions, Call(s) PROVE OneEachInv'
    BY <1>3 DEF Call
  <1>4. ASSUME NEW s \in Subscriptions, Cancel(s) PROVE OneEachInv'
    BY <1>4 DEF Cancel
  <1>5. ASSUME NEW s \in Subscriptions, Register(s) PROVE OneEachInv'
    BY <1>5 DEF Register, TopicsDiffer
  <1>6. ASSUME NEW s \in Subscriptions, Leave(s) PROVE OneEachInv'
    BY <1>6 DEF Leave, TopicsDiffer
  <1>7. ASSUME NEW s \in Subscriptions, Reload(s) PROVE OneEachInv'
    BY <1>7 DEF Reload, LockInv
  <1> QED BY <1>1, <1>2, <1>3, <1>4, <1>5, <1>6, <1>7, SubscribingFrame

\* Claims end only when their session is over.
LEMMA ServedStep ==
  ASSUME TypeOK, SessionInv, LockInv, ServedInv, [Next]_vars
  PROVE  ServedInv'
  <1>0. /\ DOMAIN consumer = {"state", "topics", "cancelled", "over"}
        /\ consumer.topics \subseteq Topics /\ DOMAIN sub = Subscriptions
    BY DEF TypeOK
  <1> USE DEF ServedInv
  <1>1. ASSUME UNCHANGED <<consumer, claim>> PROVE ServedInv'
    BY <1>1 DEF Working, Over
  <1>2. ASSUME CancelConsumer, claim' = claim PROVE ServedInv'
    <2>1. /\ consumer'.state = consumer.state /\ consumer'.topics = consumer.topics
          /\ consumer.state # "none" => Over'
      BY <1>0, <1>2 DEF CancelConsumer, Over
    <2> QED BY <1>2, <2>1
  <1>3. ASSUME NEW s \in Subscriptions, Call(s) \/ Cancel(s) PROVE ServedInv'
    BY <1>0, <1>1, <1>3 DEF Call, Cancel
  <1>4. ASSUME NEW s \in Subscriptions, Register(s) \/ Leave(s) PROVE ServedInv'
    BY <1>0, <1>2, <1>4 DEF Register, Leave
  <1>5. ASSUME NEW s \in Subscriptions, Reload(s) PROVE ServedInv'
    BY <1>5 DEF Reload, NoConsumer
  <1>6. ASSUME NEW t \in Topics, ClaimStep(t) PROVE ServedInv'
    <2>0. Frame(t)
      BY <1>6, ClaimStepFrame
    <2>1. consumer' = consumer /\ (Over' <=> Over)
      BY <2>0 DEF Frame, Over
    <2>2. \A u \in Topics : u # t => claim'[u] = claim[u]
      BY <2>0 DEF Frame, TypeOK
    <2>3. ASSUME consumer.state = "session", t \in consumer.topics
          PROVE  (Working(t)' \/ Over) /\ (claim'[t].final => Over)
      <3>0. claim[t] \in Claim(t) /\ (claim[t].final => Over)
        BY <2>3 DEF TypeOK
      <3>1. CASE Take(t)
        BY <3>0, <3>1, TakeClaim DEF Working, Claim
      <3>2. CASE Tick(t)
        BY <3>0, <3>2, TickClaim DEF Working, Claim
      <3>3. CASE ClaimEnds(t)
        BY <3>3 DEF ClaimEnds
      <3>4. CASE CallHandler(t)
        BY <3>0, <3>4, CallHandlerClaim DEF Working, Claim
      <3>5. CASE Retry(t)
        BY <3>0, <3>5, RetryClaim DEF Working, Claim
      <3>6. CASE GiveUp(t)
        <4>1. CASE ~Bulk /\ mode.retry # "off" /\ Over
          BY <4>1
        <4>2. CASE ~(~Bulk /\ mode.retry # "off" /\ Over)
          BY <3>0, <3>6, <4>2, GiveUpClaim DEF Waits, Working, Claim
        <4> QED BY <4>1, <4>2
      <3>7. ASSUME NEW k \in 0..LastOf[t], Return(t, k)
            PROVE  (Working(t)' \/ Over) /\ (claim'[t].final => Over)
        <4>1. \/ claim'[t] = Waits(claim[t])
              \/ claim'[t] = [claim[t] EXCEPT !.state = "failed"]
          BY <3>7, ReturnClaim
        <4>2. CASE claim'[t] = Waits(claim[t])
          BY <3>0, <4>2 DEF Waits, Working, Claim
        <4>3. CASE claim'[t] = [claim[t] EXCEPT !.state = "failed"]
          BY <3>0, <4>3 DEF Working, Claim
        <4> QED BY <4>1, <4>2, <4>3
      <3> QED BY <1>6, <3>1, <3>2, <3>3, <3>4, <3>5, <3>6, <3>7 DEF ClaimStep
    <2> QED BY <1>0, <2>1, <2>2, <2>3 DEF Working
  <1>7. CASE StartSession
    <2>1. /\ consumer'.topics = consumer.topics
          /\ consumer'.over = \E t \in consumer.topics : topics[t] = None
      BY <1>0, <1>7 DEF StartSession, subscribing
    <2>2. ASSUME NEW t \in consumer.topics
          PROVE  claim'[t] = [NoClaim EXCEPT
                   !.state = IF topics[t] = None THEN "done" ELSE "waiting",
                   !.next = committed[t] + 1, !.handler = topics[t]]
      BY <1>0, <1>7 DEF StartSession
    <2>3. \A t \in consumer.topics : ~claim'[t].final /\ (topics[t] # None => Working(t)')
      BY <2>2 DEF NoClaim, Working
    <2> QED BY <2>1, <2>3 DEF Over
  <1>8. CASE SessionEnds
    BY <1>0, <1>8 DEF SessionEnds, subscribing
  <1>9. CASE ConsumerEnds
    BY <1>9 DEF ConsumerEnds, subscribing, NoConsumer
  <1>10. CASE CloseCalled \/ CloseReturns \/ AutoCommit \/ UNCHANGED vars
    BY <1>1, <1>10 DEF CloseCalled, CloseReturns, AutoCommit, vars, subscribing
  <1>11. CASE CloseGroup
    BY <1>1, <1>11 DEF CloseGroup, subscribing
  <1>12. CASE CloseCancels
    BY <1>2, <1>12 DEF CloseCancels, subscribing
  <1>13. CASE Rebalance
    BY <1>0, <1>13 DEF Rebalance, subscribing, Over
  <1>14. CASE Crash
    BY <1>14 DEF Crash, NoConsumer
  <1> QED BY <1>3, <1>4, <1>5, <1>6, <1>7, <1>8, <1>9, <1>10, <1>11, <1>12, <1>13, <1>14
          DEF Next, SubStep, ConsumerStep, CloseStep

LEMMA InvStep == IInv /\ [Next]_vars => IInv'
  BY TypeStep, SessionStep, LockStep, QuietStep, SingleStep, ForeverStep, OnceStep, ConsumedStep,
     ServedStep
     DEF IInv

-----------------------------------------------------------------------------
(* The theorems.                                                           *)

\* TypeOK: offsets and messages in hand stay within their topic's log.
THEOREM TypeCorrect == Spec => []TypeOK
  <1>1. IInv => TypeOK
    BY DEF IInv
  <1> QED BY <1>1, InvInit, InvStep, PTL DEF Spec

\* NothingSkipped: with endless retries the group never commits past a message no
\* handler has dealt with, whatever sessions end, are rebalanced or crash and
\* whatever subscriptions come and go (ConsumeClaim, doCallback).
THEOREM NoMessageSkipped == Spec => []NothingSkipped
  <1>1. IInv => NothingSkipped
    BY DEF IInv, ForeverInv, NothingSkipped, Passed
  <1> QED BY <1>1, InvInit, InvStep, PTL DEF Spec

\* HandledOnce: a message a handler has dealt with is not given to a handler again
\* by any number of sessions, unless the process crashed (MarkMessage in doCallback,
\* and the commit at the end of a session).
THEOREM NoMessageTwice == Spec => HandledOnce
  <1> DEFINE Once == ~Bulk /\ ~crashed =>
               \A t \in Topics :
                 claim[t].state = "calling" /\ claim'[t].state = "handling" =>
                   \A i \in 1..Len(claim[t].batch) : claim[t].batch[i] \notin handled[t]
  <1>1. IInv => Once
    <2> SUFFICES ASSUME IInv, ~Bulk, ~crashed, NEW t \in Topics, claim[t].state = "calling",
                        NEW i \in 1..Len(claim[t].batch)
                 PROVE  claim[t].batch[i] \notin handled[t]
      OBVIOUS
    <2>1. claim[t].batch = <<claim[t].next - 1>>
      BY DEF IInv, SingleInv
    <2>2. Len(claim[t].batch) = 1 /\ claim[t].batch[1] = claim[t].next - 1
      BY <2>1
    <2>3. claim[t].batch[i] = claim[t].next - 1
      BY <2>2
    <2>4. handled[t] \subseteq 1..marked[t] /\ marked[t] + 1 < claim[t].next
      BY DEF IInv, OnceInv
    <2>5. marked[t] \in Nat /\ claim[t].next \in Nat
      BY BatchTyped DEF IInv, TypeOK
    <2>6. claim[t].next - 1 \notin 1..marked[t]
      BY <2>4, <2>5
    <2> QED BY <2>3, <2>4, <2>6
  <1>2. IInv /\ [Next]_vars => [Once]_vars
    BY <1>1
  <1> HIDE DEF Once
  <1>3. Spec => [][Once]_vars
    BY <1>2, InvInit, InvStep, PTL DEF Spec
  <1> QED BY <1>3 DEF HandledOnce, Once

\* LeftIsQuiet: the handler of a subscription that has left, or of a component whose
\* Close has returned, is not running, also where several subscriptions follow
\* each other on a topic (reloadConsumerGroup waits for the consumer).
THEOREM LeftStaysQuiet == Spec => []LeftIsQuiet
  <1>1. IInv => LeftIsQuiet
    <2> SUFFICES ASSUME IInv, NEW t \in Topics, claim[t].state = "handling"
                 PROVE  sub[claim[t].handler] # "left" /\ closing # "returned"
      BY DEF LeftIsQuiet
    <2>1. Working(t)
      BY DEF Working
    <2>2. consumer.state = "session"
      BY <2>1, WorkingInSession DEF IInv
    <2> QED BY <2>1, <2>2 DEF IInv, QuietInv
  <1> QED BY <1>1, InvInit, InvStep, PTL DEF Spec

\* Nothing but a subscription that leaves shuts the group down.
LEMMA GroupCloses ==
  ASSUME TypeOK, [Next]_vars, group # "closed", group' = "closed"
  PROVE  \E s \in Subscriptions : Reload(s)
  <1>1. ASSUME NEW t \in Topics, ClaimStep(t) PROVE group' = group
    BY <1>1, ClaimStepFrame DEF Frame
  <1> QED BY <1>1 DEF Next, SubStep, ConsumerStep, CloseStep, Call, Cancel, Register, Leave,
            StartSession, SessionEnds, ConsumerEnds, CloseCalled, CloseCancels, CloseGroup,
            CloseReturns, AutoCommit, Rebalance, Crash, vars, subscribing, history

\* ServedWhileLive: if no topic is subscribed to twice, a subscription has a claim in
\* the session, or a group to join, as long as it lasts and nobody changes the
\* subscriptions, unless the group was shut down before it subscribed (GroupShutDown,
\* ShutDownByLast); and its handler is not called any longer (Subscribe,
\* reloadConsumerGroup, consume, Close).
THEOREM LiveIsServed == TopicsDiffer => (Spec => ServedWhileLive)
  <1> SUFFICES ASSUME TopicsDiffer PROVE Spec => ServedWhileLive
    OBVIOUS
  <1>1. IInv /\ OneEachInv /\ [Next]_vars => OneEachInv'
    BY OneEachStep DEF IInv
  <1>2. IInv /\ OneEachInv => LiveIsConsumed
    <2> SUFFICES ASSUME IInv, OneEachInv, NEW s \in Subscriptions, sub[s] = "live",
                        lock = None, ~Closed
                 PROVE  /\ TopicOf[s] \in Subscribed /\ TopicOf[s] \in consumer.topics
                        /\ ~consumer.cancelled
                        /\ \/ consumer.state = "session" /\ (Working(TopicOf[s]) \/ Over)
                           \/ consumer.state = "idle" /\ (group = "open" \/ GroupShutDown)
      BY DEF LiveIsConsumed
    <2>1. topics[TopicOf[s]] = s /\ TopicOf[s] \in Topics /\ s # None
      BY KafkaAssumption DEF OneEachInv
    <2>2. TopicOf[s] \in Subscribed
      BY <2>1 DEF Subscribed
    <2>3. /\ ~consumer.cancelled /\ consumer.state # "none"
          /\ TopicOf[s] \in consumer.topics
      BY <2>2 DEF IInv, ConsumedInv
    <2>4. consumer.state \in {"idle", "session"} /\ group \in {"open", "closed"}
      BY <2>3 DEF IInv, TypeOK, ConsumedInv
    <2> QED BY <2>2, <2>3, <2>4 DEF IInv, ServedInv, GroupShutDown
  <1>3. Spec => []LiveIsConsumed
    BY <1>1, <1>2, InvInit, InvStep, PTL DEF Spec
  <1> DEFINE ByLast == ~GroupShutDown /\ GroupShutDown' => \A s \in Subscriptions : sub[s] # "live"
  <1>4. ASSUME TypeOK, OneEachInv, [Next]_vars PROVE ByLast
    <2> SUFFICES ASSUME group # "closed", group' = "closed", NEW s \in Subscriptions,
                        sub[s] = "live"
                 PROVE  FALSE
      BY DEF GroupShutDown
    <2>1. PICK r \in Subscriptions : Reload(r)
      BY <1>4, GroupCloses
    <2>2. topics[TopicOf[s]] = s /\ TopicOf[s] \in Topics /\ s # None
      BY <1>4, KafkaAssumption DEF OneEachInv
    <2>3. Subscribed = {}
      BY <2>1 DEF Reload
    <2> QED BY <2>2, <2>3 DEF Subscribed
  <1>5. IInv /\ OneEachInv /\ [Next]_vars => [ByLast]_vars
    BY <1>4 DEF IInv
  <1> HIDE DEF ByLast
  <1>6. Spec => [][ByLast]_vars
    BY <1>1, <1>5, InvInit, InvStep, PTL DEF Spec
  <1>7. Spec => ShutDownByLast
    BY <1>6 DEF ShutDownByLast, ByLast
  <1> QED BY <1>3, <1>7, LeftStaysQuiet, PTL DEF ServedWhileLive

-----------------------------------------------------------------------------
(* Redis Streams: the lists of the ids.                                    *)

\* A nonempty set of numbers has a least element.
LEMMA LeastNumber ==
  ASSUME NEW T \in SUBSET Nat, T # {}
  PROVE  \E n \in T : \A k \in T : n <= k
  <1>1. PICK n \in T : \A k \in T : ~ (<<k, n>> \in OpToRel(<, Nat))
    BY WFMin, NatLessThanWellFounded, Zenon
  <1>2. \A k \in T : ~ (k < n)
    BY <1>1 DEF OpToRel
  <1>3. ASSUME NEW k \in T PROVE n <= k
    <2>1. n \in Nat /\ k \in Nat /\ ~ (k < n)
      BY <1>2
    <2> QED BY <2>1
  <1> QED BY <1>3

\* s lists the elements of S in increasing order.
Lists(s, S) == /\ Range(s) = S
               /\ \A i, j \in DOMAIN s : i < j => s[i] < s[j]

\* Every finite set of ids can be listed in the order of the stream.
LEMMA ListExists ==
  ASSUME NEW S \in SUBSET Nat, IsFiniteSet(S)
  PROVE  \E s \in [1 .. Cardinality(S) -> S] : Lists(s, S)
  <1> DEFINE Small(n) == \A U \in SUBSET Nat : IsFiniteSet(U) /\ Cardinality(U) = n
                           => \E s \in [1 .. n -> U] : Lists(s, U)
             Large == {n \in Nat : ~ Small(n)}
  <1>1. Large = {}
    <2> SUFFICES ASSUME Large # {} PROVE FALSE
      OBVIOUS
    <2>1. PICK n \in Large : \A k \in Large : n <= k
      BY LeastNumber, Zenon
    <2>2. PICK U \in SUBSET Nat : /\ IsFiniteSet(U) /\ Cardinality(U) = n
                                  /\ ~ \E s \in [1 .. n -> U] : Lists(s, U)
      BY <2>1
    <2>3. n \in Nat
      BY <2>1
    <2>4. CASE n = 0
      <3>1. U = {}
        BY <2>2, <2>4, FS_EmptySet
      <3>2. 1 .. n = {}
        BY <2>4
      <3> DEFINE e == [i \in 1 .. n |-> 0]
      <3>3. e \in [1 .. n -> U] /\ DOMAIN e = {}
        BY <3>2
      <3>4. Range(e) = {}
        BY <3>3 DEF Range
      <3>5. Lists(e, U)
        BY <3>1, <3>3, <3>4 DEF Lists
      <3> QED BY <2>2, <3>3, <3>5
    <2>5. CASE n # 0
      <3>1. U # {}
        BY <2>2, <2>5, FS_EmptySet
      <3>2. PICK m \in U : \A k \in U : m <= k
        BY <3>1, LeastNumber, Zenon
      <3>3. IsFiniteSet(U \ {m}) /\ Cardinality(U \ {m}) = n - 1
        BY <2>2, <3>2, FS_RemoveElement
      <3>4. n - 1 \in Nat /\ n - 1 \notin Large
        BY <2>1, <2>3, <2>5
      <3>5. Small(n - 1)
        BY <3>4
      <3>6. PICK s \in [1 .. n - 1 -> U \ {m}] : Lists(s, U \ {m})
        BY <2>2, <3>3, <3>5
      <3> DEFINE t == [i \in 1 .. n |-> IF i = 1 THEN m ELSE s[i - 1]]
      <3>7. t \in [1 .. n -> U]
        BY <2>3, <2>5, <3>2, <3>6
      <3>8. \A i, j \in 1 .. n : i < j => t[i] < t[j]
        <4> SUFFICES ASSUME NEW i \in 1 .. n, NEW j \in 1 .. n, i < j
                     PROVE  t[i] < t[j]
          OBVIOUS
        <4>1. j # 1 /\ j - 1 \in 1 .. n - 1 /\ t[j] = s[j - 1]
          BY <2>3
        <4>2. s[j - 1] \in U \ {m}
          BY <3>6, <4>1
        <4>3. CASE i = 1
          <5>1. t[i] = m /\ m \in Nat /\ s[j - 1] \in Nat
            BY <4>2, <4>3
          <5>2. m <= s[j - 1] /\ m # s[j - 1]
            BY <3>2, <4>2
          <5> QED BY <4>1, <5>1, <5>2
        <4>4. CASE i # 1
          <5>1. i - 1 \in 1 .. n - 1 /\ t[i] = s[i - 1] /\ i - 1 < j - 1
            BY <2>3, <4>4
          <5> QED BY <3>6, <4>1, <5>1 DEF Lists
        <4> QED BY <4>3, <4>4
      <3>9. Range(t) = U
        <4>1. Range(t) \subseteq U
          BY <3>7 DEF Range
        <4>2. ASSUME NEW u \in U PROVE u \in Range(t)
          <5>1. CASE u = m
            <6>1. 1 \in 1 .. n /\ t[1] = m
              BY <2>3, <2>5
            <6> QED BY <5>1, <6>1 DEF Range
          <5>2. CASE u # m
            <6>1. u \in Range(s)
              BY <3>6, <5>2 DEF Lists
            <6>2. PICK i \in 1 .. n - 1 : s[i] = u
              BY <3>6, <6>1 DEF Range
            <6>3. i + 1 \in 1 .. n /\ t[i + 1] = u
              BY <2>3, <6>2
            <6> QED BY <6>3 DEF Range
          <5> QED BY <5>1, <5>2
        <4> QED BY <4>1, <4>2
      <3>10. Lists(t, U)
        BY <3>7, <3>8, <3>9 DEF Lists
      <3> QED BY <2>2, <3>7, <3>10
    <2> QED BY <2>4, <2>5
  <1>2. Cardinality(S) \in Nat
    BY FS_CardinalityType
  <1>3. Small(Cardinality(S))
    BY <1>1, <1>2
  <1> QED BY <1>3

\* Sorted lists a set of ids.
LEMMA SortedLists ==
  ASSUME NEW S \in SUBSET Nat, IsFiniteSet(S)
  PROVE  /\ Sorted(S) \in [1 .. Cardinality(S) -> S]
         /\ Sorted(S) \in Seq(S) /\ Len(Sorted(S)) = Cardinality(S)
         /\ Lists(Sorted(S), S)
  <1>1. \E s \in [1 .. Cardinality(S) -> S] : Lists(s, S)
    BY ListExists
  <1>2. Sorted(S) \in [1 .. Cardinality(S) -> S] /\ Lists(Sorted(S), S)
    BY <1>1 DEF Sorted, Lists
  <1>3. Cardinality(S) \in Nat
    BY FS_CardinalityType
  <1> QED BY <1>2, <1>3

\* The first n ids of a sequence.
LEMMA PrefixTyped ==
  ASSUME NEW S, NEW s \in Seq(S), NEW n \in Nat
  PROVE  /\ Prefix(s, n) \in Seq(S)
         /\ Len(Prefix(s, n)) = IF Len(s) < n THEN Len(s) ELSE n
         /\ \A i \in 1 .. Len(Prefix(s, n)) : Prefix(s, n)[i] = s[i]
  <1> DEFINE k == IF Len(s) < n THEN Len(s) ELSE n
  <1>1. k \in 0 .. Len(s)
    OBVIOUS
  <1>2. \A i \in 1 .. k : s[i] \in S
    BY <1>1
  <1>3. /\ SubSeq(s, 1, k) \in Seq(S) /\ Len(SubSeq(s, 1, k)) = k
        /\ \A i \in 1 .. k : SubSeq(s, 1, k)[i] = s[i]
    <2> HIDE DEF k
    <2>1. k \in Nat
      BY <1>1
    <2> QED BY <1>1, <1>2, <2>1
  <1> QED BY <1>3 DEF Prefix

\* A batch holds the oldest ids of S: the ones up to its last.
LEMMA BatchIsOldest ==
  ASSUME NEW S \in SUBSET Messages,
         NEW batch, batch = Prefix(Sorted(S), QueueDepth), batch # << >>
  PROVE  /\ batch \in Seq(S) /\ Range(batch) \subseteq S
         /\ Last(batch) \in S
         /\ \A m \in S : m <= Last(batch) => m \in Range(batch)
  <1>1. S \in SUBSET Nat /\ IsFiniteSet(S)
    <2>1. IsFiniteSet(Messages)
      BY FS_Interval, StreamsAssumption DEF Messages
    <2>2. Messages \subseteq Nat
      BY StreamsAssumption DEF Messages
    <2> QED BY <2>1, <2>2, FS_Subset
  <1> DEFINE s == Sorted(S)
  <1>2. s \in Seq(S) /\ Lists(s, S)
    BY <1>1, SortedLists
  <1> HIDE DEF s
  <1>3. QueueDepth \in Nat
    BY StreamsAssumption
  <1>4. batch = Prefix(s, QueueDepth)
    BY DEF s
  <1>5. batch \in Seq(S) /\ Len(batch) \in 0 .. Len(s)
        /\ \A i \in 1 .. Len(batch) : batch[i] = s[i]
    BY <1>2, <1>3, <1>4, PrefixTyped
  <1>6. Len(batch) \in 1 .. Len(s)
    BY <1>5
  <1>7. Last(batch) = s[Len(batch)] /\ Last(batch) \in S
    BY <1>5, <1>6 DEF Last
  <1>8. Range(batch) \subseteq S
    BY <1>5 DEF Range
  <1>9. ASSUME NEW m \in S, m <= Last(batch)
        PROVE  m \in Range(batch)
    <2>1. DOMAIN s = 1 .. Len(s)
      BY <1>2
    <2>2. PICK i \in 1 .. Len(s) : s[i] = m
      BY <1>2, <2>1 DEF Lists, Range
    <2>3. ~ (Len(batch) < i)
      <3>1. Len(batch) < i => s[Len(batch)] < s[i]
        BY <1>2, <1>6, <2>1 DEF Lists
      <3>2. m \in Nat /\ Last(batch) \in Nat
        BY <1>1, <1>7
      <3> QED BY <1>7, <1>9, <2>2, <3>1, <3>2
    <2>4. i \in 1 .. Len(batch)
      BY <1>6, <2>3
    <2>5. batch[i] = m /\ DOMAIN batch = 1 .. Len(batch)
      BY <1>5, <2>2, <2>4
    <2> QED BY <2>4, <2>5 DEF Range
  <1> QED BY <1>5, <1>7, <1>8, <1>9

-----------------------------------------------------------------------------
(* The invariant.                                                          *)

\* A worker that runs a handler or acknowledges has a message, and it acknowledges
\* only what a handler has settled.
WorkerInv ==
  \A w \in Workers : /\ worker[w].pc \in {"handler", "ack"} => worker[w].msg \in Messages
                     /\ worker[w].pc = "ack" => worker[w].msg \in settled

TypeInv == StreamsTypeOK /\ WorkerInv

\* What reclaimPendingMessages can be doing.
ReclaimState == [pc : {"wait", "claim", "enqueue"}, ids : Seq(Messages), claimed : Seq(Messages)]

StreamsIInv == TypeInv /\ UnsettledStaysPending

LEMMA NoReclaimTyped == << >> \in Seq(Messages) /\ Len(<< >>) = 0 /\ NoReclaim \in ReclaimState
  BY DEF NoReclaim, ReclaimState

LEMMA TypeInvInit == StreamsInit => TypeInv
  <1> SUFFICES ASSUME StreamsInit PROVE TypeInv
    OBVIOUS
  <1>1. worker \in [Workers -> [pc : {"idle"}, msg : {NoMsg}]]
    BY DEF StreamsInit, Idle
  <1>2. 0 \in 0 .. MaxMessages /\ 0 \in 0 .. 0 /\ 0 <= QueueDepth
    BY StreamsAssumption
  <1>3. StreamsTypeOK
    BY <1>1, <1>2, NoReclaimTyped DEF StreamsInit, StreamsTypeOK, ReclaimState
  <1> QED BY <1>1, <1>3 DEF TypeInv, WorkerInv

\* Sequences of ids, as the loops shorten and lengthen them.
LEMMA SeqSteps ==
  ASSUME NEW s \in Seq(Messages)
  PROVE  /\ s # << >> => Head(s) \in Messages /\ Tail(s) \in Seq(Messages)
                          /\ Len(Tail(s)) = Len(s) - 1
         /\ Range(s) \subseteq Messages
         /\ \A m \in Messages : Append(s, m) \in Seq(Messages) /\ Len(Append(s, m)) = Len(s) + 1
  BY DEF Range

\* What is sorted, cut and filtered stays a sequence of ids.
LEMMA SortedTyped ==
  ASSUME NEW S \in SUBSET Messages
  PROVE  Sorted(S) \in Seq(Messages)
  <1>1. IsFiniteSet(Messages)
    BY FS_Interval, StreamsAssumption DEF Messages
  <1>2. Messages \subseteq Nat
    BY StreamsAssumption DEF Messages
  <1>3. S \in SUBSET Nat /\ IsFiniteSet(S)
    BY <1>1, <1>2, FS_Subset
  <1>4. Sorted(S) \in Seq(S)
    BY <1>3, SortedLists
  <1> QED BY <1>4

\* The types hold after every action.
LEMMA TypeInvStep == TypeInv /\ [StreamsNext]_streamsVars => TypeInv'
  <1> SUFFICES ASSUME TypeInv, [StreamsNext]_streamsVars PROVE TypeInv'
    OBVIOUS
  <1> USE NoReclaimTyped DEF TypeInv, StreamsTypeOK, WorkerInv, ReclaimState
  <1>1. CASE Publish
    BY <1>1, StreamsAssumption DEF Publish, compVars, histVars
  <1>2. CASE Trim
    <2>1. IsFiniteSet(trimmed) /\ Cardinality(trimmed) \in Nat
      <3>1. IsFiniteSet(Messages)
        BY FS_Interval, StreamsAssumption DEF Messages
      <3> QED BY <3>1, FS_Subset, FS_CardinalityType
    <2>2. Cardinality(trimmed) + 1 \in Messages
      BY <1>2, <2>1, StreamsAssumption DEF Trim, Messages
    <2> QED BY <1>2, <2>2 DEF Trim, compVars, histVars
  <1>3. CASE GroupLost
    <2>1. 0 \in 0 .. added
      BY StreamsAssumption
    <2> QED BY <1>3, <2>1 DEF GroupLost, compVars, histVars
  <1>4. ASSUME NEW m \in Messages, IdleTimePasses(m) PROVE TypeInv'
    BY <1>4 DEF IdleTimePasses, compVars, histVars
  <1>5. CASE PollNewMessages
    <2> DEFINE batch == Prefix(Sorted(Unread), QueueDepth)
    <2>1. Unread \in SUBSET Messages
      BY DEF Unread
    <2>2. batch \in Seq(Unread) /\ Range(batch) \subseteq Unread /\ Last(batch) \in Unread
      BY <1>5, <2>1, BatchIsOldest DEF PollNewMessages
    <2>3. /\ last' = Last(batch) /\ pel' = pel \cup Range(batch)
          /\ polled' = batch \/ polled' = polled
          /\ UNCHANGED <<added, trimmed, hasGroup, idle, queue, reclaim, worker, closed, up, settled>>
      BY <1>5 DEF PollNewMessages
    <2> HIDE DEF batch
    <2>4. batch \in Seq(Messages)
      BY <2>1, <2>2
    <2>5. last' \in 0 .. added
      BY <2>2, <2>3, StreamsAssumption DEF Unread, Messages
    <2>6. pel' \subseteq Messages /\ idle' \subseteq pel'
      BY <2>1, <2>2, <2>3
    <2> QED BY <2>3, <2>4, <2>5, <2>6
  <1>6. CASE PollRecreatesGroup
    BY <1>6 DEF PollRecreatesGroup, compVars, histVars
  <1>7. CASE PollEnqueues
    <2>1. /\ Append(queue, Head(polled)) \in Seq(Messages)
          /\ Len(Append(queue, Head(polled))) = Len(queue) + 1
          /\ Tail(polled) \in Seq(Messages)
      BY <1>7, SeqSteps DEF PollEnqueues
    <2>2. Len(queue) \in Nat /\ Len(queue) < QueueDepth /\ QueueDepth \in Nat
      BY <1>7, StreamsAssumption DEF PollEnqueues
    <2> QED BY <1>7, <2>1, <2>2 DEF PollEnqueues, redisVars, histVars
  <1>8. CASE PollExits
    BY <1>8 DEF PollExits, redisVars, histVars
  <1>9. CASE ReclaimPending
    <2> DEFINE found == Range(Prefix(Sorted(pel), QueueDepth)) \cap idle
               ids == Sorted(found)
    <2>1. found \in SUBSET Messages
      OBVIOUS
    <2>2. ids \in Seq(Messages)
      BY <2>1, SortedTyped
    <2>3. reclaim' = [NoReclaim EXCEPT !.pc = "claim", !.ids = ids]
      BY <1>9 DEF ReclaimPending
    <2> HIDE DEF ids
    <2>4. reclaim' \in ReclaimState
      BY <2>2, <2>3 DEF NoReclaim
    <2> QED BY <1>9, <2>4 DEF ReclaimPending, redisVars, histVars
  <1>10. CASE ReclaimClaims
    <2> DEFINE taken == {m \in Range(reclaim.ids) : m \in idle}
    <2>1. taken \in SUBSET Messages
      BY SeqSteps
    <2>2. Sorted(taken) \in Seq(Messages)
      BY <2>1, SortedTyped
    <2>3. reclaim' \in {[NoReclaim EXCEPT !.pc = "enqueue", !.claimed = Sorted(taken)],
                        [NoReclaim EXCEPT !.pc = "enqueue", !.ids = reclaim.ids]}
      BY <1>10 DEF ReclaimClaims
    <2>4. idle' = idle \ taken
      BY <1>10 DEF ReclaimClaims
    <2> HIDE DEF taken
    <2>5. reclaim' \in ReclaimState
      BY <2>2, <2>3 DEF NoReclaim
    <2> QED BY <1>10, <2>4, <2>5 DEF ReclaimClaims, histVars
  <1>11. CASE ReclaimEnqueues
    <2>1. /\ Append(queue, Head(reclaim.claimed)) \in Seq(Messages)
          /\ Len(Append(queue, Head(reclaim.claimed))) = Len(queue) + 1
          /\ Tail(reclaim.claimed) \in Seq(Messages)
      BY <1>11, SeqSteps DEF ReclaimEnqueues
    <2>2. Len(queue) \in Nat /\ Len(queue) < QueueDepth /\ QueueDepth \in Nat
      BY <1>11, StreamsAssumption DEF ReclaimEnqueues
    <2>3. reclaim' \in ReclaimState
      BY <1>11, <2>1 DEF ReclaimEnqueues
    <2> QED BY <1>11, <2>1, <2>2, <2>3 DEF ReclaimEnqueues, redisVars, histVars
  <1>12. CASE removeMessagesThatNoLongerExistFromPending
    <2> DEFINE m == Head(reclaim.ids)
    <2>1. m \in Messages /\ Tail(reclaim.ids) \in Seq(Messages)
      BY <1>12, SeqSteps DEF removeMessagesThatNoLongerExistFromPending
    <2>2. <<m>> \in Seq(Messages) /\ << >> \in Seq(Messages)
      BY <2>1
    <2>3. reclaim' \in ReclaimState
      BY <1>12, <2>1, <2>2 DEF removeMessagesThatNoLongerExistFromPending
    <2>4. pel' \subseteq Messages /\ idle' \subseteq pel'
      BY <1>12 DEF removeMessagesThatNoLongerExistFromPending, XAck
    <2> QED BY <1>12, <2>3, <2>4 DEF removeMessagesThatNoLongerExistFromPending, histVars
  <1>13. CASE ReclaimLoops
    BY <1>13 DEF ReclaimLoops, redisVars, histVars
  <1>14. CASE ReclaimFails
    BY <1>14 DEF ReclaimFails
  <1>15. CASE removeMessagesSkipsOne
    <2>1. Tail(reclaim.ids) \in Seq(Messages)
      BY <1>15, SeqSteps DEF removeMessagesSkipsOne
    <2> QED BY <1>15, <2>1 DEF removeMessagesSkipsOne
  <1>16. CASE ReclaimExits
    BY <1>16 DEF ReclaimExits, redisVars, histVars
  <1>17. ASSUME NEW w \in Workers, Worker(w) PROVE TypeInv'
    <2>1. CASE WorkerTakes(w)
      <3>1. Head(queue) \in Messages /\ Tail(queue) \in Seq(Messages)
            /\ Len(Tail(queue)) <= QueueDepth
        BY <2>1, SeqSteps, StreamsAssumption DEF WorkerTakes
      <3> QED BY <2>1, <3>1 DEF WorkerTakes, redisVars, histVars
    <2>2. CASE HandlerReturns(w)
      BY <2>2 DEF HandlerReturns, redisVars
    <2>3. CASE HandlerExpires(w)
      BY <2>3 DEF HandlerExpires, Idle, redisVars
    <2>4. CASE WorkerAcks(w)
      BY <2>4 DEF WorkerAcks, XAck, Idle
    <2>5. CASE WorkerExits(w)
      BY <2>5 DEF WorkerExits, Idle, redisVars, histVars
    <2> QED BY <1>17, <2>1, <2>2, <2>3, <2>4, <2>5 DEF Worker
  <1>18. CASE Close
    BY <1>18 DEF Close, redisVars
  <1>19. CASE WaitReturns \/ ReaderCrash
    <2>1. /\ Empty /\ up' = FALSE
          /\ UNCHANGED <<redisVars, closed, settled>>
      BY <1>19 DEF WaitReturns, ReaderCrash, histVars
    <2>2. /\ queue' = << >> /\ polled' = << >> /\ reclaim' = NoReclaim
          /\ worker' \in [Workers -> [pc : {"idle"}, msg : {NoMsg}]]
      BY <2>1 DEF Empty, Idle
    <2>3. Len(<< >>) <= QueueDepth
      BY StreamsAssumption
    <2> QED BY <2>1, <2>2, <2>3 DEF redisVars
  <1>20. CASE Restart
    BY <1>20 DEF Restart, histVars
  <1>21. CASE UNCHANGED streamsVars
    BY <1>21 DEF streamsVars, redisVars, compVars, histVars
  <1> QED BY <1>1, <1>2, <1>3, <1>4, <1>5, <1>6, <1>7, <1>8, <1>9, <1>10, <1>11, <1>12,
             <1>13, <1>14, <1>15, <1>16, <1>17, <1>18, <1>19, <1>20, <1>21
          DEF StreamsNext, Poll, Reclaim

\* A message that was delivered and is not settled stays pending.
LEMMA PendingStep == StreamsIInv /\ [StreamsNext]_streamsVars => UnsettledStaysPending'
  <1> SUFFICES ASSUME StreamsIInv, [StreamsNext]_streamsVars PROVE UnsettledStaysPending'
    OBVIOUS
  <1> USE DEF StreamsIInv, UnsettledStaysPending
  \* Most actions leave what the group has delivered and what is settled alone.
  <1> DEFINE Quiet == /\ UNCHANGED <<last, pel>>
                      /\ settled \subseteq settled' /\ trimmed \subseteq trimmed'
  <1>1. Quiet => UnsettledStaysPending'
    OBVIOUS
  <1>2. CASE Publish \/ Trim \/ PollRecreatesGroup \/ PollEnqueues \/ PollExits
    BY <1>1, <1>2 DEF Publish, Trim, PollRecreatesGroup, PollEnqueues, PollExits,
                      redisVars, histVars
  <1>3. CASE GroupLost
    BY <1>3, StreamsAssumption DEF GroupLost, Messages
  <1>4. ASSUME NEW m \in Messages, IdleTimePasses(m) PROVE UnsettledStaysPending'
    BY <1>1, <1>4 DEF IdleTimePasses, histVars
  <1>5. CASE PollNewMessages
    <2> DEFINE batch == Prefix(Sorted(Unread), QueueDepth)
    <2>1. Unread \in SUBSET Messages
      BY DEF Unread
    <2>2. /\ Last(batch) \in Unread
          /\ \A m \in Unread : m <= Last(batch) => m \in Range(batch)
      BY <1>5, <2>1, BatchIsOldest DEF PollNewMessages
    <2>3. /\ last' = Last(batch) /\ pel' = pel \cup Range(batch)
          /\ UNCHANGED <<trimmed, settled>>
      BY <1>5 DEF PollNewMessages
    <2> HIDE DEF batch
    <2> SUFFICES ASSUME NEW m \in Messages, m <= last', m \notin settled \cup trimmed
                 PROVE  m \in pel'
      BY <2>3
    <2>4. CASE m <= last
      BY <2>3, <2>4
    <2>5. CASE ~ (m <= last)
      <3>1. last \in Nat /\ added \in Nat /\ m \in Nat
        BY StreamsAssumption DEF TypeInv, StreamsTypeOK, Messages
      <3>2. m \in Unread
        BY <2>2, <2>3, <2>5, <3>1, StreamsAssumption DEF Unread, Messages
      <3> QED BY <2>2, <2>3, <3>2
    <2> QED BY <2>4, <2>5
  <1>6. CASE ReclaimPending \/ ReclaimClaims \/ ReclaimEnqueues \/ ReclaimLoops
             \/ ReclaimFails \/ removeMessagesSkipsOne \/ ReclaimExits
    BY <1>1, <1>6 DEF ReclaimPending, ReclaimClaims, ReclaimEnqueues, ReclaimLoops, ReclaimFails,
                      removeMessagesSkipsOne, ReclaimExits, redisVars, histVars
  \* The only acknowledgement without a handler is of a message that was trimmed.
  <1>7. CASE removeMessagesThatNoLongerExistFromPending
    BY <1>7 DEF removeMessagesThatNoLongerExistFromPending, XAck, histVars
  <1>8. ASSUME NEW w \in Workers, Worker(w) PROVE UnsettledStaysPending'
    <2>1. CASE WorkerAcks(w)
      <3>1. worker[w].msg \in settled
        BY <2>1 DEF WorkerAcks, TypeInv, WorkerInv
      <3> QED BY <2>1, <3>1 DEF WorkerAcks, XAck
    <2>2. CASE WorkerTakes(w) \/ HandlerReturns(w) \/ HandlerExpires(w) \/ WorkerExits(w)
      BY <1>1, <2>2 DEF WorkerTakes, HandlerReturns, HandlerExpires, WorkerExits,
                        redisVars, histVars
    <2> QED BY <1>8, <2>1, <2>2 DEF Worker
  <1>9. CASE Close \/ WaitReturns \/ ReaderCrash \/ Restart \/ UNCHANGED streamsVars
    BY <1>1, <1>9 DEF Close, WaitReturns, ReaderCrash, Restart, streamsVars, redisVars, histVars
  <1> QED BY <1>2, <1>3, <1>4, <1>5, <1>6, <1>7, <1>8, <1>9 DEF StreamsNext, Poll, Reclaim

\* TypeOK: nothing overfills r.queue, and every id the component holds in its queue,
\* its loops and its workers is a message of the stream.
THEOREM StreamsTypeCorrect == StreamsSpec => []StreamsTypeOK
  <1>1. TypeInv => StreamsTypeOK
    BY DEF TypeInv
  <1> QED BY <1>1, TypeInvInit, TypeInvStep, PTL DEF StreamsSpec

\* UnsettledStaysPending: a message that Redis has delivered to the group stays
\* pending until a handler has returned for it on its own account (processMessage)
\* or it was trimmed (removeMessagesThatNoLongerExistFromPending), with any number
\* of workers, crashes, lost replies and failed acknowledgements.
THEOREM UnsettledPending == StreamsSpec => []UnsettledStaysPending
  <1>1. StreamsInit => StreamsIInv
    BY TypeInvInit, StreamsAssumption DEF StreamsInit, StreamsIInv, UnsettledStaysPending, Messages
  <1>2. StreamsIInv /\ [StreamsNext]_streamsVars => StreamsIInv'
    BY TypeInvStep, PendingStep DEF StreamsIInv
  <1>3. StreamsIInv => UnsettledStaysPending
    BY DEF StreamsIInv
  <1> QED BY <1>1, <1>2, <1>3, PTL DEF StreamsSpec
=============================================================================
