------------------------------- MODULE Kafka -------------------------------
(***************************************************************************)
(* The consumer side of common/component/kafka, which pubsub/kafka and     *)
(* bindings/kafka share: the map of subscribed topics, the one goroutine   *)
(* that consumes them all and is stopped and started again whenever the    *)
(* map changes, the sessions of the consumer group with a claim for each   *)
(* topic (one partition each), the calls of handlers with their retries,   *)
(* alone and in bulk, and Close.                                           *)
(*                                                                         *)
(* A topic is a log of messages.  The group resumes after committed;       *)
(* MarkMessage moves marked, which the client commits from time to time    *)
(* and when a session ends.                                                *)
(***************************************************************************)
EXTENDS Naturals, Sequences, FiniteSets

CONSTANTS
  Topics,
  Subscriptions,
  TopicOf,       \* the topic of each subscription
  Modes,         \* configurations: [bulk |-> MaxMessagesCount or 0, retry |-> ...]
  LastOf,        \* bound: messages of each topic
  MaxFaults,     \* bound: rebalances of the group and crashes of the process
  None

ASSUME KafkaAssumption ==
  /\ TopicOf \in [Subscriptions -> Topics]
  /\ Modes \subseteq [bulk : Nat, retry : {"off", "limited", "forever"}]
  /\ LastOf \in [Topics -> Nat] /\ MaxFaults \in Nat
  /\ None \notin Subscriptions

VARIABLES
  mode,        \* the configuration of this behaviour
  sub,         \* how far each call of Subscribe and its goroutine are
  topics,      \* subscribeTopics: whose handler a topic has
  lock,        \* the subscription that holds subscribeLock
  consumer,    \* the consume goroutine: its topics, its context, its session
  claim,       \* ConsumeClaim, for each topic
  marked,      \* marked offsets of the session
  committed,   \* committed offsets of the group
  handled,     \* messages whose handler returned nil
  group,       \* clients.consumerGroup
  closing,     \* how far Close is
  crashed,     \* the process has crashed before
  faults       \* rebalances and crashes so far

vars == <<mode, sub, topics, lock, consumer, claim, marked, committed, handled,
          group, closing, crashed, faults>>
subscribing == <<sub, topics, lock>>
history == <<crashed, faults>>

Closed == closing # "no"

NoClaim == [state |-> "none", next |-> 1, batch |-> << >>, handler |-> None,
            final |-> FALSE]
NoConsumer == [state |-> "none", topics |-> {}, cancelled |-> FALSE, over |-> FALSE]

(***************************************************************************)
(* subscriber.go.                                                          *)
(***************************************************************************)
\* Subscribe of the component, past its check of closed.
Call(s) ==
  /\ sub[s] = "none" /\ ~Closed
  /\ sub' = [sub EXCEPT ![s] = "called"]
  /\ UNCHANGED <<mode, topics, lock, consumer, claim, marked, committed, handled,
                 group, closing, history>>

\* The first half of reloadConsumerGroup cancels the consumer; its caller then
\* waits for it with the lock held.
CancelConsumer == consumer' = [consumer EXCEPT !.cancelled = (consumer.state # "none")]

\* Subscribe.
Register(s) ==
  /\ sub[s] = "called" /\ lock = None
  /\ lock' = s
  /\ sub' = [sub EXCEPT ![s] = "registering"]
  /\ topics' = [topics EXCEPT ![TopicOf[s]] = s]
  /\ CancelConsumer
  /\ UNCHANGED <<mode, claim, marked, committed, handled, group, closing, history>>

\* The context of a subscription ends, at a graceful shutdown or otherwise.
Cancel(s) ==
  /\ sub[s] = "live"
  /\ \E cause \in {"cancelled", "shutdown"} : sub' = [sub EXCEPT ![s] = cause]
  /\ UNCHANGED <<mode, topics, lock, consumer, claim, marked, committed, handled,
                 group, closing, history>>

\* Slip: the goroutine does not look at closeCh.
Leave_ContextOnly(s) ==
  /\ lock = None
  /\ sub[s] \in {"cancelled", "shutdown"}
  /\ lock' = s
  /\ sub' = [sub EXCEPT ![s] = IF @ = "shutdown" THEN "closing group" ELSE "leaving"]
  /\ topics' = [topics EXCEPT ![TopicOf[s]] = None]
  /\ CancelConsumer
  /\ UNCHANGED <<mode, claim, marked, committed, handled, group, closing, history>>

\* The goroutine of Subscribe takes the topic out again.
Leave(s) ==
  /\ lock = None
  /\ \/ sub[s] \in {"cancelled", "shutdown"}
     \/ sub[s] = "live" /\ Closed
  /\ lock' = s
  /\ sub' = [sub EXCEPT ![s] = IF @ = "shutdown" THEN "closing group" ELSE "leaving"]
  /\ topics' = [topics EXCEPT ![TopicOf[s]] = None]
  /\ CancelConsumer
  /\ UNCHANGED <<mode, claim, marked, committed, handled, group, closing, history>>

Subscribed == {t \in Topics : topics[t] # None}

\* Slip: the new consumer does not wait for the old one.
Reload_NoWait(s) ==
  /\ lock = s
  /\ lock' = None
  /\ consumer' = IF Subscribed = {} \/ Closed THEN NoConsumer
                 ELSE [NoConsumer EXCEPT !.state = "idle", !.topics = Subscribed]
  /\ sub' = [sub EXCEPT ![s] = IF @ = "registering" THEN "live" ELSE "left"]
  /\ group' = IF sub[s] = "closing group" /\ Subscribed = {} /\ group = "open"
                THEN "closed" ELSE group
  /\ UNCHANGED <<mode, topics, claim, marked, committed, handled, closing, history>>

\* Slip: whoever leaves in a graceful shutdown closes the group, not only the last.
Reload_AnyCloses(s) ==
  /\ lock = s /\ consumer.state = "none"
  /\ lock' = None
  /\ consumer' = IF Subscribed = {} \/ Closed THEN NoConsumer
                 ELSE [NoConsumer EXCEPT !.state = "idle", !.topics = Subscribed]
  /\ sub' = [sub EXCEPT ![s] = IF @ = "registering" THEN "live" ELSE "left"]
  /\ group' = IF sub[s] = "closing group" /\ group = "open" THEN "closed" ELSE group
  /\ UNCHANGED <<mode, topics, claim, marked, committed, handled, closing, history>>

\* The second half of reloadConsumerGroup, once the consumer is done, and the
\* end of its callers.
Reload(s) ==
  /\ lock = s /\ consumer.state = "none"
  /\ lock' = None
  /\ consumer' = IF Subscribed = {} \/ Closed THEN NoConsumer
                 ELSE [NoConsumer EXCEPT !.state = "idle", !.topics = Subscribed]
  /\ sub' = [sub EXCEPT ![s] = IF @ = "registering" THEN "live" ELSE "left"]
  /\ group' = IF sub[s] = "closing group" /\ Subscribed = {} /\ group = "open"
                THEN "closed" ELSE group
  /\ UNCHANGED <<mode, topics, claim, marked, committed, handled, closing, history>>

\* The loop of consume: Consume joins the group and calls ConsumeClaim.  A
\* group that was closed gives an error, and the loop tries again.
StartSession ==
  /\ consumer.state = "idle" /\ group = "open" /\ ~consumer.cancelled
  /\ claim' = [t \in Topics |->
       IF t \in consumer.topics
         THEN [NoClaim EXCEPT !.state = IF topics[t] = None THEN "done" ELSE "waiting",
                              !.next = committed[t] + 1, !.handler = topics[t]]
         ELSE NoClaim]
  /\ consumer' = [consumer EXCEPT !.state = "session",
                                  !.over = \E t \in consumer.topics : topics[t] = None]
  /\ marked' = committed
  /\ UNCHANGED <<mode, subscribing, committed, handled, group, closing, history>>

SessionEnds ==
  /\ consumer.state = "session"
  /\ \A t \in consumer.topics : claim[t].state = "done"
  /\ committed' = marked
  /\ claim' = [t \in Topics |-> NoClaim]
  /\ consumer' = [consumer EXCEPT !.state = "idle", !.over = FALSE]
  /\ UNCHANGED <<mode, subscribing, marked, handled, group, closing, history>>

ConsumerEnds ==
  /\ consumer.state = "idle"
  /\ consumer.cancelled \/ Closed \/ group = "nil"
  /\ consumer' = NoConsumer
  /\ UNCHANGED <<mode, subscribing, claim, marked, committed, handled, group, closing, history>>

(***************************************************************************)
(* consumer.go.                                                            *)
(***************************************************************************)
\* session.Context() is done.
Over == consumer.over \/ consumer.cancelled

Bulk == mode.bulk > 0

\* A claim that flushes holds the mutex it shares with the other claims, but
\* not for the flush at the end of the session.
MutexHeld == Bulk /\ \E t \in Topics :
  claim[t].state \in {"calling", "handling", "failed"} /\ ~claim[t].final

\* A select takes a message although the session may be over.
Take(t) ==
  /\ claim[t].state = "waiting" /\ claim[t].next <= LastOf[t] /\ ~MutexHeld
  /\ claim' = [claim EXCEPT ![t].next = @ + 1,
                            ![t].batch = Append(@, claim[t].next),
                            ![t].state = IF Len(claim[t].batch) + 1 < mode.bulk
                                           THEN "waiting" ELSE "calling"]
  /\ UNCHANGED <<mode, subscribing, consumer, marked, committed, handled, group, closing, history>>

\* The ticker of a bulk subscription.
Tick(t) ==
  /\ Bulk /\ claim[t].state = "waiting" /\ claim[t].batch # << >> /\ ~MutexHeld
  /\ claim' = [claim EXCEPT ![t].state = "calling"]
  /\ UNCHANGED <<mode, subscribing, consumer, marked, committed, handled, group, closing, history>>

\* The end of the session: what a bulk subscription has collected is flushed.
ClaimEnds(t) ==
  /\ claim[t].state = "waiting" /\ Over
  /\ claim' = [claim EXCEPT ![t].state = IF claim[t].batch = << >> THEN "done" ELSE "calling",
                            ![t].final = TRUE]
  /\ UNCHANGED <<mode, subscribing, consumer, marked, committed, handled, group, closing, history>>

\* doCallback and doBulkCallback look the topic up before they call its
\* handler; the bulk handler is the one ConsumeClaim found.
CallHandler(t) ==
  /\ claim[t].state = "calling"
  /\ claim' = [claim EXCEPT
       ![t].state = IF topics[t] = None THEN "failed" ELSE "handling",
       ![t].handler = IF Bulk \/ topics[t] = None THEN @ ELSE topics[t]]
  /\ UNCHANGED <<mode, subscribing, consumer, marked, committed, handled, group, closing, history>>

\* What the end of a flush or of a message leaves of a claim.
Waits(c) == [c EXCEPT !.batch = << >>, !.state = IF c.final THEN "done" ELSE "waiting"]

\* Slip: the offset before the message is marked.
Mark_Before(t, k) == IF k = 0 THEN marked[t] ELSE claim[t].batch[k] - 1

\* The last offset marked when the handler has dealt with the first k messages.
Mark(t, k) == IF k = 0 THEN marked[t] ELSE claim[t].batch[k]

\* The handler returns, having dealt with the first k messages of the batch.
Return(t, k) ==
  /\ claim[t].state = "handling" /\ k \in 0..Len(claim[t].batch)
  /\ marked' = [marked EXCEPT ![t] = Mark(t, k)]
  /\ handled' = [handled EXCEPT ![t] = @ \cup {claim[t].batch[i] : i \in 1..k}]
  /\ claim' = [claim EXCEPT ![t] = IF k = Len(@.batch) THEN Waits(@)
                                   ELSE [@ EXCEPT !.state = "failed"]]
  /\ UNCHANGED <<mode, subscribing, consumer, committed, group, closing, history>>

Retry(t) ==
  /\ claim[t].state = "failed" /\ mode.retry # "off" /\ ~Over
  /\ claim' = [claim EXCEPT ![t].state = "calling"]
  /\ UNCHANGED <<mode, subscribing, consumer, marked, committed, handled, group, closing, history>>

\* Slip: the loop goes on although the retries were aborted.
GiveUp_GoesOn(t) ==
  /\ claim[t].state = "failed"
  /\ mode.retry = "forever" => Over
  /\ claim' = [claim EXCEPT ![t] = Waits(@)]
  /\ UNCHANGED <<mode, subscribing, consumer, marked, committed, handled, group, closing, history>>

\* The retries are exhausted, aborted with the session, or disabled.  A
\* subscription that is not in bulk returns when they were aborted.
GiveUp(t) ==
  /\ claim[t].state = "failed"
  /\ mode.retry = "forever" => Over
  /\ claim' = [claim EXCEPT ![t] =
       IF ~Bulk /\ mode.retry # "off" /\ Over THEN [@ EXCEPT !.state = "done"] ELSE Waits(@)]
  /\ UNCHANGED <<mode, subscribing, consumer, marked, committed, handled, group, closing, history>>

(***************************************************************************)
(* Close of kafka.go.  The group closes after its session.                 *)
(***************************************************************************)
CloseCalled ==
  /\ closing = "no"
  /\ closing' = "cancelling"
  /\ UNCHANGED <<mode, subscribing, consumer, claim, marked, committed, handled, group, history>>

CloseCancels ==
  /\ closing = "cancelling" /\ lock = None
  /\ closing' = "closing group"
  /\ CancelConsumer
  /\ UNCHANGED <<mode, subscribing, claim, marked, committed, handled, group, history>>

CloseGroup ==
  /\ closing = "closing group" /\ consumer.state # "session"
  /\ closing' = "waiting" /\ group' = "nil"
  /\ UNCHANGED <<mode, subscribing, consumer, claim, marked, committed, handled, history>>

CloseReturns ==
  /\ closing = "waiting" /\ consumer.state = "none"
  /\ \A s \in Subscriptions : sub[s] \in {"none", "called", "registering", "left"}
  /\ closing' = "returned"
  /\ UNCHANGED <<mode, subscribing, consumer, claim, marked, committed, handled, group, history>>

(***************************************************************************)
(* The client and the brokers.                                             *)
(***************************************************************************)
AutoCommit ==
  /\ consumer.state = "session" /\ committed # marked
  /\ committed' = marked
  /\ UNCHANGED <<mode, subscribing, consumer, claim, marked, handled, group, closing, history>>

Rebalance ==
  /\ consumer.state = "session" /\ ~Over /\ faults < MaxFaults
  /\ faults' = faults + 1
  /\ consumer' = [consumer EXCEPT !.over = TRUE]
  /\ UNCHANGED <<mode, subscribing, claim, marked, committed, handled, group, closing, crashed>>

\* The process ends and starts again.
Crash ==
  /\ faults < MaxFaults
  /\ faults' = faults + 1 /\ crashed' = TRUE
  /\ sub' = [s \in Subscriptions |-> "none"] /\ topics' = [t \in Topics |-> None]
  /\ lock' = None /\ consumer' = NoConsumer /\ claim' = [t \in Topics |-> NoClaim]
  /\ marked' = committed /\ group' = "open" /\ closing' = "no"
  /\ UNCHANGED <<mode, committed, handled>>

Init ==
  /\ mode \in Modes
  /\ sub = [s \in Subscriptions |-> "none"] /\ topics = [t \in Topics |-> None]
  /\ lock = None /\ consumer = NoConsumer /\ claim = [t \in Topics |-> NoClaim]
  /\ marked = [t \in Topics |-> 0] /\ committed = [t \in Topics |-> 0]
  /\ handled = [t \in Topics |-> {}] /\ group = "open" /\ closing = "no"
  /\ crashed = FALSE /\ faults = 0

SubStep(s) == Register(s) \/ Leave(s) \/ Reload(s)
ClaimStep(t) ==
  \/ Take(t) \/ Tick(t) \/ ClaimEnds(t) \/ CallHandler(t) \/ Retry(t) \/ GiveUp(t)
  \/ \E k \in 0..LastOf[t] : Return(t, k)
ConsumerStep == StartSession \/ SessionEnds \/ ConsumerEnds
CloseStep == CloseCancels \/ CloseGroup \/ CloseReturns

Next ==
  \/ \E s \in Subscriptions : Call(s) \/ Cancel(s) \/ SubStep(s)
  \/ \E t \in Topics : ClaimStep(t)
  \/ ConsumerStep
  \/ CloseCalled \/ CloseStep
  \/ AutoCommit \/ Rebalance \/ Crash

(***************************************************************************)
(* Goroutines run and handlers return, whether they succeed or not.        *)
(***************************************************************************)
Fairness ==
  /\ WF_vars(\E s \in Subscriptions : SubStep(s))
  /\ WF_vars(\E t \in Topics : ClaimStep(t))
  /\ WF_vars(ConsumerStep) /\ WF_vars(CloseStep)

Spec == Init /\ [][Next]_vars /\ Fairness
-----------------------------------------------------------------------------
Claim(t) == [state : {"none", "waiting", "calling", "handling", "failed", "done"},
             next : 1..LastOf[t] + 1, batch : Seq(1..LastOf[t]),
             handler : Subscriptions \cup {None}, final : BOOLEAN]

TypeOK ==
  /\ mode \in Modes
  /\ sub \in [Subscriptions -> {"none", "called", "registering", "live", "cancelled",
                                "shutdown", "leaving", "closing group", "left"}]
  /\ topics \in [Topics -> Subscriptions \cup {None}] /\ lock \in Subscriptions \cup {None}
  /\ consumer \in [state : {"none", "idle", "session"}, topics : SUBSET Topics,
                   cancelled : BOOLEAN, over : BOOLEAN]
  /\ DOMAIN claim = Topics /\ \A t \in Topics : claim[t] \in Claim(t)
  /\ marked \in [Topics -> Nat] /\ committed \in [Topics -> Nat]
  /\ handled \in [Topics -> SUBSET Nat]
  /\ \A t \in Topics : /\ marked[t] <= LastOf[t] /\ committed[t] <= LastOf[t]
                       /\ handled[t] \subseteq 1..LastOf[t]
  /\ group \in {"open", "closed", "nil"}
  /\ closing \in {"no", "cancelling", "closing group", "waiting", "returned"}
  /\ crashed \in BOOLEAN

(***************************************************************************)
(* With retries that are never exhausted, the group does not move past a   *)
(* message that no handler has dealt with, across rebalances, changes of   *)
(* the subscriptions, shutdowns and crashes (consumer.go:94-105).          *)
(***************************************************************************)
Passed(t) == (1..committed[t]) \ handled[t]

NothingSkipped ==
  mode.retry = "forever" /\ ~Bulk => \A t \in Topics : Passed(t) = {}

(***************************************************************************)
(* The same of bulk subscriptions, whose aborted messages "will be         *)
(* redelivered" (consumer.go:135).                                         *)
(***************************************************************************)
NothingSkippedInBulk ==
  mode.retry = "forever" /\ Bulk => \A t \in Topics : Passed(t) = {}

(***************************************************************************)
(* A message a handler has dealt with is not given to a handler again,     *)
(* unless the process crashes; a bulk of which a part failed is.           *)
(***************************************************************************)
HandledOnce ==
  [][(~Bulk /\ ~crashed =>
        \A t \in Topics :
          claim[t].state = "calling" /\ claim'[t].state = "handling" =>
            \A i \in 1..Len(claim[t].batch) : claim[t].batch[i] \notin handled[t])]_vars

(***************************************************************************)
(* The handler of a subscription that has left, or of a component whose    *)
(* Close has returned, is not running.                                     *)
(***************************************************************************)
LeftIsQuiet ==
  \A t \in Topics : claim[t].state = "handling" =>
    sub[claim[t].handler] # "left" /\ closing # "returned"

(***************************************************************************)
(* While nobody is changing the subscriptions, the topic of each one that  *)
(* is live is consumed: it has a claim in the session, or the consumer is  *)
(* between two sessions of a group it can join.                            *)
(***************************************************************************)
Working(t) == claim[t].state \in {"waiting", "calling", "handling", "failed"}

\* The exception: the last subscription left in a graceful shutdown and closed the
\* group, which nothing opens again before a restart.  Consume fails for whoever
\* subscribes later, and that subscription stays live and is never served.
GroupShutDown == group = "closed"

LiveIsConsumed ==
  \A s \in Subscriptions : sub[s] = "live" /\ lock = None /\ ~Closed =>
    /\ TopicOf[s] \in Subscribed /\ TopicOf[s] \in consumer.topics
    /\ ~consumer.cancelled
    /\ \/ consumer.state = "session" /\ (Working(TopicOf[s]) \/ Over)
       \/ consumer.state = "idle" /\ (group = "open" \/ GroupShutDown)

\* The group is not shut down while a subscription is live.
ShutDownByLast ==
  [][~GroupShutDown /\ GroupShutDown' => \A s \in Subscriptions : sub[s] # "live"]_vars

(***************************************************************************)
(* A subscription is served as long as it lasts, unless the group was shut *)
(* down before it subscribed, and no longer.                               *)
(***************************************************************************)
ServedWhileLive == [](LeftIsQuiet /\ LiveIsConsumed) /\ ShutDownByLast

(***************************************************************************)
(* Close returns, whatever subscriptions are being made or left, and       *)
(* whatever keeps failing.                                                 *)
(***************************************************************************)
CloseEnds == closing = "cancelling" ~> closing \in {"returned", "no"}
=============================================================================
