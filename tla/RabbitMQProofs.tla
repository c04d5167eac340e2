---------------------------- MODULE RabbitMQProofs ----------------------------
(***************************************************************************)
(* Theorems about RabbitMQ: the types, what may leave the queue, and that  *)
(* publishers and subscription share one channel without breaking it.      *)
(*                                                                         *)
(* The heart of it is the count a failed attempt remembers.  It is read    *)
(* under channelMutex together with the broken channel, the reconnect      *)
(* comes later, and by then somebody else may have dialled.  CountInv and  *)
(* DeliveryInv say what the count is worth: as long as it is the current   *)
(* one, the channel it was read with is still the broken one.              *)
(***************************************************************************)
EXTENDS RabbitMQ, TLAPS

\* The channel can be used.
Usable == channel # 0 /\ alive

\* The types of the broker and the connection, of the subscription, of the
\* publishers, and of the rest.
BrokerTyped ==
  /\ exchange \in BOOLEAN /\ queue \in BOOLEAN
  /\ msg \in [Messages -> {"new", "ready", "unacked", "gone", "dropped"}]
  /\ inbox \subseteq Messages
  /\ connectionCount \in Nat
  /\ channel \in {0, connectionCount} /\ consumer \in {0, channel}
  /\ alive \in BOOLEAN /\ declared \in BOOLEAN

SubTyped ==
  /\ sub \in [pc : {"ensure", "consume", "listen", "handle", "failed", "reconnect", "ended"},
              channel : Nat, count : Nat]
  /\ running \subseteq [m : Messages, channel : Nat]
  /\ ctxDone \in BOOLEAN /\ panicked \in BOOLEAN
  /\ caller \in {"waiting", "ok", "invalid", "timeout"}
  /\ ackCh \in {"empty", "false", "true", "closed", "nil"}

PubTyped ==
  pub \in [Publishers -> [pc : {"idle", "send", "confirm", "reconnect", "ok", "error"},
                          attempts : Nat, count : Nat]]

RestTyped ==
  /\ config \in Configs
  /\ closed \in BOOLEAN
  /\ closer \in {"idle", "waiting", "done"}
  /\ handled \subseteq Messages /\ refused \subseteq Messages
  /\ confirmed \subseteq Messages
  /\ faults \in Nat

TypeInv == BrokerTyped /\ SubTyped /\ PubTyped /\ RestTyped

\* Who holds channelMutex while it waits.
MutexInv == mutex \in {"free", "close"} \cup {p \in Publishers : pub[p].pc = "confirm"}

\* A publisher that goes on has attempts left.
AttemptsInv ==
  \A p \in Publishers :
    /\ pub[p].attempts <= publishMaxRetries
    /\ pub[p].pc \in {"idle", "send", "reconnect"} => pub[p].attempts < publishMaxRetries

\* Every connection after the first has a fault before it, and a component that is
\* without one has a fault to spare for the next.
DialInv ==
  /\ connectionCount >= 1
  /\ connectionCount <= faults + 1
  /\ alive => channel # 0
  /\ ~closed /\ ~Usable => connectionCount <= faults
  /\ faults <= config.maxFaults

\* A count is at most the current one, and one that asks for a reconnect is older
\* than a channel that can be used.
CountInv ==
  /\ \A p \in Publishers :
       /\ pub[p].count <= connectionCount
       /\ pub[p].pc = "reconnect" /\ Usable => pub[p].count < connectionCount
  /\ sub.count <= connectionCount
  /\ sub.pc \in {"failed", "reconnect"} /\ Usable => sub.count < connectionCount

\* The subscription works on the channel of its count, and in single mode it waits
\* for the one handler that runs on that channel.
DeliveryInv ==
  /\ sub.channel <= connectionCount
  /\ sub.pc \in {"consume", "listen", "handle"} => sub.channel = sub.count
  /\ \A d \in running : d.channel <= connectionCount
  /\ config.concurrency = "single" =>
       \A d \in running :
         /\ sub.pc = "handle" /\ d.channel = sub.channel
         /\ running = {d}

IInv == TypeInv /\ MutexInv /\ AttemptsInv /\ DialInv /\ CountInv /\ DeliveryInv

-----------------------------------------------------------------------------
(* The types.                                                              *)

\* The configuration is one of the settings and does not change.
LEMMA ConfigFixed ==
  ASSUME RestTyped
  PROVE  /\ config \in Config
         /\ [Next]_vars => config' = config
<1>1. config \in Config
  BY ConstantsAssumption DEF RestTyped
<1>2. ASSUME [Next]_vars PROVE config' = config
  BY <1>2 DEF Next, vars, ConnectionLost, ConsumerCancelled, Deliver, Publisher,
    publishSyncFails, publishSync, ConfirmArrives, PublishReconnects, PublishGivesUp,
    Subscriber, ensureSubscription, InvalidQueueType, Consume, ListenTakes, ListenEnds,
    ListenCancelled, SubscriberFailed, SubscriberGivesUp, SubscriberReconnects, Handler,
    HandlerSucceeds, HandlerFails, App, PublishStarts, SubscribeReturns, CancelContext,
    Close, CloseReturns
<1>3. QED
  BY <1>1, <1>2

\* A reconnect leaves the types of broker and connection intact, whether it is
\* needed, succeeds or fails.
LEMMA ReconnectTyped ==
  ASSUME BrokerTyped, NEW c \in Nat, reconnect(c)
  PROVE  BrokerTyped'
<1>1. CASE UNCHANGED <<connVars, msg, consumer, inbox>>
  BY <1>1 DEF BrokerTyped, reconnect, connVars
<1>2. CASE Dial(c)
  <2>1. connectionCount' \in Nat /\ channel' = connectionCount'
    BY <1>2 DEF Dial
  <2>2. UNCHANGED <<exchange, queue>>
    BY DEF reconnect
  <2>3. consumer' = 0 /\ inbox' = {} /\ alive' = TRUE /\ declared' = FALSE
    BY <1>2 DEF Dial, ForgetExchanges, ChannelEnds
  <2>4. msg' \in [Messages -> {"new", "ready", "unacked", "gone", "dropped"}]
    BY <1>2 DEF BrokerTyped, Dial, ChannelEnds
  <2>5. QED
    BY <2>1, <2>2, <2>3, <2>4 DEF BrokerTyped
<1>3. CASE DialFails
  BY <1>3 DEF BrokerTyped, reconnect, DialFails, reset, ForgetExchanges, ChannelEnds
<1>4. QED
  BY <1>1, <1>2, <1>3 DEF reconnect, connVars

\* So do the settling of a delivery and what listenMessages does after it.
LEMMA SettledTyped ==
  ASSUME BrokerTyped, NEW d \in [m : Messages, channel : Nat],
         NEW to \in {"ready", "gone"}, Settled(d, to)
  PROVE  msg' \in [Messages -> {"new", "ready", "unacked", "gone", "dropped"}]
  BY DEF BrokerTyped, Settled

LEMMA BrokerStep ==
  ASSUME TypeInv, [Next]_vars
  PROVE  BrokerTyped'
<1> USE DEF brokerVars, connVars
<1>1. BrokerTyped /\ SubTyped /\ PubTyped
  BY DEF TypeInv
<1>2. CASE ConnectionLost
  BY <1>1, <1>2 DEF BrokerTyped, ConnectionLost, ChannelEnds
<1>3. CASE ConsumerCancelled
  BY <1>1, <1>3 DEF BrokerTyped, ConsumerCancelled
<1>4. ASSUME NEW m \in Messages, Deliver(m) PROVE BrokerTyped'
  BY <1>1, <1>4 DEF BrokerTyped, Deliver
<1>5. ASSUME NEW p \in Publishers, publishSync(p) PROVE BrokerTyped'
  BY <1>1, <1>5 DEF BrokerTyped, publishSync, ensureExchangeDeclared, Accepted, Messages
<1>6. ASSUME NEW p \in Publishers, ConfirmArrives(p) PROVE BrokerTyped'
  BY <1>1, <1>6 DEF BrokerTyped, ConfirmArrives, Accepted, Messages
<1>7. ASSUME NEW p \in Publishers, PublishReconnects(p) PROVE BrokerTyped'
  BY <1>1, <1>7, ReconnectTyped DEF PubTyped, PublishReconnects
<1>8. CASE ensureSubscription
  BY <1>1, <1>8 DEF BrokerTyped, ensureSubscription, ensureExchangeDeclared
<1>9. CASE InvalidQueueType
  BY <1>1, <1>9 DEF BrokerTyped, InvalidQueueType, ensureExchangeDeclared
<1>10. CASE Consume
  BY <1>1, <1>10 DEF BrokerTyped, Consume
<1>11. CASE ListenCancelled
  BY <1>1, <1>11 DEF BrokerTyped, ListenCancelled, CancelConsumer
<1>12. ASSUME NEW m \in Messages, ListenTakes(m) PROVE BrokerTyped'
  BY <1>1, <1>12 DEF BrokerTyped, ListenTakes
<1>13. CASE SubscriberReconnects
  BY <1>1, <1>13, ReconnectTyped DEF SubTyped, SubscriberReconnects
<1>14. ASSUME NEW d \in running, HandlerSucceeds(d) \/ HandlerFails(d) PROVE BrokerTyped'
  <2>1. d \in [m : Messages, channel : Nat]
    BY <1>1 DEF SubTyped
  <2>2. msg' \in [Messages -> {"new", "ready", "unacked", "gone", "dropped"}]
    <3>1. CASE UNCHANGED msg
      BY <1>1, <3>1 DEF BrokerTyped
    <3>2. CASE Settled(d, "ready")
      BY <1>1, <2>1, <3>2, SettledTyped
    <3>3. CASE Settled(d, "gone")
      BY <1>1, <2>1, <3>3, SettledTyped
    <3>4. QED
      BY <1>14, <3>1, <3>2, <3>3 DEF HandlerSucceeds, HandlerFails
  <2>3. consumer' \in {0, channel} /\ inbox' \subseteq Messages
    BY <1>1, <1>14 DEF BrokerTyped, HandlerSucceeds, HandlerFails, AfterHandler, CancelConsumer
  <2>4. UNCHANGED <<exchange, queue, connVars>>
    BY <1>14 DEF HandlerSucceeds, HandlerFails
  <2>5. QED
    BY <1>1, <2>2, <2>3, <2>4 DEF BrokerTyped
<1>15. CASE Close
  BY <1>1, <1>15 DEF BrokerTyped, Close, reset, ForgetExchanges, ChannelEnds
<1>16. ASSUME UNCHANGED <<brokerVars, connVars>> PROVE BrokerTyped'
  BY <1>1, <1>16 DEF BrokerTyped
<1>17. ASSUME NEW p \in Publishers, publishSyncFails(p) \/ PublishGivesUp(p) \/ PublishStarts(p)
       PROVE  UNCHANGED <<brokerVars, connVars>>
  BY <1>17 DEF publishSyncFails, PublishGivesUp, PublishStarts
<1>18. ASSUME \/ ListenEnds \/ SubscriberFailed \/ SubscriberGivesUp
              \/ SubscribeReturns \/ CancelContext \/ CloseReturns \/ UNCHANGED vars
       PROVE  UNCHANGED <<brokerVars, connVars>>
  BY <1>18 DEF ListenEnds, SubscriberFailed, SubscriberGivesUp,
    SubscribeReturns, CancelContext, CloseReturns, vars
<1>19. QED
  BY <1>2, <1>3, <1>4, <1>5, <1>6, <1>7, <1>8, <1>9, <1>10, <1>11, <1>12, <1>13, <1>14,
     <1>15, <1>16, <1>17, <1>18
  DEF Next, Publisher, Subscriber, Handler, App

LEMMA SubStep ==
  ASSUME TypeInv, [Next]_vars
  PROVE  SubTyped'
<1>0. /\ SubTyped
      /\ connectionCount \in Nat /\ channel \in Nat
      /\ inbox \subseteq Messages
  BY DEF TypeInv, BrokerTyped
<1>1. ASSUME \/ ConnectionLost \/ ConsumerCancelled
             \/ \E m \in Messages : Deliver(m)
             \/ \E p \in Publishers : Publisher(p) \/ PublishStarts(p)
             \/ Close \/ CloseReturns \/ UNCHANGED vars
      PROVE  UNCHANGED subVars
  BY <1>1 DEF ConnectionLost, ConsumerCancelled, Deliver, Publisher, publishSyncFails,
    publishSync, ConfirmArrives, PublishReconnects, PublishGivesUp, PublishStarts, Close,
    CloseReturns, vars
<1>2. ASSUME UNCHANGED subVars PROVE SubTyped'
  BY <1>0, <1>2 DEF SubTyped, subVars
<1>3. CASE SubscribeReturns
  BY <1>0, <1>3 DEF SubTyped, SubscribeReturns
<1>4. CASE CancelContext
  BY <1>0, <1>4 DEF SubTyped, CancelContext
<1>5. CASE ensureSubscription
  BY <1>0, <1>5 DEF SubTyped, ensureSubscription
<1>6. CASE InvalidQueueType
  BY <1>0, <1>6 DEF SubTyped, InvalidQueueType, Notify, SubAt
<1>7. CASE Consume
  BY <1>0, <1>7 DEF SubTyped, Consume, Notify, SubAt
<1>8. ASSUME NEW m \in Messages, ListenTakes(m) PROVE SubTyped'
  BY <1>0, <1>8 DEF SubTyped, ListenTakes, SubAt
<1>9. ASSUME \/ ListenEnds \/ ListenCancelled \/ SubscriberFailed \/ SubscriberGivesUp
             \/ SubscriberReconnects
      PROVE  SubTyped'
  BY <1>0, <1>9 DEF SubTyped, ListenEnds, ListenCancelled, SubscriberFailed,
    SubscriberGivesUp, SubscriberReconnects, SubAt
<1>10. ASSUME NEW d \in running, HandlerSucceeds(d) \/ HandlerFails(d) PROVE SubTyped'
  <2>1. sub' \in {sub, [sub EXCEPT !.pc = "failed"], [sub EXCEPT !.pc = "listen"]}
    BY <1>10 DEF HandlerSucceeds, HandlerFails, AfterHandler, SubAt
  <2>2. /\ running' = running \ {d}
        /\ UNCHANGED <<ctxDone, caller, ackCh, panicked>>
    BY <1>10 DEF HandlerSucceeds, HandlerFails
  <2>3. QED
    BY <1>0, <2>1, <2>2 DEF SubTyped
<1>11. QED
  BY <1>1, <1>2, <1>3, <1>4, <1>5, <1>6, <1>7, <1>8, <1>9, <1>10
  DEF Next, Subscriber, Handler, App

LEMMA PubStep ==
  ASSUME TypeInv, [Next]_vars
  PROVE  PubTyped'
<1>0. PubTyped /\ connectionCount \in Nat
  BY DEF TypeInv, BrokerTyped
<1>1. ASSUME \/ ConnectionLost \/ ConsumerCancelled
             \/ \E m \in Messages : Deliver(m)
             \/ Subscriber \/ Handler \/ SubscribeReturns \/ CancelContext \/ Close
             \/ CloseReturns \/ UNCHANGED vars
      PROVE  UNCHANGED pub
  BY <1>1 DEF ConnectionLost, ConsumerCancelled, Deliver, Subscriber, ensureSubscription,
    InvalidQueueType, Consume, ListenTakes, ListenEnds, ListenCancelled, SubscriberFailed,
    SubscriberGivesUp, SubscriberReconnects, Handler, HandlerSucceeds, HandlerFails,
    SubscribeReturns, CancelContext, Close, CloseReturns, vars
<1>2. ASSUME NEW p \in Publishers, publishSyncFails(p) PROVE PubTyped'
  BY <1>0, <1>2 DEF PubTyped, publishSyncFails
<1>3. ASSUME NEW p \in Publishers, Publisher(p) \/ PublishStarts(p) PROVE PubTyped'
  BY <1>0, <1>2, <1>3 DEF PubTyped, Publisher, publishSync, ConfirmArrives,
    PublishReconnects, PublishGivesUp, PublishStarts
<1>4. QED
  BY <1>0, <1>1, <1>3 DEF PubTyped, Next, App

LEMMA RestStep ==
  ASSUME TypeInv, [Next]_vars
  PROVE  RestTyped'
<1>0. /\ RestTyped
      /\ \A d \in running : d.m \in Messages
  BY DEF TypeInv, SubTyped
<1>1. config' = config
  BY <1>0, ConfigFixed
<1>2. closed' \in BOOLEAN /\ closer' \in {"idle", "waiting", "done"}
  BY <1>0 DEF RestTyped, Next, vars, closeVars, ConnectionLost, ConsumerCancelled, Deliver,
    Publisher, publishSyncFails, publishSync, ConfirmArrives, PublishReconnects,
    PublishGivesUp, Subscriber, ensureSubscription, InvalidQueueType, Consume, ListenTakes,
    ListenEnds, ListenCancelled, SubscriberFailed, SubscriberGivesUp, SubscriberReconnects,
    Handler, HandlerSucceeds, HandlerFails, App, PublishStarts, SubscribeReturns,
    CancelContext, Close, CloseReturns
<1>3. faults' \in {faults, faults + 1}
  BY <1>0 DEF RestTyped, Next, vars, Fault, ConnectionLost, ConsumerCancelled, Deliver,
    Publisher, publishSyncFails, publishSync, ConfirmArrives, PublishReconnects, reconnect,
    Dial, DialFails, PublishGivesUp, Subscriber, ensureSubscription, InvalidQueueType, Consume,
    ListenTakes, ListenEnds, ListenCancelled, SubscriberFailed, SubscriberGivesUp,
    SubscriberReconnects, Handler, HandlerSucceeds, HandlerFails, App, PublishStarts,
    SubscribeReturns, CancelContext, Close, CloseReturns
<1>4. /\ handled' \subseteq Messages
      /\ refused' \subseteq Messages
      /\ confirmed' \subseteq Messages
  BY <1>0 DEF RestTyped, Messages, Next, vars, histVars, ConnectionLost, ConsumerCancelled,
    Deliver, Publisher, publishSyncFails, publishSync, ConfirmArrives, PublishReconnects,
    PublishGivesUp, Subscriber, ensureSubscription, InvalidQueueType, Consume, ListenTakes,
    ListenEnds, ListenCancelled, SubscriberFailed, SubscriberGivesUp, SubscriberReconnects,
    Handler, HandlerSucceeds, HandlerFails, App, PublishStarts, SubscribeReturns,
    CancelContext, Close, CloseReturns
<1>5. QED
  BY <1>0, <1>1, <1>2, <1>3, <1>4 DEF RestTyped

-----------------------------------------------------------------------------
(* What a step does to the connection.  Only the last of the four replaces *)
(* a channel, and it meets no channel that can be used.                    *)

Kept    == UNCHANGED <<channel, alive, connectionCount>>
Lost    == alive /\ ~alive' /\ faults' = faults + 1 /\ UNCHANGED <<channel, connectionCount, closed>>
Dropped == channel' = 0 /\ ~alive' /\ (closed' \/ ~Usable) /\ UNCHANGED connectionCount
Dialled == /\ ~closed /\ ~Usable
           /\ channel' = connectionCount + 1 /\ connectionCount' = connectionCount + 1
           /\ alive' /\ UNCHANGED <<closed, faults>>

LEMMA ReconnectStep ==
  ASSUME NEW c, reconnect(c), UNCHANGED closed, c = connectionCount => ~Usable
  PROVE  Kept \/ Dropped \/ Dialled
  BY DEF reconnect, Dial, DialFails, reset, connVars, Kept, Dropped, Dialled, Usable

LEMMA ConnectionStep ==
  ASSUME IInv, [Next]_vars
  PROVE  Kept \/ Lost \/ Dropped \/ Dialled
<1> USE DEF connVars
<1>1. CASE ConnectionLost
  BY <1>1 DEF ConnectionLost, Fault, Lost, closeVars
<1>2. ASSUME NEW p \in Publishers, PublishReconnects(p) PROVE Kept \/ Dropped \/ Dialled
  <2>1. pub[p].count = connectionCount => ~Usable
    BY <1>2 DEF IInv, CountInv, PublishReconnects, TypeInv, BrokerTyped
  <2>2. reconnect(pub[p].count) /\ UNCHANGED closed
    BY <1>2 DEF PublishReconnects, closeVars
  <2>3. QED
    BY <2>1, <2>2, ReconnectStep
<1>3. CASE SubscriberReconnects
  <2>1. sub.count = connectionCount => ~Usable
    BY <1>3 DEF IInv, CountInv, SubscriberReconnects, TypeInv, BrokerTyped
  <2>2. reconnect(sub.count) /\ UNCHANGED closed
    BY <1>3 DEF SubscriberReconnects, closeVars
  <2>3. QED
    BY <2>1, <2>2, ReconnectStep
<1>4. CASE Close
  BY <1>4 DEF Close, reset, Dropped
<1>5. ASSUME NEW p \in Publishers,
             \/ publishSyncFails(p) \/ publishSync(p) \/ ConfirmArrives(p)
             \/ PublishGivesUp(p) \/ PublishStarts(p)
      PROVE  Kept
  BY <1>5 DEF publishSyncFails, publishSync, ConfirmArrives, PublishGivesUp, PublishStarts, Kept
<1>6. ASSUME NEW m \in Messages, Deliver(m) \/ ListenTakes(m) PROVE Kept
  BY <1>6 DEF Deliver, ListenTakes, Kept
<1>7. ASSUME NEW d \in running, HandlerSucceeds(d) \/ HandlerFails(d) PROVE Kept
  BY <1>7 DEF HandlerSucceeds, HandlerFails, Kept
<1>8. ASSUME \/ ConsumerCancelled \/ ensureSubscription \/ InvalidQueueType \/ Consume
             \/ ListenEnds \/ ListenCancelled \/ SubscriberFailed \/ SubscriberGivesUp
             \/ SubscribeReturns \/ CancelContext \/ CloseReturns \/ UNCHANGED vars
      PROVE  Kept
  BY <1>8 DEF ConsumerCancelled, ensureSubscription, InvalidQueueType, Consume, ListenEnds,
    ListenCancelled, SubscriberFailed, SubscriberGivesUp, SubscribeReturns, CancelContext,
    CloseReturns, vars, Kept
<1>9. QED
  BY <1>1, <1>2, <1>3, <1>4, <1>5, <1>6, <1>7, <1>8
  DEF Next, Publisher, Subscriber, Handler, App

\* Once closed, closed for good; faults only grow, within their bound.
LEMMA MonotoneStep ==
  ASSUME TypeInv, [Next]_vars
  PROVE  /\ closed => closed'
         /\ faults' \in {faults, faults + 1}
         /\ faults <= config.maxFaults => faults' <= config.maxFaults
<1>1. faults \in Nat /\ config.maxFaults \in Nat
  BY ConfigFixed DEF TypeInv, RestTyped, Config
<1>2. closed => closed'
  BY DEF Next, vars, closeVars, ConnectionLost, ConsumerCancelled, Deliver,
    Publisher, publishSyncFails, publishSync, ConfirmArrives, PublishReconnects,
    PublishGivesUp, Subscriber, ensureSubscription, InvalidQueueType, Consume, ListenTakes,
    ListenEnds, ListenCancelled, SubscriberFailed, SubscriberGivesUp, SubscriberReconnects,
    Handler, HandlerSucceeds, HandlerFails, App, PublishStarts, SubscribeReturns,
    CancelContext, Close, CloseReturns
<1>3. \/ faults' = faults
      \/ faults < config.maxFaults /\ faults' = faults + 1
  BY DEF Next, vars, Fault, ConnectionLost, ConsumerCancelled, Deliver,
    Publisher, publishSyncFails, publishSync, ConfirmArrives, PublishReconnects, reconnect,
    Dial, DialFails, PublishGivesUp, Subscriber, ensureSubscription, InvalidQueueType, Consume,
    ListenTakes, ListenEnds, ListenCancelled, SubscriberFailed, SubscriberGivesUp,
    SubscriberReconnects, Handler, HandlerSucceeds, HandlerFails, App, PublishStarts,
    SubscribeReturns, CancelContext, Close, CloseReturns
<1>4. QED
  BY <1>1, <1>2, <1>3

LEMMA DialStep ==
  ASSUME IInv, [Next]_vars
  PROVE  DialInv'
<1>1. /\ connectionCount \in Nat /\ faults \in Nat /\ faults' \in Nat
      /\ DialInv
  BY RestStep DEF IInv, TypeInv, BrokerTyped, RestTyped
<1>2. /\ closed => closed'
      /\ faults' \in {faults, faults + 1}
      /\ faults' <= config'.maxFaults
  BY <1>1, MonotoneStep, ConfigFixed DEF IInv, DialInv, TypeInv
<1>bound. connectionCount >= 1 /\ connectionCount <= faults' + 1
  <2>1. connectionCount >= 1 /\ connectionCount <= faults + 1
    BY <1>1 DEF DialInv
  <2>2. faults' \in {faults, faults + 1}
    BY <1>2
  <2>3. connectionCount \in Nat /\ faults \in Nat /\ faults' \in Nat
    BY <1>1
  <2>4. CASE faults' = faults
    BY <2>1, <2>4
  <2>5. CASE faults' = faults + 1
    BY <2>1, <2>3, <2>5
  <2>6. QED
    BY <2>2, <2>4, <2>5
<1>3. CASE Kept
  <2>1. connectionCount' = connectionCount /\ (Usable' <=> Usable)
    BY <1>3 DEF Kept, Usable
  <2>2. alive' => channel' # 0
    BY <1>1, <1>3 DEF DialInv, Kept
  <2>3. ~closed' /\ ~Usable' => connectionCount <= faults
    BY <1>1, <1>2, <2>1 DEF DialInv
  <2>4. connectionCount' >= 1 /\ connectionCount' <= faults' + 1
    BY <1>bound, <2>1
  <2>5. ~closed' /\ ~Usable' => connectionCount' <= faults'
    BY <1>1, <1>2, <2>1, <2>3
  <2>6. QED
    BY <1>2, <2>2, <2>4, <2>5 DEF DialInv
<1>4. CASE Lost
  BY <1>1, <1>2, <1>4 DEF DialInv, Lost, Usable
<1>5. CASE Dropped
  <2>1. connectionCount' = connectionCount /\ ~alive'
    BY <1>5 DEF Dropped
  <2>2. ~closed' => connectionCount <= faults
    BY <1>1, <1>2, <1>5 DEF DialInv, Dropped
  <2>3. connectionCount' >= 1 /\ connectionCount' <= faults' + 1
    BY <1>bound, <2>1
  <2>4. ~closed' => connectionCount' <= faults'
    BY <1>1, <1>2, <2>1, <2>2
  <2>5. QED
    BY <1>2, <2>1, <2>3, <2>4 DEF DialInv
<1>6. CASE Dialled
  BY <1>1, <1>2, <1>6 DEF DialInv, Dialled, Usable
<1>7. QED
  BY <1>3, <1>4, <1>5, <1>6, ConnectionStep

\* Counts that were read before stay in their place: the connection count only
\* grows, and it grows with every channel.
LEMMA CountsAge ==
  ASSUME IInv, [Next]_vars
  PROVE  /\ connectionCount \in Nat /\ connectionCount' \in Nat
         /\ connectionCount <= connectionCount'
         /\ Usable' => connectionCount < connectionCount' \/ (Usable /\ Kept)
<1>1. connectionCount \in Nat
  BY DEF IInv, TypeInv, BrokerTyped
<1>2. connectionCount' \in {connectionCount, connectionCount + 1}
  BY ConnectionStep DEF Kept, Lost, Dropped, Dialled
<1>3. Usable' => connectionCount < connectionCount' \/ (Usable /\ Kept)
  <2>1. CASE Kept
    BY <2>1 DEF Kept, Usable
  <2>2. CASE Lost \/ Dropped
    BY <2>2 DEF Lost, Dropped, Usable
  <2>3. CASE Dialled
    BY <1>1, <2>3 DEF Dialled
  <2>4. QED
    BY <2>1, <2>2, <2>3, ConnectionStep
<1>4. QED
  BY <1>1, <1>2, <1>3

-----------------------------------------------------------------------------
(* The counts.                                                             *)

LEMMA CountStep ==
  ASSUME IInv, [Next]_vars
  PROVE  CountInv'
<1>0. /\ connectionCount \in Nat /\ connectionCount' \in Nat
      /\ connectionCount <= connectionCount'
      /\ Usable' => connectionCount < connectionCount' \/ (Usable /\ Kept)
  BY CountsAge
<1>1. /\ PubTyped /\ SubTyped /\ SubTyped' /\ PubTyped'
      /\ CountInv
      /\ config.concurrency \in {"single", "parallel"}
      /\ channel \in {0, connectionCount}
  BY SubStep, PubStep, ConfigFixed DEF IInv, TypeInv, BrokerTyped, Config
<1>2. ASSUME NEW p \in Publishers
      PROVE  /\ pub'[p].count <= connectionCount'
             /\ pub'[p].pc = "reconnect" /\ Usable' => pub'[p].count < connectionCount'
  <2>0. /\ pub[p].count \in Nat
        /\ pub[p].count <= connectionCount
        /\ pub[p].pc = "reconnect" /\ Usable => pub[p].count < connectionCount
    BY <1>1 DEF PubTyped, CountInv
  <2>1. \/ pub'[p].count = pub[p].count /\ (pub'[p].pc = "reconnect" => pub[p].pc = "reconnect")
        \/ pub'[p].count = connectionCount /\ ~Usable /\ Kept
    <3>1. CASE pub'[p] = pub[p]
      BY <3>1
    <3>2. CASE publishSyncFails(p)
      BY <1>1, <3>2 DEF PubTyped, publishSyncFails, Usable, Kept, connVars
    <3>3. CASE publishSync(p) \/ ConfirmArrives(p) \/ PublishReconnects(p) \/ PublishGivesUp(p) \/ PublishStarts(p)
      BY <1>1, <3>3 DEF PubTyped, publishSync, ConfirmArrives, PublishReconnects,
        PublishGivesUp, PublishStarts
    <3>4. ASSUME NEW q \in Publishers \ {p}, Publisher(q) \/ PublishStarts(q)
          PROVE  pub'[p] = pub[p]
      BY <1>1, <3>4 DEF PubTyped, Publisher, publishSyncFails, publishSync, ConfirmArrives,
        PublishReconnects, PublishGivesUp, PublishStarts
    <3>5. ASSUME \/ ConnectionLost \/ ConsumerCancelled
                 \/ \E m \in Messages : Deliver(m)
                 \/ Subscriber \/ Handler \/ SubscribeReturns \/ CancelContext \/ Close
                 \/ CloseReturns \/ UNCHANGED vars
          PROVE  pub' = pub
      BY <3>5 DEF ConnectionLost, ConsumerCancelled, Deliver, Subscriber, ensureSubscription,
        InvalidQueueType, Consume, ListenTakes, ListenEnds, ListenCancelled, SubscriberFailed,
        SubscriberGivesUp, SubscriberReconnects, Handler, HandlerSucceeds, HandlerFails,
        SubscribeReturns, CancelContext, Close, CloseReturns, vars
    <3>6. QED
      BY <3>1, <3>2, <3>3, <3>4, <3>5 DEF Next, App, Publisher
  <2>2. CASE pub'[p].count = pub[p].count /\ (pub'[p].pc = "reconnect" => pub[p].pc = "reconnect")
    BY <1>0, <2>0, <2>2 DEF Kept
  <2>3. CASE pub'[p].count = connectionCount /\ ~Usable /\ Kept
    BY <1>0, <2>3 DEF Kept
  <2>4. QED
    BY <2>1, <2>2, <2>3
<1>3. /\ sub'.count <= connectionCount'
      /\ sub'.pc \in {"failed", "reconnect"} /\ Usable' => sub'.count < connectionCount'
  <2>0. /\ sub.count \in Nat
        /\ sub.count <= connectionCount
        /\ sub.pc \in {"failed", "reconnect"} /\ Usable => sub.count < connectionCount
    BY <1>1 DEF SubTyped, CountInv
  <2>1. \/ sub'.count = sub.count
           /\ (sub'.pc \in {"failed", "reconnect"} => sub.pc \in {"failed", "reconnect"})
        \/ sub'.count = connectionCount /\ (sub'.pc = "consume" \/ ~Usable) /\ Kept
        \/ sub'.count = sub.count /\ Kept /\ sub'.pc = "failed" /\ (Usable => sub.count < connectionCount)
    <3>1. CASE sub' = sub
      BY <3>1
    <3>2. CASE ensureSubscription
      BY <1>1, <3>2 DEF ensureSubscription, Usable, Kept
    <3>3. CASE Consume
      <4>1. CASE sub.channel = channel /\ alive
        BY <1>1, <3>3, <4>1 DEF SubTyped, Consume, SubAt
      <4>2. CASE ~(sub.channel = channel /\ alive)
        <5>1. sub' = [sub EXCEPT !.pc = "failed"] /\ Kept /\ sub.pc = "consume"
          BY <3>3, <4>2 DEF Consume, SubAt, Kept, connVars
        <5>2. sub.channel = sub.count
          BY <5>1 DEF IInv, DeliveryInv
        <5>3. Usable => sub.count < connectionCount
          BY <1>0, <1>1, <2>0, <4>2, <5>2 DEF Usable
        <5>4. QED
          BY <1>1, <5>1, <5>3 DEF SubTyped
      <4>3. QED
        BY <4>1, <4>2
    <3>4. ASSUME NEW d \in running, HandlerSucceeds(d) \/ HandlerFails(d)
          PROVE  \/ sub' = sub
                 \/ sub'.count = sub.count /\ sub'.pc = "listen"
                 \/ sub'.count = sub.count /\ Kept /\ sub'.pc = "failed"
                    /\ (Usable => sub.count < connectionCount)
      <4>1. CASE UNCHANGED sub \/ SubAt("listen")
        BY <1>1, <4>1 DEF SubTyped, SubAt
      <4>2. ASSUME SubAt("failed"), config.concurrency # "parallel", ~(d.channel = channel /\ alive)
            PROVE  sub'.count = sub.count /\ Kept /\ sub'.pc = "failed" /\ (Usable => sub.count < connectionCount)
        <5>1. sub' = [sub EXCEPT !.pc = "failed"] /\ Kept
          BY <3>4, <4>2 DEF SubAt, HandlerSucceeds, HandlerFails, Kept, connVars
        <5>2. sub.pc = "handle" /\ d.channel = sub.channel /\ sub.channel = sub.count
          BY <1>1, <4>2 DEF IInv, DeliveryInv
        <5>3. Usable => sub.count < connectionCount
          BY <1>0, <1>1, <2>0, <4>2, <5>2 DEF Usable
        <5>4. QED
          BY <1>1, <5>1, <5>3 DEF SubTyped
      <4>3. QED
        BY <3>4, <4>1, <4>2 DEF HandlerSucceeds, HandlerFails, AfterHandler
    <3>5. ASSUME \/ InvalidQueueType \/ ListenEnds \/ ListenCancelled
                 \/ \E m \in Messages : ListenTakes(m)
                 \/ SubscriberGivesUp \/ SubscriberReconnects
          PROVE  sub'.count = sub.count /\ sub'.pc \notin {"failed", "reconnect"}
      BY <1>1, <3>5 DEF SubTyped, InvalidQueueType, ListenEnds, ListenCancelled, ListenTakes,
        SubscriberGivesUp, SubscriberReconnects, SubAt
    <3>6. CASE SubscriberFailed
      BY <1>1, <3>6 DEF SubTyped, SubscriberFailed, SubAt
    <3>7. ASSUME \/ ConnectionLost \/ ConsumerCancelled
                 \/ \E m \in Messages : Deliver(m)
                 \/ \E p \in Publishers : Publisher(p) \/ PublishStarts(p)
                 \/ SubscribeReturns \/ CancelContext \/ Close \/ CloseReturns \/ UNCHANGED vars
          PROVE  sub' = sub
      BY <3>7 DEF ConnectionLost, ConsumerCancelled, Deliver, Publisher, publishSyncFails,
        publishSync, ConfirmArrives, PublishReconnects, PublishGivesUp, PublishStarts,
        SubscribeReturns, CancelContext, Close, CloseReturns, vars, subVars
    <3>8. QED
      BY <3>1, <3>2, <3>3, <3>4, <3>5, <3>6, <3>7 DEF Next, App, Subscriber, Handler
  <2>2. CASE /\ sub'.count = sub.count
             /\ sub'.pc \in {"failed", "reconnect"} => sub.pc \in {"failed", "reconnect"}
    BY <1>0, <2>0, <2>2 DEF Kept
  <2>3. CASE sub'.count = connectionCount /\ (sub'.pc = "consume" \/ ~Usable) /\ Kept
    BY <1>0, <2>3 DEF Kept
  <2>4. CASE /\ sub'.count = sub.count /\ Kept /\ sub'.pc = "failed"
             /\ Usable => sub.count < connectionCount
    BY <1>0, <2>0, <2>4 DEF Kept
  <2>5. QED
    BY <2>1, <2>2, <2>3, <2>4
<1>4. QED
  BY <1>2, <1>3 DEF CountInv

LEMMA DeliveryStep ==
  ASSUME IInv, [Next]_vars
  PROVE  DeliveryInv'
<1>0. /\ connectionCount \in Nat /\ connectionCount' \in Nat
      /\ connectionCount <= connectionCount'
  BY CountsAge
<1>1. /\ SubTyped
      /\ DeliveryInv /\ CountInv
      /\ config' = config /\ config.concurrency \in {"single", "parallel"}
      /\ channel \in {0, connectionCount}
  BY ConfigFixed DEF IInv, TypeInv, BrokerTyped, Config
<1>2. CASE sub' = sub /\ running' = running
  BY <1>0, <1>1, <1>2 DEF DeliveryInv, SubTyped
<1>3. CASE ensureSubscription
  <2>1. /\ sub.pc = "ensure" /\ running' = running
        /\ UNCHANGED <<channel, connectionCount>>
    BY <1>3 DEF ensureSubscription
  <2>2. sub'.channel \in {0, connectionCount}
    BY <1>1, <1>3 DEF ensureSubscription
  <2>3. sub'.pc \in {"consume", "listen", "handle"} => sub'.channel = sub'.count
    BY <1>1, <1>3 DEF ensureSubscription
  <2>4. config.concurrency = "single" => running = {}
    BY <1>1, <2>1 DEF DeliveryInv
  <2>5. QED
    BY <1>0, <1>1, <2>1, <2>2, <2>3, <2>4 DEF DeliveryInv, SubTyped
<1>4. ASSUME NEW pc \in {"ensure", "listen", "failed", "reconnect", "ended"},
             sub.pc # "handle", sub' = [sub EXCEPT !.pc = pc], running' = running,
             pc = "listen" => sub.pc = "consume"
      PROVE  DeliveryInv'
  <2>1. sub'.channel = sub.channel /\ sub'.count = sub.count /\ sub'.pc = pc
    BY <1>1, <1>4 DEF SubTyped
  <2>2. config.concurrency = "single" => running = {}
    BY <1>1, <1>4 DEF DeliveryInv
  <2>3. QED
    BY <1>0, <1>1, <1>4, <2>1, <2>2 DEF DeliveryInv, SubTyped
<1>5. ASSUME NEW m \in Messages, ListenTakes(m) PROVE DeliveryInv'
  <2>1. /\ sub'.channel = sub.channel /\ sub'.count = sub.count
        /\ config.concurrency = "single" => sub'.pc = "handle"
    BY <1>1, <1>5 DEF SubTyped, ListenTakes, SubAt
  <2>2. running' = running \cup {[m |-> m, channel |-> sub.channel]}
    BY <1>5 DEF ListenTakes
  <2>3. config.concurrency = "single" => running = {}
    BY <1>1, <1>5 DEF DeliveryInv, ListenTakes
  <2>4. sub.channel = sub.count
    BY <1>1, <1>5 DEF DeliveryInv, ListenTakes
  <2>5. \A d \in running' : d \in running \/ (d.channel = sub.channel /\ (running = {} => running' = {d}))
    BY <2>2
  <2>6. \A d \in running' : d.channel <= connectionCount'
    BY <1>0, <1>1, <2>5 DEF DeliveryInv, SubTyped
  <2>7. sub'.channel <= connectionCount'
    BY <1>0, <1>1, <2>1 DEF DeliveryInv, SubTyped
  <2>8. QED
    BY <1>1, <2>1, <2>3, <2>4, <2>5, <2>6, <2>7 DEF DeliveryInv
<1>6. ASSUME NEW d \in running, HandlerSucceeds(d) \/ HandlerFails(d) PROVE DeliveryInv'
  <2>1. running' = running \ {d}
    BY <1>6 DEF HandlerSucceeds, HandlerFails
  <2>2. CASE config.concurrency = "parallel"
    <3>1. sub' = sub
      BY <1>6, <2>2 DEF HandlerSucceeds, HandlerFails, AfterHandler
    <3>2. QED
      BY <1>0, <1>1, <2>1, <2>2, <3>1 DEF DeliveryInv, SubTyped
  <2>3. CASE config.concurrency = "single"
    <3>1. sub.pc = "handle" /\ sub.channel = sub.count
      BY <1>1, <2>3 DEF DeliveryInv
    <3>2. \/ sub' = [sub EXCEPT !.pc = "failed"]
          \/ sub' = [sub EXCEPT !.pc = "listen"]
      BY <1>6, <2>3 DEF HandlerSucceeds, HandlerFails, AfterHandler, SubAt
    <3>3. sub'.channel = sub.channel /\ sub'.count = sub.count
      BY <1>1, <3>2 DEF SubTyped
    <3>4. running' = {}
      BY <1>1, <2>1, <2>3 DEF DeliveryInv
    <3>5. QED
      BY <1>0, <1>1, <3>1, <3>3, <3>4 DEF DeliveryInv, SubTyped
  <2>4. QED
    BY <1>1, <2>2, <2>3
<1>7. ASSUME \/ ConnectionLost \/ ConsumerCancelled
             \/ \E m \in Messages : Deliver(m)
             \/ \E p \in Publishers : Publisher(p) \/ PublishStarts(p)
             \/ SubscribeReturns \/ CancelContext \/ Close \/ CloseReturns \/ UNCHANGED vars
      PROVE  sub' = sub /\ running' = running
  BY <1>7 DEF ConnectionLost, ConsumerCancelled, Deliver, Publisher, publishSyncFails,
    publishSync, ConfirmArrives, PublishReconnects, PublishGivesUp, PublishStarts,
    SubscribeReturns, CancelContext, Close, CloseReturns, vars, subVars
<1>8. CASE InvalidQueueType
  BY <1>4, <1>8 DEF InvalidQueueType, SubAt
<1>9. CASE Consume
  BY <1>4, <1>9 DEF Consume, SubAt
<1>10. CASE ListenEnds
  BY <1>4, <1>10 DEF ListenEnds, SubAt
<1>11. CASE ListenCancelled
  BY <1>4, <1>11 DEF ListenCancelled, SubAt
<1>12. CASE SubscriberFailed
  BY <1>4, <1>12 DEF SubscriberFailed, SubAt
<1>13. CASE SubscriberGivesUp
  BY <1>4, <1>13 DEF SubscriberGivesUp, SubAt
<1>14. CASE SubscriberReconnects
  BY <1>4, <1>14 DEF SubscriberReconnects, SubAt
<1>15. QED
  BY <1>2, <1>3, <1>5, <1>6, <1>7, <1>8, <1>9, <1>10, <1>11, <1>12, <1>13, <1>14
  DEF Next, App, Subscriber, Handler

\* channelMutex and the attempts of the publishers.
LEMMA PublisherStep ==
  ASSUME IInv, [Next]_vars
  PROVE  MutexInv' /\ AttemptsInv'
<1>0. PubTyped /\ MutexInv /\ AttemptsInv
  BY DEF IInv, TypeInv
<1>1. ASSUME NEW p \in Publishers, publishSyncFails(p) PROVE MutexInv' /\ AttemptsInv'
  <2>1. mutex' = "free"
    BY <1>1 DEF publishSyncFails, closeVars
  <2>2. /\ pub'[p].attempts = pub[p].attempts + 1
        /\ pub[p].attempts + 1 >= publishMaxRetries => pub'[p].pc = "error"
        /\ pub[p].attempts < publishMaxRetries /\ pub[p].attempts \in Nat
    BY <1>0, <1>1 DEF PubTyped, publishSyncFails, AttemptsInv
  <2>3. \A q \in Publishers \ {p} : pub'[q] = pub[q]
    BY <1>0, <1>1 DEF PubTyped, publishSyncFails
  <2>4. /\ pub'[p].attempts <= publishMaxRetries
        /\ pub'[p].pc \in {"idle", "send", "reconnect"} => pub'[p].attempts < publishMaxRetries
    BY <2>2 DEF publishMaxRetries
  <2>5. QED
    BY <1>0, <2>1, <2>3, <2>4 DEF MutexInv, AttemptsInv
<1>2. ASSUME NEW p \in Publishers,
             \/ publishSync(p) \/ ConfirmArrives(p) \/ PublishReconnects(p)
             \/ PublishGivesUp(p) \/ PublishStarts(p)
      PROVE  AttemptsInv'
  <2>1. /\ pub[p].pc \in {"send", "confirm", "reconnect", "idle"}
        /\ pub'[p].pc \in {"idle", "send", "reconnect"} => pub[p].pc \in {"reconnect", "idle"}
        /\ pub'[p].attempts = pub[p].attempts
    BY <1>0, <1>2 DEF PubTyped, publishSync, ConfirmArrives, PublishReconnects,
      PublishGivesUp, PublishStarts
  <2>2. \A q \in Publishers \ {p} : pub'[q] = pub[q]
    BY <1>0, <1>2 DEF PubTyped, publishSync, ConfirmArrives, PublishReconnects,
      PublishGivesUp, PublishStarts
  <2>3. QED
    BY <1>0, <2>1, <2>2 DEF AttemptsInv
<1>3. ASSUME NEW p \in Publishers, publishSync(p) PROVE MutexInv'
  BY <1>0, <1>3 DEF PubTyped, MutexInv, publishSync
<1>4. ASSUME NEW p \in Publishers, ConfirmArrives(p) PROVE MutexInv'
  BY <1>4 DEF MutexInv, ConfirmArrives
<1>5. ASSUME NEW p \in Publishers, PublishReconnects(p) \/ PublishGivesUp(p) \/ PublishStarts(p)
      PROVE  MutexInv'
  <2>1. mutex' = mutex /\ pub[p].pc # "confirm"
    BY <1>5 DEF PublishReconnects, PublishGivesUp, PublishStarts, closeVars
  <2>2. \A q \in Publishers \ {p} : pub'[q] = pub[q]
    BY <1>0, <1>5 DEF PubTyped, PublishReconnects, PublishGivesUp, PublishStarts
  <2>3. QED
    BY <1>0, <2>1, <2>2 DEF MutexInv
<1>6. CASE pub' = pub /\ mutex' \in {mutex, "free", "close"}
  BY <1>0, <1>6 DEF MutexInv, AttemptsInv
<1>7. ASSUME \/ ConnectionLost \/ ConsumerCancelled
             \/ \E m \in Messages : Deliver(m)
             \/ Subscriber \/ Handler \/ SubscribeReturns \/ CancelContext \/ Close
             \/ CloseReturns \/ UNCHANGED vars
      PROVE  pub' = pub /\ mutex' \in {mutex, "free", "close"}
  BY <1>7 DEF ConnectionLost, ConsumerCancelled, Deliver, Subscriber, ensureSubscription,
    InvalidQueueType, Consume, ListenTakes, ListenEnds, ListenCancelled, SubscriberFailed,
    SubscriberGivesUp, SubscriberReconnects, Handler, HandlerSucceeds, HandlerFails,
    SubscribeReturns, CancelContext, Close, CloseReturns, vars, closeVars
<1>8. QED
  BY <1>1, <1>2, <1>3, <1>4, <1>5, <1>6, <1>7 DEF Next, App, Publisher

-----------------------------------------------------------------------------
(* The invariant, and what follows from it.                                *)

LEMMA InitInv == Init => IInv
<1> SUFFICES ASSUME Init PROVE IInv
  OBVIOUS
<1>1. config \in Config
  BY ConstantsAssumption DEF Init
<1>2. BrokerTyped
  BY DEF Init, BrokerTyped
<1>3. SubTyped
  BY DEF Init, SubTyped
<1>4. PubTyped
  BY DEF Init, PubTyped
<1>5. RestTyped
  BY DEF Init, RestTyped
<1>6. MutexInv /\ AttemptsInv
  BY DEF Init, MutexInv, AttemptsInv, publishMaxRetries
<1>7. DialInv
  BY <1>1 DEF Init, DialInv, Usable, Config
<1>8. CountInv /\ DeliveryInv
  BY DEF Init, CountInv, DeliveryInv
<1>9. QED
  BY <1>2, <1>3, <1>4, <1>5, <1>6, <1>7, <1>8 DEF IInv, TypeInv

LEMMA StepInv == IInv /\ [Next]_vars => IInv'
<1> SUFFICES ASSUME IInv, [Next]_vars PROVE IInv'
  OBVIOUS
<1>1. TypeInv'
  BY BrokerStep, SubStep, PubStep, RestStep DEF IInv, TypeInv
<1>2. QED
  BY <1>1, PublisherStep, DialStep, CountStep, DeliveryStep DEF IInv

THEOREM Invariance == Spec => []IInv
  BY InitInv, StepInv, PTL DEF Spec

\* The types hold for any publishers, settings and number of faults: in particular
\* channelMutex is kept over a wait by Close or by a publisher that waits for its
\* confirmation only, no count or channel number is ever ahead of connectionCount,
\* and the component does not dial without a fault to cause it.
THEOREM TypeCorrect == Spec => []TypeOK
<1>1. IInv => TypeOK
  <2> SUFFICES ASSUME IInv PROVE TypeOK
    OBVIOUS
  <2>1. /\ connectionCount \in Nat /\ faults \in Nat /\ config.maxFaults \in Nat
        /\ connectionCount >= 1 /\ connectionCount <= faults + 1 /\ faults <= config.maxFaults
    BY ConfigFixed DEF IInv, TypeInv, BrokerTyped, RestTyped, DialInv, Config
  <2>2. connectionCount \in 1 .. config.maxFaults + 1 /\ faults \in 0 .. config.maxFaults
    BY <2>1
  <2>3. sub \in [pc : {"ensure", "consume", "listen", "handle", "failed", "reconnect", "ended"},
                 channel : 0 .. connectionCount, count : 0 .. connectionCount]
    BY <2>1 DEF IInv, TypeInv, SubTyped, CountInv, DeliveryInv
  <2>4. running \subseteq [m : Messages, channel : 0 .. connectionCount]
    BY <2>1 DEF IInv, TypeInv, SubTyped, DeliveryInv
  <2>5. \A p \in Publishers :
          pub[p] \in [pc : {"idle", "send", "confirm", "reconnect", "ok", "error"},
                      attempts : 0 .. publishMaxRetries, count : 0 .. connectionCount]
    BY <2>1 DEF IInv, TypeInv, PubTyped, CountInv, AttemptsInv, publishMaxRetries
  <2>6. pub \in [Publishers -> [pc : {"idle", "send", "confirm", "reconnect", "ok", "error"},
                                attempts : 0 .. publishMaxRetries,
                                count : 0 .. connectionCount]]
    BY <2>5 DEF IInv, TypeInv, PubTyped
  <2>7. QED
    BY <2>2, <2>3, <2>4, <2>6
    DEF IInv, TypeInv, BrokerTyped, SubTyped, RestTyped, MutexInv, TypeOK
<1>2. QED
  BY <1>1, Invariance, PTL

\* With manual acknowledgement no message leaves the queue but through a handler
\* that returned, with success or with a failure of its own: not through a
\* cancelled context, a broken channel, or a settlement on a channel that a
\* reconnect has replaced.
THEOREM GoneHandled == Spec => []GoneWereHandled
<1>1. Init => GoneWereHandled
  BY DEF Init, GoneWereHandled
<1>2. IInv /\ GoneWereHandled /\ [Next]_vars => GoneWereHandled'
  <2> SUFFICES ASSUME IInv, GoneWereHandled, [Next]_vars, ~config.autoAck,
                      NEW m \in Messages, msg'[m] = "gone"
               PROVE  m \in handled' \cup refused'
    BY ConfigFixed DEF GoneWereHandled, IInv, TypeInv
  <2>0. BrokerTyped /\ SubTyped
    BY DEF IInv, TypeInv
  <2>1. /\ handled \subseteq handled' /\ refused \subseteq refused'
    BY DEF Next, vars, histVars, ConnectionLost, ConsumerCancelled, Deliver,
      Publisher, publishSyncFails, publishSync, ConfirmArrives, PublishReconnects,
      PublishGivesUp, Subscriber, ensureSubscription, InvalidQueueType, Consume, ListenTakes,
      ListenEnds, ListenCancelled, SubscriberFailed, SubscriberGivesUp, SubscriberReconnects,
      Handler, HandlerSucceeds, HandlerFails, App, PublishStarts, SubscribeReturns,
      CancelContext, Close, CloseReturns
  <2>2. CASE msg[m] = "gone"
    BY <2>1, <2>2 DEF GoneWereHandled
  <2>3. ASSUME msg[m] # "gone" PROVE \E d \in running : HandlerSucceeds(d) \/ HandlerFails(d)
    <3>1. \A c : ~(ChannelEnds \/ (reconnect(c) /\ msg' # msg))
      BY <2>0, <2>3 DEF BrokerTyped, ChannelEnds, reconnect, Dial, DialFails, reset
    <3>2. ~ConnectionLost /\ ~Close
      BY <2>0, <2>3, <3>1 DEF BrokerTyped, ConnectionLost, Close, reset
    <3>3. \A n \in Messages : ~Deliver(n)
      BY <2>0, <2>3 DEF BrokerTyped, Deliver
    <3>4. \A p \in Publishers : ~publishSync(p) /\ ~ConfirmArrives(p)
      BY <2>0, <2>3 DEF BrokerTyped, Messages, publishSync, ConfirmArrives, Accepted
    <3>5. msg' # msg
      BY <2>3
    <3>6. \A p \in Publishers : ~PublishReconnects(p)
      BY <3>1, <3>5 DEF PublishReconnects
    <3>7. ~SubscriberReconnects
      BY <3>1, <3>5 DEF SubscriberReconnects
    <3>8. QED
      BY <3>2, <3>3, <3>4, <3>5, <3>6, <3>7 DEF Next, vars, brokerVars, ConsumerCancelled,
        Publisher, publishSyncFails, PublishGivesUp, Subscriber, ensureSubscription,
        InvalidQueueType, Consume, ListenTakes, ListenEnds, ListenCancelled, SubscriberFailed,
        SubscriberGivesUp, Handler, App, PublishStarts, SubscribeReturns, CancelContext,
        CloseReturns
  <2>4. ASSUME msg[m] # "gone", NEW d \in running, HandlerSucceeds(d)
        PROVE  m \in handled'
    BY <2>0, <2>4 DEF BrokerTyped, SubTyped, HandlerSucceeds, Settled
  <2>5. ASSUME msg[m] # "gone", NEW d \in running, HandlerFails(d)
        PROVE  m \in refused'
    BY <2>0, <2>5 DEF BrokerTyped, SubTyped, HandlerFails, Settled
  <2>6. QED
    BY <2>2, <2>3, <2>4, <2>5
<1>3. QED
  BY <1>1, <1>2, Invariance, PTL DEF Spec

\* What declaredExchanges remembers is true of the broker the open channel leads
\* to; and of all the reconnects that publishers and the subscription ask for,
\* with counts they read earlier, none tears down a channel that works.
THEOREM SharedChannel == Spec => ChannelShared
<1>1. Init => DeclaredExists
  BY DEF Init, DeclaredExists
<1>2. IInv /\ DeclaredExists /\ [Next]_vars => DeclaredExists'
  <2> SUFFICES ASSUME IInv, DeclaredExists, [Next]_vars PROVE DeclaredExists'
    OBVIOUS
  <2> USE DEF DeclaredExists
  <2>1. CASE UNCHANGED <<exchange, connVars>>
    BY <2>1 DEF connVars
  <2>2. CASE ConnectionLost
    BY <2>2 DEF ConnectionLost
  <2>3. CASE UNCHANGED alive /\ ensureExchangeDeclared
    BY <2>3 DEF ensureExchangeDeclared, IInv, TypeInv, BrokerTyped
  <2>4. ASSUME NEW c, reconnect(c) PROVE DeclaredExists'
    BY <2>4 DEF reconnect, Dial, DialFails, reset, ForgetExchanges, connVars
  <2>5. CASE Close
    BY <2>5 DEF Close, reset, ForgetExchanges
  <2>6. ASSUME NEW p \in Publishers, Publisher(p) \/ PublishStarts(p) PROVE DeclaredExists'
    <3>1. CASE publishSync(p)
      BY <2>3, <3>1 DEF publishSync
    <3>2. CASE PublishReconnects(p)
      BY <2>4, <3>2 DEF PublishReconnects
    <3>3. QED
      BY <2>1, <2>6, <3>1, <3>2 DEF Publisher, publishSyncFails, ConfirmArrives,
        PublishGivesUp, PublishStarts, brokerVars
  <2>7. CASE Subscriber
    <3>1. CASE ensureSubscription
      BY <2>1, <2>3, <3>1 DEF ensureSubscription, connVars
    <3>2. CASE InvalidQueueType
      BY <2>3, <3>2 DEF InvalidQueueType
    <3>3. CASE SubscriberReconnects
      BY <2>4, <3>3 DEF SubscriberReconnects
    <3>4. QED
      BY <2>1, <2>7, <3>1, <3>2, <3>3 DEF Subscriber, Consume, ListenTakes, ListenEnds,
        ListenCancelled, SubscriberFailed, SubscriberGivesUp, brokerVars
  <2>8. ASSUME \/ ConsumerCancelled \/ Handler \/ CloseReturns
               \/ SubscribeReturns \/ CancelContext \/ UNCHANGED vars
               \/ \E m \in Messages : Deliver(m)
        PROVE  UNCHANGED <<exchange, connVars>>
    BY <2>8 DEF ConsumerCancelled, Handler, HandlerSucceeds, HandlerFails, CloseReturns,
      SubscribeReturns, CancelContext, Deliver, vars, brokerVars
  <2>9. QED
    BY <2>1, <2>2, <2>5, <2>6, <2>7, <2>8 DEF Next, App
<1>3. IInv /\ [Next]_vars => [channel # 0 /\ alive /\ channel' # channel => closed']_vars
  <2> SUFFICES ASSUME IInv, [Next]_vars, channel # 0, alive, channel' # channel PROVE closed'
    OBVIOUS
  <2>1. QED
    BY ConnectionStep DEF Kept, Lost, Dropped, Dialled, Usable
<1>4. QED
  BY <1>1, <1>2, <1>3, Invariance, PTL DEF Spec, ChannelShared, HealthyChannelKept
=============================================================================
