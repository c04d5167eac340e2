------------------------------- MODULE RabbitMQ -------------------------------
(***************************************************************************)
(* pubsub/rabbitmq/rabbitmq.go: publishers and one subscription that share *)
(* a channel, which any of them replaces when it finds it broken.          *)
(*                                                                         *)
(* The channel is named by the value connectionCount had when it was       *)
(* dialled plus one; 0 is nil.  A channel that was replaced is never open  *)
(* again, so `alive` only has to say it of the current one.  The critical  *)
(* sections of channelMutex are one step each, but for the two that wait   *)
(* inside: publishSync for a confirmation, Close for the goroutines.       *)
(*                                                                         *)
(* The broker is external: an exchange, a queue, and for each message      *)
(* whether it waits, is unacknowledged, or has left the queue.             *)
(*                                                                         *)
(* An operator D_Slip before a definition D is D with a plausible slip,    *)
(* kept to show that some property fails with it.                          *)
(***************************************************************************)
EXTENDS Naturals, FiniteSets

CONSTANTS
  Publishers,  \* callers of Publish; each publishes one message
  Configs      \* the settings to look at, see Config

\* The settings of the component and of the subscription; `durable` is whether the
\* broker keeps exchange and queue when it restarts, `validQueueType` what
\* prepareSubscription finds in the request.  `publishers` says who publishes, and
\* `maxFaults` bounds lost connections, failed dials, handler errors and the like.
Config == [concurrency : {"single", "parallel"}, autoAck : BOOLEAN,
           requeueInFailure : BOOLEAN, publisherConfirm : BOOLEAN,
           durable : BOOLEAN, validQueueType : BOOLEAN,
           publishers : SUBSET Publishers, maxFaults : Nat]

publishMaxRetries == 3

ASSUME ConstantsAssumption == Configs \subseteq Config

Messages == Publishers

VARIABLES
  config,
  \* the broker
  exchange, queue,  \* do they exist
  msg,              \* msg[m]: "new", "ready", "unacked", "gone" or "dropped"
  consumer,         \* the channel the subscription's consumer is on, or 0
  \* the component
  channel, alive,   \* r.channel, and whether it is open
  connectionCount,
  declared,         \* is the exchange in declaredExchanges
  mutex,            \* who waits while it holds channelMutex, or "free"
  closed,           \* r.closed and closeCh
  closer,           \* "idle", "waiting" in wg.Wait or "done"
  \* the subscription
  sub,              \* subscribeForever: pc, and the channel and count it works with
  inbox,            \* deliveries not yet read from msgs
  running,          \* handleMessage calls: message and channel of the delivery
  ctxDone,          \* subctx is cancelled
  caller,           \* Subscribe: "waiting", "ok", "invalid" or "timeout"
  ackCh,            \* what is in ackCh: "empty", "false", "true"; "nil" once used
  panicked,         \* a send on the closed ackCh
  \* the publishers
  pub,              \* pub[p]: pc, attempts and the count of the failed attempt
  \* history
  handled,          \* messages whose handler returned nil
  refused,          \* messages whose handler failed with its context alive
  confirmed,        \* messages whose publication the broker confirmed
  faults

brokerVars == <<exchange, queue, msg, consumer, inbox>>
connVars   == <<channel, alive, connectionCount, declared>>
subVars    == <<sub, running, ctxDone, caller, ackCh, panicked>>
closeVars  == <<mutex, closed, closer>>
histVars   == <<handled, refused, confirmed>>
vars == <<config, brokerVars, connVars, subVars, closeVars, pub, histVars, faults>>

Fault == faults < config.maxFaults /\ faults' = faults + 1

-----------------------------------------------------------------------------
(* The broker.                                                             *)

\* The channel is gone: its consumer ends, what it left unacknowledged waits again,
\* and the client drops what it had buffered.
ChannelEnds ==
  /\ msg' = [m \in Messages |-> IF msg[m] = "unacked" THEN "ready" ELSE msg[m]]
  /\ consumer' = 0
  /\ inbox' = {}

\* The connection is lost; a broker that restarts may have lost what is not durable.
ConnectionLost ==
  /\ alive
  /\ Fault
  /\ alive' = FALSE
  /\ \/ ChannelEnds /\ UNCHANGED <<exchange, queue>>
     \/ /\ ~config.durable
        /\ exchange' = FALSE /\ queue' = FALSE
        /\ msg' = [m \in Messages |-> IF msg[m] \in {"ready", "unacked"} THEN "dropped"
                                      ELSE msg[m]]
        /\ consumer' = 0
        /\ inbox' = {}
  /\ UNCHANGED <<config, channel, connectionCount, declared, subVars, closeVars, pub, histVars>>

\* The broker cancels the consumer (a queue that moves): msgs is closed, the
\* channel stays.
ConsumerCancelled ==
  /\ consumer # 0
  /\ Fault
  /\ consumer' = 0
  /\ UNCHANGED <<config, exchange, queue, msg, inbox, connVars, subVars, closeVars, pub, histVars>>

Deliver(m) ==
  /\ consumer # 0
  /\ msg[m] = "ready"
  /\ msg' = [msg EXCEPT ![m] = IF config.autoAck THEN "gone" ELSE "unacked"]
  /\ inbox' = inbox \cup {m}
  /\ UNCHANGED <<config, exchange, queue, consumer, connVars, subVars, closeVars, pub, histVars, faults>>

\* What the broker makes of a message it was sent: nothing, if no queue is bound.
Accepted(m, routable) == [msg EXCEPT ![m] = IF routable THEN "ready" ELSE "dropped"]

-----------------------------------------------------------------------------
(* The connection.                                                         *)

ForgetExchanges == declared' = FALSE

reset ==
  /\ ForgetExchanges
  /\ channel' = 0
  /\ alive' = FALSE
  /\ ChannelEnds

\* reset, and a new connection.
Dial(c) ==
  /\ ForgetExchanges
  /\ channel' = c + 1 /\ connectionCount' = c + 1 /\ alive' = TRUE
  /\ ChannelEnds
  /\ UNCHANGED faults

\* reset fails (closing a channel that is closed already may do so), or the dial, or
\* Confirm: in each case the component is left without a channel.
DialFails ==
  /\ reset
  /\ UNCHANGED connectionCount
  /\ IF channel # 0 /\ ~alive THEN UNCHANGED faults ELSE Fault

\* Slip: the count of the request is not compared.
reconnect_Always(c) ==
  /\ mutex = "free"
  /\ UNCHANGED <<exchange, queue>>
  /\ \/ closed /\ UNCHANGED <<connVars, msg, consumer, inbox, faults>>
     \/ ~closed /\ Dial(connectionCount)
     \/ ~closed /\ DialFails

\* A request that is older than the connection does nothing.
reconnect(c) ==
  /\ mutex = "free"
  /\ UNCHANGED <<exchange, queue>>
  /\ \/ /\ closed \/ c # connectionCount
        /\ UNCHANGED <<connVars, msg, consumer, inbox, faults>>
     \/ ~closed /\ c = connectionCount /\ Dial(c)
     \/ ~closed /\ c = connectionCount /\ DialFails

\* With the channel open, the exchange is declared unless it is known to be.
ensureExchangeDeclared ==
  /\ declared' = TRUE
  /\ exchange' = IF declared THEN exchange ELSE TRUE

-----------------------------------------------------------------------------
(* Publish.                                                                *)

PublishStarts(p) ==
  /\ p \in config.publishers
  /\ pub[p].pc = "idle"
  /\ pub' = [pub EXCEPT ![p].pc = IF closed THEN "error" ELSE "send"]
  /\ UNCHANGED <<config, brokerVars, connVars, subVars, closeVars, histVars, faults>>

\* publishSync finds the channel nil or closed.
publishSyncFails(p) ==
  /\ pub[p].pc = "send"
  /\ mutex = "free"
  /\ channel = 0 \/ ~alive
  /\ pub' = [pub EXCEPT ![p] =
       [pc |-> IF @.attempts + 1 >= publishMaxRetries THEN "error" ELSE "reconnect",
        attempts |-> @.attempts + 1, count |-> connectionCount]]
  /\ UNCHANGED <<config, brokerVars, connVars, subVars, closeVars, histVars, faults>>

publishSync(p) ==
  /\ pub[p].pc = "send"
  /\ mutex = "free"
  /\ channel # 0 /\ alive
  /\ ensureExchangeDeclared
  /\ IF config.publisherConfirm
     THEN /\ mutex' = p
          /\ pub' = [pub EXCEPT ![p].pc = "confirm"]
          /\ UNCHANGED msg
     ELSE /\ msg' = Accepted(p, exchange' /\ queue)
          /\ pub' = [pub EXCEPT ![p].pc = "ok"]
          /\ UNCHANGED mutex
  /\ UNCHANGED <<config, queue, consumer, inbox, channel, alive, connectionCount,
                 subVars, closed, closer, histVars, faults>>

\* confirm.Wait: the broker confirms, or refuses, or the connection is lost before
\* its answer; Publish returns nil in all three cases.
ConfirmArrives(p) ==
  /\ pub[p].pc = "confirm"
  /\ \/ alive /\ msg' = Accepted(p, exchange /\ queue) /\ confirmed' = confirmed \cup {p} /\ UNCHANGED faults
     \/ alive /\ Fault /\ UNCHANGED <<msg, confirmed>>
     \/ ~alive /\ msg' \in {msg, Accepted(p, exchange /\ queue)} /\ UNCHANGED <<confirmed, faults>>
  /\ pub' = [pub EXCEPT ![p].pc = "ok"]
  /\ mutex' = "free"
  /\ UNCHANGED <<config, exchange, queue, consumer, inbox, connVars, subVars,
                 closed, closer, handled, refused>>

\* After ReconnectWait; the error of reconnect is ignored.
PublishReconnects(p) ==
  /\ pub[p].pc = "reconnect"
  /\ reconnect(pub[p].count)
  /\ pub' = [pub EXCEPT ![p].pc = "send"]
  /\ UNCHANGED <<config, subVars, closeVars, histVars>>

\* The caller's context ends during ReconnectWait: Publish returns nil.
PublishGivesUp(p) ==
  /\ pub[p].pc = "reconnect"
  /\ Fault
  /\ pub' = [pub EXCEPT ![p].pc = "ok"]
  /\ UNCHANGED <<config, brokerVars, connVars, subVars, closeVars, histVars>>

-----------------------------------------------------------------------------
(* Subscribe and subscribeForever.                                         *)

\* Subscribe returns what it gets from ackCh, or gives up after a minute; either way
\* it closes ackCh.
SubscribeReturns ==
  /\ caller = "waiting"
  /\ \/ ackCh = "false" /\ caller' = "ok" /\ UNCHANGED faults
     \/ ackCh = "true" /\ caller' = "invalid" /\ UNCHANGED faults
     \/ Fault /\ caller' = "timeout"
  /\ ackCh' = IF ackCh = "empty" THEN "closed" ELSE "nil"
  /\ UNCHANGED <<config, brokerVars, connVars, sub, running, ctxDone, panicked,
                 closeVars, pub, histVars>>

SubAt(pc) == sub' = [sub EXCEPT !.pc = pc]

\* The one-time notification of Subscribe.
Notify(failed) ==
  /\ ackCh' = IF ackCh = "empty" THEN failed ELSE ackCh
  /\ panicked' = (ackCh = "closed")

\* ensureSubscription: the channel is nil, closed, or fit for the declarations.
ensureSubscription ==
  /\ sub.pc = "ensure"
  /\ mutex = "free"
  /\ config.validQueueType \/ channel = 0 \/ ~alive
  /\ sub' = [pc |-> IF channel # 0 /\ alive THEN "consume" ELSE "failed",
             channel |-> channel, count |-> connectionCount]
  /\ IF channel # 0 /\ alive
     THEN ensureExchangeDeclared /\ queue' = TRUE
     ELSE UNCHANGED <<declared, exchange, queue>>
  /\ UNCHANGED <<config, msg, consumer, inbox, channel, alive, connectionCount, running,
                 ctxDone, caller, ackCh, panicked, closeVars, pub, histVars, faults>>

\* prepareSubscription refuses the queue type: the only error that is not retried.
InvalidQueueType ==
  /\ sub.pc = "ensure"
  /\ mutex = "free"
  /\ channel # 0 /\ alive /\ ~config.validQueueType
  /\ ensureExchangeDeclared
  /\ Notify("true")
  /\ SubAt("ended")
  /\ UNCHANGED <<config, queue, msg, consumer, inbox, channel, alive, connectionCount,
                 running, ctxDone, caller, closeVars, pub, histVars, faults>>

Consume ==
  /\ sub.pc = "consume"
  /\ IF sub.channel = channel /\ alive
     THEN /\ consumer' = channel
          /\ SubAt("listen")
          /\ Notify("false")
     ELSE SubAt("failed") /\ UNCHANGED <<consumer, ackCh, panicked>>
  /\ UNCHANGED <<config, exchange, queue, msg, inbox, connVars, running, ctxDone, caller,
                 closeVars, pub, histVars, faults>>

\* listenMessages returns, and the consumer is cancelled.
CancelConsumer == consumer' = 0 /\ inbox' = {}

\* msgs is closed: no error, subscribe again.
ListenEnds ==
  /\ sub.pc = "listen"
  /\ consumer = 0 /\ inbox = {}
  /\ SubAt("ensure")
  /\ UNCHANGED <<config, brokerVars, connVars, running, ctxDone, caller, ackCh, panicked,
                 closeVars, pub, histVars, faults>>

ListenCancelled ==
  /\ sub.pc = "listen"
  /\ ctxDone
  /\ SubAt("ended")
  /\ CancelConsumer
  /\ UNCHANGED <<config, exchange, queue, msg, connVars, running, ctxDone, caller, ackCh,
                 panicked, closeVars, pub, histVars, faults>>

ListenTakes(m) ==
  /\ sub.pc = "listen"
  /\ m \in inbox
  /\ inbox' = inbox \ {m}
  /\ running' = running \cup {[m |-> m, channel |-> sub.channel]}
  /\ SubAt(IF config.concurrency = "single" THEN "handle" ELSE "listen")
  /\ UNCHANGED <<config, exchange, queue, msg, consumer, connVars, ctxDone, caller, ackCh,
                 panicked, closeVars, pub, histVars, faults>>

\* Ack or Nack of a delivery: it works on the channel of the delivery only.
Settled(d, to) ==
  msg' = IF d.channel = channel /\ alive /\ msg[d.m] = "unacked"
         THEN [msg EXCEPT ![d.m] = to] ELSE msg

\* In single mode listenMessages goes on, or returns the error of a closed channel.
AfterHandler(d, settles) ==
  IF config.concurrency = "parallel" THEN UNCHANGED <<sub, consumer, inbox>>
  ELSE IF settles /\ ~(d.channel = channel /\ alive) THEN SubAt("failed") /\ CancelConsumer
  ELSE SubAt("listen") /\ UNCHANGED <<consumer, inbox>>

HandlerSucceeds(d) ==
  /\ d \in running
  /\ running' = running \ {d}
  /\ handled' = handled \cup {d.m}
  /\ IF config.autoAck THEN UNCHANGED msg ELSE Settled(d, "gone")
  /\ AfterHandler(d, ~config.autoAck)
  /\ UNCHANGED <<config, exchange, queue, connVars, ctxDone, caller, ackCh, panicked,
                 closeVars, pub, refused, confirmed, faults>>

HandlerFails_AlwaysNacks(d) ==
  /\ d \in running
  /\ IF ctxDone THEN UNCHANGED faults ELSE Fault
  /\ running' = running \ {d}
  /\ refused' = IF ctxDone THEN refused ELSE refused \cup {d.m}
  /\ IF config.autoAck THEN UNCHANGED msg
     ELSE Settled(d, IF config.requeueInFailure THEN "ready" ELSE "gone")
  /\ AfterHandler(d, ~config.autoAck)
  /\ UNCHANGED <<config, exchange, queue, connVars, ctxDone, caller, ackCh, panicked,
                 closeVars, pub, handled, confirmed>>

\* A handler that fails because its context is done neither acks nor nacks.
HandlerFails(d) ==
  /\ d \in running
  /\ IF ctxDone THEN UNCHANGED faults ELSE Fault
  /\ running' = running \ {d}
  /\ refused' = IF ctxDone THEN refused ELSE refused \cup {d.m}
  /\ IF config.autoAck \/ ctxDone THEN UNCHANGED msg
     ELSE Settled(d, IF config.requeueInFailure THEN "ready" ELSE "gone")
  /\ AfterHandler(d, ~config.autoAck /\ ~ctxDone)
  /\ UNCHANGED <<config, exchange, queue, connVars, ctxDone, caller, ackCh, panicked,
                 closeVars, pub, handled, confirmed>>

\* The error handling of subscribeForever, up to ReconnectWait ...
SubscriberFailed ==
  /\ sub.pc = "failed"
  /\ SubAt(IF closed THEN "ended" ELSE "reconnect")
  /\ UNCHANGED <<config, brokerVars, connVars, running, ctxDone, caller, ackCh, panicked,
                 closeVars, pub, histVars, faults>>

\* ... which the end of the context cuts short.
SubscriberGivesUp ==
  /\ sub.pc = "reconnect"
  /\ ctxDone
  /\ SubAt("ended")
  /\ UNCHANGED <<config, brokerVars, connVars, running, ctxDone, caller, ackCh, panicked,
                 closeVars, pub, histVars, faults>>

SubscriberReconnects_Not ==
  /\ sub.pc = "reconnect"
  /\ mutex = "free"
  /\ SubAt("ensure")
  /\ UNCHANGED <<config, brokerVars, connVars, running, ctxDone, caller, ackCh, panicked,
                 closeVars, pub, histVars, faults>>

SubscriberReconnects ==
  /\ sub.pc = "reconnect"
  /\ reconnect(sub.count)
  /\ SubAt("ensure")
  /\ UNCHANGED <<config, running, ctxDone, caller, ackCh, panicked, closeVars, pub, histVars>>

\* The goroutine that turns closeCh, or the end of the subscription's own context,
\* into the end of subctx.
CancelContext ==
  /\ ~ctxDone
  /\ ctxDone' = TRUE
  /\ UNCHANGED <<config, brokerVars, connVars, sub, running, caller, ackCh, panicked,
                 closeVars, pub, histVars, faults>>

-----------------------------------------------------------------------------
(* Close.                                                                  *)

\* channelMutex is taken, and kept over wg.Wait.
Close ==
  /\ closer = "idle"
  /\ mutex = "free"
  /\ mutex' = "close"
  /\ closed' = TRUE
  /\ closer' = "waiting"
  /\ reset
  /\ UNCHANGED <<config, exchange, queue, connectionCount, subVars, pub, histVars, faults>>

CloseReturns ==
  /\ closer = "waiting"
  /\ sub.pc = "ended" /\ running = {} /\ ctxDone
  /\ closer' = "done"
  /\ mutex' = "free"
  /\ UNCHANGED <<config, brokerVars, connVars, subVars, closed, pub, histVars, faults>>

-----------------------------------------------------------------------------
\* After Init, and with Subscribe just called.
Init ==
  /\ config \in Configs
  /\ exchange = FALSE /\ queue = FALSE
  /\ msg = [m \in Messages |-> "new"]
  /\ consumer = 0 /\ inbox = {}
  /\ channel = 1 /\ alive = TRUE /\ connectionCount = 1 /\ declared = FALSE
  /\ mutex = "free" /\ closed = FALSE /\ closer = "idle"
  /\ sub = [pc |-> "ensure", channel |-> 0, count |-> 0]
  /\ running = {} /\ ctxDone = FALSE
  /\ caller = "waiting" /\ ackCh = "empty" /\ panicked = FALSE
  /\ pub = [p \in Publishers |-> [pc |-> "idle", attempts |-> 0, count |-> 0]]
  /\ handled = {} /\ refused = {} /\ confirmed = {} /\ faults = 0

Publisher(p) ==
  /\ ~panicked
  /\ \/ publishSyncFails(p)
     \/ publishSync(p)
     \/ ConfirmArrives(p)
     \/ PublishReconnects(p)
     \/ PublishGivesUp(p)

Subscriber ==
  /\ ~panicked
  /\ \/ ensureSubscription
     \/ InvalidQueueType
     \/ Consume
     \/ \E m \in Messages : ListenTakes(m)
     \/ ListenEnds
     \/ ListenCancelled
     \/ SubscriberFailed
     \/ SubscriberGivesUp
     \/ SubscriberReconnects

Handler ==
  /\ ~panicked
  /\ \E d \in running : HandlerSucceeds(d) \/ HandlerFails(d)

\* The app calls Publish, cancels its context or closes the component.
App ==
  /\ ~panicked
  /\ \/ \E p \in Publishers : PublishStarts(p)
     \/ SubscribeReturns
     \/ CancelContext
     \/ Close

Next == \/ ConnectionLost
        \/ ConsumerCancelled
        \/ \E m \in Messages : Deliver(m)
        \/ \E p \in Publishers : Publisher(p)
        \/ Subscriber
        \/ Handler
        \/ App
        \/ CloseReturns

Spec == Init /\ [][Next]_vars

\* Goroutines run, the broker delivers and answers, and handlers return.  Nobody has
\* to close the component or to end the subscription; once closeCh is closed the
\* goroutine that watches it runs.
Fairness ==
  /\ WF_vars(Subscriber)
  /\ WF_vars(Handler)
  /\ \A m \in Messages : WF_vars(Deliver(m)) /\ WF_vars(ListenTakes(m))
  /\ \A p \in Publishers : WF_vars(Publisher(p))
  /\ WF_vars(closed /\ ~panicked /\ CancelContext)
  /\ WF_vars(CloseReturns)

FairSpec == Spec /\ Fairness

-----------------------------------------------------------------------------
(* Properties.                                                             *)

\* The values the variables can have; channelMutex is held by a publisher only
\* while it waits for its confirmation, the channel is the latest dialled, nobody
\* knows of a channel or a count that is still to come, and every dial but the first
\* was called for by a fault.
TypeOK ==
  /\ config \in Configs
  /\ exchange \in BOOLEAN /\ queue \in BOOLEAN
  /\ msg \in [Messages -> {"new", "ready", "unacked", "gone", "dropped"}]
  /\ connectionCount \in 1 .. config.maxFaults + 1
  /\ channel \in {0, connectionCount} /\ consumer \in {0, channel}
  /\ alive \in BOOLEAN /\ declared \in BOOLEAN
  /\ mutex \in {"free", "close"} \cup {p \in Publishers : pub[p].pc = "confirm"}
  /\ closed \in BOOLEAN
  /\ closer \in {"idle", "waiting", "done"}
  /\ sub \in [pc : {"ensure", "consume", "listen", "handle", "failed", "reconnect", "ended"},
              channel : 0 .. connectionCount, count : 0 .. connectionCount]
  /\ inbox \subseteq Messages
  /\ running \subseteq [m : Messages, channel : 0 .. connectionCount]
  /\ ctxDone \in BOOLEAN /\ panicked \in BOOLEAN
  /\ caller \in {"waiting", "ok", "invalid", "timeout"}
  /\ ackCh \in {"empty", "false", "true", "closed", "nil"}
  /\ pub \in [Publishers -> [pc : {"idle", "send", "confirm", "reconnect", "ok", "error"},
                             attempts : 0 .. publishMaxRetries,
                             count : 0 .. connectionCount]]
  /\ handled \subseteq Messages /\ refused \subseteq Messages
  /\ confirmed \subseteq Messages
  /\ faults \in 0 .. config.maxFaults

\* Publishers and the subscription all ask for a reconnect when they meet a broken
\* channel, but none of them tears down a channel that works: only Close does.
HealthyChannelKept == [][channel # 0 /\ alive /\ channel' # channel => closed']_vars

\* What declaredExchanges remembers is true of the broker the open channel leads to,
\* so a message is never sent to an exchange that a restarted broker does not have.
DeclaredExists == alive /\ declared => exchange

\* Without autoAck a message leaves the queue only if its handler succeeded, or
\* failed on its own account; never because the subscription was being cancelled.
GoneWereHandled ==
  ~config.autoAck => \A m \in Messages : msg[m] = "gone" => m \in handled \cup refused

\* A message in the queue is delivered and settled in the end, across lost
\* connections, failed dials and cancelled consumers, while the subscription lives.
EventuallyDelivered ==
  \A m \in Messages :
    msg[m] = "ready" ~> \/ msg[m] \in {"gone", "dropped"}
                        \/ ctxDone \/ closed \/ panicked

\* Publish returns, in spite of the reconnects and although publishers wait for
\* confirmations with channelMutex held.
PublishReturns ==
  \A p \in Publishers :
    pub[p].pc = "send" ~> pub[p].pc \in {"ok", "error"} \/ closed \/ panicked

\* The shared channel: nobody breaks it for the others, by tearing it down or by
\* sending to an exchange that does not exist.
ChannelShared == []DeclaredExists /\ HealthyChannelKept

\* Nobody waits for ever.
EveryoneGetsOn == EventuallyDelivered /\ PublishReturns

\* What the comment of Close says: it blocks until all goroutines are done, and no
\* longer.
CloseTerminates == closed ~> closer = "done" \/ panicked

\* What the documentation of publisherConfirm says: a Publish that reports success
\* has got its confirmation.
PublishedWereConfirmed ==
  config.publisherConfirm =>
    \A p \in Publishers : pub[p].pc = "ok" => p \in confirmed
=============================================================================
