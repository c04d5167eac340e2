----------------------------- MODULE Deliveries -----------------------------
(***************************************************************************)
(* One subscription of a pub/sub component or input binding, the broker    *)
(* behind it and the handlers it calls, for the components of              *)
(* PubSubAdapters and BindingAdapters; the component is chosen in the      *)
(* initial state.  The broker holds each message until it is settled and   *)
(* delivers it again when the delivery fails, as far as the component lets *)
(* it; connections break, visibility timeouts pass, the process crashes    *)
(* and starts again, and the caller cancels its context or calls Close     *)
(* while handlers run.                                                     *)
(*                                                                         *)
(* Messages are numbered in the order of their publication.                *)
(***************************************************************************)
EXTENDS BindingAdapters, FiniteSets

CONSTANTS
  Adapters,     \* the components to choose from
  Messages,
  MaxReceives,  \* bound: deliveries of a message
  RetryLimit,   \* messageRetryLimit of snssqs, the retries of a Zeebe job
  MaxFaults     \* bound: crashes, lost connections and timeouts under a handler

AllAdapters ==
  {"pulsar sync", "pulsar async", "snssqs single", "snssqs parallel", "snssqs keep", "rocketmq",
   "rocketmq orderly", "gcp", "mqtt3", "solace", "jetstream single",
   "jetstream parallel", "jetstream no acks", "kubemq", "kubemq no redelivery",
   "eventhubs", "eventhubs in order", "rabbitmq binding", "storagequeues", "sqs",
   "kinesis shared", "kinesis extended", "gcp binding", "mqtt3 binding",
   "rocketmq binding", "zeebe", "kubemq binding", "servicebusqueues"}

ASSUME DeliveriesAssumption ==
  /\ Adapters \subseteq AllAdapters
  /\ Messages \subseteq Nat
  /\ MaxReceives \in Nat /\ RetryLimit \in Nat /\ MaxFaults \in Nat

VARIABLES
  adapter,    \* the component of this behaviour
  broker,     \* where the broker has each message
  task,       \* what became of each delivery of a message
  loop,       \* the subscription
  cancelled,  \* the context given to Subscribe or Read
  closed,     \* closed and closeCh of the component
  client,     \* its connection
  closing,    \* the number of steps of Close taken, -1 before the call
  faults,     \* faults so far
  disturbed   \* the messages a fault has taken from their handler

vars == <<adapter, broker, task, loop, cancelled, closed, client, closing,
          faults, disturbed>>

(***************************************************************************)
(* The components.                                                         *)
(***************************************************************************)
SnsSqs == {"snssqs single", "snssqs parallel", "snssqs keep"}

\* Subscribe and Read.
Read ==
  CASE adapter = "pulsar sync"        -> PulsarRead(TRUE)
    [] adapter = "pulsar async"       -> PulsarRead(FALSE)
    [] adapter = "snssqs single"      -> SnsSqsRead(FALSE)
    [] adapter \in {"snssqs parallel", "snssqs keep"} -> SnsSqsRead(TRUE)
    [] adapter = "rocketmq"           -> RocketMQRead(FALSE)
    [] adapter = "rocketmq orderly"   -> RocketMQRead(TRUE)
    [] adapter = "gcp"                -> GCPRead
    [] adapter = "mqtt3"              -> MQTTRead
    [] adapter = "solace"             -> SolaceRead
    [] adapter = "jetstream single"   -> JetStreamRead(FALSE)
    [] adapter = "jetstream parallel" -> JetStreamRead(TRUE)
    [] adapter = "jetstream no acks"  -> JetStreamRead(FALSE)
    [] adapter \in {"kubemq", "kubemq no redelivery"} -> KubeMQRead
    [] adapter = "eventhubs"          -> EventHubsRead(FALSE)
    [] adapter = "eventhubs in order" -> EventHubsRead(TRUE)
    [] adapter = "rabbitmq binding"   -> RabbitBindingRead
    [] adapter = "storagequeues"      -> StorageQueuesRead
    [] adapter = "sqs"                -> SQSRead
    [] adapter = "kinesis shared"     -> KinesisSharedRead
    [] adapter = "kinesis extended"   -> KinesisExtendedSubscribe
    [] adapter = "gcp binding"        -> GCPBindingRead
    [] adapter = "mqtt3 binding"      -> MQTTBindingRead
    [] adapter = "rocketmq binding"   -> RocketMQBindingRead
    [] adapter = "zeebe"              -> ZeebeRead
    [] adapter = "kubemq binding"     -> KubeMQBindingRead
    [] adapter = "servicebusqueues"   -> ServiceBusQueuesRead

\* The callback around the handler, after the handler.
Handle ==
  CASE adapter \in {"pulsar sync", "pulsar async"} -> PulsarHandle
    [] adapter \in SnsSqs             -> SnsSqsHandle
    [] adapter = "rocketmq"           -> RocketMQHandle
    [] adapter = "rocketmq orderly"   -> RocketMQHandleOrderly
    [] adapter = "gcp"                -> GCPHandle
    [] adapter = "mqtt3"              -> MQTTHandle
    [] adapter = "solace"             -> SolaceHandle
    [] adapter \in {"jetstream single", "jetstream parallel"} -> JetStreamHandle("explicit")
    [] adapter = "jetstream no acks"  -> JetStreamHandle("none")
    [] adapter = "kubemq"             -> KubeMQHandle(FALSE)
    [] adapter = "kubemq no redelivery" -> KubeMQHandle(TRUE)
    [] adapter = "eventhubs"          -> EventHubsHandle(FALSE)
    [] adapter = "eventhubs in order" -> EventHubsHandle(TRUE)
    [] adapter = "rabbitmq binding"   -> RabbitBindingHandle
    [] adapter = "storagequeues"      -> StorageQueuesHandle
    [] adapter = "sqs"                -> SQSHandle
    [] adapter = "kinesis shared"     -> KinesisProcessRecords
    [] adapter = "kinesis extended"   -> KinesisExtendedHandle
    [] adapter = "gcp binding"        -> GCPBindingHandle
    [] adapter = "mqtt3 binding"      -> MQTTBindingHandle
    [] adapter = "rocketmq binding"   -> RocketMQBindingHandle
    [] adapter = "zeebe"              -> ZeebeHandle(TRUE)
    [] adapter = "kubemq binding"     -> KubeMQBindingHandle
    [] adapter = "servicebusqueues"   -> ServiceBusQueuesHandle

CloseSteps ==
  CASE adapter \in {"pulsar sync", "pulsar async"} -> PulsarClose
    [] adapter \in SnsSqs             -> SnsSqsClose
    [] adapter \in {"rocketmq", "rocketmq orderly"} -> RocketMQClose
    [] adapter = "gcp"                -> GCPClose
    [] adapter = "mqtt3"              -> MQTTClose
    [] adapter = "solace"             -> SolaceClose
    [] adapter \in {"jetstream single", "jetstream no acks"} -> JetStreamClose(FALSE)
    [] adapter = "jetstream parallel" -> JetStreamClose(TRUE)
    [] adapter \in {"kubemq", "kubemq no redelivery"} -> KubeMQClose
    [] adapter \in {"eventhubs", "eventhubs in order"} -> EventHubsClose
    [] adapter = "rabbitmq binding"   -> RabbitBindingClose
    [] adapter = "storagequeues"      -> StorageQueuesClose
    [] adapter = "sqs"                -> SQSClose
    [] adapter \in {"kinesis shared", "kinesis extended"} -> KinesisClose
    [] adapter = "gcp binding"        -> GCPBindingClose
    [] adapter = "mqtt3 binding"      -> MQTTBindingClose
    [] adapter = "rocketmq binding"   -> RocketMQBindingClose
    [] adapter = "zeebe"              -> ZeebeClose
    [] adapter = "kubemq binding"     -> KubeMQBindingClose
    [] adapter = "servicebusqueues"   -> ServiceBusQueuesClose

\* The callback before the handler, for the count-th delivery of a message.
Validate(count) ==
  CASE adapter \in SnsSqs ->
         SnsSqsValidate(count, RetryLimit, adapter = "snssqs keep", cancelled \/ closed)
    [] adapter = "mqtt3" -> MQTTHandlerForTopic(cancelled \/ closed)
    [] adapter \in {"kubemq", "kubemq no redelivery"} -> KubeMQCallback(cancelled)
    [] OTHER -> {"handle"}

\* Components that call the handler again before they give a delivery up.
Retries == adapter \in {"eventhubs", "eventhubs in order", "mqtt3 binding",
                        "rocketmq binding"}

\* Brokers that forget a message when they send it.
ForgetsAtOnce == adapter \in {"jetstream no acks", "kubemq", "kubemq no redelivery",
                              "kinesis extended"}

\* Brokers that take an unsettled message back after a time; the others do
\* when the connection ends.
TimesOut == adapter \in SnsSqs \cup {"sqs", "storagequeues", "jetstream single",
                                     "jetstream parallel", "zeebe", "servicebusqueues"}

\* Subscriptions that begin with what is published next.
StartsWithNext == adapter \in {"kubemq", "kubemq no redelivery", "kinesis extended"}

\* Bindings whose loop disconnects when it ends.
DisconnectsItself == adapter \in {"mqtt3 binding", "rocketmq binding"}

\* Logs, which are read in order, and queues that hold the next message back
\* until the one before it is settled.
IsLog == adapter \in {"eventhubs", "eventhubs in order", "kinesis shared",
                      "kinesis extended"}
IsFIFO == adapter = "rocketmq orderly"

(***************************************************************************)
(* Deliveries.                                                             *)
(***************************************************************************)
Numbers == 1..MaxReceives
Handling == {"handling", "again"}          \* in the handler, or in it again
Returned == {"ok", "recovered", "failed"}  \* about to be settled
Active(m, r) == task[m][r] \in Handling \cup Returned
Idle == \A m \in Messages, r \in Numbers : ~Active(m, r)
Count(m) == Cardinality({r \in Numbers : task[m][r] # "none"})

\* The loop waits for the handler it has called.  Who reads a log has a loop
\* for each partition client, and a lost partition comes back with a new one.
Undisturbed ==
  \A m \in Messages, r \in Numbers : Active(m, r) => IsLog /\ m \in disturbed

\* The loop's own context.
Stopped == \/ "ctx" \in Read.stops /\ cancelled
           \/ "close" \in Read.stops /\ closed

InTurn(m) ==
  \A n \in Messages : n < m =>
    /\ IsLog  => broker[n] # "ready" /\ (adapter = "eventhubs" => broker[n] # "out")
    /\ IsFIFO => broker[n] \notin {"ready", "out"}

\* The messages a new connection does not see.
Missed(queue) == [m \in Messages |->
  IF StartsWithNext /\ queue[m] = "ready" THEN "gone" ELSE queue[m]]

\* A publisher.
Publish(m) ==
  /\ broker[m] = "none"
  /\ \A n \in Messages : n < m => broker[n] # "none"
  /\ broker' = [broker EXCEPT ![m] = "ready"]
  /\ UNCHANGED <<adapter, task, loop, cancelled, closed, client, closing, faults, disturbed>>

\* Subscribe or Read starts the loop.
Subscribe ==
  /\ loop = "none" /\ ~closed /\ ~cancelled
  /\ loop' = "running" /\ broker' = Missed(broker)
  /\ UNCHANGED <<adapter, task, cancelled, closed, client, closing, faults, disturbed>>

\* The loop takes a message, and its callback finds out what to do with it.
Deliver(m) ==
  /\ loop = "running" /\ client \in {"open", "draining"}
  /\ broker[m] = "ready" /\ InTurn(m) /\ Count(m) < MaxReceives
  /\ Read.handlers = "one" => Undisturbed
  /\ LET r == Count(m) + 1
     IN  \E verdict \in Validate(r) :
           /\ task' = [task EXCEPT ![m][r] =
                         IF verdict \in {"handle", "reset"} THEN "handling" ELSE "skipped"]
           /\ broker' = [broker EXCEPT ![m] =
                         CASE ForgetsAtOnce \/ verdict = "delete" -> "gone"
                           [] verdict = "reset" -> "ready"
                           [] OTHER -> "out"]
  /\ UNCHANGED <<adapter, loop, cancelled, closed, client, closing, faults, disturbed>>

\* The checkpoint of processEvents that does not wait for the handler.
Checkpoint(m) ==
  /\ adapter = "eventhubs" /\ broker[m] = "out" /\ loop = "running"
  /\ broker' = [broker EXCEPT ![m] = "gone"]
  /\ UNCHANGED <<adapter, task, loop, cancelled, closed, client, closing, faults, disturbed>>

\* The handler of the application returns; a component that retries may call
\* it once more.  "failed" is what the component takes for a failure: an
\* error, a message it could not decode for the handler, or a result of the
\* handler it could not use.
Return(m, r) ==
  /\ task[m][r] \in Handling
  /\ \E next \in (IF task[m][r] = "again" THEN {"recovered"} ELSE {"ok"})
                 \cup {"failed"}
                 \cup (IF task[m][r] = "handling" /\ Retries THEN {"again"} ELSE {}) :
       task' = [task EXCEPT ![m][r] = next]
  /\ UNCHANGED <<adapter, broker, loop, cancelled, closed, client, closing, faults, disturbed>>

Failures(m) == Cardinality({r \in Numbers : task[m][r] = "refused"})

\* What a call of the client leaves of a message at the broker.
Settled(verb, m) ==
  CASE verb \in {"ack", "ctx ack"} -> "gone"
    [] verb = "ctx reject"         -> "dead"
    [] verb \in {"nack", "republish"} -> "ready"
    [] verb = "fail job"           -> ZeebeFailJob(Failures(m), RetryLimit)

\* Whether a call of the client can get through, and whether it can fail: the
\* context of a stopped subscription ends in its own time, and a delivery the
\* broker has taken back may still be acknowledged.
MayPass(verb, m, r) ==
  /\ verb # "leave" /\ client \in {"open", "draining"}
  /\ \/ r = Count(m) /\ broker[m] = "out"
     \/ verb \in {"ack", "ctx ack", "republish"}
MayFail(verb, m, r) ==
  \/ ~MayPass(verb, m, r)
  \/ verb \in {"ctx ack", "ctx reject"} /\ (cancelled \/ closed)
  \/ verb # "republish" /\ ~(r = Count(m) /\ broker[m] = "out")

\* The callback settles the delivery.
Settle(m, r) ==
  /\ task[m][r] \in Returned
  /\ LET verb == CASE task[m][r] = "ok"        -> Handle.ok
                   [] task[m][r] = "recovered" -> Handle.recovered
                   [] task[m][r] = "failed"    -> Handle.err
     IN  \/ /\ MayPass(verb, m, r)
            /\ task' = [task EXCEPT ![m][r] = IF @ = "failed" THEN "refused" ELSE "handled"]
            /\ broker' = [broker EXCEPT ![m] = Settled(verb, m)]
         \/ /\ MayFail(verb, m, r)
            /\ task' = [task EXCEPT ![m][r] =
                          IF @ # "failed" THEN "handled"
                          ELSE IF verb = "leave" THEN "refused" ELSE "lost"]
            /\ UNCHANGED broker
  /\ UNCHANGED <<adapter, loop, cancelled, closed, client, closing, faults, disturbed>>

(***************************************************************************)
(* The end of a subscription.                                              *)
(***************************************************************************)
\* Messages that go back to the queue with the connection.
Released == IF TimesOut \/ adapter = "eventhubs" THEN broker
            ELSE [m \in Messages |-> IF broker[m] = "out" THEN "ready" ELSE broker[m]]

Cancel ==
  /\ ~cancelled /\ loop # "none"
  /\ cancelled' = TRUE
  /\ UNCHANGED <<adapter, broker, task, loop, closed, client, closing, faults, disturbed>>

LoopEnds ==
  /\ loop = "running" /\ (Stopped \/ client = "closed")
  /\ Read.joins => Idle
  /\ adapter = "eventhubs" => \A m \in Messages : broker[m] # "out"
  /\ loop' = "ended"
  /\ client' = IF DisconnectsItself THEN "closed" ELSE client
  /\ broker' = IF DisconnectsItself THEN Released ELSE broker
  /\ UNCHANGED <<adapter, task, cancelled, closed, closing, faults, disturbed>>

CloseCalled ==
  /\ closing = -1
  /\ closing' = 0
  /\ UNCHANGED <<adapter, broker, task, loop, cancelled, closed, client, faults, disturbed>>

CloseReturned == closing = Len(CloseSteps)

\* The next step of Close.
CloseStep ==
  /\ closing \in 0..(Len(CloseSteps) - 1)
  /\ closing' = closing + 1
  /\ LET step == CloseSteps[closing + 1]
     IN  /\ step = "join" => loop # "running"
         /\ closed' = (closed \/ step = "signal")
         /\ client' = CASE step = "client" -> "closed"
                        [] step = "drain" -> "draining"
                        [] OTHER -> client
         /\ broker' = IF step = "client" THEN Released ELSE broker
  /\ UNCHANGED <<adapter, task, loop, cancelled, faults, disturbed>>

\* A connection that drains closes after the last handler.
Drained ==
  /\ client = "draining" /\ loop # "running" /\ Idle
  /\ client' = "closed" /\ broker' = Released
  /\ UNCHANGED <<adapter, task, loop, cancelled, closed, closing, faults, disturbed>>

(***************************************************************************)
(* Faults.                                                                 *)
(***************************************************************************)
\* The broker takes a message back.
TimeOut(m) ==
  /\ TimesOut /\ broker[m] = "out"
  /\ broker' = [broker EXCEPT ![m] = "ready"]
  /\ LET busy == \E r \in Numbers : Active(m, r)
     IN  /\ busy => faults < MaxFaults
         /\ faults' = IF busy THEN faults + 1 ELSE faults
         /\ disturbed' = IF busy THEN disturbed \cup {m} ELSE disturbed
  /\ UNCHANGED <<adapter, task, loop, cancelled, closed, client, closing>>

Out == {m \in Messages : broker[m] = "out" \/ \E r \in Numbers : Active(m, r)}

\* What a lost connection leaves of the subscription.  The clients connect
\* again, except that the AMQP session of solace is opened once and its loop
\* goes on without one, and that Receive of the GCP client may end with an
\* error after its handlers, which ends the loop of the binding at once and
\* that of the pub/sub component after MaxReconnectionAttempts.
AfterLoss ==
  CASE adapter = "solace" -> {<<"running", "lost">>}
    [] adapter \in {"gcp", "gcp binding"} /\ Idle -> {<<"running", "open">>, <<"ended", "open">>}
    [] OTHER -> {<<"running", "open">>}

\* The connection is lost and the client connects again.
Reconnect ==
  /\ loop = "running" /\ client = "open" /\ faults < MaxFaults
  /\ faults' = faults + 1
  /\ \E after \in AfterLoss : loop' = after[1] /\ client' = after[2]
  /\ broker' = Missed(Released)
  /\ disturbed' = disturbed \cup Out
  /\ UNCHANGED <<adapter, task, cancelled, closed, closing>>

\* The process ends and a new one starts, without a subscription yet.  This
\* is also what a panicking callback does (KubeMQCallback).
Crash ==
  /\ faults < MaxFaults /\ loop # "none"
  /\ faults' = faults + 1
  /\ disturbed' = disturbed \cup {m \in Messages : broker[m] # "none"}
  /\ task' = [m \in Messages |-> [r \in Numbers |->
                IF Active(m, r) THEN "lost" ELSE task[m][r]]]
  /\ broker' = IF TimesOut THEN broker
               ELSE [m \in Messages |-> IF broker[m] = "out" THEN "ready" ELSE broker[m]]
  /\ loop' = "none" /\ cancelled' = FALSE /\ closed' = FALSE
  /\ client' = "open" /\ closing' = -1
  /\ UNCHANGED adapter

Init ==
  /\ adapter \in Adapters
  /\ broker = [m \in Messages |-> "none"]
  /\ task = [m \in Messages |-> [r \in Numbers |-> "none"]]
  /\ loop = "none" /\ cancelled = FALSE /\ closed = FALSE
  /\ client = "open" /\ closing = -1
  /\ faults = 0 /\ disturbed = {}

Next ==
  \/ \E m \in Messages :
       \/ Publish(m) \/ Deliver(m) \/ Checkpoint(m) \/ TimeOut(m)
       \/ \E r \in Numbers : Return(m, r) \/ Settle(m, r)
  \/ Subscribe \/ Cancel \/ LoopEnds
  \/ CloseCalled \/ CloseStep \/ Drained
  \/ Reconnect \/ Crash

Spec == Init /\ [][Next]_vars
-----------------------------------------------------------------------------
TypeOK ==
  /\ adapter \in Adapters
  /\ broker \in [Messages -> {"none", "ready", "out", "gone", "dead"}]
  /\ task \in [Messages -> [Numbers ->
       {"none", "skipped", "handled", "refused", "lost"} \cup Handling \cup Returned]]
  /\ loop \in {"none", "running", "ended"}
  /\ cancelled \in BOOLEAN /\ closed \in BOOLEAN
  /\ client \in {"open", "lost", "draining", "closed"}
  /\ closing \in -1..Len(CloseSteps)
  /\ faults \in 0..MaxFaults /\ disturbed \subseteq Messages

Succeeded(m) == \E r \in Numbers : task[m][r] \in {"ok", "recovered", "handled"}

(***************************************************************************)
(* A message is acknowledged, which takes it out of its queue, only after  *)
(* a handler has returned nil for it, whatever is lost, repeated or        *)
(* interrupted on the way.                                                 *)
(***************************************************************************)
\* Components that settle messages whatever the handler returned: no
\* acknowledgements (jetstream with ackPolicy none, kubemq, extended
\* kinesis), checkpoints that do not wait for the handler (eventhubs), errors
\* dropped (eventhubs in order, shared kinesis), deleted at the retry limit
\* (snssqs).  GivenUpAfterRetries says what holds of the last two instead.
AtMostOnce == {"jetstream no acks", "kubemq", "kubemq no redelivery",
               "kinesis shared", "kinesis extended", "eventhubs",
               "eventhubs in order", "snssqs single", "snssqs parallel"}

GoneWereHandled ==
  adapter \notin AtMostOnce =>
    \A m \in Messages : broker[m] = "gone" => Succeeded(m)

(***************************************************************************)
(* A message nobody has handled is given up only after its handler has     *)
(* failed: as often as the limit allows where there is one (deleted unseen *)
(* at messageRetryLimit, made an incident), and once where there is none   *)
(* (rejected by solace; passed over by a checkpoint).  For snssqs this is  *)
(* so unless deliveries were lost, or skipped because their topic had no   *)
(* handler any more.                                                       *)
(***************************************************************************)
\* Components whose checkpoint follows the handler, whatever it returned.
PassesOver == {"eventhubs in order", "kinesis shared"}

GivenUpAfterRetries ==
  \A m \in Messages :
    /\ adapter \in SnsSqs /\ ~cancelled /\ ~closed /\ m \notin disturbed =>
         (broker[m] = "gone" => Succeeded(m) \/ Failures(m) >= RetryLimit - 1)
    /\ broker[m] = "dead" => \/ adapter = "zeebe" /\ Failures(m) >= RetryLimit
                             \/ adapter = "solace" /\ Failures(m) > 0
    /\ adapter \in PassesOver /\ broker[m] = "gone" => Succeeded(m) \/ Failures(m) > 0

(***************************************************************************)
(* A subscription nobody has stopped goes on: it keeps its loop and its    *)
(* connection, whatever is lost, and a message that is neither settled nor *)
(* being handled comes back by itself.                                     *)
(***************************************************************************)
\* mqtt3 leaves a message that failed unacknowledged, and an MQTT broker
\* sends it again only after the next connection; see AfterLoss for the rest.
Strands == {"mqtt3", "mqtt3 binding", "solace", "gcp", "gcp binding"}

NothingStranded ==
  adapter \notin Strands /\ loop # "none" /\ ~cancelled /\ closing = -1 =>
    /\ loop = "running" /\ client = "open"
    /\ \A m \in Messages : broker[m] = "out" =>
         TimesOut \/ adapter = "eventhubs" \/ \E r \in Numbers : Active(m, r)

(***************************************************************************)
(* When Close has returned, no handler is running.                         *)
(***************************************************************************)
\* Components whose Close does not wait for handlers.
ReturnsEarly == {"snssqs single", "snssqs parallel", "snssqs keep", "rocketmq", "rocketmq orderly",
                 "mqtt3", "jetstream single", "jetstream no acks", "kubemq",
                 "kubemq no redelivery", "eventhubs", "eventhubs in order",
                 "mqtt3 binding", "rocketmq binding", "zeebe", "servicebusqueues"}

CloseWaitsForHandlers ==
  adapter \notin ReturnsEarly /\ CloseReturned => Idle

(***************************************************************************)
(* A subscription is served until it is stopped, and not any longer.       *)
(***************************************************************************)
RunsUntilStopped == NothingStranded /\ CloseWaitsForHandlers

(***************************************************************************)
(* A message that was handled does not come back, unless a fault took it   *)
(* from its handler: while the subscription is left alone, and while it is *)
(* being stopped.                                                          *)
(***************************************************************************)
Comes(m) ==
  /\ broker[m] \in (IF adapter = "eventhubs" THEN {"ready"} ELSE {"ready", "out"})
  /\ ~\E r \in Numbers : Active(m, r)
Handled(m) == \E r \in Numbers : task[m][r] = "handled"

SuccessSettles ==
  adapter \notin {"rocketmq binding", "snssqs keep"} /\ ~cancelled /\ closing = -1 =>
    \A m \in Messages \ disturbed : Handled(m) => ~Comes(m)

\* Components that close the connection before, or settle with a context
\* that ends before, the handlers have returned.
LosesAcks == {"pulsar sync", "pulsar async", "snssqs single", "snssqs parallel",
              "snssqs keep",
              "rocketmq", "rocketmq orderly", "rocketmq binding", "gcp", "mqtt3",
              "solace", "jetstream parallel", "rabbitmq binding", "storagequeues",
              "gcp binding", "mqtt3 binding", "zeebe", "kubemq binding",
              "servicebusqueues"}

StopKeepsAcks ==
  adapter \notin LosesAcks =>
    \A m \in Messages \ disturbed : Handled(m) => ~Comes(m)

(***************************************************************************)
(* A message leaves its queue if it is handled, and only then, or given up *)
(* after failures as GivenUpAfterRetries says, before a stop and during    *)
(* one.  Nothing is said of when a message leaves the components of        *)
(* AtMostOnce that neither count failures nor wait for a handler.          *)
(***************************************************************************)
NothingLost ==
  GoneWereHandled /\ GivenUpAfterRetries /\ SuccessSettles /\ StopKeepsAcks

(***************************************************************************)
(* Where order is promised, a handler is called for a message only after   *)
(* the handlers of all earlier messages have returned.                     *)
(***************************************************************************)
InOrder == {"rocketmq orderly", "eventhubs in order", "kinesis shared",
            "kinesis extended"}

OrderKept ==
  [][(adapter \in InOrder =>
       \A m \in Messages, r \in Numbers :
         task[m][r] = "none" /\ task'[m][r] = "handling" =>
           \A n \in Messages \ disturbed : n < m =>
             /\ broker[n] # "ready"
             /\ \A q \in Numbers : ~Active(n, q))]_vars
=============================================================================
