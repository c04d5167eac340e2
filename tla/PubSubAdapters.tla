--------------------------- MODULE PubSubAdapters ---------------------------
(***************************************************************************)
(* How the pub/sub components other than Redis, RabbitMQ, Service Bus and  *)
(* Kafka consume.  Three definitions per component:                        *)
(*                                                                         *)
(*  Read    handlers: how many run at a time, "one" when the loop calls    *)
(*          the handler itself and "many" when it has workers;             *)
(*          stops: what ends the loop, the caller's context or Close; a    *)
(*          receive under way may still return a message;                  *)
(*          joins: the loop ends after its handlers.                       *)
(*  Handle  what becomes of a message when its handler returns nil (ok),   *)
(*          nil after a failure of the same delivery (recovered) or an     *)
(*          error (err).  "ack", "nack" and "reject" go through the        *)
(*          client; "ctx ack" and "ctx reject" use the subscription's      *)
(*          context as well; "leave" is no call at all.                    *)
(*  Close   its steps in order: "signal" sets closed and closes closeCh,   *)
(*          "client" closes the connection, "drain" lets the calls of the  *)
(*          loop end first, "join" waits for the loop.                     *)
(***************************************************************************)
EXTENDS Integers, Sequences

Settles(ok, err) == [ok |-> ok, recovered |-> ok, err |-> err]

(***************************************************************************)
(* pubsub/pulsar.  processMode is sync or async.                           *)
(***************************************************************************)
PulsarRead(sync) ==
  [handlers |-> IF sync THEN "one" ELSE "many", stops |-> {"ctx", "close"}, joins |-> TRUE]

\* Slip: acknowledged before the handler's error is looked at.
PulsarHandle_AcksAll == Settles("ack", "ack")

\* handleMessage: a payload that cannot be decoded is refused as well.
PulsarHandle == Settles("ack", "nack")

\* The deferred wg.Wait comes after client.Close.
PulsarClose == <<"signal", "client", "join">>

(***************************************************************************)
(* pubsub/aws/snssqs.  Parallel mode starts a goroutine per message, which *)
(* nobody waits for.  The subscription manager ends the loop on behalf of  *)
(* the caller's context or of Close, which waits for neither.              *)
(***************************************************************************)
SnsSqsRead(parallel) ==
  [handlers |-> IF parallel THEN "many" ELSE "one", stops |-> {"ctx", "close"}, joins |-> ~parallel]

\* callHandler: nothing is said of a message that failed.
SnsSqsHandle == Settles("ctx ack", "leave")

\* validateMessage and the start of callHandler for the count-th reception,
\* without a dead letter queue.  A message that has come limit times is
\* deleted unseen or, with disableDeleteOnRetryLimit, made visible again and
\* handled nevertheless.  Once the subscription is stopped, the topic may have
\* lost its handler and the context of the deletion may have ended.
SnsSqsValidate(count, limit, disableDelete, stopped) ==
  {IF count < limit THEN "handle" ELSE IF disableDelete THEN "reset" ELSE "delete"}
    \cup (IF stopped THEN {"skip"} ELSE {})

SnsSqsClose == <<"signal">>

(***************************************************************************)
(* pubsub/rocketmq.  The context given to Subscribe is not looked at;      *)
(* SuspendCurrentQueueAMoment and ConsumeRetryLater both bring the message *)
(* back.                                                                   *)
(***************************************************************************)
RocketMQRead(orderly) ==
  [handlers |-> IF orderly THEN "one" ELSE "many", stops |-> {"close"}, joins |-> FALSE]

RocketMQHandleOrderly == Settles("ack", "nack")
RocketMQHandle        == Settles("ack", "nack")

\* wg counts only the goroutine that starts the consumer.
RocketMQClose == <<"signal", "client">>

(***************************************************************************)
(* pubsub/gcp/pubsub.  Receive of the client returns after its handlers.   *)
(***************************************************************************)
GCPRead == [handlers |-> "many", stops |-> {"ctx", "close"}, joins |-> TRUE]

GCPHandle == Settles("ack", "nack")

GCPClose == <<"signal", "client", "join">>

(***************************************************************************)
(* pubsub/mqtt3.  The callback of the client finds its handler in the      *)
(* topics, which the end of the context and Close empty; a message without *)
(* a handler, like one whose handler failed, is not acknowledged.  The     *)
(* broker goes on to deliver until the client disconnects.                 *)
(***************************************************************************)
MQTTRead == [handlers |-> "many", stops |-> {}, joins |-> FALSE]

MQTTHandle == Settles("ack", "leave")

\* handlerForTopic: a stopped subscription removes its topic, in its own time.
MQTTHandlerForTopic(stopped) == IF stopped THEN {"skip", "handle"} ELSE {"handle"}

\* The topics are emptied under the lock handlerForTopic needs, which Close
\* holds until it returns; wg counts no callbacks.
MQTTClose == <<"signal", "client">>

(***************************************************************************)
(* pubsub/solace/amqp.  A message whose handler fails is rejected, not     *)
(* released: the broker drops it or moves it to its dead message queue.    *)
(***************************************************************************)
SolaceRead == [handlers |-> "one", stops |-> {"ctx", "close"}, joins |-> TRUE]

SolaceHandle == Settles("ctx ack", "ctx reject")

SolaceClose == <<"signal", "client", "join">>

(***************************************************************************)
(* pubsub/jetstream.  Parallel mode starts a goroutine per message, which  *)
(* wg counts; in single mode the library calls the handler.  Close drains  *)
(* the connection, which waits for the calls of the library alone.         *)
(***************************************************************************)
JetStreamRead(parallel) ==
  [handlers |-> IF parallel THEN "many" ELSE "one", stops |-> {"ctx", "close"}, joins |-> parallel]

\* Under the ack policy "none" the server counts a message as delivered when
\* it sends it, and the handler's result makes no difference.
JetStreamHandle(policy) ==
  IF policy \in {"explicit", "all"} THEN Settles("ack", "nack")
                                    ELSE Settles("leave", "leave")

JetStreamClose(parallel) ==
  <<"signal", IF parallel THEN "client" ELSE "drain", "join">>

(***************************************************************************)
(* pubsub/kubemq.  The server keeps nothing of an event it has sent; one   *)
(* that failed is published again.  Events that arrive after the end of    *)
(* the context are dropped.                                                *)
(***************************************************************************)
KubeMQRead == [handlers |-> "many", stops |-> {"ctx", "close"}, joins |-> FALSE]

KubeMQHandle(disableReDelivery) ==
  Settles("leave", IF disableReDelivery THEN "leave" ELSE "republish")

\* A ContentType tag, which Publish sets when the request has a content type,
\* is written through a nil pointer: that message takes the process down
\* (Crash of Deliveries, after which the server has none of what it sent).
KubeMQCallback(cancelled) == IF cancelled THEN {"skip"} ELSE {"handle"}

KubeMQClose == <<"signal", "client">>

(***************************************************************************)
(* common/component/azure/eventhubs, for pub/sub and the binding.  There   *)
(* is no negative acknowledgement: the handler is called again a few times *)
(* and its error then dropped.  In order, the checkpoint comes after the   *)
(* handler, otherwise after the start of its goroutine.                    *)
(***************************************************************************)
\* Slip: in order, but not waiting for the handler.
EventHubsRead_NeverWaits(inOrder) ==
  [handlers |-> "many", stops |-> {"ctx"}, joins |-> FALSE]

EventHubsRead(inOrder) ==
  [handlers |-> IF inOrder THEN "one" ELSE "many", stops |-> {"ctx"}, joins |-> inOrder]

EventHubsHandle(inOrder) ==
  IF inOrder THEN Settles("ack", "ack") ELSE Settles("leave", "leave")

\* Close has nothing to do with subscriptions.
EventHubsClose == << >>
=============================================================================
