-------------------------- MODULE BindingAdapters --------------------------
(***************************************************************************)
(* How the input bindings consume, in the terms of PubSubAdapters.         *)
(***************************************************************************)
EXTENDS PubSubAdapters

(***************************************************************************)
(* bindings/rabbitmq.                                                      *)
(***************************************************************************)
RabbitBindingRead == [handlers |-> "one", stops |-> {"ctx", "close"}, joins |-> TRUE]

\* Slip: no Nack for a message that failed.
RabbitBindingHandle_NoNack == Settles("ack", "leave")

RabbitBindingHandle == Settles("ack", "nack")
RabbitBindingClose == <<"signal", "client", "join">>

(***************************************************************************)
(* bindings/azure/storagequeues.  The message is deleted with the context  *)
(* of the loop, which Close cancels.                                       *)
(***************************************************************************)
StorageQueuesRead == [handlers |-> "one", stops |-> {"ctx", "close"}, joins |-> TRUE]
StorageQueuesHandle == Settles("ctx ack", "leave")
StorageQueuesClose == <<"signal", "join">>

(***************************************************************************)
(* bindings/aws/sqs.  The message is deleted with a background context.    *)
(***************************************************************************)
SQSRead == [handlers |-> "one", stops |-> {"ctx", "close"}, joins |-> TRUE]

SQSHandle == Settles("ack", "leave")

SQSClose == <<"signal", "join">>

(***************************************************************************)
(* bindings/aws/kinesis.  Errors of handlers are dropped.  In shared mode  *)
(* a checkpoint follows the records; in extended mode there is none, and a *)
(* subscription starts with what comes next.  The loop of the extended     *)
(* mode looks at Close only before it subscribes: neither the range over   *)
(* the events of a shard nor the wait after an error does, which ends with *)
(* the context alone, so that Close waits for either to be over.           *)
(***************************************************************************)
KinesisSharedRead == [handlers |-> "one", stops |-> {"ctx", "close"}, joins |-> TRUE]
KinesisProcessRecords == Settles("ack", "ack")
KinesisExtendedSubscribe == [handlers |-> "one", stops |-> {"ctx", "close"}, joins |-> TRUE]
KinesisExtendedHandle == Settles("leave", "leave")
KinesisClose == <<"signal", "join">>

(***************************************************************************)
(* bindings/gcp/pubsub.  Nobody listens to closeCh: Receive ends with the  *)
(* client.                                                                 *)
(***************************************************************************)
GCPBindingRead == [handlers |-> "many", stops |-> {"ctx"}, joins |-> TRUE]
GCPBindingHandle == Settles("ack", "nack")
GCPBindingClose == <<"signal", "client", "join">>

(***************************************************************************)
(* bindings/mqtt3.  The handler is called again a few times.  The watcher  *)
(* of Read disconnects, and Close waits for it.                            *)
(***************************************************************************)
MQTTBindingRead == [handlers |-> "many", stops |-> {"ctx", "close"}, joins |-> FALSE]

MQTTBindingHandle == Settles("ack", "leave")
MQTTBindingClose == <<"signal", "join">>

(***************************************************************************)
(* bindings/rocketmq.  The handler is called again a few times, but        *)
(* success, once FALSE, stays FALSE: a message that was handled after a    *)
(* failure is sent for again.  The watcher of Read shuts the consumer down.*)
(***************************************************************************)
RocketMQBindingRead == [handlers |-> "many", stops |-> {"ctx", "close"}, joins |-> FALSE]
RocketMQBindingHandle == [ok |-> "ack", recovered |-> "nack", err |-> "nack"]
RocketMQBindingClose == <<"signal", "join">>

(***************************************************************************)
(* bindings/zeebe/jobworker.  failJob gives the job back with one retry    *)
(* less: after an error of the handler, and after headers of the job that  *)
(* cannot be read, a result of the handler that is no JSON object or       *)
(* variables the command does not take.  jobWorker.Close does not wait for *)
(* handlers.                                                               *)
(***************************************************************************)
ZeebeRead == [handlers |-> "many", stops |-> {"ctx", "close"}, joins |-> FALSE]
ZeebeHandle(autocomplete) ==
  Settles(IF autocomplete THEN "ack" ELSE "leave", "fail job")
ZeebeClose == <<"signal", "client", "join">>

\* failJob after failures failed jobs: Retries(job.Retries - 1), and a job
\* with none left is an incident that an operator has to resolve.
ZeebeFailJob(failures, limit) == IF limit - failures > 1 THEN "ready" ELSE "dead"

(***************************************************************************)
(* bindings/kubemq, a queue with its own acknowledgements.                 *)
(***************************************************************************)
KubeMQBindingRead == [handlers |-> "one", stops |-> {"ctx", "close"}, joins |-> TRUE]
KubeMQBindingHandle == Settles("ack", "nack")
KubeMQBindingClose == <<"signal", "client", "join">>

(***************************************************************************)
(* bindings/azure/servicebusqueues, around the subscription of             *)
(* ServiceBusSubscription.  Close closes the client under the loop, which  *)
(* looks at closeCh only before it connects again.                         *)
(***************************************************************************)
ServiceBusQueuesRead == [handlers |-> "many", stops |-> {"ctx"}, joins |-> FALSE]
ServiceBusQueuesHandle == Settles("ack", "nack")
ServiceBusQueuesClose == <<"signal", "client", "join">>
=============================================================================
