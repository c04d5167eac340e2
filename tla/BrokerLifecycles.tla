-------------------------- MODULE BrokerLifecycles --------------------------
(***************************************************************************)
(* Init, Read and Close of the pub/sub components and of the bindings to   *)
(* message brokers.                                                        *)
(***************************************************************************)
EXTENDS StoreLifecycles

\* Pub/sub components.

GCPMetadata == <<Check("properties"), Check("project"), Check("deadline")>>
GCPPubSubInit == GCPMetadata \o <<Spawns("refresher"), Opens("client")>>
GCPPubSubClose ==
  <<Signals("refresher"), Derefs("client"), Joins("refresher")>>
SNSSQSInit ==
  <<Check("metadata"), Check("AWS config"), Check("account"), Check("backoff"),
    Makes("manager")>>
SNSSQSClose == <<Once, Derefs("manager")>>
SolaceConnect ==
  <<Check("address"), Fatal(Takes("client")), Fatal(Opens("session"))>>
SolaceInit == <<Check("metadata")>> \o SolaceConnect
SolaceClose == <<Derefs("session")>>

KubeMQMetadata == <<Check("properties"), Check("address")>>
KubeMQInit ==
  KubeMQMetadata \o <<Makes("metadata"), Perhaps(Opens("client"))>>
KubeMQClientClose == <<Releases("client")>>
KubeMQClose == <<Derefs("metadata")>> \o KubeMQClientClose

JetStreamPubSubMetadata ==
  <<Check("properties"), Check("address"), Check("credentials"),
    Check("deliver policy"), Check("concurrency")>>
JetStreamPubSubInit ==
  JetStreamPubSubMetadata
  \o <<Opens("connection"), Check("context"), Check("backoff")>>
JetStreamPubSubClose == <<Derefs("connection")>>
MQTTInit ==
  <<Check("metadata"), Check("address"), Takes("connection"), Check("handshake"),
    Keeps("connection")>>
MQTTClose == <<Derefs("connection")>>

PulsarMetadata ==
  <<Check("properties"), Check("host"), Check("subscription"), Check("compression"),
    Check("mode"), Check("topics"), Check("schemas"), Check("credentials")>>
PulsarInit == PulsarMetadata \o <<Check("OAuth"), Opens("client")>>
PulsarClose == <<Derefs("client")>>
RocketMQInit == <<Check("metadata")>>
RedisStreamsInit == RedisClient \o <<Check("ping"), Spawns("workers")>>
RedisStreamsClose ==
  <<Signals("workers"), Releases("client"), Joins("workers")>>

\* Azure Service Bus and Event Hubs.

ServiceBusMetadata ==
  <<Check("properties"), Check("connection"), Check("consumer or queue"),
    Check("limits"), Check("time to live"), Check("idle time")>>
ServiceBusNewClient ==
  <<Check("environment"), Check("credential"), Takes("client"),
    Check("administration client"), Keeps("client")>>
ServiceBusQueuesInit == ServiceBusMetadata \o ServiceBusNewClient
ServiceBusQueuesClose == <<Touches("client")>>
ServiceBusTopicsInit == ServiceBusMetadata \o ServiceBusNewClient
ServiceBusClientClose == <<Derefs("client")>>
ServiceBusTopicsClose == <<Once>> \o ServiceBusClientClose
ServiceBusBindingInit ==
  ServiceBusMetadata \o ServiceBusNewClient \o <<Check("queue")>>
ServiceBusBindingClose == ServiceBusClientClose

EventHubsMetadata ==
  <<Check("properties"), Check("connection"), Check("name of the hub")>>
EventHubsInit ==
  EventHubsMetadata \o <<Check("environment"), Check("management"), Check("backoff")>>

\* Kafka.
KafkaUpgrade == <<Check("authRequired")>>

KafkaMetadata ==
  <<Check("properties"), Check("initial offset"), Check("brokers"),
    Check("CA certificate"), Check("authentication")>>
KafkaSettings ==
  <<Check("retry interval"), Check("version"), Check("compression"),
    Check("buffer and fetch sizes"), Check("acknowledgements"), Check("retries")>>
KafkaAuth == <<Check("TLS"), Check("authentication")>>
KafkaInit ==
  KafkaUpgrade \o KafkaMetadata \o KafkaSettings \o <<Makes("context")>> \o KafkaAuth
  \o <<Check("backoff"), Takes("group"), Takes("producer"), Keeps("group"), Keeps("producer")>>
KafkaClose ==
  <<Once, Releases("context"), Releases("producer"), Clears("producer"),
    Releases("group"), Clears("group")>>
KafkaPubSubClose == KafkaClose
KafkaBindingInit == KafkaInit
KafkaBindingRead == <<Perhaps(Spawns("canceller of Read"))>>
KafkaBindingClose ==
  <<Signals("canceller of Read")>> \o KafkaClose \o <<Joins("canceller of Read")>>

\* Bindings to brokers.
GCPBindingInit == <<Check("metadata"), Opens("client")>>
GCPBindingClose == <<Derefs("client")>>
SNSInit == <<Check("metadata"), Check("AWS config")>>
SQSInit == <<Check("metadata"), Check("AWS config")>>
KinesisInit == <<Check("metadata"), Check("mode"), Check("AWS config")>>

MQTTBindingMetadata ==
  <<Check("properties"), Check("address"), Check("topic"), Check("client id"),
    Check("certificates")>>
MQTTBindingInit == MQTTBindingMetadata
KubeMQBindingInit == <<Check("options"), Opens("client")>>
KubeMQBindingClose == <<Derefs("client")>>
RocketMQPublisher ==
  <<Check("producer"), Takes("producer"), Check("start"), Keeps("producer")>>
RocketMQBindingInit ==
  <<Check("metadata"), Check("backoff")>> \o RocketMQPublisher
StorageQueuesInit ==
  <<Check("metadata"), Check("environment"), Check("credential"), Check("client"),
    Check("queue")>>

RabbitBindingMetadata ==
  <<Check("properties"), Check("host"), Check("queue"), Check("priority"),
    Check("certificates"), Check("time to live")>>
RabbitBindingDial ==
  <<Takes("connection"), OrElse(Takes("channel"), {"connection"})>>
RabbitBindingConnect ==
  RabbitBindingDial
  \o <<Check("declaration"), Keeps("connection"), Keeps("channel")>>
RabbitBindingInit ==
  RabbitBindingMetadata \o RabbitBindingConnect \o <<Spawns("reconnector")>>
RabbitBindingClose ==
  <<Signals("reconnector"), Releases("channel"), Clears("channel"),
    Releases("connection"), Clears("connection"), Joins("reconnector")>>
CloudflareQueuesInit == <<Check("metadata"), Check("names")>> \o WorkerInit
CloudflareQueuesClose == WorkerClose

BrokerInits ==
  [gcp_pubsub |-> GCPPubSubInit, snssqs |-> SNSSQSInit, solace |-> SolaceInit,
   kubemq |-> KubeMQInit, jetstream |-> JetStreamPubSubInit, mqtt3 |-> MQTTInit,
   pulsar |-> PulsarInit, rocketmq |-> RocketMQInit,
   redis_streams |-> RedisStreamsInit,
   servicebus_queues |-> ServiceBusQueuesInit,
   servicebus_topics |-> ServiceBusTopicsInit,
   servicebus_binding |-> ServiceBusBindingInit, eventhubs |-> EventHubsInit,
   kafka |-> KafkaInit, kafka_binding |-> KafkaBindingInit,
   gcp_binding |-> GCPBindingInit, sns |-> SNSInit, sqs |-> SQSInit,
   kinesis |-> KinesisInit, mqtt3_binding |-> MQTTBindingInit,
   kubemq_binding |-> KubeMQBindingInit,
   rocketmq_binding |-> RocketMQBindingInit,
   storagequeues |-> StorageQueuesInit, rabbitmq_binding |-> RabbitBindingInit,
   cfqueues |-> CloudflareQueuesInit]

\* Of the components whose Close does something with a resource or a goroutine.
BrokerCloses ==
  [gcp_pubsub |-> GCPPubSubClose, snssqs |-> SNSSQSClose,
   solace |-> SolaceClose, kubemq |-> KubeMQClose,
   jetstream |-> JetStreamPubSubClose, mqtt3 |-> MQTTClose,
   pulsar |-> PulsarClose, redis_streams |-> RedisStreamsClose,
   servicebus_queues |-> ServiceBusQueuesClose,
   servicebus_topics |-> ServiceBusTopicsClose,
   servicebus_binding |-> ServiceBusBindingClose, kafka |-> KafkaPubSubClose,
   kafka_binding |-> KafkaBindingClose, gcp_binding |-> GCPBindingClose,
   kubemq_binding |-> KubeMQBindingClose,
   rabbitmq_binding |-> RabbitBindingClose, cfqueues |-> CloudflareQueuesClose]

BrokerReads ==
  [kafka_binding |-> KafkaBindingRead]
=============================================================================
