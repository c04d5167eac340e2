---------------------------- MODULE Publications ----------------------------
(***************************************************************************)
(* The sending side of the pub/sub components and of the bindings to       *)
(* brokers: Publish, BulkPublish and Invoke, called concurrently, with the *)
(* clients they share, the caches these are kept in, the topics they       *)
(* create on demand, their retries and Close.                              *)
(*                                                                         *)
(* A call is a program of steps.  All calls are for one topic; a bulk      *)
(* request has two entries, and the RocketMQ binding has two topics.       *)
(***************************************************************************)
EXTENDS Integers, Sequences, FiniteSets

CONSTANTS
  Senders,            \* the components to check
  Publishers,         \* numbers of the callers, one call each
  MaxClients,         \* bound: connections, producers and senders made
  MaxAttempts,        \* publishMaxRetries + 1 and the like
  MaxSendFaults       \* bound on faults

ASSUME PublicationsAssumption ==
  /\ Publishers \subseteq Nat \ {0} /\ IsFiniteSet(Publishers)
  /\ MaxClients \in Nat \ {0} /\ MaxAttempts \in Nat \ {0} /\ MaxSendFaults \in Nat

VARIABLES
  sender,       \* the component
  topicThere,   \* the topic exists
  connection,   \* number of a client -> its state
  cache,        \* the client in the cache, 0 if there is none
  mutex,        \* the caller that has the lock, 0 if nobody has it
  publication,  \* caller -> its call
  stored,       \* caller -> entry -> copies at the broker
  resultChan,   \* resultChan of kubeMQEventStore
  reconnecting, \* the client reconnectWhenNecessary has made, 0 before
  shut,         \* Close has been called
  sendFaults    \* faults so far

publicationVars ==
  <<sender, topicThere, connection, cache, mutex, publication, stored, resultChan,
    reconnecting, shut, sendFaults>>

\* publishFunc of an initialized kubeMQEvents is nil.
NilFunc == -1

(***************************************************************************)
(* The programs.  "lookup" reads the cache, "lock" takes the lock and      *)
(* reads it again, "init" takes the lock only; all three go on after       *)
(* "store" on a hit.                                                       *)
(***************************************************************************)
KafkaPublish          == <<"producer", "send">>
KafkaBulkPublish      == <<"producer", "send">>
EventHubsPublish      == <<"lookup", "lock", "ensure", "create", "connect", "store", "send">>
SnsSqsPublish         == <<"closed", "lookup", "create", "store", "send">>
GCPPublish            == <<"closed", "lookup", "ensure", "create", "store", "send">>
JetStreamPublish      == <<"closed", "send">>
KubeMQEventsPublish   == <<"lookup", "init", "connect", "stream", "store", "send">>
KubeMQStorePublish    == <<"lookup", "init", "connect", "stream", "store", "send", "await">>
MQTTPublish           == <<"closed", "send">>
PulsarPublish         == <<"closed", "lookup", "connect", "store", "send">>
SolacePublish         == <<"init", "closed", "connect", "send">>
RocketMQPublish       == <<"closed", "lookup", "lock", "connect", "store", "send">>
ServiceBusPublish     == <<"closed", "lookup", "lock", "ensure", "create", "connect", "store", "send">>
ServiceBusBulkPublish == <<"closed", "lookup", "lock", "ensure", "create", "connect", "store", "send">>

ServiceBusInvoke  == <<"lookup", "lock", "connect", "store", "send">>
RabbitInvoke      == <<"channel", "send">>
KinesisInvoke     == <<"send">>
SQSInvoke         == <<"url", "send">>
SNSInvoke         == <<"send">>
GCPInvoke         == <<"send">>
StorageQueuesInvoke == <<"send">>
MQTTInvoke        == <<"lookup", "lock", "connect", "store", "send">>
RocketMQInvoke    == <<"send", "send">>
KubeMQInvoke      == <<"send">>
CFQueuesInvoke    == <<"token", "send">>

PublishPrograms ==
  [kafka |-> KafkaPublish, kafkaBulk |-> KafkaBulkPublish,
   eventHubs |-> EventHubsPublish, eventHubsBulk |-> EventHubsPublish,
   snssqs |-> SnsSqsPublish, gcp |-> GCPPublish, jetStream |-> JetStreamPublish,
   kubeMQ |-> KubeMQEventsPublish, kubeMQStore |-> KubeMQStorePublish,
   mqtt3 |-> MQTTPublish, pulsar |-> PulsarPublish, solace |-> SolacePublish,
   rocketMQ |-> RocketMQPublish,
   serviceBus |-> ServiceBusPublish, serviceBusBulk |-> ServiceBusBulkPublish,
   serviceBusBinding |-> ServiceBusInvoke, rabbitBinding |-> RabbitInvoke,
   kinesis |-> KinesisInvoke, sqs |-> SQSInvoke, sns |-> SNSInvoke,
   gcpBinding |-> GCPInvoke, storageQueues |-> StorageQueuesInvoke,
   mqtt3Binding |-> MQTTInvoke, rocketMQBinding |-> RocketMQInvoke,
   kubeMQBinding |-> KubeMQInvoke, cfQueues |-> CFQueuesInvoke]

ASSUME SendersAssumption == Senders \subseteq DOMAIN PublishPrograms

ServiceBuses == {"serviceBus", "serviceBusBulk", "serviceBusBinding"}
KubeMQs      == {"kubeMQ", "kubeMQStore"}
EventHubs    == {"eventHubs", "eventHubsBulk"}
Kafkas       == {"kafka", "kafkaBulk"}

\* Components that make their clients on demand, and those that only remember that
\* the topic is there.
OnDemand  == EventHubs \cup ServiceBuses \cup {"pulsar", "rocketMQ", "mqtt3Binding"}
Remembers == {"snssqs", "gcp"}

Entries == IF sender \in {"kafkaBulk", "eventHubsBulk", "serviceBusBulk", "rocketMQBinding"}
             THEN 1..2 ELSE 1..1

\* Components whose requests are retried here.
RetriesSend == sender \in {"serviceBus", "serviceBusBinding", "mqtt3Binding"}

\* Client libraries that connect again by themselves.
Recovers == sender \notin ServiceBuses \cup {"solace", "rocketMQ", "rabbitBinding"}

(***************************************************************************)
(* Calls.                                                                  *)
(***************************************************************************)
\* client: what it sends with.  tries: failed sends, confirmed: successful ones.
\* failed: the entries it reports.  bad: the client a send of it has failed with
\* by a network error, dropped: the client it has taken from the cache.  streamed:
\* the message is on its way to KubeMQ.  hit: something went wrong in a step of its
\* own.  late: it was called after Close.
NoPublication ==
  [at |-> 0, pc |-> "idle", client |-> 0, tries |-> 0, confirmed |-> 0,
   failed |-> {}, bad |-> 0, dropped |-> 0, streamed |-> FALSE, hit |-> FALSE, late |-> FALSE]

\* The clients that exist after Init: none on demand; those of KubeMQ may be missing.
PublicationInit ==
  /\ sender \in Senders
  /\ topicThere \in BOOLEAN
  /\ cache \in CASE sender \in OnDemand \cup Remembers -> {0}
                 [] sender \in KubeMQs -> {0, 1}
                 [] OTHER -> {1}
  /\ connection = [k \in 1..MaxClients |->
       IF k = 1 /\ (cache = 1 \/ sender \in Remembers) THEN "up" ELSE "none"]
  /\ topicThere \/ \E k \in DOMAIN PublishPrograms[sender] : PublishPrograms[sender][k] = "create"
  /\ mutex = 0
  /\ publication = [p \in Publishers |-> NoPublication]
  /\ stored = [p \in Publishers |-> [e \in 1..2 |-> 0]]
  /\ resultChan = <<>>
  /\ reconnecting = 0
  /\ shut = FALSE
  /\ sendFaults = 0

Steps == PublishPrograms[sender]
StepAt(p) == IF publication[p].pc = "running" THEN Steps[publication[p].at] ELSE publication[p].pc

Position(step) == CHOOSE k \in 1..Len(Steps) : Steps[k] = step
AfterStore == Position("store") + 1

Call(p) ==
  /\ publication[p].pc = "idle"
  /\ publication' = [publication EXCEPT ![p] = [@ EXCEPT !.pc = "running", !.at = 1, !.late = shut]]
  /\ UNCHANGED <<sender, topicThere, connection, cache, mutex, stored, resultChan,
                 reconnecting, shut, sendFaults>>

SendFault == sendFaults < MaxSendFaults /\ sendFaults' = sendFaults + 1

Unlocked(p) == IF mutex = p THEN 0 ELSE mutex

\* The call is over.
CallEnds(p, how) ==
  /\ publication' = [publication EXCEPT ![p].pc = how,
                                        ![p].failed = IF how = "error" THEN Entries ELSE @]
  /\ mutex' = Unlocked(p)

\* A step before the send has failed: GetSender of Service Bus is part of what is
\* retried.
EndsByFault(p) ==
  LET call == [publication[p] EXCEPT !.tries = @ + 1, !.hit = TRUE]
  IN  /\ publication' = [publication EXCEPT ![p] =
           IF sender \in {"serviceBus", "serviceBusBinding"} /\ call.tries < MaxAttempts
             THEN [call EXCEPT !.at = Position("lookup")]
             ELSE [call EXCEPT !.pc = "error", !.failed = Entries]]
      /\ mutex' = Unlocked(p)

Goes(p, at) == publication' = [publication EXCEPT ![p].at = at]
GoesOn(p) == Goes(p, publication[p].at + 1)
With(p, at, client) == publication' = [publication EXCEPT ![p].at = at, ![p].client = client]

CheckClosed(p) ==
  /\ StepAt(p) = "closed"
  /\ IF shut THEN CallEnds(p, "error") ELSE GoesOn(p) /\ UNCHANGED mutex
  /\ UNCHANGED <<sender, topicThere, connection, cache, stored, resultChan, reconnecting,
                 shut, sendFaults>>

\* Publish of Kafka and Invoke of the RabbitMQ binding: the client has been there
\* since Init, until Close takes it away.
ReadClient(p) ==
  /\ StepAt(p) \in {"producer", "channel"}
  /\ IF cache = 0 THEN CallEnds(p, "error")
     ELSE With(p, publication[p].at + 1, cache) /\ UNCHANGED mutex
  /\ UNCHANGED <<sender, topicThere, connection, cache, stored, resultChan, reconnecting,
                 shut, sendFaults>>

Lookup(p) ==
  /\ StepAt(p) = "lookup"
  /\ IF cache # 0 THEN With(p, AfterStore, cache) ELSE GoesOn(p)
  /\ UNCHANGED <<sender, topicThere, connection, cache, mutex, stored, resultChan,
                 reconnecting, shut, sendFaults>>

\* Slip: the cache is not read again.
Lock_NoRecheck(p) ==
  /\ StepAt(p) = "lock" /\ mutex = 0
  /\ GoesOn(p) /\ mutex' = p
  /\ UNCHANGED <<sender, topicThere, connection, cache, stored, resultChan, reconnecting,
                 shut, sendFaults>>

Lock(p) ==
  /\ StepAt(p) = "lock" /\ mutex = 0
  /\ IF cache # 0 THEN With(p, AfterStore, cache) /\ UNCHANGED mutex
     ELSE GoesOn(p) /\ mutex' = p
  /\ UNCHANGED <<sender, topicThere, connection, cache, stored, resultChan, reconnecting,
                 shut, sendFaults>>

InitLock(p) ==
  /\ StepAt(p) = "init" /\ mutex = 0
  /\ mutex' = p
  /\ GoesOn(p)
  /\ UNCHANGED <<sender, topicThere, connection, cache, stored, resultChan, reconnecting,
                 shut, sendFaults>>

\* A request to the service, or for a token, that has no other effect here.
Ask(p) ==
  /\ StepAt(p) \in {"ensure", "url", "token"}
  /\ Goes(p, publication[p].at + IF StepAt(p) = "ensure" /\ topicThere THEN 2 ELSE 1)
  /\ UNCHANGED <<sender, topicThere, connection, cache, mutex, stored, resultChan,
                 reconnecting, shut, sendFaults>>

\* createTopic of Service Bus minds that the topic is there by now.
MindsExisting == ServiceBuses

Create(p) ==
  /\ StepAt(p) = "create"
  /\ topicThere' = TRUE
  /\ IF topicThere /\ sender \in MindsExisting THEN EndsByFault(p)
     ELSE GoesOn(p) /\ UNCHANGED mutex
  /\ UNCHANGED <<sender, connection, cache, stored, resultChan, reconnecting, shut, sendFaults>>

\* Publish of snssqs logs that it has no topic ARN and goes on with an empty one.
RequestFails(p) ==
  /\ StepAt(p) \in {"ensure", "create", "url", "token", "connect"}
  /\ SendFault
  /\ IF sender = "snssqs"
       THEN /\ publication' = [publication EXCEPT ![p].at = AfterStore, ![p].hit = TRUE]
            /\ UNCHANGED mutex
       ELSE EndsByFault(p)
  /\ UNCHANGED <<sender, topicThere, connection, cache, stored, resultChan, reconnecting, shut>>

\* Another sidecar makes the topic.
OtherCreates ==
  /\ ~topicThere /\ SendFault
  /\ topicThere' = TRUE
  /\ UNCHANGED <<sender, connection, cache, mutex, publication, stored, resultChan,
                 reconnecting, shut>>

NewClient == CHOOSE k \in 1..MaxClients :
               connection[k] = "none" /\ \A l \in 1..k-1 : connection[l] # "none"

\* NewSender of a client that Close has set to nil; CreateProducer of a closed client
\* is an error.
Connect(p) ==
  /\ StepAt(p) = "connect"
  /\ \E k \in 1..MaxClients : connection[k] = "none"
  /\ CASE sender \in ServiceBuses /\ shut -> CallEnds(p, "panicked") /\ UNCHANGED connection
       [] sender \in {"pulsar", "solace"} /\ shut -> CallEnds(p, "error") /\ UNCHANGED connection
       [] sender = "solace" /\ ~shut /\ connection[1] = "broken" ->
            EndsByFault(p) /\ UNCHANGED connection
       [] OTHER -> /\ connection' = [connection EXCEPT ![NewClient] = "up"]
                   /\ With(p, publication[p].at + 1, NewClient)
                   /\ UNCHANGED mutex
  /\ UNCHANGED <<sender, topicThere, cache, stored, resultChan, reconnecting, shut, sendFaults>>

\* init of KubeMQ: the new client is in its place before it has a stream.
Stream(p) ==
  /\ StepAt(p) = "stream"
  /\ \/ GoesOn(p) /\ UNCHANGED <<cache, mutex, sendFaults>>
     \/ /\ SendFault
        /\ cache' = IF cache = 0 THEN 0 ELSE NilFunc
        /\ EndsByFault(p)
  /\ UNCHANGED <<sender, topicThere, connection, stored, resultChan, reconnecting, shut>>

Store(p) ==
  /\ StepAt(p) = "store"
  /\ cache' = IF sender \in Remembers THEN 1 ELSE publication[p].client
  /\ With(p, AfterStore, cache')
  /\ mutex' = Unlocked(p)
  /\ UNCHANGED <<sender, topicThere, connection, stored, resultChan, reconnecting, shut, sendFaults>>

\* periodicCacheRefresh: the entry has become too old.
CacheRefresh ==
  /\ sender = "gcp" /\ cache # 0 /\ SendFault
  /\ cache' = 0
  /\ UNCHANGED <<sender, topicThere, connection, mutex, publication, stored, resultChan,
                 reconnecting, shut>>

(***************************************************************************)
(* Sending.                                                                *)
(***************************************************************************)
\* What the call sends with: Kafka and KubeMQ read it again, those that have one
\* client for good have it in the first place.
ClientOf(p) ==
  CASE sender \in Kafkas \cup KubeMQs -> cache
    [] sender \in OnDemand \cup {"solace", "rabbitBinding"} -> publication[p].client
    [] OTHER -> 1

\* The entries of this request: the RocketMQ binding sends to its topics in turn.
Sent(p) == IF sender = "rocketMQBinding" THEN {publication[p].at} ELSE Entries

Copies(p, es) == [stored EXCEPT ![p] = [e \in 1..2 |-> IF e \in es THEN @[e] + 1 ELSE @[e]]]

AfterSend(p) ==
  LET call == [publication[p] EXCEPT !.confirmed = @ + 1]
  IN  IF call.at < Len(Steps) THEN [call EXCEPT !.at = @ + 1] ELSE [call EXCEPT !.pc = "ok"]

\* Solace: the loop that tries again runs to its end, whatever becomes of an attempt.
Sends(p) ==
  IF sender = "solace" /\ publication[p].tries > 0
    THEN LET call == [publication[p] EXCEPT !.tries = @ + 1, !.confirmed = @ + 1]
         IN  IF call.tries < MaxAttempts THEN call ELSE [call EXCEPT !.pc = "ok"]
    ELSE AfterSend(p)

CanSend(p) == StepAt(p) = "send" /\ ClientOf(p) \in 1..MaxClients
Live(p) == CanSend(p) /\ connection[ClientOf(p)] = "up"

\* snssqs without a topic ARN is refused.
NoTopic(p) == sender = "snssqs" /\ cache = 0

\* The broker has it.  KubeMQ and the RabbitMQ binding do not wait for that.
Send(p) ==
  /\ Live(p) /\ ~NoTopic(p)
  /\ sender # "kubeMQStore"
  /\ publication' = [publication EXCEPT ![p] = Sends(p)]
  /\ mutex' = IF publication'[p].pc = "ok" THEN Unlocked(p) ELSE mutex
  /\ \/ stored' = Copies(p, Sent(p)) /\ UNCHANGED sendFaults
     \/ /\ sender \in {"kubeMQ", "rabbitBinding"} /\ SendFault
        /\ UNCHANGED stored
  /\ UNCHANGED <<sender, topicThere, connection, cache, resultChan, reconnecting, shut>>

\* How a call goes on after a send that has failed.  kind: network, retriable or
\* other, as Service Bus tells them apart.
AfterFailure(p, kind) ==
  LET call == [publication[p] EXCEPT !.tries = @ + 1, !.bad = IF kind = "network" THEN ClientOf(p) ELSE @]
      over == [call EXCEPT !.pc = "error", !.failed = Entries]
  IN  CASE sender = "rocketMQ" -> [call EXCEPT !.pc = "drop"]
        [] sender \in {"serviceBus", "serviceBusBinding"} /\ kind = "network" ->
             [call EXCEPT !.pc = "drop"]
        [] sender \in {"serviceBus", "serviceBusBinding"} /\ kind = "retriable" ->
             IF call.tries < MaxAttempts THEN [call EXCEPT !.at = Position("lookup")] ELSE over
        [] sender \in {"mqtt3Binding", "solace"} ->
             IF call.tries < MaxAttempts THEN call ELSE over
        [] OTHER -> over

Fails(p, call) ==
  /\ publication' = [publication EXCEPT ![p] = call]
  /\ mutex' = IF call.pc = "error" THEN Unlocked(p) ELSE mutex

\* The request, or only its answer, is lost, or the broker refuses it.
SendFails(p) ==
  /\ Live(p) /\ ~NoTopic(p) /\ SendFault
  /\ \E kind \in {"network", "retriable", "other"} :
       /\ Fails(p, [AfterFailure(p, kind) EXCEPT !.hit = TRUE])
       /\ stored' \in {stored} \cup (IF kind = "network" THEN {Copies(p, Sent(p))} ELSE {})
  /\ UNCHANGED <<sender, topicThere, connection, cache, resultChan, reconnecting, shut>>

\* BulkPublish of Kafka: mapKafkaProducerErrors has the entries that have failed.
BulkSendFails(p) ==
  /\ sender = "kafkaBulk" /\ Live(p) /\ SendFault
  /\ \E lost \in SUBSET Entries, failed \in (SUBSET Entries) \ {{}} :
       /\ lost \subseteq failed
       /\ stored' = Copies(p, Entries \ lost)
       /\ publication' = [publication EXCEPT ![p] =
            [@ EXCEPT !.pc = "error", !.failed = failed, !.hit = TRUE, !.tries = 1]]
  /\ UNCHANGED <<sender, topicThere, connection, cache, mutex, resultChan, reconnecting, shut>>

\* The client is broken, closed or not there, or snssqs has no topic.
SendRefused(p) ==
  /\ StepAt(p) = "send"
  /\ ~Live(p) \/ NoTopic(p)
  /\ IF ~CanSend(p) THEN CallEnds(p, "panicked")
     ELSE LET broken == connection[ClientOf(p)] = "broken"
          IN  Fails(p, [AfterFailure(p, IF broken THEN "network" ELSE "other")
                          EXCEPT !.hit = @ \/ broken])
  /\ UNCHANGED <<sender, topicThere, connection, cache, stored, resultChan, reconnecting,
                 shut, sendFaults>>

\* CloseSender and resetProducer: whatever is in the cache now.
Drop(p) ==
  /\ StepAt(p) = "drop" /\ mutex = 0
  /\ cache' = 0
  /\ publication' = [publication EXCEPT ![p].pc = "dropped", ![p].dropped = cache]
  /\ UNCHANGED <<sender, topicThere, connection, mutex, stored, resultChan, reconnecting,
                 shut, sendFaults>>

\* The sender is closed when it is out of the cache; a producer of RocketMQ is not.
Dropped(p) ==
  /\ StepAt(p) = "dropped"
  /\ LET call == publication[p]
         again == sender # "rocketMQ" /\ call.tries < MaxAttempts
     IN  /\ connection' = IF sender = "rocketMQ" \/ call.dropped = 0 THEN connection
                          ELSE [connection EXCEPT ![call.dropped] = "closed"]
         /\ publication' = [publication EXCEPT ![p] =
              IF again THEN [call EXCEPT !.pc = "running", !.at = Position("lookup"), !.dropped = 0]
              ELSE [call EXCEPT !.pc = "error", !.dropped = 0, !.failed = Entries]]
  /\ UNCHANGED <<sender, topicThere, cache, mutex, stored, resultChan, reconnecting,
                 shut, sendFaults>>

(***************************************************************************)
(* KubeMQ event store: the stream answers through a channel of one place   *)
(* that all callers share.                                                 *)
(***************************************************************************)
StreamSend(p) ==
  /\ sender = "kubeMQStore" /\ Live(p)
  /\ publication' = [publication EXCEPT ![p].at = @ + 1, ![p].streamed = TRUE]
  /\ UNCHANGED <<sender, topicThere, connection, cache, mutex, stored, resultChan,
                 reconnecting, shut, sendFaults>>

\* The callback: the answer is dropped when the place is taken.  Of a stream error
\* only a nil result arrives, which counts as success.
Result(p) ==
  /\ publication[p].streamed
  /\ publication' = [publication EXCEPT ![p].streamed = FALSE]
  /\ \E answer \in {"stored", "refused", "nil"} :
       /\ IF answer = "nil" THEN SendFault ELSE UNCHANGED sendFaults
       /\ stored' = IF answer = "stored" THEN Copies(p, Entries) ELSE stored
       /\ resultChan' = IF resultChan = <<>> THEN <<answer>> ELSE resultChan
  /\ UNCHANGED <<sender, topicThere, connection, cache, mutex, reconnecting, shut>>

Await(p) ==
  /\ StepAt(p) = "await"
  /\ \/ /\ resultChan # <<>>
        /\ resultChan' = <<>>
        /\ CallEnds(p, IF Head(resultChan) = "refused" THEN "error" ELSE "ok")
        /\ UNCHANGED sendFaults
     \/ SendFault /\ EndsByFault(p) /\ UNCHANGED resultChan
  /\ UNCHANGED <<sender, topicThere, connection, cache, stored, reconnecting, shut>>

(***************************************************************************)
(* Connections.                                                            *)
(***************************************************************************)
\* The senders of Solace are links of one session.
Breaks(k) ==
  /\ connection[k] = "up" /\ SendFault
  /\ connection' = [l \in 1..MaxClients |->
       IF connection[l] = "up" /\ (l = k \/ sender = "solace") THEN "broken" ELSE connection[l]]
  /\ UNCHANGED <<sender, topicThere, cache, mutex, publication, stored, resultChan,
                 reconnecting, shut>>

Recover(k) ==
  /\ connection[k] = "broken" /\ Recovers
  /\ connection' = [connection EXCEPT ![k] = "up"]
  /\ UNCHANGED <<sender, topicThere, cache, mutex, publication, stored, resultChan,
                 reconnecting, shut, sendFaults>>

\* reconnectWhenNecessary of the RabbitMQ binding: connect looks at closed, dials,
\* and has the new connection in place of the old one afterwards.
Redial ==
  /\ sender = "rabbitBinding" /\ reconnecting = 0 /\ ~shut
  /\ cache # 0 /\ connection[cache] = "broken"
  /\ \E k \in 1..MaxClients : connection[k] = "none"
  /\ connection' = [connection EXCEPT ![NewClient] = "up"]
  /\ reconnecting' = NewClient
  /\ UNCHANGED <<sender, topicThere, cache, mutex, publication, stored, resultChan, shut, sendFaults>>

Redialled ==
  /\ reconnecting # 0
  /\ connection' = IF cache = 0 THEN connection ELSE [connection EXCEPT ![cache] = "closed"]
  /\ cache' = reconnecting
  /\ reconnecting' = 0
  /\ UNCHANGED <<sender, topicThere, mutex, publication, stored, resultChan, shut, sendFaults>>

(***************************************************************************)
(* Close.                                                                  *)
(***************************************************************************)
\* What Close closes: the client of a component takes all its senders and producers
\* with it; KubeMQ closes the client made last; snssqs, the bindings over HTTP and the
\* producers of RocketMQ are left.
ClosedByClose ==
  LET made == {k \in 1..MaxClients : connection[k] # "none"}
  IN  CASE sender \in {"snssqs", "rocketMQ", "rocketMQBinding", "kinesis", "sqs", "sns",
                          "storageQueues", "cfQueues"} -> {}
        [] sender \in KubeMQs -> {k \in made : \A l \in made : l <= k}
        [] sender \in EventHubs \cup {"mqtt3Binding", "rabbitBinding"} -> {cache} \ {0}
        [] OTHER -> made

\* Components that forget their client.
ForgetsClient == Kafkas \cup EventHubs \cup ServiceBuses \cup {"rocketMQ", "mqtt3Binding", "rabbitBinding"}

Shut ==
  /\ ~shut
  /\ sender \in EventHubs \cup ServiceBuses \cup {"rocketMQ", "mqtt3Binding", "solace"} => mutex = 0
  /\ shut' = TRUE
  /\ connection' = [k \in 1..MaxClients |->
       IF k \in ClosedByClose THEN "closed" ELSE connection[k]]
  /\ cache' = IF sender \in ForgetsClient THEN 0 ELSE cache
  /\ UNCHANGED <<sender, topicThere, mutex, publication, stored, resultChan, reconnecting, sendFaults>>

PublicationNext ==
  \/ OtherCreates \/ CacheRefresh \/ Redial \/ Redialled \/ Shut
  \/ \E k \in 1..MaxClients : Breaks(k) \/ Recover(k)
  \/ \E p \in Publishers :
       \/ Call(p) \/ CheckClosed(p) \/ ReadClient(p) \/ Lookup(p) \/ Lock(p) \/ InitLock(p)
       \/ Ask(p) \/ Create(p) \/ RequestFails(p) \/ Connect(p) \/ Stream(p) \/ Store(p)
       \/ Send(p) \/ SendFails(p) \/ BulkSendFails(p) \/ SendRefused(p)
       \/ Drop(p) \/ Dropped(p) \/ StreamSend(p) \/ Result(p) \/ Await(p)

PublicationSpec == PublicationInit /\ [][PublicationNext]_publicationVars
-----------------------------------------------------------------------------
(***************************************************************************)
(* Properties.                                                             *)
(***************************************************************************)
\* Components that report success before the broker has answered, or on somebody
\* else's answer.
Unconfirmed == KubeMQs \cup {"rabbitBinding"}

\* What a call reports as published is at the broker, the entries of a bulk request
\* that are not among the failed ones included.
AcknowledgedIsStored ==
  sender \notin Unconfirmed =>
    \A p \in Publishers : publication[p].pc \in {"ok", "error"} =>
      \A e \in Entries \ publication[p].failed : stored[p][e] > 0

\* KubeMQ event store: answers are mixed up between callers, but as long as nothing
\* fails no more calls succeed than messages are stored.
AnswersAreShared ==
  sender = "kubeMQStore" /\ sendFaults = 0 =>
    Cardinality({p \in Publishers : publication[p].pc = "ok"})
      <= Cardinality({p \in Publishers : stored[p][1] > 0})

\* A message is sent again only after a send of it has failed, and only so many
\* times.  Solace goes on after a success.
NoNeedlessCopies ==
  \A p \in Publishers :
    /\ publication[p].tries <= MaxAttempts
    /\ \A e \in Entries : stored[p][e] <= publication[p].tries + 1
    /\ sender # "solace" => publication[p].confirmed <= Cardinality(Entries)

UnderWay(p) == publication[p].pc \notin {"idle", "ok", "error", "panicked"}

\* Components that make a second client, or leave one open.
LeaksClients == KubeMQs \cup {"pulsar", "solace", "rocketMQ"}

\* A client that is open can be found again: it is in the cache, or a call has it.
NoClientLeaks ==
  sender \notin LeaksClients =>
    \A k \in 1..MaxClients : connection[k] = "up" =>
      \/ k \in {cache, reconnecting}
      \/ k = 1 /\ sender \in Remembers
      \/ \E p \in Publishers : UnderWay(p) /\ k \in {publication[p].client, publication[p].dropped}

\* Components that have nothing to close, or do not look at closed.
ServesAfterClose ==
  EventHubs \cup KubeMQs \cup {"kinesis", "sqs", "sns", "storageQueues", "cfQueues", "mqtt3Binding",
                  "rabbitBinding", "rocketMQBinding"}

\* A call that comes after Close is refused.
ClosedIsClosed ==
  \A p \in Publishers :
    publication[p].late /\ publication[p].pc = "ok" => sender \in ServesAfterClose

\* A call fails only if something went wrong in it or the component was closed; a
\* sender of Service Bus may be closed by another call that reconnects, a channel of
\* the RabbitMQ binding by reconnectWhenNecessary.
FailsForAReason ==
  \A p \in Publishers : publication[p].pc = "error" =>
    \/ publication[p].hit \/ shut
    \/ sender \in {"serviceBus", "serviceBusBinding", "rabbitBinding"}
    \* a refusal is answered to somebody else
    \/ sender = "kubeMQStore"

\* Nil pointers: Close takes the client away between two uses (Kafka) or for good
\* (Service Bus); a second init of KubeMQ fails after a first one.
PanicsAreKnown ==
  \A p \in Publishers : publication[p].pc = "panicked" =>
    \/ shut /\ sender \in Kafkas \cup ServiceBuses
    \/ sendFaults > 0 /\ sender \in KubeMQs

\* A client that a send has failed with is not in the cache any more when the call
\* tries again or returns.
BrokenIsReplaced ==
  \A p \in Publishers :
    /\ sender \in {"serviceBus", "serviceBusBinding", "rocketMQ"}
    /\ publication[p].pc \in {"dropped", "error"} /\ publication[p].bad # 0
    /\ connection[publication[p].bad] = "broken"
    => cache # publication[p].bad

\* Publish, BulkPublish and Invoke are true to their callers and to their clients.
PublicationsAreTrue ==
  /\ AcknowledgedIsStored /\ AnswersAreShared /\ NoNeedlessCopies /\ NoClientLeaks
  /\ ClosedIsClosed /\ FailsForAReason /\ PanicsAreKnown /\ BrokenIsReplaced
=============================================================================
