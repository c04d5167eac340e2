--------------------------- MODULE DeliveriesProofs ---------------------------
(***************************************************************************)
(* Theorems about Deliveries, for all its components and any number of     *)
(* messages, deliveries and faults: a message leaves its queue if it is    *)
(* handled and only then, a subscription runs until it is stopped, and     *)
(* handlers are called in order where order is promised.                   *)
(***************************************************************************)
EXTENDS Deliveries, FiniteSetTheorems, TLAPS

Places == {"none", "ready", "out", "gone", "dead"}
Tasks == {"none", "skipped", "handled", "refused", "lost"} \cup Handling \cup Returned

\* The deliveries of a message are numbered without gaps, and there is none of a
\* message that was not published.
Received(m, n) == \A r \in Numbers : task[m][r] # "none" <=> r <= n

NumberInv ==
  \A m \in Messages :
    /\ \E n \in 0 .. MaxReceives : Received(m, n)
    /\ broker[m] = "none" => \A r \in Numbers : task[m][r] = "none"

\* What Close has done so far, and which handlers can be running.
StopInv ==
  /\ closing = -1 => ~closed
  /\ closing >= 1 => closed
  /\ loop = "none" => ~cancelled /\ Idle
  /\ loop = "ended" /\ Read.joins => Idle
  /\ adapter \notin ReturnsEarly /\ closing = Len(CloseSteps) => loop # "running"
  /\ ~cancelled /\ closing = -1 => client \in {"open", "lost"}
  /\ ForgetsAtOnce => \A m \in Messages : broker[m] # "out"

\* A message that is out is with the handler of its latest delivery, unless its
\* broker takes it back in its own time.
RunInv ==
  adapter \notin Strands /\ ~cancelled /\ closing = -1 =>
    /\ loop # "ended" /\ client = "open"
    /\ \A m \in Messages : broker[m] = "out" =>
         TimesOut \/ adapter = "eventhubs" \/ (Count(m) \in Numbers /\ Active(m, Count(m)))

GoneInv ==
  adapter \notin AtMostOnce => \A m \in Messages : broker[m] = "gone" => Handled(m)

\* The deliveries of snssqs: all but the latest have failed.
RefusedBefore(m, n) == \A r \in Numbers : r # n => task[m][r] \in {"none", "refused"}

Tried(m) ==
  /\ broker[m] \in {"none", "ready"} => RefusedBefore(m, 0)
  /\ broker[m] = "out" =>
       \E r \in Numbers : /\ r = Count(m) /\ RefusedBefore(m, r)
                          /\ task[m][r] \in {"refused"} \cup Handling \cup Returned
  /\ broker[m] = "gone" => Handled(m) \/ Failures(m) >= RetryLimit - 1

SqsInv ==
  adapter \in SnsSqs =>
    /\ client = "open"
    /\ adapter # "snssqs keep" /\ ~cancelled /\ ~closed =>
         \A m \in Messages \ disturbed : Tried(m)

\* A message is given up after failures.
DeadInv ==
  \A m \in Messages : broker[m] = "dead" =>
    \/ adapter = "zeebe" /\ Failures(m) >= RetryLimit
    \/ adapter = "solace" /\ Failures(m) > 0

\* A message is passed over after its handler has returned.
PassInv ==
  adapter \in PassesOver =>
    \A m \in Messages : broker[m] = "gone" => Handled(m) \/ Failures(m) > 0

\* When SuccessSettles or StopKeepsAcks speaks of the messages.
Kept == \/ adapter \notin {"rocketmq binding", "snssqs keep"} /\ ~cancelled /\ closing = -1
        \/ adapter \notin LosesAcks

\* The broker has not yet heard of a message in its handler, and the client can
\* still tell it.
Open(m) == IF ForgetsAtOnce THEN broker[m] = "gone"
           ELSE IF adapter = "eventhubs" THEN broker[m] \in {"out", "gone"}
           ELSE broker[m] = "out" /\ client \in {"open", "draining"}

Keeps(m) ==
  /\ \A r \in Numbers : Active(m, r) => r = Count(m) /\ ~Handled(m) /\ Open(m)
  /\ Handled(m) => broker[m] # "ready" /\ (broker[m] = "out" => adapter = "eventhubs")

KeepInv == Kept => \A m \in Messages \ disturbed : Keeps(m)

IInv == /\ TypeOK /\ NumberInv /\ StopInv /\ RunInv /\ GoneInv /\ SqsInv /\ DeadInv /\ PassInv
        /\ KeepInv

-----------------------------------------------------------------------------
(* The components.                                                         *)

Verbs == {"ack", "ctx ack", "nack", "ctx reject", "leave", "republish", "fail job"}

\* What the callbacks of the components have in common.
LEMMA HandleTable ==
  ASSUME adapter \in AllAdapters
  PROVE  /\ Handle.ok \in Verbs /\ Handle.recovered \in Verbs /\ Handle.err \in Verbs
         /\ adapter \notin AtMostOnce => Handle.err \notin {"ack", "ctx ack"}
         /\ adapter # "rocketmq binding" => Handle.recovered = Handle.ok
         /\ \/ Handle.ok = "ack"
            \/ Handle.ok = "ctx ack" /\ adapter \in LosesAcks
            \/ Handle.ok = "leave" /\ (ForgetsAtOnce \/ adapter = "eventhubs")
         /\ ForgetsAtOnce => /\ Handle.ok = "leave" /\ Handle.recovered = "leave"
                             /\ Handle.err \in {"leave", "republish"}
         /\ ~ForgetsAtOnce => /\ Handle.ok # "republish" /\ Handle.recovered # "republish"
                              /\ Handle.err # "republish"
         /\ adapter = "eventhubs" => Handle.ok = "leave" /\ Handle.recovered = "leave"
                                       /\ Handle.err = "leave"
         /\ adapter \notin Strands /\ ~TimesOut /\ ~ForgetsAtOnce /\ adapter # "eventhubs" =>
              /\ Handle.ok \in {"ack", "nack"} /\ Handle.recovered \in {"ack", "nack"}
              /\ Handle.err \in {"ack", "nack"}
         /\ adapter \in SnsSqs => /\ Handle.ok = "ctx ack" /\ Handle.recovered = "ctx ack"
                                  /\ Handle.err = "leave"
         /\ adapter = "zeebe" => /\ Handle.ok = "ack" /\ Handle.recovered = "ack"
                                 /\ Handle.err = "fail job"
         /\ adapter # "zeebe" => /\ Handle.ok # "fail job" /\ Handle.recovered # "fail job"
                                 /\ Handle.err # "fail job"
         /\ Handle.ok \notin {"ctx reject", "fail job"}
         /\ Handle.recovered \notin {"ctx reject", "fail job"}
         /\ adapter # "solace" => Handle.err # "ctx reject"
<1> DEFINE
      AckNack == {"pulsar sync", "pulsar async", "rocketmq", "rocketmq orderly", "gcp",
                  "jetstream single", "jetstream parallel", "rabbitmq binding", "gcp binding",
                  "kubemq binding", "servicebusqueues"}
      AckLeave == {"mqtt3", "mqtt3 binding", "sqs"}
      CtxLeave == SnsSqs \cup {"storagequeues"}
      Silent   == {"jetstream no acks", "kubemq no redelivery", "eventhubs", "kinesis extended"}
      AckAll   == {"eventhubs in order", "kinesis shared"}
<1> USE DEF Settles, SnsSqs
<1>1. CASE adapter \in AckNack \cup {"rocketmq binding"}
  <2>1. /\ Handle.ok = "ack" /\ Handle.err = "nack"
        /\ Handle.recovered = IF adapter = "rocketmq binding" THEN "nack" ELSE "ack"
    BY <1>1 DEF Handle, PulsarHandle, RocketMQHandle, RocketMQHandleOrderly, GCPHandle,
      JetStreamHandle, RabbitBindingHandle, GCPBindingHandle, KubeMQBindingHandle,
      ServiceBusQueuesHandle, RocketMQBindingHandle
  <2>2. QED
    BY <1>1, <2>1 DEF Verbs, ForgetsAtOnce
<1>2. CASE adapter \in AckLeave
  <2>1. Handle.ok = "ack" /\ Handle.recovered = "ack" /\ Handle.err = "leave"
    BY <1>2 DEF Handle, MQTTHandle, MQTTBindingHandle, SQSHandle
  <2>2. QED
    BY <1>2, <2>1 DEF Verbs, ForgetsAtOnce, Strands, TimesOut
<1>3. CASE adapter \in CtxLeave
  <2>1. Handle.ok = "ctx ack" /\ Handle.recovered = "ctx ack" /\ Handle.err = "leave"
    BY <1>3 DEF Handle, SnsSqsHandle, StorageQueuesHandle
  <2>2. QED
    BY <1>3, <2>1 DEF Verbs, ForgetsAtOnce, TimesOut, LosesAcks
<1>4. CASE adapter = "solace"
  <2>1. Handle.ok = "ctx ack" /\ Handle.recovered = "ctx ack" /\ Handle.err = "ctx reject"
    BY <1>4 DEF Handle, SolaceHandle
  <2>2. QED
    BY <1>4, <2>1 DEF Verbs, ForgetsAtOnce, Strands, LosesAcks
<1>5. CASE adapter \in Silent \cup {"kubemq"}
  <2>1. /\ Handle.ok = "leave" /\ Handle.recovered = "leave"
        /\ Handle.err = IF adapter = "kubemq" THEN "republish" ELSE "leave"
    BY <1>5 DEF Handle, JetStreamHandle, KubeMQHandle, EventHubsHandle, KinesisExtendedHandle
  <2>2. QED
    BY <1>5, <2>1 DEF Verbs, ForgetsAtOnce, TimesOut
<1>6. CASE adapter \in AckAll
  <2>1. Handle.ok = "ack" /\ Handle.recovered = "ack" /\ Handle.err = "ack"
    BY <1>6 DEF Handle, EventHubsHandle, KinesisProcessRecords
  <2>2. QED
    BY <1>6, <2>1 DEF Verbs, ForgetsAtOnce, AtMostOnce
<1>7. CASE adapter = "zeebe"
  <2>1. Handle.ok = "ack" /\ Handle.recovered = "ack" /\ Handle.err = "fail job"
    BY <1>7 DEF Handle, ZeebeHandle
  <2>2. QED
    BY <1>7, <2>1 DEF Verbs, ForgetsAtOnce, TimesOut
<1>8. QED
  BY <1>1, <1>2, <1>3, <1>4, <1>5, <1>6, <1>7 DEF AllAdapters

LEMMA ReadTable ==
  ASSUME adapter \in AllAdapters
  PROVE  /\ adapter \notin ReturnsEarly => Read.joins
         /\ adapter \in InOrder => Read.handlers = "one"
  BY DEF AllAdapters, Read, PulsarRead, SnsSqsRead, RocketMQRead, GCPRead, MQTTRead, SolaceRead,
    JetStreamRead, KubeMQRead, EventHubsRead, RabbitBindingRead, StorageQueuesRead, SQSRead,
    KinesisSharedRead, KinesisExtendedSubscribe, GCPBindingRead, MQTTBindingRead,
    RocketMQBindingRead, ZeebeRead, KubeMQBindingRead, ServiceBusQueuesRead, ReturnsEarly, InOrder

\* Close begins with the signal, ends by waiting for the loop where it waits at all,
\* and closes no connection under the handlers that StopKeepsAcks speaks of.
LEMMA CloseTable ==
  ASSUME adapter \in AllAdapters
  PROVE  /\ Len(CloseSteps) \in Nat
         /\ Len(CloseSteps) > 0 => CloseSteps[1] = "signal"
         /\ adapter \notin ReturnsEarly =>
              Len(CloseSteps) > 0 /\ CloseSteps[Len(CloseSteps)] = "join"
         /\ adapter \notin LosesAcks /\ ~ForgetsAtOnce =>
              \A i \in 1 .. Len(CloseSteps) : CloseSteps[i] # "client"
         /\ adapter \in SnsSqs => \A i \in 1 .. Len(CloseSteps) : CloseSteps[i] = "signal"
<1> DEFINE
      Closing3 == {"pulsar sync", "pulsar async", "gcp", "solace", "jetstream parallel",
                   "rabbitmq binding", "gcp binding", "zeebe", "kubemq binding", "servicebusqueues"}
      Closing2 == {"rocketmq", "rocketmq orderly", "mqtt3", "kubemq", "kubemq no redelivery"}
      Waiting2 == {"storagequeues", "sqs", "kinesis shared", "kinesis extended", "mqtt3 binding",
                   "rocketmq binding"}
<1> USE DEF SnsSqs
<1>1. CASE adapter \in Closing3
  <2>1. CloseSteps = <<"signal", "client", "join">>
    BY <1>1 DEF CloseSteps, PulsarClose, GCPClose, SolaceClose, JetStreamClose,
      RabbitBindingClose, GCPBindingClose, ZeebeClose, KubeMQBindingClose, ServiceBusQueuesClose
  <2>2. Len(CloseSteps) = 3 /\ CloseSteps[1] = "signal" /\ CloseSteps[2] = "client" /\ CloseSteps[3] = "join"
    BY <2>1
  <2>3. 1 .. Len(CloseSteps) = {1, 2, 3}
    BY <2>2
  <2>4. Len(CloseSteps) \in Nat /\ (Len(CloseSteps) > 0 => CloseSteps[1] = "signal")
    BY <2>2
  <2>5. adapter \notin ReturnsEarly =>
          Len(CloseSteps) > 0 /\ CloseSteps[Len(CloseSteps)] = "join"
    BY <2>2
  <2>6. adapter \notin LosesAcks /\ ~ForgetsAtOnce =>
          \A i \in 1 .. Len(CloseSteps) : CloseSteps[i] # "client"
    BY <1>1 DEF LosesAcks
  <2>7. adapter \in SnsSqs => \A i \in 1 .. Len(CloseSteps) : CloseSteps[i] = "signal"
    BY <1>1
  <2>8. QED
    BY <2>4, <2>5, <2>6, <2>7
<1>2. CASE adapter \in SnsSqs
  <2>1. CloseSteps = <<"signal">>
    BY <1>2 DEF CloseSteps, SnsSqsClose
  <2>2. Len(CloseSteps) = 1 /\ CloseSteps[1] = "signal"
    BY <2>1
  <2>3. 1 .. Len(CloseSteps) = {1}
    BY <2>2
  <2>4. Len(CloseSteps) \in Nat /\ (Len(CloseSteps) > 0 => CloseSteps[1] = "signal")
    BY <2>2
  <2>5. adapter \notin ReturnsEarly =>
          Len(CloseSteps) > 0 /\ CloseSteps[Len(CloseSteps)] = "join"
    BY <1>2 DEF ReturnsEarly
  <2>6. adapter \notin LosesAcks /\ ~ForgetsAtOnce =>
          \A i \in 1 .. Len(CloseSteps) : CloseSteps[i] # "client"
    BY <1>2 DEF LosesAcks
  <2>7. adapter \in SnsSqs => \A i \in 1 .. Len(CloseSteps) : CloseSteps[i] = "signal"
    BY <2>2, <2>3
  <2>8. QED
    BY <2>4, <2>5, <2>6, <2>7
<1>3. CASE adapter \in Closing2
  <2>1. CloseSteps = <<"signal", "client">>
    BY <1>3 DEF CloseSteps, RocketMQClose, MQTTClose, KubeMQClose
  <2>2. Len(CloseSteps) = 2 /\ CloseSteps[1] = "signal" /\ CloseSteps[2] = "client"
    BY <2>1
  <2>3. 1 .. Len(CloseSteps) = {1, 2}
    BY <2>2
  <2>4. Len(CloseSteps) \in Nat /\ (Len(CloseSteps) > 0 => CloseSteps[1] = "signal")
    BY <2>2
  <2>5. adapter \notin ReturnsEarly =>
          Len(CloseSteps) > 0 /\ CloseSteps[Len(CloseSteps)] = "join"
    BY <1>3 DEF ReturnsEarly
  <2>6. adapter \notin LosesAcks /\ ~ForgetsAtOnce =>
          \A i \in 1 .. Len(CloseSteps) : CloseSteps[i] # "client"
    BY <1>3 DEF LosesAcks, ForgetsAtOnce
  <2>7. adapter \in SnsSqs => \A i \in 1 .. Len(CloseSteps) : CloseSteps[i] = "signal"
    BY <1>3
  <2>8. QED
    BY <2>4, <2>5, <2>6, <2>7
<1>4. CASE adapter \in {"jetstream single", "jetstream no acks"}
  <2>1. CloseSteps = <<"signal", "drain", "join">>
    BY <1>4 DEF CloseSteps, JetStreamClose
  <2>2. Len(CloseSteps) = 3 /\ CloseSteps[1] = "signal" /\ CloseSteps[2] = "drain" /\ CloseSteps[3] = "join"
    BY <2>1
  <2>3. 1 .. Len(CloseSteps) = {1, 2, 3}
    BY <2>2
  <2>4. Len(CloseSteps) \in Nat /\ (Len(CloseSteps) > 0 => CloseSteps[1] = "signal")
    BY <2>2
  <2>5. adapter \notin ReturnsEarly =>
          Len(CloseSteps) > 0 /\ CloseSteps[Len(CloseSteps)] = "join"
    BY <2>2
  <2>6. adapter \notin LosesAcks /\ ~ForgetsAtOnce =>
          \A i \in 1 .. Len(CloseSteps) : CloseSteps[i] # "client"
    BY <2>2, <2>3
  <2>7. adapter \in SnsSqs => \A i \in 1 .. Len(CloseSteps) : CloseSteps[i] = "signal"
    BY <1>4
  <2>8. QED
    BY <2>4, <2>5, <2>6, <2>7
<1>5. CASE adapter \in {"eventhubs", "eventhubs in order"}
  <2>1. CloseSteps = << >>
    BY <1>5 DEF CloseSteps, EventHubsClose
  <2>2. Len(CloseSteps) = 0
    BY <2>1
  <2>3. 1 .. Len(CloseSteps) = {}
    BY <2>2
  <2>4. Len(CloseSteps) \in Nat /\ (Len(CloseSteps) > 0 => CloseSteps[1] = "signal")
    BY <2>2
  <2>5. adapter \notin ReturnsEarly =>
          Len(CloseSteps) > 0 /\ CloseSteps[Len(CloseSteps)] = "join"
    BY <1>5 DEF ReturnsEarly
  <2>6. adapter \notin LosesAcks /\ ~ForgetsAtOnce =>
          \A i \in 1 .. Len(CloseSteps) : CloseSteps[i] # "client"
    BY <2>3
  <2>7. adapter \in SnsSqs => \A i \in 1 .. Len(CloseSteps) : CloseSteps[i] = "signal"
    BY <1>5
  <2>8. QED
    BY <2>4, <2>5, <2>6, <2>7
<1>6. CASE adapter \in Waiting2
  <2>1. CloseSteps = <<"signal", "join">>
    BY <1>6 DEF CloseSteps, StorageQueuesClose, SQSClose, KinesisClose, MQTTBindingClose,
      RocketMQBindingClose
  <2>2. Len(CloseSteps) = 2 /\ CloseSteps[1] = "signal" /\ CloseSteps[2] = "join"
    BY <2>1
  <2>3. 1 .. Len(CloseSteps) = {1, 2}
    BY <2>2
  <2>4. Len(CloseSteps) \in Nat /\ (Len(CloseSteps) > 0 => CloseSteps[1] = "signal")
    BY <2>2
  <2>5. adapter \notin ReturnsEarly =>
          Len(CloseSteps) > 0 /\ CloseSteps[Len(CloseSteps)] = "join"
    BY <2>2
  <2>6. adapter \notin LosesAcks /\ ~ForgetsAtOnce =>
          \A i \in 1 .. Len(CloseSteps) : CloseSteps[i] # "client"
    BY <2>2, <2>3
  <2>7. adapter \in SnsSqs => \A i \in 1 .. Len(CloseSteps) : CloseSteps[i] = "signal"
    BY <1>6
  <2>8. QED
    BY <2>4, <2>5, <2>6, <2>7
<1>7. QED
  BY <1>1, <1>2, <1>3, <1>4, <1>5, <1>6 DEF AllAdapters

\* The tables depend on the component only.
LEMMA SameTables ==
  ASSUME adapter' = adapter
  PROVE  /\ Read' = Read /\ Handle' = Handle /\ CloseSteps' = CloseSteps
         /\ (ForgetsAtOnce <=> ForgetsAtOnce') /\ (TimesOut <=> TimesOut')
  BY DEF Read, Handle, CloseSteps, ForgetsAtOnce, TimesOut

-----------------------------------------------------------------------------
(* Deliveries are counted.                                                 *)

LEMMA CountIs ==
  ASSUME NEW f, NEW n \in 0 .. MaxReceives, \A r \in Numbers : f[r] # "none" <=> r <= n
  PROVE  Cardinality({r \in Numbers : f[r] # "none"}) = n
<1>1. {r \in Numbers : f[r] # "none"} = 1 .. n
  BY DeliveriesAssumption DEF Numbers
<1>2. Cardinality(1 .. n) = IF 1 > n THEN 0 ELSE n - 1 + 1
  BY FS_Interval
<1>3. (IF 1 > n THEN 0 ELSE n - 1 + 1) = n
  OBVIOUS
<1>4. QED
  BY <1>1, <1>2, <1>3

LEMMA CountOf ==
  ASSUME NumberInv, NEW m \in Messages
  PROVE  Count(m) \in 0 .. MaxReceives /\ Received(m, Count(m))
<1>1. PICK n \in 0 .. MaxReceives : Received(m, n)
  BY DEF NumberInv
<1>2. Count(m) = n
  BY <1>1, CountIs DEF Count, Received
<1>3. QED
  BY <1>1, <1>2

LEMMA SameCount ==
  ASSUME NEW m \in Messages,
         \A r \in Numbers : task'[m][r] # "none" <=> task[m][r] # "none"
  PROVE  Count(m)' = Count(m)
<1>1. {r \in Numbers : task'[m][r] # "none"} = {r \in Numbers : task[m][r] # "none"}
  OBVIOUS
<1>2. QED
  BY <1>1 DEF Count

\* Handlers that have failed stay so.
LEMMA FailuresGrow ==
  ASSUME NEW m \in Messages,
         \A r \in Numbers : task[m][r] = "refused" => task'[m][r] = "refused"
  PROVE  Failures(m) \in Nat /\ Failures(m)' \in Nat /\ Failures(m) <= Failures(m)'
<1> DEFINE R  == {r \in Numbers : task[m][r] = "refused"}
           R1 == {r \in Numbers : task'[m][r] = "refused"}
<1>1. IsFiniteSet(Numbers)
  BY FS_Interval, DeliveriesAssumption DEF Numbers
<1>2. R \subseteq Numbers /\ R1 \subseteq Numbers /\ R \subseteq R1
  OBVIOUS
<1>3. IsFiniteSet(R1) /\ IsFiniteSet(R)
  BY <1>1, <1>2, FS_Subset
<1>4. Cardinality(R) \in Nat /\ Cardinality(R1) \in Nat /\ Cardinality(R) <= Cardinality(R1)
  BY <1>2, <1>3, FS_Subset, FS_CardinalityType
<1>5. QED
  BY <1>4 DEF Failures

LEMMA OneFailureMore ==
  ASSUME NEW m \in Messages, NEW q \in Numbers,
         task[m][q] # "refused", task'[m][q] = "refused",
         \A r \in Numbers : r # q => task'[m][r] = task[m][r]
  PROVE  Failures(m) \in Nat /\ Failures(m)' = Failures(m) + 1
<1> DEFINE R  == {r \in Numbers : task[m][r] = "refused"}
           R1 == {r \in Numbers : task'[m][r] = "refused"}
<1>1. IsFiniteSet(Numbers)
  BY FS_Interval, DeliveriesAssumption DEF Numbers
<1>2. R \subseteq Numbers /\ R1 = R \cup {q} /\ q \notin R
  OBVIOUS
<1>3. IsFiniteSet(R)
  BY <1>1, <1>2, FS_Subset
<1>4. Cardinality(R) \in Nat /\ Cardinality(R1) = Cardinality(R) + 1
  <2> HIDE DEF R, R1
  <2>1. QED
    BY <1>2, <1>3, FS_AddElement, FS_CardinalityType
<1>5. QED
  BY <1>4 DEF Failures

\* As many have failed as were delivered, when all of them have.
LEMMA AllFailed ==
  ASSUME NumberInv, NEW m \in Messages, \A r \in Numbers : task[m][r] \in {"none", "refused"}
  PROVE  Failures(m) = Count(m)
<1>1. {r \in Numbers : task[m][r] = "refused"} = {r \in Numbers : task[m][r] # "none"}
  OBVIOUS
<1>2. QED
  BY <1>1 DEF Failures, Count

-----------------------------------------------------------------------------
(* What the actions do to one message, and to all of them.                 *)

\* One delivery and the message's place at the broker change.
OneChange(m, r, v, b) ==
  /\ task'[m][r] = v /\ broker'[m] = b
  /\ \A q \in Numbers : q # r => task'[m][q] = task[m][q]
  /\ \A n \in Messages \ {m} :
       broker'[n] = broker[n] /\ \A q \in Numbers : task'[n][q] = task[n][q]
  /\ UNCHANGED <<adapter, loop, cancelled, closed, client, closing, faults, disturbed>>

LEMMA OneChangeIs ==
  ASSUME TypeOK, NEW m \in Messages, NEW r \in Numbers, NEW v \in Tasks, NEW b \in Places,
         task' = [task EXCEPT ![m][r] = v], broker' = [broker EXCEPT ![m] = b],
         UNCHANGED <<adapter, loop, cancelled, closed, client, closing, faults, disturbed>>
  PROVE  OneChange(m, r, v, b) /\ TypeOK'
<1>1. task \in [Messages -> [Numbers -> Tasks]] /\ broker \in [Messages -> Places]
  BY DEF TypeOK, Tasks, Places
<1>2. task' \in [Messages -> [Numbers -> Tasks]] /\ broker' \in [Messages -> Places]
  BY <1>1
<1>3. OneChange(m, r, v, b)
  BY <1>1 DEF OneChange
<1>4. CloseSteps' = CloseSteps
  BY SameTables
<1>5. QED
  BY <1>2, <1>3, <1>4 DEF TypeOK, Tasks, Places

LEMMA ReleasedIs ==
  ASSUME TypeOK
  PROVE  /\ Released \in [Messages -> Places]
         /\ \A m \in Messages :
              Released[m] = IF broker[m] = "out" /\ ~TimesOut /\ adapter # "eventhubs"
                              THEN "ready" ELSE broker[m]
<1>1. broker \in [Messages -> Places]
  BY DEF TypeOK, Places
<1>2. QED
  BY <1>1 DEF Released, Places

LEMMA MissedIs ==
  ASSUME NEW queue \in [Messages -> Places]
  PROVE  /\ Missed(queue) \in [Messages -> Places]
         /\ \A m \in Messages :
              Missed(queue)[m] = IF StartsWithNext /\ queue[m] = "ready" THEN "gone" ELSE queue[m]
  BY DEF Missed, Places

LEMMA ValidateIs ==
  ASSUME TypeOK, NEW r \in Nat, NEW verdict \in Validate(r)
  PROVE  \/ verdict = "handle"
         \/ verdict = "skip" /\ (cancelled \/ closed)
         \/ verdict = "reset" /\ adapter = "snssqs keep"
         \/ verdict = "delete" /\ adapter \in {"snssqs single", "snssqs parallel"} /\ r >= RetryLimit
<1>1. CASE adapter \in SnsSqs
  <2>1. verdict \in SnsSqsValidate(r, RetryLimit, adapter = "snssqs keep", cancelled \/ closed)
    BY <1>1 DEF Validate, SnsSqs
  <2>2. \/ verdict = "skip" /\ (cancelled \/ closed)
        \/ verdict = "handle"
        \/ ~(r < RetryLimit) /\ adapter = "snssqs keep" /\ verdict = "reset"
        \/ ~(r < RetryLimit) /\ adapter # "snssqs keep" /\ verdict = "delete"
    BY <2>1 DEF SnsSqsValidate
  <2>3. ~(r < RetryLimit) => r >= RetryLimit
    BY DeliveriesAssumption
  <2>4. QED
    BY <1>1, <2>2, <2>3 DEF SnsSqs
<1>2. CASE adapter \notin SnsSqs
  BY <1>2 DEF Validate, MQTTHandlerForTopic, KubeMQCallback
<1>3. QED
  BY <1>1, <1>2

DeliverEffect(m, r, verdict) ==
  /\ r = Count(m) + 1 /\ task[m][r] = "none" /\ broker[m] = "ready"
  /\ loop = "running" /\ client \in {"open", "draining"}
  /\ \/ /\ verdict = "handle"
        /\ OneChange(m, r, "handling", IF ForgetsAtOnce THEN "gone" ELSE "out")
     \/ /\ verdict = "skip" /\ (cancelled \/ closed)
        /\ OneChange(m, r, "skipped", IF ForgetsAtOnce THEN "gone" ELSE "out")
     \/ /\ verdict = "reset" /\ adapter = "snssqs keep"
        /\ OneChange(m, r, "handling", "ready")
     \/ /\ verdict = "delete" /\ adapter \in {"snssqs single", "snssqs parallel"}
        /\ r >= RetryLimit /\ OneChange(m, r, "skipped", "gone")

LEMMA DeliverDoes ==
  ASSUME TypeOK, NumberInv, NEW m \in Messages, Deliver(m)
  PROVE  TypeOK' /\ \E r \in Numbers, verdict \in {"handle", "skip", "reset", "delete"} :
                      DeliverEffect(m, r, verdict)
<1> DEFINE r == Count(m) + 1
           Vd(verdict) == IF verdict \in {"handle", "reset"} THEN "handling" ELSE "skipped"
           Bd(verdict) == CASE ForgetsAtOnce \/ verdict = "delete" -> "gone"
                            [] verdict = "reset" -> "ready"
                            [] OTHER -> "out"
<1>1. Count(m) \in 0 .. MaxReceives /\ Received(m, Count(m)) /\ Count(m) < MaxReceives
  BY CountOf DEF Deliver
<1>2. r \in Numbers /\ r \in Nat /\ ~(r <= Count(m))
  BY <1>1, DeliveriesAssumption DEF Numbers
<1>3. task[m][r] = "none"
  BY <1>1, <1>2 DEF Received
<1>4. PICK verdict \in Validate(r) :
        /\ task' = [task EXCEPT ![m][r] = Vd(verdict)]
        /\ broker' = [broker EXCEPT ![m] = Bd(verdict)]
  BY DEF Deliver
<1> HIDE DEF r
<1>5. \/ verdict = "handle"
      \/ verdict = "skip" /\ (cancelled \/ closed)
      \/ verdict = "reset" /\ adapter = "snssqs keep"
      \/ verdict = "delete" /\ adapter \in {"snssqs single", "snssqs parallel"} /\ r >= RetryLimit
  BY <1>2, ValidateIs
<1>6. Vd(verdict) \in Tasks /\ Bd(verdict) \in Places
  BY DEF Tasks, Places, Handling
<1>7. OneChange(m, r, Vd(verdict), Bd(verdict)) /\ TypeOK'
  <2> HIDE DEF Vd, Bd
  <2>1. QED
    BY <1>2, <1>4, <1>6, OneChangeIs DEF Deliver
<1>8. adapter = "snssqs keep" => ~ForgetsAtOnce
  BY DEF ForgetsAtOnce
<1>9. \/ verdict = "handle" /\ Vd(verdict) = "handling" /\ Bd(verdict) = IF ForgetsAtOnce THEN "gone" ELSE "out"
      \/ /\ verdict = "skip" /\ (cancelled \/ closed)
         /\ Vd(verdict) = "skipped" /\ Bd(verdict) = IF ForgetsAtOnce THEN "gone" ELSE "out"
      \/ /\ verdict = "reset" /\ adapter = "snssqs keep"
         /\ Vd(verdict) = "handling" /\ Bd(verdict) = "ready"
      \/ /\ verdict = "delete" /\ adapter \in {"snssqs single", "snssqs parallel"} /\ r >= RetryLimit
         /\ Vd(verdict) = "skipped" /\ Bd(verdict) = "gone"
  BY <1>5, <1>8
<1>10. DeliverEffect(m, r, verdict)
  <2> HIDE DEF Vd, Bd
  <2>1. r = Count(m) + 1 /\ broker[m] = "ready" /\ loop = "running" /\ client \in {"open", "draining"}
    BY DEF r, Deliver
  <2>2. QED
    BY <1>3, <1>7, <1>9, <2>1 DEF DeliverEffect
<1>11. QED
  BY <1>2, <1>5, <1>7, <1>10

LEMMA ReturnDoes ==
  ASSUME TypeOK, NEW m \in Messages, NEW r \in Numbers, Return(m, r)
  PROVE  TypeOK' /\ \E v \in Handling \cup Returned : OneChange(m, r, v, broker[m])
<1>1. PICK v \in Handling \cup Returned : task' = [task EXCEPT ![m][r] = v]
  BY DEF Return, Handling, Returned
<1>2. v \in Tasks
  BY DEF Tasks
<1>3. broker \in [Messages -> Places]
  BY DEF TypeOK, Places
<1>4. broker[m] \in Places /\ broker' = [broker EXCEPT ![m] = broker[m]]
  BY <1>3 DEF Return
<1>5. QED
  BY <1>1, <1>2, <1>4, OneChangeIs DEF Return

Verb(m, r) == CASE task[m][r] = "ok"        -> Handle.ok
                [] task[m][r] = "recovered" -> Handle.recovered
                [] task[m][r] = "failed"    -> Handle.err

\* A delivery whose settlement did not get through.
Unsettled(t, verb) == IF t # "failed" THEN "handled"
                      ELSE IF verb = "leave" THEN "refused" ELSE "lost"

SettleEffect(m, r, verb) ==
  \/ /\ MayPass(verb, m, r)
     /\ OneChange(m, r, IF task[m][r] = "failed" THEN "refused" ELSE "handled", Settled(verb, m))
  \/ /\ MayFail(verb, m, r)
     /\ OneChange(m, r, Unsettled(task[m][r], verb), broker[m])

LEMMA SettledIs ==
  ASSUME NEW verb \in Verbs, verb # "leave", NEW m \in Messages
  PROVE  /\ Settled(verb, m) \in {"gone", "dead", "ready"}
         /\ Settled(verb, m) = "gone" <=> verb \in {"ack", "ctx ack"}
         /\ Settled(verb, m) = "dead" => verb \in {"ctx reject", "fail job"}
  BY DEF Verbs, Settled, ZeebeFailJob

LEMMA SettleDoes ==
  ASSUME TypeOK, NEW m \in Messages, NEW r \in Numbers, Settle(m, r)
  PROVE  TypeOK' /\ task[m][r] \in Returned /\ Verb(m, r) \in Verbs /\ SettleEffect(m, r, Verb(m, r))
<1> DEFINE verb == Verb(m, r)
<1>0. task \in [Messages -> [Numbers -> Tasks]] /\ broker \in [Messages -> Places]
  BY DEF TypeOK, Tasks, Places
<1>1. task[m][r] \in Returned
  BY DEF Settle
<1>2. verb \in Verbs
  BY <1>1, HandleTable, DeliveriesAssumption DEF TypeOK, Verb, Returned
<1>3. \/ /\ MayPass(verb, m, r)
         /\ task' = [task EXCEPT ![m][r] = IF task[m][r] = "failed" THEN "refused" ELSE "handled"]
         /\ broker' = [broker EXCEPT ![m] = Settled(verb, m)]
      \/ /\ MayFail(verb, m, r)
         /\ task' = [task EXCEPT ![m][r] = Unsettled(task[m][r], verb)]
         /\ broker' = broker
  BY <1>0 DEF Settle, Verb, Unsettled
<1> HIDE DEF verb
<1>4. UNCHANGED <<adapter, loop, cancelled, closed, client, closing, faults, disturbed>>
  BY DEF Settle
<1>5. ASSUME MayPass(verb, m, r),
             task' = [task EXCEPT ![m][r] = IF task[m][r] = "failed" THEN "refused" ELSE "handled"],
             broker' = [broker EXCEPT ![m] = Settled(verb, m)]
      PROVE  TypeOK' /\ SettleEffect(m, r, verb)
  <2>1. PICK v \in Tasks : v = IF task[m][r] = "failed" THEN "refused" ELSE "handled"
    BY DEF Tasks
  <2>2. Settled(verb, m) \in Places
    BY <1>2, <1>5, SettledIs DEF MayPass, Places
  <2>3. TypeOK' /\ OneChange(m, r, v, Settled(verb, m))
    BY <1>4, <1>5, <2>1, <2>2, OneChangeIs
  <2>4. QED
    BY <1>5, <2>1, <2>3 DEF SettleEffect
<1>6. ASSUME MayFail(verb, m, r),
             task' = [task EXCEPT ![m][r] = Unsettled(task[m][r], verb)],
             broker' = broker
      PROVE  TypeOK' /\ SettleEffect(m, r, verb)
  <2>1. PICK v \in Tasks : v = Unsettled(task[m][r], verb)
    BY DEF Tasks, Unsettled
  <2>2. broker[m] \in Places /\ broker' = [broker EXCEPT ![m] = broker[m]]
    BY <1>0, <1>6
  <2>3. TypeOK' /\ OneChange(m, r, v, broker[m])
    BY <1>4, <1>6, <2>1, <2>2, OneChangeIs
  <2>4. QED
    BY <1>6, <2>1, <2>3 DEF SettleEffect
<1>7. QED
  BY <1>1, <1>2, <1>3, <1>5, <1>6 DEF verb

\* A step that leaves the deliveries alone and moves one message.
Moves(m, from, to) ==
  /\ task' = task /\ broker[m] = from /\ broker'[m] = to
  /\ \A n \in Messages \ {m} : broker'[n] = broker[n]
  /\ UNCHANGED <<adapter, loop, cancelled, closed, client, closing>>

LEMMA MoveDoes ==
  ASSUME TypeOK, NEW m \in Messages, Publish(m) \/ Checkpoint(m) \/ TimeOut(m)
  PROVE  /\ TypeOK'
         /\ \/ Moves(m, "none", "ready") /\ UNCHANGED <<faults, disturbed>>
            \/ /\ adapter = "eventhubs" /\ Moves(m, "out", "gone")
               /\ UNCHANGED <<faults, disturbed>>
            \/ /\ TimesOut /\ Moves(m, "out", "ready") /\ disturbed \subseteq disturbed'
               /\ (\E r \in Numbers : Active(m, r)) => m \in disturbed'
<1>1. broker \in [Messages -> Places]
  BY DEF TypeOK, Places
<1>2. adapter' = adapter /\ task' = task
  BY DEF Publish, Checkpoint, TimeOut
<1>3. CloseSteps' = CloseSteps
  BY <1>2, SameTables
<1>4. CASE Publish(m)
  <2>1. Moves(m, "none", "ready") /\ UNCHANGED <<faults, disturbed>>
    BY <1>1, <1>4 DEF Publish, Moves
  <2>2. broker' \in [Messages -> Places]
    BY <1>1, <1>4 DEF Publish, Places
  <2>3. TypeOK'
    BY <1>2, <1>3, <2>1, <2>2 DEF TypeOK, Places, Moves
  <2>4. QED
    BY <2>1, <2>3
<1>5. CASE Checkpoint(m)
  <2>1. Moves(m, "out", "gone") /\ UNCHANGED <<faults, disturbed>> /\ adapter = "eventhubs"
    BY <1>1, <1>5 DEF Checkpoint, Moves
  <2>2. broker' \in [Messages -> Places]
    BY <1>1, <1>5 DEF Checkpoint, Places
  <2>3. TypeOK'
    BY <1>2, <1>3, <2>1, <2>2 DEF TypeOK, Places, Moves
  <2>4. QED
    BY <2>1, <2>3
<1>6. CASE TimeOut(m)
  <2>1. Moves(m, "out", "ready") /\ TimesOut
    BY <1>1, <1>6 DEF TimeOut, Moves
  <2>2. broker' \in [Messages -> Places]
    BY <1>1, <1>6 DEF TimeOut, Places
  <2>3. /\ disturbed' \subseteq Messages /\ disturbed \subseteq disturbed'
        /\ (\E r \in Numbers : Active(m, r)) => m \in disturbed'
    BY <1>6 DEF TimeOut, TypeOK
  <2>4. faults' \in 0 .. MaxFaults
    BY <1>6, DeliveriesAssumption DEF TimeOut, TypeOK
  <2>5. TypeOK'
    BY <1>2, <1>3, <2>1, <2>2, <2>3, <2>4 DEF TypeOK, Places, Moves
  <2>6. QED
    BY <2>1, <2>3, <2>5
<1>7. QED
  BY <1>4, <1>5, <1>6

\* A step of the subscription moves messages back to the queue, or past it.
Wide(m) ==
  \/ broker'[m] = broker[m]
  \/ broker[m] = "out" /\ broker'[m] = "ready" /\ ~TimesOut /\ adapter # "eventhubs"
  \/ StartsWithNext /\ broker[m] \in {"ready", "out"} /\ broker'[m] = "gone"

LEMMA WideDoes ==
  ASSUME TypeOK,
         Subscribe \/ Cancel \/ LoopEnds \/ CloseCalled \/ CloseStep \/ Drained \/ Reconnect
  PROVE  TypeOK' /\ adapter' = adapter /\ task' = task /\ \A m \in Messages : Wide(m)
<1>1. broker \in [Messages -> Places]
  BY DEF TypeOK, Places
<1>2. adapter' = adapter /\ task' = task
  BY DEF Subscribe, Cancel, LoopEnds, CloseCalled, CloseStep, Drained, Reconnect
<1>3. CloseSteps' = CloseSteps /\ Len(CloseSteps) \in Nat
  BY <1>2, SameTables, CloseTable, DeliveriesAssumption DEF TypeOK
<1>4. broker' \in {broker, Missed(broker), Released, Missed(Released)}
  BY DEF Subscribe, Cancel, LoopEnds, CloseCalled, CloseStep, Drained, Reconnect
<1>5. /\ Released \in [Messages -> Places]
      /\ \A m \in Messages :
           Released[m] = IF broker[m] = "out" /\ ~TimesOut /\ adapter # "eventhubs"
                           THEN "ready" ELSE broker[m]
  BY ReleasedIs
<1>6. /\ Missed(broker) \in [Messages -> Places] /\ Missed(Released) \in [Messages -> Places]
      /\ \A m \in Messages :
           /\ Missed(broker)[m] = IF StartsWithNext /\ broker[m] = "ready" THEN "gone" ELSE broker[m]
           /\ Missed(Released)[m] =
                IF StartsWithNext /\ Released[m] = "ready" THEN "gone" ELSE Released[m]
  BY <1>1, <1>5, MissedIs
<1>7. broker' \in [Messages -> Places]
  BY <1>1, <1>4, <1>5, <1>6
<1>8. \A m \in Messages : Wide(m)
  <2> TAKE m \in Messages
  <2>1. CASE broker' = broker
    BY <2>1 DEF Wide
  <2>2. CASE broker' = Missed(broker)
    BY <2>2, <1>6 DEF Wide
  <2>3. CASE broker' = Released
    BY <2>3, <1>5 DEF Wide
  <2>4. CASE broker' = Missed(Released)
    BY <2>4, <1>5, <1>6 DEF Wide
  <2>5. QED
    BY <1>4, <2>1, <2>2, <2>3, <2>4
<1>9. loop' \in {"none", "running", "ended"} /\ client' \in {"open", "lost", "draining", "closed"}
  <2>1. CASE Reconnect
    <3>1. \A after \in AfterLoss : after \in {<<"running", "lost">>, <<"running", "open">>, <<"ended", "open">>}
      BY DEF AfterLoss
    <3>2. PICK after \in AfterLoss : loop' = after[1] /\ client' = after[2]
      BY <2>1 DEF Reconnect
    <3>3. QED
      BY <3>1, <3>2
  <2>2. CASE Subscribe \/ Cancel \/ LoopEnds \/ CloseCalled \/ CloseStep \/ Drained
    BY <2>2 DEF TypeOK, Subscribe, Cancel, LoopEnds, CloseCalled, CloseStep, Drained
  <2>3. QED
    BY <2>1, <2>2
<1>10. cancelled' \in BOOLEAN /\ closed' \in BOOLEAN
  BY Zenon DEF TypeOK, Subscribe, Cancel, LoopEnds, CloseCalled, CloseStep, Drained, Reconnect
<1>11. closing' \in -1 .. Len(CloseSteps) /\ faults' \in 0 .. MaxFaults
  BY <1>3, DeliveriesAssumption DEF TypeOK, Subscribe, Cancel, LoopEnds, CloseCalled, CloseStep, Drained, Reconnect
<1>12. disturbed' \subseteq Messages
  BY DEF TypeOK, Subscribe, Cancel, LoopEnds, CloseCalled, CloseStep, Drained, Reconnect, Out
<1>13. TypeOK'
  BY <1>2, <1>3, <1>7, <1>9, <1>10, <1>11, <1>12 DEF TypeOK, Places
<1>14. QED
  BY <1>2, <1>8, <1>13

LEMMA CrashDoes ==
  ASSUME TypeOK, Crash
  PROVE  /\ TypeOK' /\ adapter' = adapter
         /\ \A m \in Messages :
              /\ broker'[m] = IF ~TimesOut /\ broker[m] = "out" THEN "ready" ELSE broker[m]
              /\ broker[m] # "none" => m \in disturbed'
              /\ \A r \in Numbers : task'[m][r] = IF Active(m, r) THEN "lost" ELSE task[m][r]
<1>1. broker \in [Messages -> Places] /\ task \in [Messages -> [Numbers -> Tasks]]
  BY DEF TypeOK, Places, Tasks
<1>2. broker' \in [Messages -> Places] /\ task' \in [Messages -> [Numbers -> Tasks]]
  BY <1>1 DEF Crash, Places, Tasks
<1>3. CloseSteps' = CloseSteps /\ Len(CloseSteps) \in Nat
  BY SameTables, CloseTable, DeliveriesAssumption DEF TypeOK, Crash
<1>4. faults' \in 0 .. MaxFaults /\ closing' \in -1 .. Len(CloseSteps)
  BY <1>3, DeliveriesAssumption DEF TypeOK, Crash
<1>5. disturbed' \subseteq Messages
  BY DEF TypeOK, Crash
<1>6. TypeOK'
  BY <1>2, <1>3, <1>4, <1>5 DEF TypeOK, Crash, Places, Tasks
<1>7. QED
  BY <1>1, <1>6 DEF Crash

\* The steps of Next, grouped by what they change.
LEMMA NextSplits ==
  ASSUME [Next]_vars
  PROVE  \/ \E m \in Messages : Deliver(m)
         \/ \E m \in Messages, r \in Numbers : Return(m, r)
         \/ \E m \in Messages, r \in Numbers : Settle(m, r)
         \/ \E m \in Messages : Publish(m) \/ Checkpoint(m) \/ TimeOut(m)
         \/ Subscribe \/ Cancel \/ LoopEnds \/ CloseCalled \/ CloseStep \/ Drained \/ Reconnect
         \/ Crash
         \/ UNCHANGED vars
  BY DEF Next

LEMMA TypeStep ==
  ASSUME TypeOK, NumberInv, [Next]_vars
  PROVE  TypeOK' /\ adapter' = adapter
<1>1. CASE \E m \in Messages : Deliver(m)
  BY <1>1, DeliverDoes DEF Deliver
<1>2. CASE \E m \in Messages, r \in Numbers : Return(m, r)
  BY <1>2, ReturnDoes DEF Return
<1>3. CASE \E m \in Messages, r \in Numbers : Settle(m, r)
  BY <1>3, SettleDoes DEF Settle
<1>4. CASE \E m \in Messages : Publish(m) \/ Checkpoint(m) \/ TimeOut(m)
  BY <1>4, MoveDoes DEF Moves
<1>5. CASE Subscribe \/ Cancel \/ LoopEnds \/ CloseCalled \/ CloseStep \/ Drained \/ Reconnect
  BY <1>5, WideDoes
<1>6. CASE Crash
  BY <1>6, CrashDoes
<1>7. CASE UNCHANGED vars
  <2>1. UNCHANGED CloseSteps
    BY <1>7, SameTables DEF vars
  <2>2. QED
    BY <1>7, <2>1 DEF TypeOK, vars
<1>8. QED
  BY <1>1, <1>2, <1>3, <1>4, <1>5, <1>6, <1>7, NextSplits

LEMMA NumberFrame ==
  ASSUME NumberInv,
         \A m \in Messages, r \in Numbers : task'[m][r] # "none" <=> task[m][r] # "none",
         \A m \in Messages : broker'[m] = "none" => broker[m] = "none"
  PROVE  NumberInv'
<1> SUFFICES ASSUME NEW m \in Messages
             PROVE  /\ \E n \in 0 .. MaxReceives : Received(m, n)'
                    /\ broker'[m] = "none" => \A r \in Numbers : task'[m][r] = "none"
  BY DEF NumberInv
<1>1. PICK n \in 0 .. MaxReceives : Received(m, n)
  BY DEF NumberInv
<1>2. Received(m, n)'
  BY <1>1 DEF Received
<1>3. broker'[m] = "none" => \A r \in Numbers : task'[m][r] = "none"
  BY DEF NumberInv
<1>4. QED
  BY <1>2, <1>3

LEMMA NumberStep ==
  ASSUME TypeOK, NumberInv, [Next]_vars
  PROVE  NumberInv'
<1>1. ASSUME NEW m \in Messages, Deliver(m) PROVE NumberInv'
  <2>1. PICK r \in Numbers, verdict \in {"handle", "skip", "reset", "delete"} : DeliverEffect(m, r, verdict)
    BY <1>1, DeliverDoes
  <2>2. Count(m) \in 0 .. MaxReceives /\ Received(m, Count(m))
    BY CountOf
  <2>3. PICK c \in 0 .. MaxReceives : c = Count(m)
    BY <2>2
  <2>4. r = c + 1 /\ r \in 0 .. MaxReceives
    <3>1. r = c + 1
      BY <2>1, <2>3 DEF DeliverEffect
    <3>2. r \in 0 .. MaxReceives
      BY DeliveriesAssumption DEF Numbers
    <3>3. QED
      BY <3>1, <3>2
  <2>5. PICK v \in {"handling", "skipped"}, b \in {"gone", "out", "ready"} : OneChange(m, r, v, b)
    BY <2>1 DEF DeliverEffect
  <2>6. Received(m, r)'
    <3> SUFFICES ASSUME NEW q \in Numbers PROVE task'[m][q] # "none" <=> q <= r
      BY DEF Received
    <3>1. CASE q = r
      <4>1. task'[m][q] # "none"
        BY <3>1, <2>5 DEF OneChange
      <4>2. q <= r
        BY <3>1 DEF Numbers
      <4>3. QED
        BY <4>1, <4>2
    <3>2. CASE q # r
      <4>1. task'[m][q] = task[m][q]
        BY <3>2, <2>5 DEF OneChange
      <4>2. task[m][q] # "none" <=> q <= c
        BY <2>2, <2>3 DEF Received
      <4>3. q <= c <=> q <= r
        BY <2>4, <3>2 DEF Numbers
      <4>4. QED
        BY <4>1, <4>2, <4>3
    <3>3. QED
      BY <3>1, <3>2
  <2>7. \A n \in Messages \ {m} :
          /\ \E k \in 0 .. MaxReceives : Received(n, k)'
          /\ broker'[n] = "none" => \A q \in Numbers : task'[n][q] = "none"
    <3> TAKE n \in Messages \ {m}
    <3>1. PICK k \in 0 .. MaxReceives : Received(n, k)
      BY DEF NumberInv
    <3>2. broker'[n] = broker[n] /\ \A q \in Numbers : task'[n][q] = task[n][q]
      BY <2>5 DEF OneChange
    <3>3. Received(n, k)'
      BY <3>1, <3>2 DEF Received
    <3>4. broker'[n] = "none" => \A q \in Numbers : task'[n][q] = "none"
      BY <3>2 DEF NumberInv
    <3>5. QED
      BY <3>3, <3>4
  <2>8. broker'[m] # "none"
    BY <2>5 DEF OneChange
  <2>9. QED
    BY <2>4, <2>6, <2>7, <2>8 DEF NumberInv
<1>2. ASSUME NEW m \in Messages, NEW r \in Numbers, NEW v, NEW b,
             OneChange(m, r, v, b), v # "none", task[m][r] # "none", b = "none" => broker[m] = "none"
      PROVE  NumberInv'
  BY <1>2, NumberFrame DEF OneChange
<1>3. ASSUME NEW m \in Messages, NEW r \in Numbers, Return(m, r) PROVE NumberInv'
  <2>1. PICK v \in Handling \cup Returned : OneChange(m, r, v, broker[m])
    BY <1>3, ReturnDoes
  <2>2. v # "none" /\ task[m][r] # "none"
    BY <1>3 DEF Return, Handling, Returned
  <2>3. QED
    BY <1>2, <2>1, <2>2
<1>4. ASSUME NEW m \in Messages, NEW r \in Numbers, Settle(m, r) PROVE NumberInv'
  <2>1. task[m][r] \in Returned /\ Verb(m, r) \in Verbs /\ SettleEffect(m, r, Verb(m, r))
    BY <1>4, SettleDoes
  <2>2. task[m][r] # "none"
    BY <2>1 DEF Returned
  <2>3. MayPass(Verb(m, r), m, r) => Settled(Verb(m, r), m) # "none"
    BY <2>1, SettledIs DEF MayPass
  <2>4. PICK v, b : OneChange(m, r, v, b) /\ v # "none" /\ (b = "none" => broker[m] = "none")
    BY <2>1, <2>3 DEF SettleEffect, Unsettled
  <2>5. QED
    BY <1>2, <2>2, <2>4
<1>5. ASSUME NEW m \in Messages, Publish(m) \/ Checkpoint(m) \/ TimeOut(m) PROVE NumberInv'
  <2>1. PICK from \in {"none", "out"}, to \in {"ready", "gone"} : Moves(m, from, to)
    BY <1>5, MoveDoes
  <2>2. QED
    BY <2>1, NumberFrame DEF Moves
<1>6. CASE Subscribe \/ Cancel \/ LoopEnds \/ CloseCalled \/ CloseStep \/ Drained \/ Reconnect
  <2>1. task' = task /\ \A m \in Messages : Wide(m)
    BY <1>6, WideDoes
  <2>2. QED
    BY <2>1, NumberFrame DEF Wide
<1>7. CASE Crash
  BY <1>7, CrashDoes, NumberFrame DEF Active, Handling, Returned
<1>8. CASE UNCHANGED vars
  BY <1>8, NumberFrame DEF vars
<1>9. QED
  BY <1>1, <1>3, <1>4, <1>5, <1>6, <1>7, <1>8, NextSplits

-----------------------------------------------------------------------------
(* The end of a subscription.                                              *)

\* A delivery is in its handler only while the loop runs, or after a loop that
\* does not wait for its handlers.
HandlersInv ==
  /\ loop = "none" => ~cancelled /\ Idle
  /\ loop = "ended" /\ Read.joins => Idle

NoneOut == ForgetsAtOnce => \A m \in Messages : broker[m] # "out"

ClosingInv ==
  /\ closing = -1 => ~closed
  /\ closing >= 1 => closed
  /\ adapter \notin ReturnsEarly /\ closing = Len(CloseSteps) => loop # "running"
  /\ ~cancelled /\ closing = -1 => client \in {"open", "lost"}

LEMMA StopParts == StopInv <=> HandlersInv /\ ClosingInv /\ NoneOut
  BY DEF StopInv, HandlersInv, ClosingInv, NoneOut

LEMMA LossLeaves ==
  ASSUME Reconnect
  PROVE  \/ loop' = "running" /\ client' = "lost" /\ adapter = "solace"
         \/ loop' = "running" /\ client' = "open"
         \/ loop' = "ended" /\ client' = "open" /\ adapter \in {"gcp", "gcp binding"} /\ Idle
<1>1. PICK after \in AfterLoss : loop' = after[1] /\ client' = after[2]
  BY DEF Reconnect
<1>2. \/ after = <<"running", "lost">> /\ adapter = "solace"
      \/ after = <<"running", "open">>
      \/ after = <<"ended", "open">> /\ adapter \in {"gcp", "gcp binding"} /\ Idle
  BY DEF AfterLoss
<1>3. CASE after = <<"running", "lost">> /\ adapter = "solace"
  <2>1. after[1] = "running" /\ after[2] = "lost"
    BY <1>3
  <2>2. QED
    BY <1>1, <1>3, <2>1
<1>4. CASE after = <<"running", "open">>
  <2>1. after[1] = "running" /\ after[2] = "open"
    BY <1>4
  <2>2. QED
    BY <1>1, <2>1
<1>5. CASE after = <<"ended", "open">> /\ adapter \in {"gcp", "gcp binding"} /\ Idle
  <2>1. after[1] = "ended" /\ after[2] = "open"
    BY <1>5
  <2>2. QED
    BY <1>1, <1>5, <2>1
<1>6. QED
  BY <1>2, <1>3, <1>4, <1>5

LEMMA HandlersStep ==
  ASSUME TypeOK, NumberInv, HandlersInv, [Next]_vars
  PROVE  HandlersInv'
<1>0. adapter' = adapter
  BY TypeStep
<1>1. Read' = Read
  BY <1>0, SameTables
<1>2. ASSUME NEW m \in Messages, Deliver(m) PROVE HandlersInv'
  BY <1>2 DEF Deliver, HandlersInv
<1>3. ASSUME NEW m \in Messages, NEW r \in Numbers, Return(m, r) \/ Settle(m, r) PROVE HandlersInv'
  <2>1. Active(m, r) /\ loop' = loop
    BY <1>3 DEF Active, Return, Settle
  <2>2. ~Idle
    BY <2>1 DEF Idle
  <2>3. QED
    BY <1>1, <2>1, <2>2 DEF HandlersInv
<1>4. ASSUME NEW m \in Messages, Publish(m) \/ Checkpoint(m) \/ TimeOut(m) PROVE HandlersInv'
  <2>1. task' = task /\ loop' = loop /\ cancelled' = cancelled
    BY <1>4 DEF Publish, Checkpoint, TimeOut
  <2>2. QED
    BY <1>1, <2>1 DEF HandlersInv, Idle, Active
<1>5. CASE Subscribe \/ Cancel \/ LoopEnds \/ CloseCalled \/ CloseStep \/ Drained \/ Reconnect
  <2>1. task' = task /\ (Idle <=> Idle')
    BY <1>5, WideDoes DEF Idle, Active
  <2>2. CASE Subscribe
    BY <2>2 DEF Subscribe, HandlersInv
  <2>3. CASE Cancel
    BY <2>3, <2>1, <1>1 DEF Cancel, HandlersInv
  <2>4. CASE LoopEnds
    BY <2>4, <2>1, <1>1 DEF LoopEnds, HandlersInv
  <2>5. CASE CloseCalled \/ CloseStep \/ Drained
    BY <2>5, <2>1, <1>1 DEF CloseCalled, CloseStep, Drained, HandlersInv
  <2>6. CASE Reconnect
    <3>1. loop' = "running" \/ (Idle /\ loop' = "ended")
      BY <2>6, LossLeaves
    <3>2. QED
      BY <2>1, <3>1 DEF HandlersInv
  <2>7. QED
    BY <1>5, <2>2, <2>3, <2>4, <2>5, <2>6
<1>6. CASE Crash
  <2>1. \A m \in Messages, r \in Numbers : task'[m][r] = IF Active(m, r) THEN "lost" ELSE task[m][r]
    BY <1>6, CrashDoes
  <2>2. Idle'
    BY <2>1 DEF Idle, Active, Handling, Returned
  <2>3. QED
    BY <1>6, <2>2 DEF Crash, HandlersInv
<1>7. CASE UNCHANGED vars
  BY <1>1, <1>7 DEF vars, HandlersInv, Idle, Active
<1>8. QED
  BY <1>2, <1>3, <1>4, <1>5, <1>6, <1>7, NextSplits

LEMMA NoneOutStep ==
  ASSUME TypeOK, NumberInv, NoneOut, [Next]_vars
  PROVE  NoneOut'
<1>0. adapter' = adapter
  BY TypeStep
<1> SUFFICES ASSUME ForgetsAtOnce, NEW n \in Messages PROVE broker'[n] # "out"
  BY <1>0, SameTables DEF NoneOut
<1>1. broker[n] # "out"
  BY DEF NoneOut
<1>2. ASSUME NEW m \in Messages, Deliver(m) PROVE broker'[n] # "out"
  <2>1. PICK r \in Numbers, verdict \in {"handle", "skip", "reset", "delete"} : DeliverEffect(m, r, verdict)
    BY <1>2, DeliverDoes
  <2>2. broker'[m] \in {"gone", "ready"} /\ \A k \in Messages \ {m} : broker'[k] = broker[k]
    BY <2>1 DEF DeliverEffect, OneChange
  <2>3. QED
    BY <1>1, <2>2
<1>3. ASSUME NEW m \in Messages, NEW r \in Numbers, Return(m, r) PROVE broker'[n] # "out"
  BY <1>1, <1>3 DEF Return
<1>4. ASSUME NEW m \in Messages, NEW r \in Numbers, Settle(m, r) PROVE broker'[n] # "out"
  <2>1. Verb(m, r) \in Verbs /\ SettleEffect(m, r, Verb(m, r))
    BY <1>4, SettleDoes
  <2>2. MayPass(Verb(m, r), m, r) => Settled(Verb(m, r), m) # "out"
    BY <2>1, SettledIs DEF MayPass
  <2>3. PICK v, b : OneChange(m, r, v, b) /\ (b = "out" => broker[m] = "out")
    BY <2>1, <2>2 DEF SettleEffect
  <2>4. QED
    BY <2>3, <1>1 DEF OneChange, NoneOut
<1>5. ASSUME NEW m \in Messages, Publish(m) \/ Checkpoint(m) \/ TimeOut(m) PROVE broker'[n] # "out"
  <2>1. PICK from \in {"none", "out"}, to \in {"ready", "gone"} : Moves(m, from, to)
    BY <1>5, MoveDoes
  <2>2. QED
    BY <1>1, <2>1 DEF Moves
<1>6. CASE Subscribe \/ Cancel \/ LoopEnds \/ CloseCalled \/ CloseStep \/ Drained \/ Reconnect
  BY <1>1, <1>6, WideDoes DEF Wide
<1>7. CASE Crash
  BY <1>1, <1>7, CrashDoes
<1>8. CASE UNCHANGED vars
  BY <1>1, <1>8 DEF vars
<1>9. QED
  BY <1>2, <1>3, <1>4, <1>5, <1>6, <1>7, <1>8, NextSplits

LEMMA ClosingStep ==
  ASSUME TypeOK, NumberInv, HandlersInv, ClosingInv, [Next]_vars
  PROVE  ClosingInv'
<1>0. adapter' = adapter
  BY TypeStep
<1>1. CloseSteps' = CloseSteps
  BY <1>0, SameTables
<1>2. /\ Len(CloseSteps) \in Nat
      /\ Len(CloseSteps) > 0 => CloseSteps[1] = "signal"
      /\ adapter \notin ReturnsEarly => Len(CloseSteps) > 0 /\ CloseSteps[Len(CloseSteps)] = "join"
  BY CloseTable, DeliveriesAssumption DEF TypeOK
<1>3. closing \in -1 .. Len(CloseSteps) /\ closed \in BOOLEAN /\ cancelled \in BOOLEAN
  BY DEF TypeOK
<1>4. CASE UNCHANGED <<loop, cancelled, closed, client, closing>>
  BY <1>0, <1>1, <1>4 DEF ClosingInv
<1>5. CASE Subscribe
  <2>1. ~closed /\ UNCHANGED <<cancelled, closed, client, closing>>
    BY <1>5 DEF Subscribe
  <2>2. ~(closing >= 1)
    BY <2>1 DEF ClosingInv
  <2>3. adapter \notin ReturnsEarly => closing # Len(CloseSteps)
    BY <1>2, <1>3, <2>2
  <2>4. QED
    BY <1>0, <1>1, <2>1, <2>3 DEF ClosingInv
<1>6. CASE Cancel
  BY <1>0, <1>1, <1>6 DEF Cancel, ClosingInv
<1>7. CASE LoopEnds
  <2>1. loop' = "ended" /\ UNCHANGED <<cancelled, closed, closing>>
    BY <1>7 DEF LoopEnds
  <2>2. cancelled \/ closed \/ client = "closed"
    BY <1>7 DEF LoopEnds, Stopped
  <2>3. cancelled \/ closing # -1
    BY <2>2 DEF ClosingInv
  <2>4. QED
    BY <1>0, <1>1, <2>1, <2>3 DEF ClosingInv
<1>8. CASE CloseCalled
  <2>1. closing' = 0 /\ UNCHANGED <<loop, closed>>
    BY <1>8 DEF CloseCalled
  <2>2. adapter \notin ReturnsEarly => closing' # Len(CloseSteps)
    BY <1>2, <2>1
  <2>3. closing' # -1 /\ ~(closing' >= 1)
    BY <2>1
  <2>4. QED
    BY <1>0, <1>1, <2>2, <2>3 DEF ClosingInv
<1>9. CASE CloseStep
  <2>1. /\ closing \in 0 .. Len(CloseSteps) - 1 /\ closing' = closing + 1 /\ loop' = loop
        /\ CloseSteps[closing + 1] = "join" => loop # "running"
        /\ closed' = (closed \/ CloseSteps[closing + 1] = "signal")
    BY <1>9 DEF CloseStep
  <2>2. closing' # -1 /\ closing' >= 1
    BY <1>2, <2>1
  <2>3. closed'
    <3>1. CASE closing = 0
      <4>1. Len(CloseSteps) > 0 /\ closing + 1 = 1
        BY <1>2, <2>1, <3>1
      <4>2. CloseSteps[closing + 1] = "signal"
        BY <1>2, <4>1
      <4>3. QED
        BY <2>1, <4>2
    <3>2. CASE closing >= 1
      BY <2>1, <3>2 DEF ClosingInv
    <3>3. QED
      BY <1>2, <2>1, <3>1, <3>2
  <2>4. adapter \notin ReturnsEarly /\ closing' = Len(CloseSteps) => loop # "running"
    BY <1>2, <2>1
  <2>5. QED
    BY <1>0, <1>1, <2>1, <2>2, <2>3, <2>4 DEF ClosingInv
<1>10. CASE Drained
  <2>1. client = "draining" /\ UNCHANGED <<loop, cancelled, closed, closing>>
    BY <1>10 DEF Drained
  <2>2. cancelled \/ closing # -1
    BY <2>1 DEF ClosingInv
  <2>3. QED
    BY <1>0, <1>1, <2>1, <2>2 DEF ClosingInv
<1>11. CASE Reconnect
  <2>2. client' \in {"open", "lost"}
    BY <1>11, LossLeaves
  <2>3. loop = "running" /\ UNCHANGED <<cancelled, closed, closing>>
    BY <1>11 DEF Reconnect
  <2>4. QED
    BY <1>0, <1>1, <2>2, <2>3 DEF ClosingInv
<1>12. CASE Crash
  <2>1. closing' = -1 /\ ~closed' /\ client' = "open" /\ loop' = "none"
    BY <1>12 DEF Crash
  <2>2. ~(closing' >= 1)
    BY <2>1
  <2>3. QED
    BY <2>1, <2>2 DEF ClosingInv
<1>13. QED
  BY <1>4, <1>5, <1>6, <1>7, <1>8, <1>9, <1>10, <1>11, <1>12
    DEF Next, vars, Publish, Deliver, Checkpoint, TimeOut, Return, Settle

LEMMA StopStep ==
  ASSUME TypeOK, NumberInv, StopInv, [Next]_vars
  PROVE  StopInv'
<1>1. HandlersInv' /\ ClosingInv' /\ NoneOut'
  BY StopParts, HandlersStep, ClosingStep, NoneOutStep
<1>2. QED
  BY <1>1 DEF StopInv, HandlersInv, ClosingInv, NoneOut

-----------------------------------------------------------------------------
(* A subscription that nobody has stopped.                                 *)

LEMMA OneCountMore ==
  ASSUME NEW m \in Messages, NEW q \in Numbers,
         task[m][q] = "none", task'[m][q] # "none",
         \A r \in Numbers : r # q => task'[m][r] = task[m][r]
  PROVE  Count(m)' = Count(m) + 1
<1> DEFINE R  == {r \in Numbers : task[m][r] # "none"}
           R1 == {r \in Numbers : task'[m][r] # "none"}
<1>1. IsFiniteSet(Numbers)
  BY FS_Interval, DeliveriesAssumption DEF Numbers
<1>2. R \subseteq Numbers /\ R1 = R \cup {q} /\ q \notin R
  OBVIOUS
<1>3. IsFiniteSet(R)
  BY <1>1, <1>2, FS_Subset
<1>4. Cardinality(R1) = Cardinality(R) + 1
  <2> HIDE DEF R, R1
  <2>1. QED
    BY <1>2, <1>3, FS_AddElement
<1>5. QED
  BY <1>4 DEF Count

LEMMA DeliverCounts ==
  ASSUME NEW m \in Messages, NEW r \in Numbers, NEW verdict, DeliverEffect(m, r, verdict)
  PROVE  /\ Count(m)' = r
         /\ \A n \in Messages \ {m} : Count(n)' = Count(n)
<1>1. task[m][r] = "none" /\ task'[m][r] # "none" /\ r = Count(m) + 1
  BY DEF DeliverEffect, OneChange
<1>2. \A q \in Numbers : q # r => task'[m][q] = task[m][q]
  BY DEF DeliverEffect, OneChange
<1>3. Count(m)' = r
  BY <1>1, <1>2, OneCountMore
<1>4. \A n \in Messages \ {m} : \A q \in Numbers : task'[n][q] = task[n][q]
  BY DEF DeliverEffect, OneChange
<1>5. \A n \in Messages \ {m} : Count(n)' = Count(n)
  BY <1>4, SameCount
<1>6. QED
  BY <1>3, <1>5

LEMMA ChangeCounts ==
  ASSUME NEW m \in Messages, NEW r \in Numbers, NEW v, NEW b, OneChange(m, r, v, b),
         v # "none", task[m][r] # "none"
  PROVE  \A n \in Messages : Count(n)' = Count(n)
<1>1. \A n \in Messages, q \in Numbers : task'[n][q] # "none" <=> task[n][q] # "none"
  BY DEF OneChange
<1>2. QED
  BY <1>1, SameCount

LEMMA SettleChange ==
  ASSUME TypeOK, NEW m \in Messages, NEW r \in Numbers, Settle(m, r)
  PROVE  \E v \in {"handled", "refused", "lost"}, b \in Places :
           /\ OneChange(m, r, v, b)
           /\ task[m][r] = "failed" <=> v # "handled"
           /\ b = "out" => broker[m] = "out" /\ MayFail(Verb(m, r), m, r)
<1>1. task[m][r] \in Returned /\ Verb(m, r) \in Verbs /\ SettleEffect(m, r, Verb(m, r))
  BY SettleDoes
<1>2. broker[m] \in Places
  BY DEF TypeOK, Places
<1>3. MayPass(Verb(m, r), m, r) => Settled(Verb(m, r), m) \in {"gone", "dead", "ready"}
  BY <1>1, SettledIs DEF MayPass
<1>4. CASE /\ MayPass(Verb(m, r), m, r)
           /\ OneChange(m, r, IF task[m][r] = "failed" THEN "refused" ELSE "handled", Settled(Verb(m, r), m))
  <2>1. PICK v \in {"handled", "refused"} : v = IF task[m][r] = "failed" THEN "refused" ELSE "handled"
    OBVIOUS
  <2>2. PICK b \in Places : b = Settled(Verb(m, r), m) /\ b # "out"
    BY <1>3, <1>4 DEF Places
  <2>3. OneChange(m, r, v, b)
    BY <1>4, <2>1, <2>2
  <2>4. QED
    BY <2>1, <2>2, <2>3
<1>5. CASE /\ MayFail(Verb(m, r), m, r)
           /\ OneChange(m, r, Unsettled(task[m][r], Verb(m, r)), broker[m])
  <2>1. PICK v \in {"handled", "refused", "lost"} : v = Unsettled(task[m][r], Verb(m, r))
    BY DEF Unsettled
  <2>2. OneChange(m, r, v, broker[m])
    BY <1>5, <2>1
  <2>3. task[m][r] = "failed" <=> v # "handled"
    BY <2>1 DEF Unsettled
  <2>4. PICK b \in Places : b = broker[m]
    BY <1>2
  <2>5. OneChange(m, r, v, b) /\ (b = "out" => broker[m] = "out" /\ MayFail(Verb(m, r), m, r))
    BY <1>5, <2>2, <2>4
  <2>6. QED
    BY <2>3, <2>5
<1>6. QED
  BY <1>1, <1>4, <1>5 DEF SettleEffect

LEMMA RunStep ==
  ASSUME TypeOK, NumberInv, StopInv, RunInv, [Next]_vars
  PROVE  RunInv'
<1>0. adapter' = adapter /\ (TimesOut <=> TimesOut')
  BY TypeStep, SameTables
<1> DEFINE Held(n) == broker[n] = "out" =>
                        TimesOut \/ adapter = "eventhubs" \/ (Count(n) \in Numbers /\ Active(n, Count(n)))
<1> SUFFICES ASSUME adapter \notin Strands, ~cancelled', closing' = -1
             PROVE  /\ loop' # "ended" /\ client' = "open"
                    /\ \A n \in Messages : Held(n)'
  BY <1>0 DEF RunInv
<1>1. ASSUME ~cancelled, closing = -1
      PROVE  loop # "ended" /\ client = "open" /\ ~closed /\ \A n \in Messages : Held(n)
  BY <1>1 DEF RunInv, StopInv
<1>2. ASSUME NEW m \in Messages, Deliver(m)
      PROVE  loop' # "ended" /\ client' = "open" /\ \A n \in Messages : Held(n)'
  <2>1. PICK r \in Numbers, verdict \in {"handle", "skip", "reset", "delete"} : DeliverEffect(m, r, verdict)
    BY <1>2, DeliverDoes
  <2>2. UNCHANGED <<loop, cancelled, closed, client, closing>>
    BY <1>2 DEF Deliver
  <2>3. loop # "ended" /\ client = "open" /\ ~closed /\ \A n \in Messages : Held(n)
    BY <1>1, <2>2
  <2>4. Count(m)' = r /\ \A n \in Messages \ {m} : Count(n)' = Count(n)
    BY <2>1, DeliverCounts
  <2>5. Held(m)'
    <3>1. verdict # "skip"
      BY <2>1, <2>2, <2>3 DEF DeliverEffect
    <3>2. broker'[m] = "out" => task'[m][r] = "handling"
      BY <2>1, <3>1 DEF DeliverEffect, OneChange
    <3>3. broker'[m] = "out" => task'[m][Count(m)'] = "handling"
      BY <2>4, <3>2
    <3>4. QED
      BY <2>4, <3>3 DEF Active, Handling
  <2>6. ASSUME NEW n \in Messages \ {m} PROVE Held(n)'
    <3>1. broker'[n] = broker[n] /\ \A q \in Numbers : task'[n][q] = task[n][q]
      BY <2>1 DEF DeliverEffect, OneChange
    <3>2. Held(n) /\ Count(n)' = Count(n)
      BY <2>3, <2>4
    <3>3. QED
      BY <1>0, <3>1, <3>2 DEF Active
  <2>7. QED
    BY <2>2, <2>3, <2>5, <2>6
<1>3. ASSUME NEW m \in Messages, NEW r \in Numbers, NEW v, NEW b, OneChange(m, r, v, b),
             v # "none", task[m][r] # "none", b = "out" => broker[m] = "out",
             b = "out" /\ r = Count(m) => TimesOut \/ adapter = "eventhubs" \/ v \in Handling \cup Returned
      PROVE  loop' # "ended" /\ client' = "open" /\ \A n \in Messages : Held(n)'
  <2>1. UNCHANGED <<loop, cancelled, closed, client, closing>>
    BY <1>3 DEF OneChange
  <2>2. loop # "ended" /\ client = "open" /\ \A n \in Messages : Held(n)
    BY <1>1, <2>1
  <2>3. \A n \in Messages : Count(n)' = Count(n)
    BY <1>3, ChangeCounts
  <2>4. ASSUME NEW n \in Messages PROVE Held(n)'
    <3>1. CASE n = m /\ r = Count(m)
      <4>1. task'[m][r] = v /\ broker'[m] = b /\ Count(m)' = r
        BY <1>3, <2>3, <3>1 DEF OneChange
      <4>2. b = "out" => TimesOut' \/ adapter' = "eventhubs" \/ Active(m, r)'
        BY <1>0, <1>3, <3>1, <4>1 DEF Active
      <4>3. QED
        BY <3>1, <4>1, <4>2
    <3>2. CASE n # m \/ r # Count(m)
      <4>1. broker'[n] = "out" => broker[n] = "out"
        BY <1>3 DEF OneChange
      <4>2. Count(n) \in Numbers => task'[n][Count(n)] = task[n][Count(n)]
        BY <1>3, <3>2 DEF OneChange
      <4>3. QED
        BY <1>0, <2>2, <2>3, <4>1, <4>2 DEF Active
    <3>3. QED
      BY <3>1, <3>2
  <2>5. QED
    BY <2>1, <2>2, <2>4
<1>4. ASSUME NEW m \in Messages, NEW r \in Numbers, Return(m, r)
      PROVE  loop' # "ended" /\ client' = "open" /\ \A n \in Messages : Held(n)'
  <2>1. PICK v \in Handling \cup Returned : OneChange(m, r, v, broker[m])
    BY <1>4, ReturnDoes
  <2>2. v # "none" /\ task[m][r] # "none"
    BY <1>4 DEF Return, Handling, Returned
  <2>3. QED
    BY <1>3, <2>1, <2>2
<1>5. ASSUME NEW m \in Messages, NEW r \in Numbers, Settle(m, r)
      PROVE  loop' # "ended" /\ client' = "open" /\ \A n \in Messages : Held(n)'
  <2>1. PICK v \in {"handled", "refused", "lost"}, b \in Places :
           /\ OneChange(m, r, v, b)
           /\ task[m][r] = "failed" <=> v # "handled"
           /\ b = "out" => broker[m] = "out" /\ MayFail(Verb(m, r), m, r)
    BY <1>5, SettleChange
  <2>2. task[m][r] \in Returned
    BY <1>5 DEF Settle
  <2>3. client = "open" /\ ~closed /\ ~cancelled
    BY <1>1, <2>1 DEF OneChange
  <2>4. b = "out" /\ r = Count(m) => TimesOut \/ adapter = "eventhubs"
    <3> SUFFICES ASSUME b = "out", r = Count(m), ~TimesOut, adapter # "eventhubs" PROVE FALSE
      OBVIOUS
    <3>1. broker[m] = "out" /\ MayFail(Verb(m, r), m, r)
      BY <2>1
    <3>2. ~ForgetsAtOnce
      BY <3>1 DEF StopInv
    <3>3. Verb(m, r) \in {"ack", "nack"}
      BY <2>2, <3>2, HandleTable, DeliveriesAssumption DEF TypeOK, Verb, Returned
    <3>4. QED
      BY <2>3, <3>1, <3>3 DEF MayFail, MayPass
  <2>5. v # "none" /\ task[m][r] # "none"
    BY <2>1, <2>2 DEF Returned
  <2>6. QED
    BY <1>3, <2>1, <2>4, <2>5
<1>6. ASSUME NEW m \in Messages, Publish(m) \/ Checkpoint(m) \/ TimeOut(m)
      PROVE  loop' # "ended" /\ client' = "open" /\ \A n \in Messages : Held(n)'
  <2>1. PICK from \in {"none", "out"}, to \in {"ready", "gone"} : Moves(m, from, to)
    BY <1>6, MoveDoes
  <2>2. UNCHANGED <<loop, cancelled, closed, client, closing, task>>
    BY <2>1 DEF Moves
  <2>3. \A n \in Messages : broker'[n] = "out" => broker[n] = "out"
    BY <2>1 DEF Moves
  <2>4. \A n \in Messages : Held(n)
    BY <1>1, <2>2
  <2>5. \A n \in Messages : Held(n)'
    BY <1>0, <2>2, <2>3, <2>4 DEF Active, Count
  <2>6. QED
    BY <1>1, <2>2, <2>5
<1>7. CASE Subscribe \/ Cancel \/ LoopEnds \/ CloseCalled \/ CloseStep \/ Drained \/ Reconnect
  <2>1. task' = task /\ \A m \in Messages : Wide(m)
    BY <1>7, WideDoes
  <2>2. ~Cancel /\ ~CloseCalled
    BY DEF Cancel, CloseCalled
  <2>3. ~CloseStep
    <3>1. CloseStep => closing' # -1
      BY CloseTable, DeliveriesAssumption DEF CloseStep, TypeOK
    <3>2. QED
      BY <3>1
  <2>4. cancelled' = cancelled /\ closing' = closing
    BY <1>7, <2>2, <2>3 DEF Subscribe, LoopEnds, Drained, Reconnect
  <2>5. loop # "ended" /\ client = "open" /\ ~closed /\ \A n \in Messages : Held(n)
    BY <1>1, <2>4
  <2>6. ~LoopEnds /\ ~Drained
    BY <2>4, <2>5 DEF LoopEnds, Drained, Stopped
  <2>7. loop' # "ended" /\ client' = "open"
    <3>1. CASE Subscribe
      BY <2>5, <3>1 DEF Subscribe
    <3>2. CASE Reconnect
      BY <3>2, LossLeaves DEF Strands
    <3>3. QED
      BY <1>7, <2>2, <2>3, <2>6, <3>1, <3>2
  <2>8. \A n \in Messages : broker'[n] = "out" => broker[n] = "out"
    BY <2>1 DEF Wide
  <2>9. \A n \in Messages : Held(n)'
    BY <1>0, <2>1, <2>5, <2>8 DEF Active, Count
  <2>10. QED
    BY <2>7, <2>9
<1>8. CASE Crash
  <2>1. \A n \in Messages : broker'[n] = IF ~TimesOut /\ broker[n] = "out" THEN "ready" ELSE broker[n]
    BY <1>8, CrashDoes
  <2>2. \A n \in Messages : Held(n)'
    BY <1>0, <2>1
  <2>3. QED
    BY <1>8, <2>2 DEF Crash
<1>9. CASE UNCHANGED vars
  BY <1>0, <1>1, <1>9 DEF vars, Active, Count
<1>10. QED
  BY <1>2, <1>4, <1>5, <1>6, <1>7, <1>8, <1>9, NextSplits

-----------------------------------------------------------------------------
(* Messages that leave their queue.                                        *)

\* What has been handled, or has failed, stays so.
LEMMA HandledStays ==
  ASSUME TypeOK, NumberInv, [Next]_vars, NEW n \in Messages, NEW q \in Numbers,
         task[n][q] \in {"handled", "refused", "skipped", "lost"}
  PROVE  task'[n][q] = task[n][q]
<1>1. ASSUME NEW m \in Messages, Deliver(m) PROVE task'[n][q] = task[n][q]
  <2>1. PICK r \in Numbers, verdict \in {"handle", "skip", "reset", "delete"} : DeliverEffect(m, r, verdict)
    BY <1>1, DeliverDoes
  <2>2. n # m \/ q # r
    BY <2>1 DEF DeliverEffect
  <2>3. QED
    BY <2>1, <2>2 DEF DeliverEffect, OneChange
<1>2. ASSUME NEW m \in Messages, NEW r \in Numbers, Return(m, r) PROVE task'[n][q] = task[n][q]
  <2>1. PICK v \in Handling \cup Returned : OneChange(m, r, v, broker[m])
    BY <1>2, ReturnDoes
  <2>2. n # m \/ q # r
    BY <1>2 DEF Return, Handling
  <2>3. QED
    BY <2>1, <2>2 DEF OneChange
<1>3. ASSUME NEW m \in Messages, NEW r \in Numbers, Settle(m, r) PROVE task'[n][q] = task[n][q]
  <2>1. PICK v \in {"handled", "refused", "lost"}, b \in Places : OneChange(m, r, v, b)
    BY <1>3, SettleChange
  <2>2. n # m \/ q # r
    BY <1>3 DEF Settle, Returned
  <2>3. QED
    BY <2>1, <2>2 DEF OneChange
<1>4. ASSUME NEW m \in Messages, Publish(m) \/ Checkpoint(m) \/ TimeOut(m) PROVE task'[n][q] = task[n][q]
  BY <1>4 DEF Publish, Checkpoint, TimeOut
<1>5. CASE Subscribe \/ Cancel \/ LoopEnds \/ CloseCalled \/ CloseStep \/ Drained \/ Reconnect
  BY <1>5, WideDoes
<1>6. CASE Crash
  BY <1>6, CrashDoes DEF Active, Handling, Returned
<1>7. CASE UNCHANGED vars
  BY <1>7 DEF vars
<1>8. QED
  BY <1>1, <1>2, <1>3, <1>4, <1>5, <1>6, <1>7, NextSplits

\* How a message comes to be gone, or dead.
LEMMA Leaving ==
  ASSUME TypeOK, NumberInv, [Next]_vars, NEW n \in Messages,
         broker[n] # broker'[n], broker'[n] \in {"gone", "dead"}
  PROVE  \/ StartsWithNext /\ broker'[n] = "gone"
         \/ adapter = "eventhubs" /\ broker'[n] = "gone"
         \/ \E r \in Numbers :
              /\ \E verdict \in {"handle", "skip", "reset", "delete"} : DeliverEffect(n, r, verdict)
              /\ broker'[n] = "gone"
         \/ \E r \in Numbers :
              /\ task[n][r] \in Returned /\ Verb(n, r) \in Verbs \ {"leave"}
              /\ broker'[n] = Settled(Verb(n, r), n)
              /\ OneChange(n, r, IF task[n][r] = "failed" THEN "refused" ELSE "handled",
                           Settled(Verb(n, r), n))
<1> DEFINE Goal ==
         \/ StartsWithNext /\ broker'[n] = "gone"
         \/ adapter = "eventhubs" /\ broker'[n] = "gone"
         \/ \E r \in Numbers :
              /\ \E verdict \in {"handle", "skip", "reset", "delete"} : DeliverEffect(n, r, verdict)
              /\ broker'[n] = "gone"
         \/ \E r \in Numbers :
              /\ task[n][r] \in Returned /\ Verb(n, r) \in Verbs \ {"leave"}
              /\ broker'[n] = Settled(Verb(n, r), n)
              /\ OneChange(n, r, IF task[n][r] = "failed" THEN "refused" ELSE "handled",
                           Settled(Verb(n, r), n))
<1>1. ASSUME NEW m \in Messages, Deliver(m) PROVE Goal
  <2>1. PICK r \in Numbers, verdict \in {"handle", "skip", "reset", "delete"} : DeliverEffect(m, r, verdict)
    BY <1>1, DeliverDoes
  <2>2. n = m
    BY <2>1 DEF DeliverEffect, OneChange
  <2>3. broker'[n] = "gone"
    BY <2>1, <2>2 DEF DeliverEffect, OneChange
  <2>4. QED
    BY <2>1, <2>2, <2>3
<1>2. ASSUME NEW m \in Messages, NEW r \in Numbers, Return(m, r) PROVE Goal
  BY <1>2 DEF Return
<1>3. ASSUME NEW m \in Messages, NEW r \in Numbers, Settle(m, r) PROVE Goal
  <2>1. task[m][r] \in Returned /\ Verb(m, r) \in Verbs /\ SettleEffect(m, r, Verb(m, r))
    BY <1>3, SettleDoes
  <2>2. n = m
    BY <2>1 DEF SettleEffect, OneChange
  <2>3. /\ MayPass(Verb(n, r), n, r)
        /\ OneChange(n, r, IF task[n][r] = "failed" THEN "refused" ELSE "handled",
                     Settled(Verb(n, r), n))
    BY <2>1, <2>2 DEF SettleEffect, OneChange
  <2>4. Verb(n, r) # "leave"
    BY <2>3 DEF MayPass
  <2>5. broker'[n] = Settled(Verb(n, r), n)
    BY <2>3 DEF OneChange
  <2>6. QED
    BY <2>1, <2>2, <2>3, <2>4, <2>5
<1>4. ASSUME NEW m \in Messages, Publish(m) \/ Checkpoint(m) \/ TimeOut(m) PROVE Goal
  BY <1>4, MoveDoes DEF Moves
<1>5. CASE Subscribe \/ Cancel \/ LoopEnds \/ CloseCalled \/ CloseStep \/ Drained \/ Reconnect
  BY <1>5, WideDoes DEF Wide
<1>6. CASE Crash
  BY <1>6, CrashDoes
<1>7. CASE UNCHANGED vars
  BY <1>7 DEF vars
<1>8. QED
  BY <1>1, <1>2, <1>3, <1>4, <1>5, <1>6, <1>7, NextSplits

LEMMA GoneStep ==
  ASSUME TypeOK, NumberInv, GoneInv, [Next]_vars
  PROVE  GoneInv'
<1>0. adapter' = adapter
  BY TypeStep
<1> SUFFICES ASSUME adapter \notin AtMostOnce, NEW n \in Messages, broker'[n] = "gone"
             PROVE  Handled(n)'
  BY <1>0 DEF GoneInv
<1>1. CASE broker[n] = "gone"
  <2>1. PICK q \in Numbers : task[n][q] = "handled"
    BY <1>1 DEF GoneInv, Handled
  <2>2. task'[n][q] = "handled"
    BY <2>1, HandledStays
  <2>3. QED
    BY <2>2 DEF Handled
<1>2. CASE broker[n] # "gone"
  <2>1. ~StartsWithNext /\ adapter # "eventhubs" /\ ~ForgetsAtOnce
        /\ adapter \notin {"snssqs single", "snssqs parallel"}
    BY DEF StartsWithNext, ForgetsAtOnce, AtMostOnce
  <2>2. ASSUME NEW r \in Numbers, NEW verdict, DeliverEffect(n, r, verdict) PROVE FALSE
    BY <2>1, <2>2 DEF DeliverEffect, OneChange
  <2>3. PICK r \in Numbers :
              /\ task[n][r] \in Returned /\ Verb(n, r) \in Verbs \ {"leave"}
              /\ broker'[n] = Settled(Verb(n, r), n)
              /\ OneChange(n, r, IF task[n][r] = "failed" THEN "refused" ELSE "handled",
                           Settled(Verb(n, r), n))
    BY <1>2, <2>1, <2>2, Leaving
  <2>4. Verb(n, r) \in {"ack", "ctx ack"}
    <3>1. Settled(Verb(n, r), n) = "gone" /\ Verb(n, r) \in Verbs /\ Verb(n, r) # "leave"
      BY <2>3
    <3>2. QED
      BY <3>1, SettledIs
  <2>5. task[n][r] # "failed"
    BY <2>4, HandleTable, DeliveriesAssumption DEF TypeOK, Verb
  <2>6. task'[n][r] = "handled"
    BY <2>3, <2>5 DEF OneChange
  <2>7. QED
    BY <2>6 DEF Handled
<1>3. QED
  BY <1>1, <1>2

LEMMA DeadStep ==
  ASSUME TypeOK, NumberInv, DeadInv, [Next]_vars
  PROVE  DeadInv'
<1>0. adapter' = adapter
  BY TypeStep
<1> SUFFICES ASSUME NEW n \in Messages, broker'[n] = "dead"
             PROVE  \/ adapter = "zeebe" /\ Failures(n)' >= RetryLimit
                    \/ adapter = "solace" /\ Failures(n)' > 0
  BY <1>0 DEF DeadInv
<1>1. CASE broker[n] = "dead"
  <2>1. \A r \in Numbers : task[n][r] = "refused" => task'[n][r] = "refused"
    BY HandledStays
  <2>2. Failures(n) \in Nat /\ Failures(n)' \in Nat /\ Failures(n) <= Failures(n)'
    BY <2>1, FailuresGrow
  <2>3. \/ adapter = "zeebe" /\ Failures(n) >= RetryLimit
        \/ adapter = "solace" /\ Failures(n) > 0
    BY <1>1 DEF DeadInv
  <2>4. QED
    BY <2>2, <2>3, DeliveriesAssumption
<1>2. CASE broker[n] # "dead"
  <2>1. PICK r \in Numbers :
              /\ task[n][r] \in Returned /\ Verb(n, r) \in Verbs \ {"leave"}
              /\ broker'[n] = Settled(Verb(n, r), n)
              /\ OneChange(n, r, IF task[n][r] = "failed" THEN "refused" ELSE "handled",
                           Settled(Verb(n, r), n))
    BY <1>2, Leaving
  <2>2. Verb(n, r) \in {"ctx reject", "fail job"}
    BY <2>1, SettledIs
  <2>3. task[n][r] = "failed" /\ Verb(n, r) = Handle.err
    BY <2>1, <2>2, HandleTable, DeliveriesAssumption DEF TypeOK, Verb, Returned
  <2>4. task'[n][r] = "refused" /\ \A q \in Numbers : q # r => task'[n][q] = task[n][q]
    BY <2>1, <2>3 DEF OneChange
  <2>5. Failures(n) \in Nat /\ Failures(n)' = Failures(n) + 1
    BY <2>3, <2>4, OneFailureMore
  <2>6. CASE Verb(n, r) = "ctx reject"
    <3>1. adapter = "solace"
      BY <2>3, <2>6, HandleTable, DeliveriesAssumption DEF TypeOK
    <3>2. QED
      BY <2>5, <3>1
  <2>7. CASE Verb(n, r) = "fail job"
    <3>1. adapter = "zeebe"
      BY <2>3, <2>7, HandleTable, DeliveriesAssumption DEF TypeOK
    <3>2. ZeebeFailJob(Failures(n), RetryLimit) = "dead"
      BY <2>1, <2>7 DEF Settled
    <3>3. ~(RetryLimit - Failures(n) > 1)
      BY <3>2 DEF ZeebeFailJob
    <3>4. QED
      BY <2>5, <3>1, <3>3, DeliveriesAssumption
  <2>8. QED
    BY <2>2, <2>6, <2>7
<1>3. QED
  BY <1>1, <1>2

LEMMA PassStep ==
  ASSUME TypeOK, NumberInv, PassInv, [Next]_vars
  PROVE  PassInv'
<1>0. adapter' = adapter
  BY TypeStep
<1> SUFFICES ASSUME adapter \in PassesOver, NEW n \in Messages, broker'[n] = "gone"
             PROVE  Handled(n)' \/ Failures(n)' > 0
  BY <1>0 DEF PassInv
<1>1. CASE broker[n] = "gone"
  <2>1. CASE Handled(n)
    <3>1. PICK q \in Numbers : task[n][q] = "handled"
      BY <2>1 DEF Handled
    <3>2. task'[n][q] = "handled"
      BY <3>1, HandledStays
    <3>3. QED
      BY <3>2 DEF Handled
  <2>2. CASE Failures(n) > 0
    <3>1. \A r \in Numbers : task[n][r] = "refused" => task'[n][r] = "refused"
      BY HandledStays
    <3>2. Failures(n) \in Nat /\ Failures(n)' \in Nat /\ Failures(n) <= Failures(n)'
      BY <3>1, FailuresGrow
    <3>3. QED
      BY <2>2, <3>2
  <2>3. QED
    BY <1>1, <2>1, <2>2 DEF PassInv
<1>2. CASE broker[n] # "gone"
  <2>1. ~StartsWithNext /\ adapter # "eventhubs" /\ ~ForgetsAtOnce
        /\ adapter \notin {"snssqs single", "snssqs parallel"}
    BY DEF StartsWithNext, ForgetsAtOnce, PassesOver
  <2>2. ASSUME NEW r \in Numbers, NEW verdict, DeliverEffect(n, r, verdict) PROVE FALSE
    BY <2>1, <2>2 DEF DeliverEffect, OneChange, PassesOver
  <2>3. PICK r \in Numbers :
              /\ task[n][r] \in Returned /\ Verb(n, r) \in Verbs \ {"leave"}
              /\ broker'[n] = Settled(Verb(n, r), n)
              /\ OneChange(n, r, IF task[n][r] = "failed" THEN "refused" ELSE "handled",
                           Settled(Verb(n, r), n))
    BY <1>2, <2>1, <2>2, Leaving
  <2>4. CASE task[n][r] # "failed"
    <3>1. task'[n][r] = "handled"
      BY <2>3, <2>4 DEF OneChange
    <3>2. QED
      BY <3>1 DEF Handled
  <2>5. CASE task[n][r] = "failed"
    <3>1. task'[n][r] = "refused" /\ \A q \in Numbers : q # r => task'[n][q] = task[n][q]
      BY <2>3, <2>5 DEF OneChange
    <3>2. Failures(n) \in Nat /\ Failures(n)' = Failures(n) + 1
      BY <2>5, <3>1, OneFailureMore
    <3>3. QED
      BY <3>2
  <2>6. QED
    BY <2>4, <2>5
<1>3. QED
  BY <1>1, <1>2

-----------------------------------------------------------------------------
(* The retry limit of snssqs.                                              *)

\* A delivery under way is the latest, and its message is out or gone.
LEMMA TriedActive ==
  ASSUME NEW m \in Messages, NEW r \in Numbers, Tried(m), Active(m, r)
  PROVE  /\ broker[m] \notin {"none", "ready"}
         /\ broker[m] = "out" => r = Count(m) /\ RefusedBefore(m, r)
<1>1. task[m][r] \notin {"none", "refused"}
  BY DEF Active, Handling, Returned
<1>2. r # 0
  BY DEF Numbers
<1>3. QED
  BY <1>1, <1>2 DEF Tried, RefusedBefore

LEMMA TriedFrame ==
  ASSUME NEW n \in Messages, Tried(n), broker'[n] = broker[n],
         \A q \in Numbers : task'[n][q] = task[n][q]
  PROVE  Tried(n)'
<1>1. Count(n)' = Count(n)
  BY SameCount
<1>2. Failures(n)' = Failures(n)
  <2>1. {q \in Numbers : task'[n][q] = "refused"} = {q \in Numbers : task[n][q] = "refused"}
    OBVIOUS
  <2>2. QED
    BY <2>1 DEF Failures
<1>3. Handled(n) => Handled(n)'
  BY DEF Handled
<1>4. \A k : RefusedBefore(n, k) => RefusedBefore(n, k)'
  BY DEF RefusedBefore
<1>5. QED
  BY <1>1, <1>2, <1>3, <1>4 DEF Tried

\* A message that is gone stays gone, whatever becomes of its deliveries.
LEMMA TriedGone ==
  ASSUME TypeOK, NumberInv, [Next]_vars, NEW n \in Messages, Tried(n),
         broker[n] = "gone", broker'[n] = "gone"
  PROVE  Tried(n)'
<1>1. Handled(n) => Handled(n)'
  BY HandledStays DEF Handled
<1>2. \A r \in Numbers : task[n][r] = "refused" => task'[n][r] = "refused"
  BY HandledStays
<1>3. Failures(n) \in Nat /\ Failures(n)' \in Nat /\ Failures(n) <= Failures(n)'
  BY <1>2, FailuresGrow
<1>4. Failures(n) >= RetryLimit - 1 => Failures(n)' >= RetryLimit - 1
  BY <1>3, DeliveriesAssumption
<1>5. Handled(n) \/ Failures(n) >= RetryLimit - 1
  BY DEF Tried
<1>6. QED
  BY <1>1, <1>4, <1>5 DEF Tried

LEMMA SqsClient ==
  ASSUME TypeOK, NumberInv, SqsInv, [Next]_vars, adapter \in SnsSqs
  PROVE  client' = "open"
<1>1. client = "open"
  BY DEF SqsInv
<1>2. CASE UNCHANGED client
  BY <1>1, <1>2
<1>3. CASE LoopEnds
  BY <1>1, <1>3 DEF LoopEnds, DisconnectsItself, SnsSqs
<1>4. CASE CloseStep
  <2>1. \A i \in 1 .. Len(CloseSteps) : CloseSteps[i] = "signal"
    BY CloseTable, DeliveriesAssumption DEF TypeOK
  <2>2. closing + 1 \in 1 .. Len(CloseSteps)
    BY <1>4, CloseTable, DeliveriesAssumption DEF TypeOK, CloseStep
  <2>3. CloseSteps[closing + 1] = "signal"
    BY <2>1, <2>2
  <2>4. QED
    BY <1>1, <1>4, <2>3 DEF CloseStep
<1>5. CASE Drained
  BY <1>1, <1>5 DEF Drained
<1>6. CASE Reconnect
  BY <1>6, LossLeaves DEF SnsSqs
<1>7. CASE Crash
  BY <1>7 DEF Crash
<1>8. QED
  BY <1>2, <1>3, <1>4, <1>5, <1>6, <1>7
    DEF Next, vars, Publish, Deliver, Checkpoint, TimeOut, Return, Settle, Subscribe, Cancel, CloseCalled

LEMMA NotZero == \A q \in Numbers : q # 0
  BY DEF Numbers

LEMMA AtLimit ==
  ASSUME NEW c \in 0 .. MaxReceives, NEW r \in Numbers, r = c + 1, r >= RetryLimit
  PROVE  c >= RetryLimit - 1
  BY DeliveriesAssumption DEF Numbers

\* A subscription that has been stopped stays so until the process ends.
LEMMA OnlyMore ==
  ASSUME Subscribe \/ Cancel \/ LoopEnds \/ CloseCalled \/ CloseStep \/ Drained \/ Reconnect
  PROVE  (cancelled => cancelled') /\ (closed => closed') /\ disturbed \subseteq disturbed'
<1>1. CASE CloseStep
  <2>1. closed' = (closed \/ CloseSteps[closing + 1] = "signal") /\ UNCHANGED <<cancelled, disturbed>>
    BY <1>1 DEF CloseStep
  <2>2. QED
    BY <2>1
<1>2. CASE Subscribe \/ LoopEnds \/ CloseCalled \/ Drained \/ Reconnect
  <2>1. UNCHANGED <<cancelled, closed>> /\ disturbed \subseteq disturbed'
    BY <1>2 DEF Subscribe, LoopEnds, CloseCalled, Drained, Reconnect
  <2>2. QED
    BY <2>1
<1>3. CASE Cancel
  <2>1. cancelled' = TRUE /\ UNCHANGED <<closed, disturbed>>
    BY <1>3 DEF Cancel
  <2>2. QED
    BY <2>1
<1>4. QED
  BY <1>1, <1>2, <1>3

LEMMA SqsStep ==
  ASSUME TypeOK, NumberInv, SqsInv, [Next]_vars
  PROVE  SqsInv'
<1>0. adapter' = adapter
  BY TypeStep
<1> SUFFICES ASSUME adapter \in SnsSqs, adapter # "snssqs keep", ~cancelled', ~closed',
                    NEW n \in Messages \ disturbed'
             PROVE  Tried(n)'
  BY <1>0, SqsClient DEF SqsInv
<1>1. TimesOut /\ ~ForgetsAtOnce /\ ~StartsWithNext /\ adapter # "eventhubs"
  BY DEF TimesOut, ForgetsAtOnce, StartsWithNext, SnsSqs
<1>2. client = "open"
  BY DEF SqsInv
<1>3. ASSUME UNCHANGED <<cancelled, closed>>, disturbed \subseteq disturbed'
      PROVE  Tried(n) /\ ~cancelled /\ ~closed
  BY <1>3 DEF SqsInv
<1>4. ASSUME NEW m \in Messages, Deliver(m) PROVE Tried(n)'
  <2>1. PICK r \in Numbers, verdict \in {"handle", "skip", "reset", "delete"} : DeliverEffect(m, r, verdict)
    BY <1>4, DeliverDoes
  <2>2. Tried(n) /\ ~cancelled /\ ~closed
    BY <1>3, <1>4 DEF Deliver
  <2>3. CASE n # m
    <3>1. broker'[n] = broker[n] /\ \A q \in Numbers : task'[n][q] = task[n][q]
      BY <2>1, <2>3 DEF DeliverEffect, OneChange
    <3>2. QED
      BY <2>2, <3>1, TriedFrame
  <2>4. CASE n = m
    <3>1. RefusedBefore(n, 0)
      BY <2>1, <2>2, <2>4 DEF DeliverEffect, Tried
    <3>2. \A q \in Numbers : task[n][q] \in {"none", "refused"}
      BY <3>1, NotZero DEF RefusedBefore
    <3>3. \/ verdict = "handle" /\ OneChange(n, r, "handling", "out")
          \/ r >= RetryLimit /\ OneChange(n, r, "skipped", "gone")
      BY <1>1, <2>1, <2>2, <2>4 DEF DeliverEffect
    <3>4. CASE OneChange(n, r, "handling", "out")
      <4>1. broker'[n] = "out" /\ task'[n][r] = "handling" /\ Count(n)' = r
        BY <2>1, <2>4, <3>4, DeliverCounts DEF OneChange
      <4>2. RefusedBefore(n, r)'
        BY <3>2, <3>4 DEF OneChange, RefusedBefore
      <4>3. QED
        BY <4>1, <4>2 DEF Tried, Handling
    <3>5. CASE r >= RetryLimit /\ OneChange(n, r, "skipped", "gone")
      <4>1. broker'[n] = "gone" /\ task'[n][r] = "skipped" /\ task[n][r] = "none" /\ r = Count(n) + 1
        BY <2>1, <2>4, <3>5 DEF DeliverEffect, OneChange
      <4>2. \A q \in Numbers : task'[n][q] = "refused" <=> task[n][q] = "refused"
        BY <3>5, <4>1 DEF OneChange
      <4>3. Failures(n)' = Failures(n)
        <5>1. {q \in Numbers : task'[n][q] = "refused"} = {q \in Numbers : task[n][q] = "refused"}
          BY <4>2
        <5>2. QED
          BY <5>1 DEF Failures
      <4>4. Failures(n) = Count(n)
        BY <3>2, AllFailed
      <4>5. Count(n) \in 0 .. MaxReceives
        BY CountOf
      <4>6. Failures(n)' >= RetryLimit - 1
        <5>1. PICK c \in 0 .. MaxReceives : c = Count(n)
          BY <4>5
        <5>2. r = c + 1 /\ r >= RetryLimit /\ Failures(n)' = c
          BY <3>5, <4>1, <4>3, <4>4, <5>1
        <5>3. c >= RetryLimit - 1
          BY <5>2, AtLimit
        <5>4. QED
          BY <5>2, <5>3
      <4>7. QED
        BY <4>1, <4>6 DEF Tried
    <3>6. QED
      BY <3>3, <3>4, <3>5
  <2>5. QED
    BY <2>3, <2>4
<1>5. ASSUME NEW m \in Messages, NEW r \in Numbers, Return(m, r) PROVE Tried(n)'
  <2>1. PICK v \in Handling \cup Returned : OneChange(m, r, v, broker[m])
    BY <1>5, ReturnDoes
  <2>2. Tried(n) /\ ~cancelled /\ ~closed
    BY <1>3, <1>5 DEF Return
  <2>3. Active(m, r) /\ task[m][r] # "none" /\ v # "none"
    BY <1>5 DEF Return, Active, Handling, Returned
  <2>4. broker'[n] = broker[n]
    BY <2>1 DEF OneChange
  <2>5. CASE n # m
    <3>1. \A q \in Numbers : task'[n][q] = task[n][q]
      BY <2>1, <2>5 DEF OneChange
    <3>2. QED
      BY <2>2, <2>4, <3>1, TriedFrame
  <2>6. CASE n = m /\ broker[n] = "gone"
    BY <2>2, <2>4, <2>6, TriedGone
  <2>7. CASE n = m /\ broker[n] # "gone"
    <3>1. broker[n] \notin {"none", "ready"} /\ (broker[n] = "out" => r = Count(n) /\ RefusedBefore(n, r))
      BY <2>2, <2>3, <2>7, TriedActive
    <3>2. Count(n)' = Count(n)
      BY <2>1, <2>3, ChangeCounts
    <3>3. RefusedBefore(n, r) => RefusedBefore(n, r)'
      BY <2>1, <2>7 DEF OneChange, RefusedBefore
    <3>4. task'[n][r] = v
      BY <2>1, <2>7 DEF OneChange
    <3>5. QED
      BY <2>4, <2>7, <3>1, <3>2, <3>3, <3>4 DEF Tried
  <2>8. QED
    BY <2>5, <2>6, <2>7
<1>6. ASSUME NEW m \in Messages, NEW r \in Numbers, Settle(m, r) PROVE Tried(n)'
  <2>1. task[m][r] \in Returned /\ Verb(m, r) \in Verbs /\ SettleEffect(m, r, Verb(m, r))
    BY <1>6, SettleDoes
  <2>2. Tried(n) /\ ~cancelled /\ ~closed
    BY <1>3, <1>6 DEF Settle
  <2>3. Active(m, r) /\ task[m][r] # "none"
    BY <2>1 DEF Active, Returned
  <2>4. CASE n # m
    <3>1. broker'[n] = broker[n] /\ \A q \in Numbers : task'[n][q] = task[n][q]
      BY <2>1, <2>4 DEF SettleEffect, OneChange
    <3>2. QED
      BY <2>2, <3>1, TriedFrame
  <2>5. CASE n = m
    <3>1. Verb(n, r) = IF task[n][r] = "failed" THEN "leave" ELSE "ctx ack"
      BY <2>1, <2>5, HandleTable, DeliveriesAssumption DEF TypeOK, Verb, Returned
    <3>2. broker[n] \notin {"none", "ready"} /\ (broker[n] = "out" => r = Count(n) /\ RefusedBefore(n, r))
      BY <2>2, <2>3, <2>5, TriedActive
    <3>3. CASE task[n][r] = "failed"
      <4>1. OneChange(n, r, "refused", broker[n])
        BY <2>1, <2>5, <3>1, <3>3 DEF SettleEffect, MayPass, Unsettled
      <4>2. broker'[n] = broker[n] /\ task'[n][r] = "refused"
        BY <4>1 DEF OneChange
      <4>3. CASE broker[n] = "gone"
        BY <2>2, <4>2, <4>3, TriedGone
      <4>4. CASE broker[n] # "gone"
        <5>1. Count(n)' = Count(n)
          BY <2>3, <2>5, <4>1, ChangeCounts
        <5>2. RefusedBefore(n, r) => RefusedBefore(n, r)'
          BY <4>1 DEF OneChange, RefusedBefore
        <5>3. QED
          BY <3>2, <4>2, <4>4, <5>1, <5>2 DEF Tried
      <4>5. QED
        BY <4>3, <4>4
    <3>4. CASE task[n][r] # "failed"
      <4>1. Verb(n, r) = "ctx ack"
        BY <3>1, <3>4
      <4>2. Settled(Verb(n, r), n) = "gone"
        BY <4>1 DEF Settled
      <4>3. broker[n] = "out" => ~MayFail(Verb(n, r), n, r)
        BY <1>2, <2>2, <3>2, <4>1 DEF MayFail, MayPass
      <4>4. broker'[n] \in {"gone", broker[n]} /\ (broker[n] = "out" => broker'[n] = "gone")
        BY <2>1, <2>5, <4>2, <4>3 DEF SettleEffect, OneChange
      <4>5. task'[n][r] = "handled"
        BY <2>1, <2>5, <3>4 DEF SettleEffect, OneChange, Unsettled
      <4>6. Handled(n)'
        BY <4>5 DEF Handled
      <4>7. broker'[n] \notin {"none", "ready", "out"}
        BY <3>2, <4>4
      <4>8. QED
        BY <4>6, <4>7 DEF Tried
    <3>5. QED
      BY <3>3, <3>4
  <2>6. QED
    BY <2>4, <2>5
<1>7. ASSUME NEW m \in Messages, Publish(m) \/ Checkpoint(m) \/ TimeOut(m) PROVE Tried(n)'
  <2>1. task' = task /\ disturbed \subseteq disturbed' /\ UNCHANGED <<cancelled, closed>>
    BY <1>7, MoveDoes DEF Moves
  <2>2. Tried(n)
    BY <1>3, <2>1
  <2>3. CASE broker'[n] = broker[n]
    BY <2>1, <2>2, <2>3, TriedFrame
  <2>4. CASE broker'[n] # broker[n]
    <3>1. n = m
      BY <1>7, <2>4, MoveDoes DEF Moves
    <3>2. /\ broker'[n] = "ready"
          /\ broker[n] = "none" \/ (broker[n] = "out" /\ \A r \in Numbers : ~Active(n, r))
      BY <1>1, <1>7, <3>1, MoveDoes DEF Moves
    <3>3. RefusedBefore(n, 0)
      <4>1. CASE broker[n] = "none"
        BY <2>2, <4>1 DEF Tried
      <4>2. CASE broker[n] = "out" /\ \A r \in Numbers : ~Active(n, r)
        <5>1. PICK r \in Numbers : RefusedBefore(n, r) /\ task[n][r] \in {"refused"} \cup Handling \cup Returned
          BY <2>2, <4>2 DEF Tried
        <5>2. task[n][r] = "refused"
          BY <4>2, <5>1 DEF Active
        <5>3. QED
          BY <5>1, <5>2 DEF RefusedBefore
      <4>3. QED
        BY <3>2, <4>1, <4>2
    <3>4. RefusedBefore(n, 0)'
      BY <2>1, <3>3 DEF RefusedBefore
    <3>5. QED
      BY <3>2, <3>4 DEF Tried
  <2>5. QED
    BY <2>3, <2>4
<1>8. CASE Subscribe \/ Cancel \/ LoopEnds \/ CloseCalled \/ CloseStep \/ Drained \/ Reconnect
  <2>1. task' = task /\ Wide(n)
    BY <1>8, WideDoes
  <2>2. broker'[n] = broker[n]
    BY <1>1, <2>1 DEF Wide
  <2>3. ~cancelled /\ ~closed /\ disturbed \subseteq disturbed'
    BY <1>8, OnlyMore
  <2>4. Tried(n)
    BY <2>3 DEF SqsInv
  <2>5. QED
    BY <2>1, <2>2, <2>4, TriedFrame
<1>9. CASE Crash
  <2>1. broker[n] = "none" /\ broker'[n] = "none"
    BY <1>9, CrashDoes
  <2>2. \A q \in Numbers : task[n][q] = "none"
    BY <2>1 DEF NumberInv
  <2>3. \A q \in Numbers : task'[n][q] = "none"
    BY <1>9, <2>2, CrashDoes DEF Active, Handling, Returned
  <2>4. QED
    BY <2>1, <2>3 DEF Tried, RefusedBefore
<1>10. CASE UNCHANGED vars
  <2>1. Tried(n)
    BY <1>3, <1>10 DEF vars
  <2>2. QED
    BY <1>10, <2>1, TriedFrame DEF vars
<1>11. QED
  BY <1>4, <1>5, <1>6, <1>7, <1>8, <1>9, <1>10, NextSplits

-----------------------------------------------------------------------------
(* A message that was handled does not come back.                          *)

\* Before a step other than a crash, what is kept after it was kept already.
LEMMA KeptBefore ==
  ASSUME TypeOK, NumberInv, [Next]_vars, ~Crash, Kept'
  PROVE  Kept /\ disturbed \subseteq disturbed'
<1>1. adapter' = adapter
  BY TypeStep
<1>2. CASE UNCHANGED <<cancelled, closing>> /\ disturbed \subseteq disturbed'
  BY <1>1, <1>2 DEF Kept
<1>3. CASE Cancel \/ CloseCalled \/ CloseStep
  <2>1. (cancelled => cancelled') /\ disturbed \subseteq disturbed'
    BY <1>3, OnlyMore
  <2>2. Cancel => cancelled'
    BY DEF Cancel
  <2>3. CloseCalled \/ CloseStep => closing' # -1
    BY CloseTable, DeliveriesAssumption DEF CloseCalled, CloseStep, TypeOK
  <2>4. QED
    BY <1>1, <1>3, <2>1, <2>2, <2>3 DEF Kept
<1>4. QED
  BY <1>2, <1>3 DEF Next, vars, Publish, Deliver, Checkpoint, TimeOut, Return, Settle, Subscribe,
    LoopEnds, Drained, Reconnect

LEMMA OpenFrame ==
  ASSUME adapter' = adapter, NEW n \in Messages, broker'[n] = broker[n], Open(n),
         client \in {"open", "draining"} => client' \in {"open", "draining"}
  PROVE  Open(n)'
  BY SameTables DEF Open

LEMMA KeepsFrame ==
  ASSUME adapter' = adapter, NEW n \in Messages, Keeps(n), broker'[n] = broker[n],
         \A q \in Numbers : task'[n][q] = task[n][q],
         client \in {"open", "draining"} => client' \in {"open", "draining"}
  PROVE  Keeps(n)'
<1>1. Count(n)' = Count(n)
  BY SameCount
<1>2. Handled(n) <=> Handled(n)'
  BY DEF Handled
<1>3. Open(n) => Open(n)'
  BY OpenFrame
<1>4. \A q \in Numbers : Active(n, q)' <=> Active(n, q)
  BY DEF Active
<1>5. QED
  BY <1>1, <1>2, <1>3, <1>4 DEF Keeps

\* A message with no handler at work may move, as long as a handled one does not
\* come back.
LEMMA KeepsIdle ==
  ASSUME NEW n \in Messages, Keeps(n), adapter' = adapter,
         \A q \in Numbers : task'[n][q] = task[n][q] /\ ~Active(n, q),
         broker'[n] = "ready" => broker[n] \in {"ready", "none"} \/ (broker[n] = "out" /\ adapter # "eventhubs"),
         broker'[n] = "out" => broker[n] = "out",
         broker[n] = "none" => \A q \in Numbers : task[n][q] = "none"
  PROVE  Keeps(n)'
<1>1. Handled(n) <=> Handled(n)'
  BY DEF Handled
<1>2. \A q \in Numbers : ~Active(n, q)'
  BY DEF Active
<1>3. Handled(n) => broker[n] # "none"
  BY DEF Handled
<1>4. QED
  BY <1>1, <1>2, <1>3 DEF Keeps

LEMMA KeepDeliver ==
  ASSUME TypeOK, NumberInv, NEW m \in Messages, Deliver(m), Keeps(m), adapter # "snssqs keep"
  PROVE  Keeps(m)'
<1>1. PICK r \in Numbers, verdict \in {"handle", "skip", "reset", "delete"} : DeliverEffect(m, r, verdict)
  BY DeliverDoes
<1>2. adapter' = adapter /\ client' = client /\ client \in {"open", "draining"} /\ broker[m] = "ready"
  BY DEF Deliver
<1>3. (ForgetsAtOnce <=> ForgetsAtOnce') /\ (adapter = "eventhubs" => ~ForgetsAtOnce)
  BY <1>2, SameTables DEF ForgetsAtOnce
<1>4. ~Handled(m)
  BY <1>2 DEF Keeps
<1>5. \A q \in Numbers : ~Active(m, q)
  BY <1>2 DEF Keeps, Open
<1>6. /\ \A q \in Numbers : q # r => task'[m][q] = task[m][q]
      /\ task'[m][r] \in {"handling", "skipped"} /\ broker'[m] # "ready"
      /\ task'[m][r] = "handling" => broker'[m] = IF ForgetsAtOnce THEN "gone" ELSE "out"
  BY <1>1 DEF DeliverEffect, OneChange
<1>7. ~Handled(m)'
  BY <1>4, <1>6 DEF Handled
<1>8. \A q \in Numbers : Active(m, q)' => q = r /\ task'[m][r] = "handling"
  BY <1>5, <1>6 DEF Active, Handling, Returned
<1>9. Count(m)' = r
  BY <1>1, DeliverCounts
<1>10. task'[m][r] = "handling" => Open(m)'
  BY <1>2, <1>3, <1>6 DEF Open
<1>11. QED
  BY <1>7, <1>8, <1>9, <1>10 DEF Keeps

LEMMA KeepReturn ==
  ASSUME TypeOK, NEW m \in Messages, NEW r \in Numbers, Return(m, r), Keeps(m)
  PROVE  Keeps(m)'
<1>1. PICK v \in Handling \cup Returned : OneChange(m, r, v, broker[m])
  BY ReturnDoes
<1>2. Active(m, r) /\ task[m][r] \notin {"none", "handled"} /\ v \notin {"none", "handled"}
  BY DEF Return, Active, Handling, Returned
<1>3. r = Count(m) /\ ~Handled(m) /\ Open(m)
  BY <1>2 DEF Keeps
<1>4. /\ adapter' = adapter /\ client' = client /\ broker'[m] = broker[m]
      /\ task'[m][r] = v /\ \A q \in Numbers : q # r => task'[m][q] = task[m][q]
  BY <1>1 DEF OneChange
<1>5. Count(m)' = r
  BY <1>1, <1>2, <1>3, ChangeCounts
<1>6. ~Handled(m)'
  BY <1>2, <1>3, <1>4 DEF Handled
<1>7. Open(m)'
  BY <1>3, <1>4, OpenFrame
<1>8. \A q \in Numbers : Active(m, q)' => q = r
  <2> SUFFICES ASSUME NEW q \in Numbers, q # r PROVE ~Active(m, q)'
    OBVIOUS
  <2>1. ~Active(m, q)
    BY <1>3 DEF Keeps
  <2>2. QED
    BY <1>4, <2>1 DEF Active
<1>9. QED
  BY <1>5, <1>6, <1>7, <1>8 DEF Keeps

LEMMA KeepSettle ==
  ASSUME TypeOK, NumberInv, StopInv, NEW m \in Messages, NEW r \in Numbers, Settle(m, r),
         Keeps(m), Kept
  PROVE  Keeps(m)'
<1>1. task[m][r] \in Returned /\ Verb(m, r) \in Verbs /\ SettleEffect(m, r, Verb(m, r))
  BY SettleDoes
<1>2. Active(m, r)
  BY <1>1 DEF Active
<1>3. r = Count(m) /\ ~Handled(m) /\ Open(m)
  BY <1>2 DEF Keeps
<1>4. /\ adapter' = adapter /\ \A q \in Numbers : q # r => task'[m][q] = task[m][q]
      /\ task'[m][r] \in {"handled", "refused", "lost"}
      /\ task'[m][r] = "handled" <=> task[m][r] # "failed"
  BY <1>1 DEF SettleEffect, OneChange, Unsettled
<1>5. \A q \in Numbers : ~Active(m, q)'
  <2> TAKE q \in Numbers
  <2>1. CASE q = r
    BY <1>4, <2>1 DEF Active, Handling, Returned
  <2>2. CASE q # r
    <3>1. ~Active(m, q)
      BY <1>3, <2>2 DEF Keeps
    <3>2. QED
      BY <1>4, <2>2, <3>1 DEF Active
  <2>3. QED
    BY <2>1, <2>2
<1>6. CASE task[m][r] = "failed"
  <2>1. ~Handled(m)'
    BY <1>3, <1>4, <1>6 DEF Handled
  <2>2. QED
    BY <1>5, <2>1 DEF Keeps
<1>7. CASE task[m][r] # "failed"
  <2>1. adapter # "rocketmq binding"
    BY DEF Kept, LosesAcks
  <2>2. Verb(m, r) = Handle.ok
    BY <1>1, <1>7, <2>1, HandleTable, DeliveriesAssumption DEF TypeOK, Verb, Returned
  <2>3. /\ \/ Verb(m, r) = "ack"
           \/ Verb(m, r) = "ctx ack" /\ adapter \in LosesAcks
           \/ Verb(m, r) = "leave" /\ (ForgetsAtOnce \/ adapter = "eventhubs")
        /\ ForgetsAtOnce \/ adapter = "eventhubs" => Verb(m, r) = "leave"
    BY <2>2, HandleTable, DeliveriesAssumption DEF TypeOK
  <2>4. CASE Verb(m, r) = "leave"
    <3>1. broker'[m] = broker[m]
      BY <1>1, <2>4 DEF SettleEffect, MayPass, OneChange
    <3>2. ForgetsAtOnce => broker[m] = "gone"
      BY <1>3 DEF Open
    <3>3. ~ForgetsAtOnce => adapter = "eventhubs" /\ broker[m] \in {"out", "gone"}
      BY <1>3, <2>3, <2>4 DEF Open
    <3>4. QED
      BY <1>4, <1>5, <3>1, <3>2, <3>3 DEF Keeps
  <2>5. CASE Verb(m, r) # "leave"
    <3>1. ~ForgetsAtOnce /\ adapter # "eventhubs"
      BY <2>3, <2>5
    <3>2. broker[m] = "out" /\ client \in {"open", "draining"}
      BY <1>3, <3>1 DEF Open
    <3>3. Verb(m, r) = "ctx ack" => ~(cancelled \/ closed)
      BY <2>3 DEF Kept, StopInv
    <3>4. ~MayFail(Verb(m, r), m, r)
      BY <1>3, <2>3, <2>5, <3>2, <3>3 DEF MayFail, MayPass
    <3>5. Settled(Verb(m, r), m) = "gone"
      BY <2>3, <2>5 DEF Settled
    <3>6. broker'[m] = "gone"
      BY <1>1, <3>4, <3>5 DEF SettleEffect, OneChange
    <3>7. QED
      BY <1>5, <3>6 DEF Keeps
  <2>6. QED
    BY <2>4, <2>5
<1>8. QED
  BY <1>6, <1>7

LEMMA KeepStep ==
  ASSUME TypeOK, NumberInv, StopInv, KeepInv, [Next]_vars
  PROVE  KeepInv'
<1>0. adapter' = adapter
  BY TypeStep
<1> SUFFICES ASSUME Kept', NEW n \in Messages \ disturbed'
             PROVE  Keeps(n)'
  BY DEF KeepInv
<1>1. ASSUME ~Crash PROVE Kept /\ Keeps(n) /\ n \in Messages \ disturbed
  BY <1>1, KeptBefore DEF KeepInv
<1>2. broker[n] = "none" => \A q \in Numbers : task[n][q] = "none"
  BY DEF NumberInv
<1>3. CASE Crash
  <2>1. broker[n] = "none" /\ broker'[n] = "none"
    BY <1>3, CrashDoes
  <2>2. \A q \in Numbers : task'[n][q] = "none"
    BY <1>2, <1>3, <2>1, CrashDoes DEF Active, Handling, Returned
  <2>3. QED
    BY <2>1, <2>2 DEF Keeps, Active, Handled, Handling, Returned
<1>4. ASSUME ~Crash, NEW m \in Messages, Deliver(m) PROVE Keeps(n)'
  <2>1. PICK r \in Numbers, verdict \in {"handle", "skip", "reset", "delete"} : DeliverEffect(m, r, verdict)
    BY <1>4, DeliverDoes
  <2>2. Kept /\ Keeps(n)
    BY <1>1, <1>4
  <2>3. adapter # "snssqs keep"
    BY <2>2 DEF Kept, LosesAcks
  <2>4. CASE n = m
    BY <1>4, <2>2, <2>3, <2>4, KeepDeliver
  <2>5. CASE n # m
    <3>1. broker'[n] = broker[n] /\ client' = client /\ \A q \in Numbers : task'[n][q] = task[n][q]
      BY <2>1, <2>5 DEF DeliverEffect, OneChange
    <3>2. QED
      BY <1>0, <2>2, <3>1, KeepsFrame
  <2>6. QED
    BY <2>4, <2>5
<1>5. ASSUME ~Crash, NEW m \in Messages, NEW r \in Numbers, Return(m, r) PROVE Keeps(n)'
  <2>1. PICK v \in Handling \cup Returned : OneChange(m, r, v, broker[m])
    BY <1>5, ReturnDoes
  <2>2. Keeps(n)
    BY <1>1, <1>5
  <2>3. CASE n = m
    BY <1>5, <2>2, <2>3, KeepReturn
  <2>4. CASE n # m
    <3>1. broker'[n] = broker[n] /\ client' = client /\ \A q \in Numbers : task'[n][q] = task[n][q]
      BY <2>1, <2>4 DEF OneChange
    <3>2. QED
      BY <1>0, <2>2, <3>1, KeepsFrame
  <2>5. QED
    BY <2>3, <2>4
<1>6. ASSUME ~Crash, NEW m \in Messages, NEW r \in Numbers, Settle(m, r) PROVE Keeps(n)'
  <2>1. PICK v \in {"handled", "refused", "lost"}, b \in Places : OneChange(m, r, v, b)
    BY <1>6, SettleChange
  <2>2. Kept /\ Keeps(n)
    BY <1>1, <1>6
  <2>3. CASE n = m
    BY <1>6, <2>2, <2>3, KeepSettle
  <2>4. CASE n # m
    <3>1. broker'[n] = broker[n] /\ client' = client /\ \A q \in Numbers : task'[n][q] = task[n][q]
      BY <2>1, <2>4 DEF OneChange
    <3>2. QED
      BY <1>0, <2>2, <3>1, KeepsFrame
  <2>5. QED
    BY <2>3, <2>4
<1>7. ASSUME ~Crash, NEW m \in Messages, Publish(m) \/ Checkpoint(m) \/ TimeOut(m) PROVE Keeps(n)'
  <2>1. Keeps(n)
    BY <1>1, <1>7
  <2>2. task' = task /\ client' = client /\ (n # m => broker'[n] = broker[n])
    BY <1>7, MoveDoes DEF Moves
  <2>3. CASE broker'[n] = broker[n]
    BY <1>0, <2>1, <2>2, <2>3, KeepsFrame
  <2>4. CASE n = m /\ broker[n] = "none" /\ broker'[n] = "ready"
    <3>1. \A q \in Numbers : ~Active(n, q)
      BY <1>2, <2>4 DEF Active, Handling, Returned
    <3>2. QED
      BY <1>0, <1>2, <2>1, <2>2, <2>4, <3>1, KeepsIdle
  <2>5. CASE n = m /\ adapter = "eventhubs" /\ broker[n] = "out" /\ broker'[n] = "gone"
    <3>1. Count(n)' = Count(n) /\ (Handled(n) <=> Handled(n)') /\ \A q \in Numbers : Active(n, q)' <=> Active(n, q)
      BY <2>2, SameCount DEF Handled, Active
    <3>2. Open(n)'
      BY <1>0, <2>5 DEF Open, ForgetsAtOnce
    <3>3. QED
      BY <2>1, <2>5, <3>1, <3>2 DEF Keeps
  <2>6. CASE n = m /\ TimesOut /\ broker[n] = "out" /\ broker'[n] = "ready"
    <3>1. \A q \in Numbers : ~Active(n, q)
      BY <1>7, <2>6, MoveDoes DEF Moves
    <3>2. adapter # "eventhubs"
      BY <2>6 DEF TimesOut, SnsSqs
    <3>3. QED
      BY <1>0, <1>2, <2>1, <2>2, <2>6, <3>1, <3>2, KeepsIdle
  <2>7. QED
    BY <1>7, <2>2, <2>3, <2>4, <2>5, <2>6, MoveDoes DEF Moves
<1>8. CASE ~Crash /\ (Subscribe \/ Cancel \/ LoopEnds \/ CloseCalled \/ CloseStep \/ Drained \/ Reconnect)
  <2>1. task' = task /\ Wide(n)
    BY <1>8, WideDoes
  <2>2. Kept /\ Keeps(n) /\ n \in Messages \ disturbed
    BY <1>1, <1>8
  <2>3. ASSUME \A q \in Numbers : ~Active(n, q) PROVE Keeps(n)'
    <3>1. /\ broker'[n] = "ready" => broker[n] = "ready" \/ (broker[n] = "out" /\ adapter # "eventhubs")
          /\ broker'[n] = "out" => broker[n] = "out"
      BY <2>1 DEF Wide
    <3>2. QED
      BY <1>0, <1>2, <2>1, <2>2, <2>3, <3>1, KeepsIdle
  <2>4. ASSUME ForgetsAtOnce PROVE Keeps(n)'
    <3>1. CASE \A q \in Numbers : ~Active(n, q)
      BY <2>3, <3>1
    <3>2. CASE \E q \in Numbers : Active(n, q)
      <4>1. broker[n] = "gone"
        BY <2>2, <2>4, <3>2 DEF Keeps, Open
      <4>2. broker'[n] = "gone"
        BY <2>1, <4>1 DEF Wide
      <4>3. Count(n)' = Count(n) /\ (Handled(n) <=> Handled(n)') /\ \A q \in Numbers : Active(n, q)' <=> Active(n, q)
        BY <2>1, SameCount DEF Handled, Active
      <4>4. Open(n)'
        BY <1>0, <2>4, <4>2, SameTables DEF Open
      <4>5. QED
        BY <2>2, <4>2, <4>3, <4>4 DEF Keeps
    <3>3. QED
      BY <3>1, <3>2
  <2>5. ASSUME broker'[n] = broker[n], client' \in {client, "open", "draining"} PROVE Keeps(n)'
    BY <1>0, <2>1, <2>2, <2>5, KeepsFrame
  <2>6. ASSUME ~ForgetsAtOnce, Subscribe \/ Cancel \/ CloseCalled PROVE Keeps(n)'
    <3>1. ~StartsWithNext
      BY <2>6 DEF StartsWithNext, ForgetsAtOnce
    <3>2. broker'[n] = broker[n] /\ client' = client
      BY <2>6, <3>1 DEF Subscribe, Cancel, CloseCalled, Missed, TypeOK
    <3>3. QED
      BY <2>5, <3>2
  <2>7. ASSUME ~ForgetsAtOnce, LoopEnds PROVE Keeps(n)'
    <3>1. CASE ~DisconnectsItself
      BY <2>5, <2>7, <3>1 DEF LoopEnds
    <3>2. CASE DisconnectsItself
      <4>1. adapter \in LosesAcks
        BY <3>2 DEF DisconnectsItself, LosesAcks
      <4>2. ~cancelled /\ closing = -1
        BY <2>2, <4>1 DEF Kept
      <4>3. ~closed /\ client # "closed"
        BY <4>2 DEF StopInv
      <4>4. QED
        BY <2>7, <4>2, <4>3 DEF LoopEnds, Stopped
    <3>3. QED
      BY <3>1, <3>2
  <2>8. ASSUME ~ForgetsAtOnce, CloseStep PROVE Keeps(n)'
    <3>1. closing' # -1 /\ closing + 1 \in 1 .. Len(CloseSteps)
      BY <2>8, CloseTable, DeliveriesAssumption DEF TypeOK, CloseStep
    <3>2. adapter \notin LosesAcks
      BY <1>0, <3>1 DEF Kept
    <3>3. CloseSteps[closing + 1] # "client"
      BY <2>8, <3>1, <3>2, CloseTable, DeliveriesAssumption DEF TypeOK
    <3>4. broker' = broker /\ client' \in {client, "draining"}
      BY <2>8, <3>3 DEF CloseStep
    <3>5. QED
      BY <2>5, <3>4
  <2>9. ASSUME Drained PROVE Keeps(n)'
    BY <2>3, <2>9 DEF Drained, Idle
  <2>10. ASSUME Reconnect PROVE Keeps(n)'
    BY <2>3, <2>10 DEF Reconnect, Out
  <2>11. QED
    BY <1>8, <2>4, <2>6, <2>7, <2>8, <2>9, <2>10
<1>9. CASE UNCHANGED vars /\ ~Crash
  <2>1. Keeps(n)
    BY <1>1, <1>9
  <2>2. QED
    BY <1>9, <2>1, KeepsFrame DEF vars
<1>10. QED
  BY <1>3, <1>4, <1>5, <1>6, <1>7, <1>8, <1>9, NextSplits

-----------------------------------------------------------------------------
(* The theorems.                                                           *)

LEMMA InitIInv ==
  ASSUME Init
  PROVE  IInv
<1>1. /\ adapter \in Adapters /\ loop = "none" /\ cancelled = FALSE /\ closed = FALSE
      /\ client = "open" /\ closing = -1 /\ faults = 0 /\ disturbed = {}
  BY DEF Init
<1>2. /\ broker \in [Messages -> {"none"}] /\ task \in [Messages -> [Numbers -> {"none"}]]
      /\ \A m \in Messages : broker[m] = "none" /\ \A r \in Numbers : task[m][r] = "none"
  BY DEF Init
<1>3. TypeOK
  <2>1. -1 \in -1 .. Len(CloseSteps) /\ 0 \in 0 .. MaxFaults
    BY <1>1, CloseTable, DeliveriesAssumption
  <2>2. QED
    BY <1>1, <1>2, <2>1 DEF TypeOK
<1>4. NumberInv
  <2>1. \A m \in Messages : Received(m, 0)
    <3>1. \A r \in Numbers : ~(r <= 0)
      BY DEF Numbers
    <3>2. QED
      BY <1>2, <3>1 DEF Received
  <2>2. 0 \in 0 .. MaxReceives
    BY DeliveriesAssumption
  <2>3. QED
    BY <1>2, <2>1, <2>2 DEF NumberInv
<1>5. \A m \in Messages, r \in Numbers : ~Active(m, r)
  BY <1>2 DEF Active, Handling, Returned
<1>6. StopInv
  <2>1. ~(closing >= 1)
    BY <1>1
  <2>2. QED
    BY <1>1, <1>2, <1>5, <2>1 DEF StopInv, Idle
<1>7. RunInv /\ GoneInv /\ SqsInv /\ DeadInv /\ PassInv
  BY <1>1, <1>2 DEF RunInv, GoneInv, SqsInv, DeadInv, PassInv, Tried, RefusedBefore
<1>8. KeepInv
  BY <1>2, <1>5 DEF KeepInv, Keeps, Handled
<1>9. QED
  BY <1>3, <1>4, <1>6, <1>7, <1>8 DEF IInv

LEMMA StepIInv ==
  ASSUME IInv, [Next]_vars
  PROVE  IInv'
<1>1. TypeOK /\ NumberInv /\ StopInv /\ RunInv /\ GoneInv /\ SqsInv /\ DeadInv /\ PassInv /\ KeepInv
  BY DEF IInv
<1>2. TypeOK' /\ NumberInv' /\ StopInv'
  BY <1>1, TypeStep, NumberStep, StopStep
<1>3. RunInv' /\ GoneInv' /\ SqsInv' /\ DeadInv' /\ PassInv' /\ KeepInv'
  BY <1>1, RunStep, GoneStep, SqsStep, DeadStep, PassStep, KeepStep
<1>4. QED
  BY <1>2, <1>3 DEF IInv

\* The inductive invariant holds in every state of every subscription.
THEOREM Invariance == Spec => []IInv
<1>1. Init => IInv
  BY InitIInv
<1>2. IInv /\ [Next]_vars => IInv'
  BY StepIInv
<1>3. QED
  BY <1>1, <1>2, PTL DEF Spec

\* Deliveries, connections and the steps of Close stay within their types.
THEOREM TypeCorrect == Spec => []TypeOK
<1>1. IInv => TypeOK
  BY DEF IInv
<1>2. QED
  BY <1>1, Invariance, PTL

\* With any number of messages, deliveries, lost connections, timeouts and crashes:
\* outside AtMostOnce a message is acknowledged only when it has been handled; one that
\* is given up has failed before, as often as the limit of snssqs and Zeebe says and
\* once for solace and where a checkpoint passes over it; and outside the exceptions
\* SuccessSettles and StopKeepsAcks name, one that was handled does not come back.
THEOREM NothingIsLost == Spec => []NothingLost
<1>1. ASSUME IInv PROVE NothingLost
  <2>1. GoneInv /\ SqsInv /\ DeadInv /\ PassInv /\ KeepInv
    BY <1>1 DEF IInv
  <2>2. \A m \in Messages : Handled(m) => Succeeded(m)
    BY DEF Handled, Succeeded
  <2>3. GoneWereHandled
    BY <2>1, <2>2 DEF GoneWereHandled, GoneInv
  <2>4. GivenUpAfterRetries
    <3> SUFFICES ASSUME NEW m \in Messages
                 PROVE  /\ adapter \in SnsSqs /\ ~cancelled /\ ~closed /\ m \notin disturbed =>
                             (broker[m] = "gone" => Succeeded(m) \/ Failures(m) >= RetryLimit - 1)
                        /\ broker[m] = "dead" =>
                             \/ adapter = "zeebe" /\ Failures(m) >= RetryLimit
                             \/ adapter = "solace" /\ Failures(m) > 0
                        /\ adapter \in PassesOver /\ broker[m] = "gone" =>
                             Succeeded(m) \/ Failures(m) > 0
      BY DEF GivenUpAfterRetries
    <3>0. adapter \in PassesOver /\ broker[m] = "gone" => Succeeded(m) \/ Failures(m) > 0
      BY <2>1, <2>2 DEF PassInv
    <3>1. broker[m] = "dead" => \/ adapter = "zeebe" /\ Failures(m) >= RetryLimit
                                \/ adapter = "solace" /\ Failures(m) > 0
      BY <2>1 DEF DeadInv
    <3>2. CASE adapter = "snssqs keep"
      <4>1. adapter \notin AtMostOnce /\ adapter \notin PassesOver
        BY <3>2 DEF AtMostOnce, PassesOver
      <4>2. broker[m] = "gone" => Succeeded(m)
        BY <2>3, <4>1 DEF GoneWereHandled
      <4>3. QED
        BY <3>1, <4>1, <4>2
    <3>3. CASE adapter # "snssqs keep"
      <4>1. adapter \in SnsSqs /\ ~cancelled /\ ~closed /\ m \notin disturbed => Tried(m)
        BY <2>1, <3>3 DEF SqsInv
      <4>2. Tried(m) /\ broker[m] = "gone" => Succeeded(m) \/ Failures(m) >= RetryLimit - 1
        BY <2>2 DEF Tried
      <4>3. QED
        BY <3>0, <3>1, <4>1, <4>2
    <3>4. QED
      BY <3>2, <3>3
  <2>5. \A m \in Messages : Keeps(m) /\ Handled(m) => ~Comes(m)
    BY DEF Keeps, Comes
  <2>6. SuccessSettles /\ StopKeepsAcks
    BY <2>1, <2>5 DEF KeepInv, Kept, SuccessSettles, StopKeepsAcks
  <2>7. QED
    BY <2>3, <2>4, <2>6 DEF NothingLost
<1>2. QED
  BY <1>1, Invariance, PTL

\* A subscription nobody has stopped keeps its loop and its connection and holds no
\* message back, and no handler is running once Close has returned.
THEOREM RunsOn == Spec => []RunsUntilStopped
<1>1. ASSUME IInv PROVE RunsUntilStopped
  <2>1. TypeOK /\ StopInv /\ RunInv
    BY <1>1 DEF IInv
  <2>2. NothingStranded
    BY <2>1 DEF TypeOK, RunInv, NothingStranded
  <2>3. CloseWaitsForHandlers
    <3> SUFFICES ASSUME adapter \notin ReturnsEarly, closing = Len(CloseSteps) PROVE Idle
      BY DEF CloseWaitsForHandlers, CloseReturned
    <3>1. Read.joins
      BY <2>1, ReadTable, DeliveriesAssumption DEF TypeOK
    <3>2. loop \in {"none", "ended"}
      BY <2>1 DEF TypeOK, StopInv
    <3>3. QED
      BY <2>1, <3>1, <3>2 DEF StopInv
  <2>4. QED
    BY <2>2, <2>3 DEF RunsUntilStopped
<1>2. QED
  BY <1>1, Invariance, PTL

\* Where order is promised, a handler is called for a message only after the handlers
\* of all earlier messages, those a fault took away excepted, have returned.
THEOREM OrderIsKept == Spec => OrderKept
<1> DEFINE InOrderStep ==
      adapter \in InOrder =>
       \A m \in Messages, r \in Numbers :
         task[m][r] = "none" /\ task'[m][r] = "handling" =>
           \A n \in Messages \ disturbed : n < m =>
             /\ broker[n] # "ready"
             /\ \A q \in Numbers : ~Active(n, q)
<1>1. ASSUME IInv, [Next]_vars PROVE [InOrderStep]_vars
  <2>0. TypeOK /\ NumberInv
    BY <1>1 DEF IInv
  <2> SUFFICES ASSUME adapter \in InOrder, NEW m \in Messages, NEW r \in Numbers,
                      task[m][r] = "none", task'[m][r] = "handling",
                      NEW n \in Messages \ disturbed, n < m
               PROVE  broker[n] # "ready" /\ \A q \in Numbers : ~Active(n, q)
    OBVIOUS
  <2>1. Deliver(m)
    <3>1. ASSUME NEW k \in Messages, Deliver(k) PROVE k = m
      <4>1. PICK q \in Numbers, verdict \in {"handle", "skip", "reset", "delete"} : DeliverEffect(k, q, verdict)
        BY <2>0, <3>1, DeliverDoes
      <4>2. QED
        BY <4>1 DEF DeliverEffect, OneChange
    <3>2. ASSUME NEW k \in Messages, NEW q \in Numbers, Return(k, q) PROVE FALSE
      <4>1. PICK v \in Handling \cup Returned : OneChange(k, q, v, broker[k])
        BY <2>0, <3>2, ReturnDoes
      <4>2. task[k][q] # "none"
        BY <3>2 DEF Return, Handling
      <4>3. QED
        BY <4>1, <4>2 DEF OneChange
    <3>3. ASSUME NEW k \in Messages, NEW q \in Numbers, Settle(k, q) PROVE FALSE
      <4>1. PICK v \in {"handled", "refused", "lost"}, b \in Places : OneChange(k, q, v, b)
        BY <2>0, <3>3, SettleChange
      <4>2. QED
        BY <4>1 DEF OneChange
    <3>4. ASSUME NEW k \in Messages, Publish(k) \/ Checkpoint(k) \/ TimeOut(k) PROVE FALSE
      BY <3>4 DEF Publish, Checkpoint, TimeOut
    <3>5. ~(Subscribe \/ Cancel \/ LoopEnds \/ CloseCalled \/ CloseStep \/ Drained \/ Reconnect)
      BY <2>0, WideDoes
    <3>6. ~Crash
      BY <2>0, CrashDoes
    <3>7. ~UNCHANGED vars
      BY DEF vars
    <3>8. QED
      BY <1>1, <3>1, <3>2, <3>3, <3>4, <3>5, <3>6, <3>7, NextSplits
  <2>2. Read.handlers = "one"
    BY <2>0, ReadTable, DeliveriesAssumption DEF TypeOK
  <2>3. Undisturbed /\ InTurn(m)
    BY <2>1, <2>2 DEF Deliver
  <2>4. IsLog \/ IsFIFO
    BY DEF InOrder, IsLog, IsFIFO
  <2>5. broker[n] # "ready"
    BY <2>3, <2>4 DEF InTurn
  <2>6. \A q \in Numbers : ~Active(n, q)
    BY <2>3 DEF Undisturbed
  <2>7. QED
    BY <2>5, <2>6
<1>2. QED
  BY <1>1, Invariance, PTL DEF OrderKept, Spec
=============================================================================
