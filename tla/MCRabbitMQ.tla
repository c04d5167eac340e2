------------------------------ MODULE MCRabbitMQ ------------------------------
(* Instances of RabbitMQ for TLC.                                              *)
EXTENDS RabbitMQ

CONSTANTS p1, p2

Settings(mode, auto, requeues, confirms, durables, valid, who, n) ==
  [concurrency |-> mode, autoAck |-> auto, requeueInFailure |-> requeues,
   publisherConfirm |-> confirms, durable |-> durables, validQueueType |-> valid,
   publishers |-> who, maxFaults |-> n]

\* One message at a time and many at once, with and without confirmations, with a
\* broker that forgets and one that does not, and a queue type that is refused:
\* two publishers and a fault, or one publisher and several faults.
AllKinds ==
  {Settings("single", FALSE, TRUE, FALSE, FALSE, TRUE, {p1}, 3),
   Settings("single", FALSE, TRUE, FALSE, FALSE, TRUE, {p1, p2}, 1),
   Settings("parallel", FALSE, FALSE, TRUE, TRUE, TRUE, {p1}, 3),
   Settings("parallel", FALSE, FALSE, TRUE, TRUE, TRUE, {p1, p2}, 1),
   Settings("single", TRUE, FALSE, FALSE, TRUE, TRUE, {p1}, 2),
   Settings("single", FALSE, FALSE, FALSE, TRUE, FALSE, {p1}, 2)}

JustClose == {Settings("single", FALSE, TRUE, FALSE, TRUE, TRUE, {}, 0)}
Confirms  == {Settings("single", FALSE, TRUE, TRUE, TRUE, TRUE, {p1}, 1)}
=============================================================================
