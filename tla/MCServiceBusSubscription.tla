----------------------- MODULE MCServiceBusSubscription -----------------------
(* Instances of ServiceBusSubscription for TLC.                                *)
EXTENDS ServiceBusSubscription

CONSTANTS s1, s2, l1, l2

\* The first and the last message are of one session, the others of another.
TwoSessions == [m \in Messages |-> IF m \in {1, MaxMessages} THEN s1 ELSE s2]
OneSession  == [m \in Messages |-> s1]

Subscription(ordered, maxA, maxB, maxH, goroutines, faulty) ==
  [requireSessions |-> ordered, maxActive |-> maxA, maxBulk |-> maxB,
   maxHandlers |-> maxH, loops |-> goroutines, failures |-> faulty]

\* Two bulk operations with one handler; one bulk operation; two sessions with a
\* token each; two sessions that share a token and a handler.
AllKinds ==
  {Subscription(FALSE, 4, 2, 1, {l1}, {"receive", "lock", "batch", "handler"}),
   Subscription(FALSE, 2, 2, 0, {l1}, {"receive", "settle", "handler"}),
   Subscription(TRUE, 2, 1, 0, {l1, l2}, {"receive", "handler"}),
   Subscription(TRUE, 1, 1, 1, {l1, l2}, {"receive", "settle", "handler"})}

SingleMessages == {Subscription(FALSE, 2, 1, 0, {l1}, {"handler"})}
=============================================================================
