----------------------------- MODULE RedisStreams -----------------------------
(***************************************************************************)
(* pubsub/redis/redis.go: one subscription to one Redis stream through a   *)
(* consumer group, with redelivery of pending messages.                    *)
(*                                                                         *)
(* Redis keeps the stream, the id it last delivered to the group and the   *)
(* pending entries list (PEL).  The component keeps a bounded queue filled *)
(* by two goroutines, pollNewMessagesLoop and reclaimPendingMessagesLoop,  *)
(* and drained by the workers.  Everything in the component is lost when   *)
(* the process stops; what is in Redis is not.                             *)
(*                                                                         *)
(* A message is its position in the stream.  The idle time of a pending    *)
(* entry is abstracted to whether it has reached ProcessingTimeout.        *)
(*                                                                         *)
(* An operator D_Slip before a definition D is D with a plausible slip,    *)
(* kept to show that some property fails with it.                          *)
(***************************************************************************)
EXTENDS Naturals, Sequences, FiniteSets, SequencesExt

CONSTANTS
  Workers,      \* the goroutines that run worker()
  QueueDepth,   \* capacity of r.queue and COUNT of the reads
  Redeliver,    \* whether ProcessingTimeout and RedeliverInterval are set
  MaxMessages,  \* bound: messages published
  MaxStreamFaults,  \* bound: lost replies, failed acks, handler timeouts, lost groups
  MaxTrimmed,   \* bound: messages trimmed from the stream
  MaxStops,     \* bound: crashes and calls of Close
  NoMsg

ASSUME StreamsAssumption ==
  /\ QueueDepth \in Nat \ {0}
  /\ MaxMessages \in Nat
  /\ Redeliver \in BOOLEAN
  /\ NoMsg \notin Nat

Messages == 1 .. MaxMessages

VARIABLES
  \* Redis
  added,     \* number of messages the stream got
  trimmed,   \* messages MAXLEN or MINID removed from the stream
  hasGroup,  \* does the consumer group exist
  last,      \* id last delivered to the group
  pel,       \* pending entries of the group
  idle,      \* those of them idle for at least ProcessingTimeout
  \* the component
  queue,     \* r.queue
  polled,    \* messages pollNewMessagesLoop has read and has still to enqueue
  reclaim,   \* the state of reclaimPendingMessages
  worker,    \* worker[w]: what worker w is doing
  closed,    \* r.closed and closeCh; the loops' context follows it
  up,        \* is the process running
  \* history
  settled,   \* messages whose handler returned, and not because of its context
  streamFaults, stops

redisVars == <<added, trimmed, hasGroup, last, pel, idle>>
compVars  == <<queue, polled, reclaim, worker, closed, up>>
histVars  == <<settled, streamFaults, stops>>
streamsVars == <<redisVars, compVars, histVars>>

Idle == [pc |-> "idle", msg |-> NoMsg]

\* reclaimPendingMessages: waiting for its ticker, between XPENDING and XCLAIM with
\* the ids to claim, enqueueing what it claimed, or claiming ids one by one.
NoReclaim == [pc |-> "wait", ids |-> << >>, claimed |-> << >>]

\* The ids of S in the order of the stream.
Sorted(S) == CHOOSE s \in [1 .. Cardinality(S) -> S] :
               /\ Range(s) = S
               /\ \A i, j \in DOMAIN s : i < j => s[i] < s[j]

\* The first n elements of s, or all of them.
Prefix(s, n) == SubSeq(s, 1, IF Len(s) < n THEN Len(s) ELSE n)

Fault == streamFaults < MaxStreamFaults /\ streamFaults' = streamFaults + 1

-----------------------------------------------------------------------------
(* Publishers, and Redis on its own.                                       *)

Publish ==
  /\ up /\ ~closed
  /\ added < MaxMessages
  /\ added' = added + 1
  /\ UNCHANGED <<trimmed, hasGroup, last, pel, idle, compVars, histVars>>

\* XADD trims the stream from its old end; pending entries stay in the PEL.
Trim ==
  /\ Cardinality(trimmed) < added
  /\ Cardinality(trimmed) < MaxTrimmed
  /\ trimmed' = trimmed \cup {Cardinality(trimmed) + 1}
  /\ UNCHANGED <<added, hasGroup, last, pel, idle, compVars, histVars>>

IdleTimePasses(m) ==
  /\ m \in pel \ idle
  /\ idle' = idle \cup {m}
  /\ UNCHANGED <<added, trimmed, hasGroup, last, pel, compVars, histVars>>

\* The server loses the group (failover without persistence, XGROUP DESTROY).
GroupLost ==
  /\ hasGroup
  /\ Fault
  /\ hasGroup' = FALSE
  /\ last' = 0
  /\ pel' = {}
  /\ idle' = {}
  /\ UNCHANGED <<added, trimmed, compVars, settled, stops>>

XAck(m) == /\ pel' = pel \ {m}
           /\ idle' = idle \ {m}

-----------------------------------------------------------------------------
(* pollNewMessagesLoop.                                                    *)

Unread == {m \in Messages : m > last /\ m <= added /\ m \notin trimmed}

\* XREADGROUP ">" moves the unread messages to the PEL.
PollNewMessages ==
  LET batch == Prefix(Sorted(Unread), QueueDepth) IN
  /\ up /\ ~closed
  /\ polled = << >>
  /\ hasGroup
  /\ batch # << >>
  /\ last' = Last(batch)
  /\ pel' = pel \cup Range(batch)
  /\ \/ polled' = batch /\ UNCHANGED streamFaults
     \/ Fault /\ UNCHANGED polled     \* the reply is lost; the loop goes on
  /\ UNCHANGED <<added, trimmed, hasGroup, idle, queue, reclaim, worker, closed, up,
                 settled, stops>>

\* NOGROUP: CreateConsumerGroup makes the group again, from id 0.
PollRecreatesGroup ==
  /\ up /\ ~closed
  /\ polled = << >>
  /\ ~hasGroup
  /\ hasGroup' = TRUE
  /\ UNCHANGED <<added, trimmed, last, pel, idle, compVars, histVars>>

\* enqueueMessages blocks while the queue is full.
PollEnqueues ==
  /\ up
  /\ polled # << >>
  /\ Len(queue) < QueueDepth
  /\ queue' = Append(queue, Head(polled))
  /\ polled' = Tail(polled)
  /\ UNCHANGED <<redisVars, reclaim, worker, closed, up, histVars>>

-----------------------------------------------------------------------------
(* reclaimPendingMessagesLoop.                                             *)

\* XPENDING "-" "+" COUNT: the oldest entries, filtered by their idle time.  With
\* nothing to claim the loop ends until the next tick of the ticker.
ReclaimPending ==
  LET ids == Sorted(Range(Prefix(Sorted(pel), QueueDepth)) \cap idle) IN
  /\ up /\ ~closed /\ Redeliver
  /\ reclaim.pc = "wait"
  /\ ids # << >>
  /\ reclaim' = [NoReclaim EXCEPT !.pc = "claim", !.ids = ids]
  /\ UNCHANGED <<redisVars, queue, polled, worker, closed, up, histVars>>

\* XCLAIM takes those that are still pending and idle, and makes them young again.
\* If one of them is no longer in the stream the whole reply is a nil error, and
\* every id is looked at on its own.
ReclaimClaims ==
  LET taken == {m \in Range(reclaim.ids) : m \in idle} IN
  /\ up /\ ~closed
  /\ reclaim.pc = "claim"
  /\ idle' = idle \ taken
  /\ reclaim' =
       IF taken \cap trimmed = {}
       THEN [NoReclaim EXCEPT !.pc = "enqueue", !.claimed = Sorted(taken)]
       ELSE [NoReclaim EXCEPT !.pc = "enqueue", !.ids = reclaim.ids]
  /\ UNCHANGED <<added, trimmed, hasGroup, last, pel, queue, polled, worker, closed, up,
                 histVars>>

ReclaimEnqueues ==
  /\ up
  /\ reclaim.pc = "enqueue"
  /\ reclaim.claimed # << >>
  /\ Len(queue) < QueueDepth
  /\ queue' = Append(queue, Head(reclaim.claimed))
  /\ reclaim' = [reclaim EXCEPT !.claimed = Tail(@)]
  /\ UNCHANGED <<redisVars, polled, worker, closed, up, histVars>>

removeMessages_AcksAll ==
  /\ up /\ ~closed
  /\ reclaim.pc = "enqueue"
  /\ reclaim.claimed = << >>
  /\ reclaim.ids # << >>
  /\ XAck(Head(reclaim.ids))
  /\ reclaim' = [reclaim EXCEPT !.ids = Tail(@)]
  /\ UNCHANGED <<added, trimmed, hasGroup, last, queue, polled, worker, closed, up, histVars>>

\* removeMessagesThatNoLongerExistFromPending: the next id is claimed alone; a nil
\* error means it is gone from the stream, and it is acknowledged.
removeMessagesThatNoLongerExistFromPending ==
  LET m == Head(reclaim.ids) IN
  /\ up /\ ~closed
  /\ reclaim.pc = "enqueue"
  /\ reclaim.claimed = << >>
  /\ reclaim.ids # << >>
  /\ IF m \in pel /\ m \in trimmed
     THEN XAck(m) /\ reclaim' = [reclaim EXCEPT !.ids = Tail(@)]
     ELSE /\ idle' = idle \ {m}
          /\ reclaim' = [reclaim EXCEPT !.ids = Tail(@),
                                        !.claimed = IF m \in pel THEN <<m>> ELSE << >>]
          /\ UNCHANGED pel
  /\ UNCHANGED <<added, trimmed, hasGroup, last, queue, polled, worker, closed, up, histVars>>

\* Back to XPENDING, at once or at the next tick.
ReclaimLoops ==
  /\ up
  /\ reclaim.pc = "enqueue"
  /\ reclaim.claimed = << >>
  /\ reclaim.ids = << >>
  /\ reclaim' = NoReclaim
  /\ UNCHANGED <<redisVars, queue, polled, worker, closed, up, histVars>>

\* XCLAIM fails, before or after it took effect: the loop breaks off.
ReclaimFails ==
  /\ up
  /\ reclaim.pc = "claim"
  /\ Fault
  /\ idle' \in {idle, idle \ Range(reclaim.ids)}
  /\ reclaim' = NoReclaim
  /\ UNCHANGED <<added, trimmed, hasGroup, last, pel, queue, polled, worker, closed, up,
                 settled, stops>>

\* The XCLAIM or the XACK of a single id fails: on to the next id.
removeMessagesSkipsOne ==
  /\ up
  /\ reclaim.pc = "enqueue"
  /\ reclaim.claimed = << >>
  /\ reclaim.ids # << >>
  /\ Fault
  /\ idle' \in {idle, idle \ {Head(reclaim.ids)}}
  /\ reclaim' = [reclaim EXCEPT !.ids = Tail(@)]
  /\ UNCHANGED <<added, trimmed, hasGroup, last, pel, queue, polled, worker, closed, up,
                 settled, stops>>

-----------------------------------------------------------------------------
(* The workers.                                                            *)

WorkerTakes(w) ==
  /\ up
  /\ worker[w].pc = "idle"
  /\ queue # << >>
  /\ worker' = [worker EXCEPT ![w] = [pc |-> "handler", msg |-> Head(queue)]]
  /\ queue' = Tail(queue)
  /\ UNCHANGED <<redisVars, polled, reclaim, closed, up, histVars>>

\* The handler returns nil, or an error while its context is still alive (for a
\* moment it is, also after Close): both lead to XACK.
HandlerReturns(w) ==
  /\ up
  /\ worker[w].pc = "handler"
  /\ worker' = [worker EXCEPT ![w].pc = "ack"]
  /\ settled' = settled \cup {worker[w].msg}
  /\ UNCHANGED <<redisVars, queue, polled, reclaim, closed, up, streamFaults, stops>>

\* The handler fails because its context ended (ProcessingTimeout, or Close): no ack.
HandlerExpires(w) ==
  /\ up
  /\ worker[w].pc = "handler"
  /\ closed \/ Redeliver
  /\ IF closed THEN UNCHANGED streamFaults ELSE Fault
  /\ worker' = [worker EXCEPT ![w] = Idle]
  /\ UNCHANGED <<redisVars, queue, polled, reclaim, closed, up, settled, stops>>

\* XACK.  It can fail; after Close, which closes the client without waiting for the
\* workers, it needs no further fault to do so.
WorkerAcks(w) ==
  /\ up
  /\ worker[w].pc = "ack"
  /\ \/ XAck(worker[w].msg) /\ UNCHANGED streamFaults
     \/ (IF closed THEN UNCHANGED streamFaults ELSE Fault) /\ UNCHANGED <<pel, idle>>
  /\ worker' = [worker EXCEPT ![w] = Idle]
  /\ UNCHANGED <<added, trimmed, hasGroup, last, queue, polled, reclaim, closed, up,
                 settled, stops>>

-----------------------------------------------------------------------------
(* Close, crash, and the next start of the process.                        *)

Close ==
  /\ up /\ ~closed
  /\ stops < MaxStops
  /\ stops' = stops + 1
  /\ closed' = TRUE
  /\ UNCHANGED <<redisVars, queue, polled, reclaim, worker, up, settled, streamFaults>>

PollExits_OnlyIfRoom ==
  /\ up /\ closed
  /\ polled # << >>
  /\ Len(queue) < QueueDepth
  /\ polled' = << >>
  /\ UNCHANGED <<redisVars, queue, reclaim, worker, closed, up, histVars>>

\* The loops and the workers see closeCh or their cancelled context; what they had
\* read and not processed is dropped.
PollExits ==
  /\ up /\ closed
  /\ polled # << >>
  /\ polled' = << >>
  /\ UNCHANGED <<redisVars, queue, reclaim, worker, closed, up, histVars>>

ReclaimExits ==
  /\ up /\ closed
  /\ reclaim # NoReclaim
  /\ reclaim' = NoReclaim
  /\ UNCHANGED <<redisVars, queue, polled, worker, closed, up, histVars>>

WorkerExits(w) ==
  /\ up /\ closed
  /\ worker[w].pc = "idle"
  /\ worker' = [worker EXCEPT ![w] = [Idle EXCEPT !.pc = "stopped"]]
  /\ UNCHANGED <<redisVars, queue, polled, reclaim, closed, up, histVars>>

Empty == /\ queue' = << >>
         /\ polled' = << >>
         /\ reclaim' = NoReclaim
         /\ worker' = [w \in Workers |-> Idle]

\* wg.Wait() returns, and the process ends.
WaitReturns ==
  /\ up /\ closed
  /\ polled = << >>
  /\ reclaim = NoReclaim
  /\ \A w \in Workers : worker[w].pc = "stopped"
  /\ up' = FALSE
  /\ Empty
  /\ UNCHANGED <<redisVars, closed, histVars>>

ReaderCrash ==
  /\ up
  /\ stops < MaxStops
  /\ stops' = stops + 1
  /\ up' = FALSE
  /\ Empty
  /\ UNCHANGED <<redisVars, closed, settled, streamFaults>>

\* Init and Subscribe of the next process; the group exists already or is made anew.
Restart ==
  /\ ~up
  /\ up' = TRUE
  /\ closed' = FALSE
  /\ hasGroup' = TRUE
  /\ UNCHANGED <<added, trimmed, last, pel, idle, queue, polled, reclaim, worker, histVars>>

-----------------------------------------------------------------------------
StreamsInit ==
  /\ added = 0 /\ trimmed = {} /\ hasGroup = TRUE /\ last = 0 /\ pel = {} /\ idle = {}
  /\ queue = << >> /\ polled = << >> /\ reclaim = NoReclaim
  /\ worker = [w \in Workers |-> Idle]
  /\ closed = FALSE /\ up = TRUE
  /\ settled = {} /\ streamFaults = 0 /\ stops = 0

Worker(w) == \/ WorkerTakes(w)
             \/ HandlerReturns(w)
             \/ HandlerExpires(w)
             \/ WorkerAcks(w)
             \/ WorkerExits(w)

Poll == PollNewMessages \/ PollRecreatesGroup \/ PollEnqueues \/ PollExits

Reclaim == \/ ReclaimPending
           \/ ReclaimClaims
           \/ ReclaimEnqueues
           \/ removeMessagesThatNoLongerExistFromPending
           \/ ReclaimLoops
           \/ ReclaimFails
           \/ removeMessagesSkipsOne
           \/ ReclaimExits

StreamsNext == \/ Publish
               \/ Trim
               \/ GroupLost
               \/ \E m \in Messages : IdleTimePasses(m)
               \/ Poll
               \/ Reclaim
               \/ \E w \in Workers : Worker(w)
               \/ Close
               \/ WaitReturns
               \/ ReaderCrash
               \/ Restart

StreamsSpec == StreamsInit /\ [][StreamsNext]_streamsVars

\* Goroutines that can run do run, handlers return, the idle time of pending
\* entries grows, and a stopped sidecar is started again.
StreamsFairness == /\ WF_streamsVars(Poll)
                   /\ WF_streamsVars(Reclaim)
                   /\ \A w \in Workers : WF_streamsVars(Worker(w))
                   /\ \A m \in Messages : WF_streamsVars(IdleTimePasses(m))
                   /\ WF_streamsVars(WaitReturns)
                   /\ WF_streamsVars(Restart)

FairSpec == StreamsSpec /\ StreamsFairness

-----------------------------------------------------------------------------
(* Properties.                                                             *)

\* The values the variables can have; nothing overfills r.queue.
StreamsTypeOK ==
  /\ added \in 0 .. MaxMessages /\ last \in 0 .. added
  /\ trimmed \subseteq Messages /\ hasGroup \in BOOLEAN
  /\ pel \subseteq Messages /\ idle \subseteq pel
  /\ queue \in Seq(Messages) /\ Len(queue) <= QueueDepth
  /\ polled \in Seq(Messages)
  /\ reclaim \in [pc : {"wait", "claim", "enqueue"}, ids : Seq(Messages), claimed : Seq(Messages)]
  /\ worker \in [Workers -> [pc : {"idle", "handler", "ack", "stopped"},
                             msg : Messages \cup {NoMsg}]]
  /\ closed \in BOOLEAN /\ up \in BOOLEAN
  /\ settled \subseteq Messages

\* A message that Redis has delivered to the group stays pending until a handler
\* has returned for it on its own account, whatever crashes, lost replies, failed
\* acks, reclaims and nil replies of XCLAIM come in between (processMessage,
\* removeMessagesThatNoLongerExistFromPending).  Only then can it be redelivered.
UnsettledStaysPending ==
  \A m \in Messages : m <= last /\ m \notin settled \cup trimmed => m \in pel

\* With redelivery on, every published message is handed to a handler that returns
\* on its own account, unless the stream is trimmed before, and is acknowledged:
\* also when its reader crashed, its first acknowledgement failed, or its message
\* was trimmed while it was pending.
EventuallySettled ==
  \A m \in Messages : m <= added ~> m \in settled \cup trimmed /\ m \notin pel

\* Close returns: the loops do not stay blocked on a full queue nor the workers on
\* an empty one.
CloseTerminates == closed ~> ~up

\* Nothing stays undone: neither a message that was published nor a Close
\* (pollNewMessagesLoop, reclaimPendingMessagesLoop, worker, Close).
EverythingEnds == EventuallySettled /\ CloseTerminates
=============================================================================
