----------------------------- MODULE Lifecycles -----------------------------
(***************************************************************************)
(* Init, Read and Close of the components.  A behaviour is the life of one *)
(* component: Init, which may fail at each of its steps; Read, for the     *)
(* input bindings that start goroutines of their own; and one or two calls *)
(* of Close, also after an Init that has failed.  The goroutines run on    *)
(* while Close does, and Close waits for some of them.                     *)
(***************************************************************************)
EXTENDS ServiceLifecycles, TLC

CONSTANT Components        \* the components to check

VARIABLES
  component,   \* the component
  phase,       \* what it is doing
  at,          \* the step of the Init, Read or Close under way
  failed,      \* Init has failed
  read,        \* Read has been called
  closes,      \* calls of Close so far
  open,        \* resources that are open
  kept,        \* resources that fields of the component refer to
  running,     \* goroutines that run
  ending,      \* goroutines that have been told to end
  listening,   \* goroutines with a listener that is up
  sending      \* goroutines in a send on a channel without a buffer

lifeVars == <<component, phase, at, failed, read, closes, open, kept, running,
              ending, listening, sending>>

Inits == StoreInits @@ BrokerInits @@ ServiceInits
Closers == StoreCloses @@ BrokerCloses @@ ServiceCloses
Readers == BrokerReads @@ ServiceReads

\* Goroutines of Read that wait for the context of the caller or for Close.
Guards == {"watcher", "shutter", "stopper", "canceller of Read"}

\* What a goroutine does as it ends: it cancels the context of others, stops
\* the schedule of the jobs, or shuts a server down, which a server that does
\* not listen yet does not notice.
Tells(g) ==
  CASE g = "watcher" -> {"reader", "informer"}
    [] g = "stopper" -> {"jobs"}
    [] g = "canceller" -> {"starter"}
    [] g = "shutter" -> {"server"} \cap listening
    [] OTHER -> {}

\* Who receives what a goroutine sends on a channel without a buffer: the
\* events of the informer, and the result of the starter of the key cache,
\* which is its last step.
Receivers == [informer |-> {"reader"}, starter |-> {}]

LifeInit ==
  /\ component \in Components
  /\ phase = "starting" /\ at = 1
  /\ failed = FALSE /\ read = FALSE /\ closes = 0
  /\ open = {} /\ kept = {}
  /\ running = {} /\ ending = {} /\ listening = {} /\ sending = {}

LifeProgram ==
  CASE phase = "starting" -> Inits[component]
    [] phase = "reading" -> Readers[component]
    [] component \in DOMAIN Closers -> Closers[component]
    [] OTHER -> <<>>

StepNow == LifeProgram[at]

\* The next step of Init or Read works.
Advances ==
  /\ phase \in {"starting", "reading"} /\ at <= Len(LifeProgram)
  /\ LET s == StepNow IN
     /\ open' = IF s.do \in {"open", "take", "make", "hold"} THEN open \cup {s.what}
                ELSE IF s.do = "drop" THEN open \ {s.what} ELSE open
     /\ kept' = IF s.do \in {"open", "keep", "make"} THEN kept \cup {s.what} ELSE kept
     /\ running' = IF s.do = "spawn" THEN running \cup {s.what} ELSE running
  /\ at' = at + 1
  /\ UNCHANGED <<component, phase, failed, read, closes, ending, listening, sending>>

Skips ==
  /\ phase \in {"starting", "reading"} /\ at <= Len(LifeProgram)
  /\ StepNow.optional
  /\ at' = at + 1
  /\ UNCHANGED <<component, phase, failed, read, closes, open, kept, running,
                 ending, listening, sending>>

\* The next step of Init or Read fails, and the call returns its error.
StepErrs ==
  /\ phase \in {"starting", "reading"} /\ at <= Len(LifeProgram)
  /\ StepNow.do \in {"check", "open", "take"} /\ ~StepNow.optional
  /\ phase' = IF StepNow.fatal THEN "exited"
              ELSE IF phase = "starting" THEN "failed" ELSE "ready"
  /\ failed' = (failed \/ phase = "starting")
  /\ open' = open \ StepNow.undo
  /\ kept' = kept \ StepNow.undo
  /\ UNCHANGED <<component, at, read, closes, running, ending, listening, sending>>

Returns ==
  /\ phase \in {"starting", "reading"} /\ at > Len(LifeProgram)
  /\ phase' = "ready"
  /\ UNCHANGED <<component, at, failed, read, closes, open, kept, running, ending,
                 listening, sending>>

\* Every Read begins with a check that the component is not closed.
ReadStarts ==
  /\ phase = "ready" /\ ~read /\ component \in DOMAIN Readers
  /\ phase' = "reading" /\ at' = 1 /\ read' = TRUE
  /\ UNCHANGED <<component, failed, closes, open, kept, running, ending, listening,
                 sending>>

CloseStarts ==
  /\ phase \in {"ready", "failed", "closed"} /\ closes < 2
  /\ phase' = "closing" /\ at' = 1 /\ closes' = closes + 1
  /\ UNCHANGED <<component, failed, read, open, kept, running, ending, listening,
                 sending>>

CloseReturns ==
  /\ phase = "closing" /\ at > Len(LifeProgram)
  /\ phase' = "closed"
  /\ UNCHANGED <<component, at, failed, read, closes, open, kept, running, ending,
                 listening, sending>>

\* The next step of Close, if it is not one that waits.
CloseStep ==
  /\ phase = "closing" /\ at <= Len(LifeProgram)
  /\ LET s == StepNow
         nil == s.what \notin kept
         panics == s.do \in {"deref", "touch"} /\ nil
         ends == (s.do = "once" /\ closes > 1) \/ (s.do = "needs" /\ nil)
     IN /\ s.do # "join"
        /\ phase' = IF panics THEN "panicked" ELSE phase
        /\ at' = IF ends THEN Len(LifeProgram) + 1 ELSE at + 1
        /\ open' = IF s.do \in {"release", "deref"} /\ ~nil THEN open \ {s.what} ELSE open
        /\ kept' = IF s.do = "clear" THEN kept \ {s.what} ELSE kept
        /\ ending' = IF s.do = "signal" THEN ending \cup {s.what} ELSE ending
  /\ UNCHANGED <<component, failed, read, closes, running, listening, sending>>

CloseJoins ==
  /\ phase = "closing" /\ at <= Len(LifeProgram)
  /\ StepNow.do = "join" /\ StepNow.what \notin running
  /\ at' = at + 1
  /\ UNCHANGED <<component, phase, failed, read, closes, open, kept, running,
                 ending, listening, sending>>

\* The goroutine that runs a server begins to listen.
Listens ==
  /\ "server" \in running \ listening
  /\ listening' = listening \cup {"server"}
  /\ UNCHANGED <<component, phase, at, failed, read, closes, open, kept, running,
                 ending, sending>>

SendBegins(g) ==
  /\ g \in running \ sending /\ g \in DOMAIN Receivers
  /\ sending' = sending \cup {g}
  /\ UNCHANGED <<component, phase, at, failed, read, closes, open, kept, running,
                 ending, listening>>

SendEnds(g) ==
  /\ g \in sending /\ Receivers[g] \cap running # {}
  /\ sending' = sending \ {g}
  /\ UNCHANGED <<component, phase, at, failed, read, closes, open, kept, running,
                 ending, listening>>

\* The caller cancels the context of Read.
ReadCancelled ==
  /\ phase = "ready" /\ (Guards \cap running) \ ending # {}
  /\ ending' = ending \cup (Guards \cap running)
  /\ UNCHANGED <<component, phase, at, failed, read, closes, open, kept, running,
                 listening, sending>>

GoroutineEnds(g) ==
  /\ g \in running \cap ending /\ g \notin sending /\ g # "starter"
  /\ g = "server" => g \in listening
  /\ running' = running \ {g}
  /\ ending' = ending \cup Tells(g)
  /\ UNCHANGED <<component, phase, at, failed, read, closes, open, kept, listening,
                 sending>>

LifeNext ==
  \/ Advances \/ Skips \/ StepErrs \/ Returns
  \/ ReadStarts \/ CloseStarts \/ CloseStep \/ CloseJoins \/ CloseReturns
  \/ Listens \/ ReadCancelled
  \/ \E g \in running : SendBegins(g) \/ SendEnds(g) \/ GoroutineEnds(g)

LifeSpec == LifeInit /\ [][LifeNext]_lifeVars

(***************************************************************************)
(* What the lives must be like.  The sets name the components in which the *)
(* code does not reach it.                                                 *)
(***************************************************************************)

\* A handle in a local variable is forgotten when a later step fails.
Forgetful ==
  {"coherence", "couchbase", "hazelcast", "kafka", "kafka_binding", "mqtt3",
   "rabbitmq_binding", "rocketmq_binding", "servicebus_binding", "servicebus_queues",
   "servicebus_topics", "sqlserver", "sqlserver_v2"}
\* A goroutine is started before a step that may still fail.
StartsEarly == {"configmap", "gcp_pubsub", "jwks"}
\* Close does not release everything that Init has opened.
NeverReleases ==
  {"aerospike", "couchbase", "hazelcast", "rocketmq_binding", "servicebus_queues",
   "solace", "zookeeper"}
\* Close does not wait for every goroutine.
ReturnsBefore == {"cron", "jwks", "mdns"}
\* The database is closed before the garbage collector has ended.
ClosesUnderUse == {"mysql", "postgres_v1", "postgres_v2", "sqlserver", "sqlserver_v2"}
\* Close calls a method of a field that a failed Init has left nil.
NeedsInit ==
  {"gcp_binding", "gcp_bucket", "gcp_pubsub", "influx", "jetstream", "kubemq",
   "kubemq_binding", "mqtt3", "pulsar", "redis", "redis_binding", "redis_config",
   "rethinkdb_binding", "servicebus_binding", "servicebus_queues", "servicebus_topics",
   "sftp", "snssqs", "solace"}
\* Close may wait for a goroutine that nothing will end.
WaitsForever == {"eventgrid", "kubernetes"}

FailureForgetsNothing ==
  phase = "failed" /\ component \notin Forgetful => open \subseteq kept

FailureStartsNothing ==
  phase = "failed" /\ component \notin StartsEarly => running = {}

CloseReleasesAll ==
  phase = "closed" /\ component \notin NeverReleases =>
    open = {} \/ (failed /\ component \in Forgetful)

CloseEndsAll ==
  phase = "closed" /\ component \notin ReturnsBefore => running = {}

CollectorHasDatabase ==
  "gc" \in running /\ component \notin ClosesUnderUse => "db" \in open

OnlyUninitialisedPanics ==
  phase = "panicked" => failed /\ component \in NeedsInit

\* A goroutine has been told to end, or is about to be, and can receive or send
\* what it waits for.
WillEnd(g) ==
  /\ g \in ending \cup UNION {Tells(h) : h \in running \cap ending}
  /\ g \in sending => Receivers[g] \cap running # {}

CloseGetsOn ==
  LET waits == /\ phase = "closing" /\ at <= Len(LifeProgram)
               /\ StepNow.do = "join" /\ StepNow.what \in running
  IN waits /\ component \notin WaitsForever => WillEnd(StepNow.what)


=============================================================================
