--------------------------- MODULE ConsulResolver ---------------------------
(***************************************************************************)
(* nameresolution/hashicorp/consul with useCache: ResolveID answers from a *)
(* registry of healthy instances, which a watch loop keeps up to date.     *)
(* The loop runs a watch plan, a long poll for health checks and then a    *)
(* request for each app whose checks have changed, until the plan is done, *)
(* a caller registers another app, or Close stops it; loop and plan share  *)
(* the state of the plan.                                                  *)
(*                                                                         *)
(* Every change in Consul increments its index.  A long poll for an index  *)
(* that is still the last one is answered after its wait time.             *)
(***************************************************************************)
EXTENDS Naturals, Sequences, SequencesExt

CONSTANTS
  Idle,            \* not an app: a goroutine that registers none
  Apps,            \* the app IDs (service names)
  Resolvers,       \* goroutines that call ResolveID
  RegistrationCap, \* capacity of the registration channel (100)
  MaxResolves,     \* bound: calls of ResolveID
  MaxHealthChanges,\* bound: changes of health checks
  MaxQueryFaults   \* bound: requests to the agent that fail

ASSUME ConsulAssumption ==
  /\ RegistrationCap \in Nat \ {0}
  /\ {MaxResolves, MaxHealthChanges, MaxQueryFaults} \subseteq Nat

VARIABLES
  checks,       \* Consul: the checks of each app's instance, none if it is gone
  index,        \* Consul: X-Consul-Index
  registry,     \* entries: the app's healthy instances
  registering,  \* serviceChannel
  resolve,      \* the app each goroutine in ResolveID is to register
  watcher,      \* the goroutine of runWatchLoop
  watched,      \* services of the iteration, the keys of the registry
  plan,         \* the goroutine of runWatchPlan
  cancelled,    \* its context is done (its cancel is called when it is over, too)
  complete,     \* watchPlanComplete holds its signal
  lastParamVal, lastResult, expired,   \* watchPlan
  changed,      \* changedServices that are still to be asked for
  consulClose,      \* Close
  resolves, queryFaults,
  skewed        \* history: apps that had changed again when they were asked for

consul == <<checks, index>>
planState == <<lastParamVal, lastResult, expired>>
consulVars == <<consul, registry, registering, resolve, watcher, watched, plan,
                cancelled, complete, planState, changed, consulClose, resolves, queryFaults,
                skewed>>

NoParam == 0    \* lastParamVal is nil or 0: the query does not wait

-----------------------------------------------------------------------------
(* The agent.                                                              *)

\* Health().Service of an app, passing only: its one instance, or none.
Passing(a) == checks[a] = {"passing"}

HealthChange(a) ==
  /\ index <= MaxHealthChanges /\ consulClose = "no"
  /\ \E new \in {{}, {"passing"}, {"passing", "critical"}} \ {checks[a]} :
       checks' = [checks EXCEPT ![a] = new]
  /\ index' = index + 1
  /\ UNCHANGED <<registry, registering, resolve, watcher, watched, plan, cancelled,
                 complete, planState, changed, consulClose, resolves, queryFaults, skewed>>

Fault == queryFaults < MaxQueryFaults /\ queryFaults' = queryFaults + 1

-----------------------------------------------------------------------------
(* ResolveID.                                                              *)

\* startWatcher, and the app's entry: an instance of it is the answer; if it has
\* none the agent is asked, which changes nothing here.
getService(r, a) ==
  /\ resolve[r] = Idle /\ resolves < MaxResolves /\ consulClose = "no"
  /\ resolves' = resolves + 1
  /\ watcher' = IF watcher = "off" THEN "loop" ELSE watcher
  /\ resolve' = IF a \in DOMAIN registry THEN resolve ELSE [resolve EXCEPT ![r] = a]
  /\ UNCHANGED <<consul, registry, registering, watched, plan, cancelled, complete,
                 planState, changed, consulClose, queryFaults, skewed>>

\* An app without an entry is sent to the loop first.
Register(r) ==
  /\ resolve[r] # Idle /\ Len(registering) < RegistrationCap
  /\ registering' = Append(registering, resolve[r])
  /\ resolve' = [resolve EXCEPT ![r] = Idle]
  /\ UNCHANGED <<consul, registry, watcher, watched, plan, cancelled, complete,
                 planState, changed, consulClose, resolves, queryFaults, skewed>>

-----------------------------------------------------------------------------
(* runWatchLoop.                                                           *)

\* addOrUpdate of some apps with no instances.
Emptied(apps) ==
  [a \in DOMAIN registry \cup apps |-> IF a \in apps THEN FALSE ELSE registry[a]]

Iterate ==
  /\ watcher = "loop"
  /\ watcher' = "select"
  /\ watched' = DOMAIN registry
  /\ plan' = IF DOMAIN registry = {} THEN plan ELSE "poll"
  /\ UNCHANGED <<consul, registry, registering, resolve, cancelled, complete, planState,
                 changed, consulClose, resolves, queryFaults, skewed>>

PlanCompleted ==
  /\ watcher = "select" /\ complete
  /\ complete' = FALSE /\ watcher' = "loop"
  /\ UNCHANGED <<consul, registry, registering, resolve, watched, plan, cancelled,
                 planState, changed, consulClose, resolves, queryFaults, skewed>>

\* An app is registered: the plan is cancelled, and all others that have been
\* registered follow, one receive each.
Registered ==
  /\ watcher \in {"select", "draining"} /\ registering # <<>>
  /\ registering' = Tail(registering)
  /\ registry' = Emptied({Head(registering)} \ watched)
  /\ cancelled' = (plan # "none")
  /\ watcher' = "draining"
  /\ UNCHANGED <<consul, resolve, watched, plan, complete, planState, changed, consulClose,
                 resolves, queryFaults, skewed>>

\* The loop goes on when the plan it has cancelled is over.
Drained ==
  /\ watcher = "draining" /\ registering = <<>>
  /\ watched # {} => complete
  /\ complete' = FALSE
  /\ lastParamVal' = NoParam
  /\ watcher' = "loop"
  /\ UNCHANGED <<consul, registry, registering, resolve, watched, plan, cancelled,
                 lastResult, expired, changed, consulClose, resolves, queryFaults, skewed>>

Stopped ==
  /\ watcher = "select" /\ consulClose = "stopping"
  /\ cancelled' = (plan # "none")
  /\ watcher' = "removing" /\ consulClose' = "closed"
  /\ UNCHANGED <<consul, registry, registering, resolve, watched, plan, complete,
                 planState, changed, resolves, queryFaults, skewed>>

RemoveAll ==
  /\ watcher = "removing"
  /\ registry' = <<>>
  /\ watcher' = "ended"
  /\ UNCHANGED <<consul, registering, resolve, watched, plan, cancelled, complete,
                 planState, changed, consulClose, resolves, queryFaults, skewed>>

CloseResolver ==
  /\ consulClose = "no"
  /\ consulClose' = IF watcher \in {"off", "ended"} THEN "closed" ELSE "stopping"
  /\ UNCHANGED <<consul, registry, registering, resolve, watcher, watched, plan,
                 cancelled, complete, planState, changed, resolves, queryFaults, skewed>>

-----------------------------------------------------------------------------
(* runWatchPlan.                                                           *)

\* An instance is healthy if all of its checks pass.
getHealthByService ==
  [a \in {b \in watched : checks[b] # {}} |-> checks[a] = {"passing"}]

\* Apps that are new, have changed, or are gone.
getChangedServices(result) ==
  {a \in DOMAIN result : a \notin DOMAIN lastResult \/ result[a] # lastResult[a]}
    \cup (DOMAIN lastResult \ DOMAIN result)

\* The deferred signal.
Completes == plan' = "none" /\ complete' = TRUE /\ cancelled' = FALSE

\* The health checks arrive, with the index they are of.
PollAnswered ==
  LET result == getHealthByService IN
  /\ plan \in {"poll", "poll again"}
  /\ expired' = FALSE
  /\ IF lastParamVal = index
     THEN Completes /\ UNCHANGED <<lastParamVal, lastResult, changed>>
     ELSE /\ lastParamVal' = index
          /\ changed' = getChangedServices(result)
          /\ lastResult' = result
          /\ plan' = "update" /\ UNCHANGED <<cancelled, complete>>
  /\ UNCHANGED <<consul, registry, registering, resolve, watcher, watched, consulClose,
                  resolves, queryFaults, skewed>>

\* A long poll that fails is repeated without waiting; if that fails too, the
\* registry expires, and the plan sleeps.
PollFails ==
  /\ plan \in {"poll", "poll again"} /\ Fault
  /\ IF plan = "poll" /\ lastParamVal # NoParam
     THEN plan' = "poll again" /\ UNCHANGED <<planState, registry>>
     ELSE /\ plan' = "sleep"
          /\ expired' = TRUE
          /\ registry' = IF expired THEN registry ELSE Emptied(DOMAIN registry)
          /\ lastResult' = IF expired THEN lastResult ELSE <<>>
          /\ lastParamVal' = NoParam
  /\ UNCHANGED <<consul, registering, resolve, watcher, watched, cancelled, complete,
                 changed, consulClose, resolves, skewed>>

PollCancelled ==
  /\ plan \in {"poll", "poll again"} /\ cancelled
  /\ Completes
  /\ UNCHANGED <<consul, registry, registering, resolve, watcher, watched,
                 planState, changed, consulClose, resolves, queryFaults, skewed>>

\* The retry timer, or the end of the context.
Awakes ==
  /\ plan = "sleep"
  /\ Completes
  /\ UNCHANGED <<consul, registry, registering, resolve, watcher, watched,
                 planState, changed, consulClose, resolves, queryFaults, skewed>>

\* An app is asked for; addOrUpdate.
Updated(a) ==
  /\ plan = "update" /\ a \in changed
  /\ changed' = changed \ {a}
  /\ registry' = [b \in DOMAIN registry \cup {a} |->
                    IF b = a THEN Passing(a) ELSE registry[b]]
  /\ skewed' = IF Passing(a) = (a \in DOMAIN lastResult /\ lastResult[a])
               THEN skewed \ {a} ELSE skewed \cup {a}
  /\ UNCHANGED <<consul, registering, resolve, watcher, watched, plan, cancelled,
                 complete, planState, consulClose, resolves, queryFaults>>

\* Slip: the checks of the app stay in lastResult.
UpdateFails_KeepsResult(a) ==
  /\ plan = "update" /\ a \in changed
  /\ Fault \/ (cancelled /\ UNCHANGED queryFaults)
  /\ changed' = changed \ {a}
  /\ registry' = Emptied({a} \cap DOMAIN registry)
  /\ lastParamVal' = NoParam
  /\ UNCHANGED <<consul, registering, resolve, watcher, watched, plan, cancelled,
                 complete, lastResult, expired, consulClose, resolves, skewed>>

\* The request fails, of itself or with its context: expire, and the next plan
\* finds the app changed.
UpdateFails(a) ==
  /\ plan = "update" /\ a \in changed
  /\ Fault \/ (cancelled /\ UNCHANGED queryFaults)
  /\ changed' = changed \ {a}
  /\ registry' = Emptied({a} \cap DOMAIN registry)
  /\ lastResult' = [b \in DOMAIN lastResult \ {a} |-> lastResult[b]]
  /\ lastParamVal' = NoParam
  /\ UNCHANGED <<consul, registering, resolve, watcher, watched, plan, cancelled,
                 complete, expired, consulClose, resolves, skewed>>

UpdatesDone ==
  /\ plan = "update" /\ changed = {}
  /\ Completes
  /\ UNCHANGED <<consul, registry, registering, resolve, watcher, watched,
                 planState, changed, consulClose, resolves, queryFaults, skewed>>

-----------------------------------------------------------------------------
ConsulInit ==
  /\ checks = [a \in Apps |-> {"passing"}] /\ index = 1
  /\ registry = <<>> /\ registering = <<>>
  /\ resolve = [r \in Resolvers |-> Idle]
  /\ watcher = "off" /\ watched = {}
  /\ plan = "none" /\ cancelled = FALSE /\ complete = FALSE
  /\ lastParamVal = NoParam /\ lastResult = <<>> /\ expired = FALSE /\ changed = {}
  /\ consulClose = "no" /\ resolves = 0 /\ queryFaults = 0 /\ skewed = {}

Update == UpdatesDone \/ \E a \in Apps : Updated(a) \/ UpdateFails(a)

ConsulNext ==
  \/ \E a \in Apps : HealthChange(a) \/ \E r \in Resolvers : getService(r, a)
  \/ \E r \in Resolvers : Register(r)
  \/ Iterate \/ PlanCompleted \/ Registered \/ Drained \/ Stopped \/ RemoveAll
  \/ CloseResolver
  \/ PollAnswered \/ PollFails \/ PollCancelled \/ Awakes \/ Update

\* Goroutines go on and requests end.  A select with several ready cases picks
\* one at random, so none that is ready again and again is left out for good.
ConsulFairness ==
  /\ \A r \in Resolvers : WF_consulVars(Register(r))
  /\ WF_consulVars(Iterate \/ PlanCompleted \/ Drained \/ RemoveAll)
  /\ SF_consulVars(Registered) /\ SF_consulVars(Stopped)
  /\ WF_consulVars(PollAnswered \/ PollCancelled \/ Awakes \/ Update)

ConsulSpec == ConsulInit /\ [][ConsulNext]_consulVars /\ ConsulFairness

-----------------------------------------------------------------------------
(* Properties.                                                             *)

\* A plan that waits for the next change has brought the registry up to date,
\* whatever requests have failed and whenever it was cancelled, except for an app
\* that had changed again by the time it was asked for.
FreshWhenWaiting ==
  watcher = "select" /\ plan = "poll" /\ ~cancelled /\ lastParamVal = index =>
    \A a \in watched \ skewed : registry[a] = Passing(a)

\* Nothing is answered from the registry while the agent cannot be reached.
ExpiredServesNothing == expired => \A a \in DOMAIN registry : ~registry[a]

\* The loop has its plan to itself between two plans.
OnePlanAtATime == watcher = "loop" => plan = "none" /\ ~complete

\* The registry is up to date when the watch plan waits, empty when the agent is
\* lost, and only one plan at a time works on it.
RegistryIsFresh == FreshWhenWaiting /\ ExpiredServesNothing /\ OnePlanAtATime

(***************************************************************************)
(* Every ResolveID returns, though it waits for a place in the             *)
(* registration channel, every app it has missed comes to be watched, and  *)
(* the registry catches up with Consul; after Close the loop and its plan  *)
(* end.                                                                    *)
(***************************************************************************)
RegistryCatchesUp ==
  <>[]IF consulClose = "no"
      THEN /\ \A r \in Resolvers : resolve[r] = Idle
           /\ registering = <<>>
           /\ \A a \in DOMAIN registry \ skewed : registry[a] = Passing(a)
      ELSE consulClose = "closed" /\ watcher \in {"off", "ended"} /\ plan = "none"
=============================================================================
