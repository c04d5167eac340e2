---------------------------- MODULE ServicesProofs ----------------------------
(***************************************************************************)
(* Theorems about the parts of Services, for any number of apps, callers,  *)
(* hosts, subscriptions, starting sidecars, changes and failures: the      *)
(* registry of Consul is fresh, what an mDNS browse has found is answered, *)
(* subscribers of configuration are told in order, and migrations run      *)
(* once.                                                                   *)
(***************************************************************************)
EXTENDS Services, SequenceTheorems, FiniteSetTheorems, WellFoundedInduction,
        NaturalsInduction, TLAPS

\* The types of what the loop and its plan share.
ConsulTyped ==
  /\ DOMAIN checks = Apps
  /\ index \in Nat /\ index > 0
  /\ lastParamVal \in Nat /\ lastParamVal <= index
  /\ registry \in [DOMAIN registry -> BOOLEAN] /\ DOMAIN registry \subseteq Apps
  /\ registering \in Seq(Apps)
  /\ resolve \in [Resolvers -> Apps \cup {Idle}]
  /\ watched \subseteq Apps
  /\ lastResult \in [DOMAIN lastResult -> BOOLEAN] /\ DOMAIN lastResult \subseteq watched
  /\ changed \subseteq watched
  /\ cancelled \in BOOLEAN /\ complete \in BOOLEAN /\ expired \in BOOLEAN

\* There is a plan only for apps that are watched, and not while the loop is
\* between two plans; it has signalled its end before.
PlanInv ==
  /\ plan # "none" => watcher \notin {"off", "loop"} /\ watched # {} /\ ~complete
  /\ watcher \in {"off", "loop"} => ~complete
  /\ plan # "update" => changed = {}

\* What is watched is in the registry; more than that is there only while new apps
\* are registered, and the next plan then begins anew.
WatchInv ==
  /\ watcher = "off" => registry = << >> /\ watched = {}
  /\ watcher \in {"off", "loop", "select", "draining"} => watched \subseteq DOMAIN registry
  /\ watcher = "select" \/ (watcher = "loop" /\ lastParamVal # NoParam)
       => DOMAIN registry = watched

\* The last health checks have a passing instance of the app.
Reported(a) == a \in DOMAIN lastResult /\ lastResult[a]

\* The registry follows the last health checks.
FollowInv ==
  \A a \in DOMAIN registry \ (changed \cup skewed) : registry[a] = Reported(a)

\* The last health checks are the ones of their index.
ReportInv == lastParamVal = index => \A a \in watched : Reported(a) = Passing(a)

\* A registry that has expired is empty, and so are the last health checks.
ExpiredInv ==
  expired => /\ plan # "update" /\ lastResult = << >>
             /\ \A a \in DOMAIN registry : ~registry[a]

ConsulInv == /\ ConsulTyped /\ PlanInv /\ WatchInv /\ FollowInv /\ ReportInv
             /\ ExpiredInv

LEMMA ConsulInvInit == ConsulInit => ConsulInv
  <1> SUFFICES ASSUME ConsulInit PROVE ConsulInv
    OBVIOUS
  <1>1. DOMAIN << >> = {} /\ << >> \in Seq(Apps)
    OBVIOUS
  <1>2. << >> \in [DOMAIN << >> -> BOOLEAN]
    BY <1>1
  <1>3. ConsulTyped
    <2>1. registry \in [DOMAIN registry -> BOOLEAN] /\ DOMAIN registry = {}
      BY <1>1, <1>2 DEF ConsulInit
    <2>2. lastResult \in [DOMAIN lastResult -> BOOLEAN] /\ DOMAIN lastResult = {}
      BY <1>1, <1>2 DEF ConsulInit
    <2>3. index \in Nat /\ index > 0 /\ lastParamVal \in Nat /\ lastParamVal <= index
      BY DEF ConsulInit, NoParam
    <2>4. resolve \in [Resolvers -> {Idle}] /\ DOMAIN checks = Apps
      BY DEF ConsulInit
    <2> QED BY <1>1, <2>1, <2>2, <2>3, <2>4 DEF ConsulInit, ConsulTyped
  <1> QED BY <1>1, <1>3 DEF ConsulInit, ConsulInv, PlanInv, WatchInv, FollowInv, ReportInv,
                            ExpiredInv, NoParam

\* Emptied keeps the other apps.
LEMMA EmptiedTyped ==
  ASSUME registry \in [DOMAIN registry -> BOOLEAN], NEW apps
  PROVE  /\ Emptied(apps) \in [DOMAIN registry \cup apps -> BOOLEAN]
         /\ DOMAIN Emptied(apps) = DOMAIN registry \cup apps
         /\ \A a \in apps : ~Emptied(apps)[a]
         /\ \A a \in DOMAIN registry \ apps : Emptied(apps)[a] = registry[a]
  BY DEF Emptied

\* The end of a plan: nothing but its signal changes.
PlanEnds == /\ plan # "none"
            /\ plan = "update" => changed = {}
            /\ Completes
            /\ UNCHANGED <<consul, registry, registering, resolve, watcher, watched,
                           lastParamVal, lastResult, changed, skewed>>
            /\ expired' = expired \/ expired' = FALSE

\* The agent answers a long poll with newer health checks.
NewAnswer == /\ plan \in {"poll", "poll again"} /\ expired' = FALSE
             /\ lastParamVal' = index
             /\ changed' = getChangedServices(getHealthByService)
             /\ lastResult' = getHealthByService
             /\ plan' = "update"
             /\ UNCHANGED <<consul, registry, registering, resolve, watcher, watched,
                            cancelled, complete, skewed>>

LEMMA PlanSteps ==
  /\ PollAnswered => PlanEnds \/ NewAnswer
  /\ PollCancelled \/ Awakes \/ UpdatesDone => PlanEnds
  <1>1. ASSUME PollAnswered PROVE PlanEnds \/ NewAnswer
    BY <1>1 DEF PollAnswered, PlanEnds, NewAnswer
  <1>2. ASSUME PollCancelled \/ Awakes \/ UpdatesDone PROVE PlanEnds
    BY <1>2 DEF PollCancelled, Awakes, UpdatesDone, PlanEnds, planState
  <1> QED BY <1>1, <1>2

\* The steps of the callers and of Close do not touch what loop and plan share.
Aside == /\ UNCHANGED <<consul, registry, watched, plan, cancelled, complete, planState, changed,
                        skewed>>
         /\ watcher' = watcher \/ (watcher = "off" /\ watcher' = "loop")
         /\ registering' \in Seq(Apps) /\ resolve' \in [Resolvers -> Apps \cup {Idle}]

LEMMA AsideSteps ==
  ASSUME ConsulTyped
  PROVE  /\ \A a \in Apps, r \in Resolvers : getService(r, a) => Aside
         /\ \A r \in Resolvers : Register(r) => Aside
         /\ CloseResolver \/ UNCHANGED consulVars => Aside
  <1>1. ASSUME NEW a \in Apps, NEW r \in Resolvers, getService(r, a) PROVE Aside
    BY <1>1 DEF getService, Aside, ConsulTyped
  <1>2. ASSUME NEW r \in Resolvers, Register(r) PROVE Aside
    <2>1. IF resolve[r] = Idle THEN FALSE ELSE resolve[r] \in Apps
      BY <1>2 DEF Register, ConsulTyped
    <2>2. Append(registering, resolve[r]) \in Seq(Apps)
      BY <2>1 DEF ConsulTyped
    <2> QED BY <1>2, <2>2 DEF Register, Aside, ConsulTyped
  <1>3. ASSUME CloseResolver \/ UNCHANGED consulVars PROVE Aside
    BY <1>3 DEF CloseResolver, consulVars, Aside, ConsulTyped
  <1> QED BY <1>1, <1>2, <1>3

\* Every step keeps the types.
LEMMA ConsulTypedStep ==
  ASSUME ConsulInv, [ConsulNext]_consulVars
  PROVE  ConsulTyped'
  <1>0. ConsulTyped /\ PlanInv /\ WatchInv
    BY DEF ConsulInv
  <1>1. CASE Aside
    BY <1>0, <1>1 DEF Aside, ConsulTyped, planState, consul
  <1>2. ASSUME NEW a \in Apps, HealthChange(a) PROVE ConsulTyped'
    <2>1. DOMAIN checks' = Apps
      BY <1>0, <1>2 DEF HealthChange, ConsulTyped
    <2>2. index' \in Nat /\ index' > 0 /\ lastParamVal <= index'
      BY <1>0, <1>2 DEF HealthChange, ConsulTyped
    <2> QED BY <1>0, <1>2, <2>1, <2>2 DEF HealthChange, ConsulTyped, planState
  <1>3. CASE Iterate
    <2>1. DOMAIN lastResult \subseteq DOMAIN registry
      BY <1>0, <1>3 DEF Iterate, ConsulTyped, WatchInv
    <2>2. changed \subseteq DOMAIN registry
      BY <1>0, <1>3 DEF Iterate, ConsulTyped, WatchInv
    <2> QED BY <1>0, <1>3, <2>1, <2>2 DEF Iterate, ConsulTyped, planState, consul
  <1>4. CASE PlanCompleted \/ Stopped
    BY <1>0, <1>4 DEF PlanCompleted, Stopped, ConsulTyped, planState, consul
  <1>5. CASE Registered
    <2>1. Head(registering) \in Apps /\ Tail(registering) \in Seq(Apps)
      BY <1>0, <1>5 DEF Registered, ConsulTyped
    <2>2. registry' \in [DOMAIN registry' -> BOOLEAN] /\ DOMAIN registry' \subseteq Apps
      BY <1>0, <1>5, <2>1, EmptiedTyped DEF Registered, ConsulTyped
    <2> QED BY <1>0, <1>5, <2>1, <2>2 DEF Registered, ConsulTyped, planState, consul
  <1>6. CASE Drained
    <2>1. lastParamVal' \in Nat /\ lastParamVal' <= index
      BY <1>0, <1>6 DEF Drained, ConsulTyped, NoParam
    <2> QED BY <1>0, <1>6, <2>1 DEF Drained, ConsulTyped, consul
  <1>7. CASE RemoveAll
    <2>1. registry' \in [DOMAIN registry' -> BOOLEAN] /\ DOMAIN registry' = {}
      BY <1>7 DEF RemoveAll
    <2> QED BY <1>0, <1>7, <2>1 DEF RemoveAll, ConsulTyped, planState, consul
  <1>8. CASE PlanEnds
    BY <1>0, <1>8 DEF PlanEnds, Completes, ConsulTyped, consul
  <1>9. CASE NewAnswer
    <2>1. /\ lastResult' \in [DOMAIN lastResult' -> BOOLEAN]
          /\ DOMAIN lastResult' \subseteq watched
      BY <1>9 DEF NewAnswer, getHealthByService
    <2>2. changed' \subseteq watched
      BY <1>0, <1>9, <2>1 DEF NewAnswer, getChangedServices, ConsulTyped
    <2>3. lastParamVal' \in Nat /\ lastParamVal' <= index
      <3>1. lastParamVal' = index
        BY <1>9 DEF NewAnswer
      <3> QED BY <1>0, <3>1 DEF ConsulTyped
    <2> QED BY <1>0, <1>9, <2>1, <2>2, <2>3 DEF NewAnswer, ConsulTyped, consul
  <1>10. CASE PollFails
    <2>1. /\ registry' = registry \/ registry' = Emptied(DOMAIN registry)
          /\ lastResult' = lastResult \/ lastResult' = << >>
          /\ lastParamVal' = lastParamVal \/ lastParamVal' = 0
          /\ expired' = expired \/ expired' = TRUE
          /\ UNCHANGED <<consul, registering, resolve, watched, cancelled, complete, changed>>
      BY <1>10 DEF PollFails, planState, NoParam
    <2>2. registry' \in [DOMAIN registry' -> BOOLEAN] /\ DOMAIN registry' \subseteq Apps
      BY <1>0, <2>1, EmptiedTyped DEF ConsulTyped
    <2>3. /\ lastResult' \in [DOMAIN lastResult' -> BOOLEAN]
          /\ DOMAIN lastResult' \subseteq watched
      <3>1. << >> \in [DOMAIN << >> -> BOOLEAN] /\ DOMAIN << >> = {}
        OBVIOUS
      <3> QED BY <1>0, <2>1, <3>1 DEF ConsulTyped
    <2>4. lastParamVal' \in Nat /\ lastParamVal' <= index
      BY <1>0, <2>1 DEF ConsulTyped
    <2> QED BY <1>0, <2>1, <2>2, <2>3, <2>4 DEF ConsulTyped, consul
  <1>11. ASSUME NEW a \in Apps, Updated(a) PROVE ConsulTyped'
    <2>1. registry' \in [DOMAIN registry' -> BOOLEAN] /\ DOMAIN registry' \subseteq Apps
      BY <1>0, <1>11 DEF Updated, Passing, ConsulTyped
    <2> QED BY <1>0, <1>11, <2>1 DEF Updated, ConsulTyped, planState, consul
  <1>12. ASSUME NEW a \in Apps, UpdateFails(a) PROVE ConsulTyped'
    <2>1. registry' \in [DOMAIN registry' -> BOOLEAN] /\ DOMAIN registry' \subseteq Apps
      BY <1>0, <1>12, EmptiedTyped DEF UpdateFails, ConsulTyped
    <2>2. /\ lastResult' \in [DOMAIN lastResult' -> BOOLEAN]
          /\ DOMAIN lastResult' \subseteq watched
      BY <1>0, <1>12 DEF UpdateFails, ConsulTyped
    <2>3. lastParamVal' \in Nat /\ lastParamVal' <= index
      BY <1>0, <1>12 DEF UpdateFails, ConsulTyped, NoParam
    <2> QED BY <1>0, <1>12, <2>1, <2>2, <2>3 DEF UpdateFails, ConsulTyped, consul
  <1> QED BY <1>0, <1>1, <1>2, <1>3, <1>4, <1>5, <1>6, <1>7, <1>8, <1>9, <1>10, <1>11, <1>12,
             PlanSteps, AsideSteps DEF ConsulNext, Update

\* One plan at a time, for apps that are watched.
LEMMA PlanStep ==
  ASSUME ConsulInv, [ConsulNext]_consulVars
  PROVE  PlanInv'
  <1>0. ConsulTyped /\ PlanInv
    BY DEF ConsulInv
  <1> USE DEF PlanInv
  <1>1. CASE Aside
    BY <1>0, <1>1 DEF Aside
  <1>2. ASSUME NEW a \in Apps, HealthChange(a) PROVE PlanInv'
    BY <1>0, <1>2 DEF HealthChange
  <1>3. CASE Iterate
    BY <1>0, <1>3 DEF Iterate
  <1>4. CASE PlanCompleted
    BY <1>0, <1>4 DEF PlanCompleted
  <1>5. CASE Registered
    BY <1>0, <1>5 DEF Registered
  <1>6. CASE Drained
    BY <1>0, <1>6 DEF Drained
  <1>7. CASE Stopped \/ RemoveAll
    BY <1>0, <1>7 DEF Stopped, RemoveAll
  <1>8. CASE PlanEnds
    BY <1>0, <1>8 DEF PlanEnds, Completes
  <1>9. CASE NewAnswer
    BY <1>0, <1>9 DEF NewAnswer
  <1>10. CASE PollFails
    BY <1>0, <1>10 DEF PollFails
  <1>11. ASSUME NEW a \in Apps, Updated(a) \/ UpdateFails(a) PROVE PlanInv'
    BY <1>0, <1>11 DEF Updated, UpdateFails
  <1> QED BY <1>0, <1>1, <1>2, <1>3, <1>4, <1>5, <1>6, <1>7, <1>8, <1>9, <1>10, <1>11,
             PlanSteps, AsideSteps DEF ConsulNext, Update

\* The registry has the apps that are watched.
LEMMA WatchStep ==
  ASSUME ConsulInv, [ConsulNext]_consulVars
  PROVE  WatchInv'
  <1>0. ConsulTyped /\ PlanInv /\ WatchInv
    BY DEF ConsulInv
  <1>a. registry \in [DOMAIN registry -> BOOLEAN] /\ changed \subseteq watched
    BY <1>0 DEF ConsulTyped
  <1> USE DEF WatchInv
  <1>1. CASE Aside
    <2>1. lastParamVal' = lastParamVal /\ registry' = registry /\ watched' = watched
      BY <1>1 DEF Aside, planState
    <2>2. watcher = "off" => watched = DOMAIN registry
      BY <1>0
    <2> QED BY <1>0, <1>1, <2>1, <2>2 DEF Aside
  <1>2. ASSUME NEW a \in Apps, HealthChange(a) PROVE WatchInv'
    BY <1>0, <1>2 DEF HealthChange, planState
  <1>3. CASE Iterate
    BY <1>0, <1>3 DEF Iterate, planState
  <1>4. CASE PlanCompleted
    BY <1>0, <1>4 DEF PlanCompleted, planState
  <1>5. CASE Registered
    <2>1. DOMAIN registry \subseteq DOMAIN registry'
      BY <1>a, <1>5, EmptiedTyped DEF Registered
    <2> QED BY <1>0, <1>5, <2>1 DEF Registered, planState
  <1>6. CASE Drained
    BY <1>0, <1>6 DEF Drained, NoParam
  <1>7. CASE Stopped \/ RemoveAll
    BY <1>0, <1>7 DEF Stopped, RemoveAll, planState
  <1>8. CASE PlanEnds
    BY <1>0, <1>8 DEF PlanEnds
  <1>9. CASE NewAnswer
    <2>1. UNCHANGED <<watcher, watched, registry>> /\ watcher \notin {"off", "loop"}
      BY <1>0, <1>9 DEF NewAnswer, PlanInv
    <2> QED BY <1>0, <2>1
  <1>10. CASE PollFails
    <2>1. DOMAIN registry' = DOMAIN registry
      BY <1>a, <1>10, EmptiedTyped DEF PollFails
    <2>2. UNCHANGED <<watcher, watched>> /\ watcher \notin {"off", "loop"}
      BY <1>0, <1>10 DEF PollFails, PlanInv
    <2> QED BY <1>0, <2>1, <2>2
  <1>11. ASSUME NEW a \in Apps, Updated(a) \/ UpdateFails(a) PROVE WatchInv'
    <2>1. UNCHANGED <<watcher, watched>> /\ watcher \notin {"off", "loop"} /\ a \in watched
      BY <1>0, <1>a, <1>11 DEF Updated, UpdateFails, PlanInv
    <2>2. CASE Updated(a)
      <3>1. DOMAIN registry' = DOMAIN registry \cup {a}
        BY <2>2 DEF Updated
      <3> QED BY <1>0, <2>1, <3>1
    <2>3. CASE UpdateFails(a)
      <3>1. DOMAIN registry' = DOMAIN registry
        BY <1>a, <2>3, EmptiedTyped DEF UpdateFails
      <3> QED BY <1>0, <2>1, <3>1
    <2> QED BY <1>11, <2>2, <2>3
  <1> QED BY <1>0, <1>1, <1>2, <1>3, <1>4, <1>5, <1>6, <1>7, <1>8, <1>9, <1>10, <1>11,
             PlanSteps, AsideSteps DEF ConsulNext, Update

\* The registry follows the health checks.
LEMMA FollowStep ==
  ASSUME ConsulInv, [ConsulNext]_consulVars
  PROVE  FollowInv'
  <1>0. ConsulTyped /\ PlanInv /\ WatchInv /\ FollowInv /\ ExpiredInv
    BY DEF ConsulInv
  <1>a. /\ registry \in [DOMAIN registry -> BOOLEAN] /\ changed \subseteq watched
        /\ lastResult \in [DOMAIN lastResult -> BOOLEAN] /\ DOMAIN lastResult \subseteq watched
    BY <1>0 DEF ConsulTyped
  \* Most steps leave the registry and the health checks alone.
  <1>b. UNCHANGED <<registry, lastResult, changed, skewed>> => FollowInv'
    BY <1>0 DEF FollowInv, Reported
  <1>1. CASE Aside
    BY <1>b, <1>1 DEF Aside, planState
  <1>2. ASSUME NEW a \in Apps, HealthChange(a) PROVE FollowInv'
    BY <1>b, <1>2 DEF HealthChange, planState
  <1>3. CASE Iterate \/ PlanCompleted \/ Stopped \/ Drained
    BY <1>b, <1>3 DEF Iterate, PlanCompleted, Stopped, Drained, planState
  <1>4. CASE Registered
    <2> DEFINE new == {Head(registering)} \ watched
    <2>1. registry' = Emptied(new) /\ UNCHANGED <<lastResult, changed, skewed>>
      BY <1>4 DEF Registered, planState
    <2>2. /\ DOMAIN registry' = DOMAIN registry \cup new
          /\ registry' \in [DOMAIN registry \cup new -> BOOLEAN]
          /\ \A a \in new : ~registry'[a]
          /\ \A a \in DOMAIN registry \ new : registry'[a] = registry[a]
      BY <1>a, <2>1, EmptiedTyped
    <2> SUFFICES ASSUME NEW a \in DOMAIN registry' \ (changed \cup skewed)
                 PROVE  registry'[a] = Reported(a)
      BY <2>1 DEF FollowInv, Reported
    <2>3. CASE a \in new
      BY <1>a, <2>2, <2>3 DEF Reported
    <2>4. CASE a \notin new
      BY <1>0, <2>2, <2>4 DEF FollowInv
    <2> QED BY <2>3, <2>4
  <1>5. CASE RemoveAll
    <2>1. DOMAIN registry' = {}
      BY <1>5 DEF RemoveAll
    <2> QED BY <2>1 DEF FollowInv
  <1>6. CASE PlanEnds
    BY <1>b, <1>6 DEF PlanEnds
  <1>7. CASE NewAnswer
    <2> DEFINE result == getHealthByService
    <2>1. /\ changed = {} /\ changed' = getChangedServices(result) /\ lastResult' = result
          /\ UNCHANGED <<registry, skewed>>
      BY <1>0, <1>7 DEF NewAnswer, PlanInv
    <2>2. result \in [DOMAIN result -> BOOLEAN]
      BY DEF getHealthByService
    <2> HIDE DEF result
    <2> SUFFICES ASSUME NEW a \in DOMAIN registry \ (changed' \cup skewed)
                 PROVE  registry[a] = Reported(a)'
      BY <2>1 DEF FollowInv
    <2>3. registry[a] = Reported(a)
      BY <1>0, <2>1 DEF FollowInv
    <2>4. Reported(a)' = Reported(a)
      BY <1>a, <2>1, <2>2 DEF Reported, getChangedServices
    <2> QED BY <2>3, <2>4
  <1>8. CASE PollFails
    <2>1. CASE UNCHANGED <<registry, lastResult>>
      BY <1>b, <1>8, <2>1 DEF PollFails
    <2>2. CASE registry' = Emptied(DOMAIN registry) /\ lastResult' = << >>
      <3>1. \A a \in DOMAIN registry' : registry'[a] = FALSE
        BY <1>a, <2>2, EmptiedTyped
      <3>2. \A a : Reported(a)' = FALSE
        BY <2>2 DEF Reported
      <3> QED BY <3>1, <3>2 DEF FollowInv
    <2> QED BY <1>8, <2>1, <2>2 DEF PollFails, planState
  <1>9. ASSUME NEW b \in Apps, Updated(b) PROVE FollowInv'
    <2>1. /\ changed' = changed \ {b} /\ lastResult' = lastResult
          /\ registry' = [a \in DOMAIN registry \cup {b} |->
                            IF a = b THEN Passing(b) ELSE registry[a]]
          /\ skewed' = IF Passing(b) = Reported(b) THEN skewed \ {b} ELSE skewed \cup {b}
      BY <1>9 DEF Updated, planState, Reported
    <2> SUFFICES ASSUME NEW a \in DOMAIN registry' \ (changed' \cup skewed')
                 PROVE  registry'[a] = Reported(a)
      BY <2>1 DEF FollowInv, Reported
    <2>2. CASE a = b
      BY <2>1, <2>2
    <2>3. CASE a # b
      <3>1. a \in DOMAIN registry \ (changed \cup skewed) /\ registry'[a] = registry[a]
        BY <2>1, <2>3
      <3> QED BY <1>0, <3>1 DEF FollowInv
    <2> QED BY <2>2, <2>3
  <1>10. ASSUME NEW b \in Apps, UpdateFails(b) PROVE FollowInv'
    <2> DEFINE gone == {b} \cap DOMAIN registry
    <2>1. /\ changed' = changed \ {b} /\ skewed' = skewed /\ registry' = Emptied(gone)
          /\ lastResult' = [a \in DOMAIN lastResult \ {b} |-> lastResult[a]]
      BY <1>10 DEF UpdateFails
    <2>2. /\ DOMAIN registry' = DOMAIN registry
          /\ \A a \in gone : registry'[a] = FALSE
          /\ \A a \in DOMAIN registry \ gone : registry'[a] = registry[a]
      BY <1>a, <2>1, EmptiedTyped
    <2> SUFFICES ASSUME NEW a \in DOMAIN registry' \ (changed' \cup skewed')
                 PROVE  registry'[a] = Reported(a)'
      BY DEF FollowInv
    <2>3. CASE a = b
      BY <2>1, <2>2, <2>3 DEF Reported
    <2>4. CASE a # b
      <3>1. registry[a] = Reported(a) /\ registry'[a] = registry[a]
        BY <1>0, <2>1, <2>2, <2>4 DEF FollowInv
      <3>2. Reported(a)' = Reported(a)
        BY <2>1, <2>4 DEF Reported
      <3> QED BY <3>1, <3>2
    <2> QED BY <2>3, <2>4
  <1> QED BY <1>0, <1>1, <1>2, <1>3, <1>4, <1>5, <1>6, <1>7, <1>8, <1>9, <1>10,
             PlanSteps, AsideSteps DEF ConsulNext, Update

\* The health checks are the ones of their index.
LEMMA ReportStep ==
  ASSUME ConsulInv, [ConsulNext]_consulVars
  PROVE  ReportInv'
  <1>0. ConsulTyped /\ PlanInv /\ WatchInv /\ ReportInv
    BY DEF ConsulInv
  <1>a. index \in Nat /\ index > 0 /\ lastParamVal \in Nat /\ lastParamVal <= index
    BY <1>0 DEF ConsulTyped
  <1>b. UNCHANGED <<checks, index, lastParamVal, lastResult, watched>> => ReportInv'
    BY <1>0 DEF ReportInv, Reported, Passing
  \* Where the plan is to begin anew there is nothing to say.
  <1>c. index' = index /\ lastParamVal' = NoParam => ReportInv'
    BY <1>a DEF ReportInv, NoParam
  <1>1. CASE Aside
    BY <1>b, <1>1 DEF Aside, planState, consul
  <1>2. ASSUME NEW a \in Apps, HealthChange(a) PROVE ReportInv'
    <2>1. index' = index + 1 /\ lastParamVal' = lastParamVal
      BY <1>2 DEF HealthChange, planState
    <2>2. lastParamVal' # index'
      BY <1>a, <2>1
    <2> QED BY <2>2 DEF ReportInv
  <1>3. CASE Iterate
    <2>1. UNCHANGED <<checks, index, lastParamVal, lastResult>> /\ watched' = DOMAIN registry
      BY <1>3 DEF Iterate, planState, consul
    <2>2. CASE lastParamVal = NoParam
      BY <1>c, <2>1, <2>2
    <2>3. CASE lastParamVal # NoParam
      <3>1. watched' = watched
        BY <1>0, <1>3, <2>1, <2>3 DEF Iterate, WatchInv
      <3> QED BY <1>b, <2>1, <3>1
    <2> QED BY <2>2, <2>3
  <1>4. CASE PlanCompleted \/ Registered \/ Stopped \/ RemoveAll
    BY <1>b, <1>4 DEF PlanCompleted, Registered, Stopped, RemoveAll, planState, consul
  <1>5. CASE Drained
    BY <1>c, <1>5 DEF Drained, consul
  <1>6. CASE PlanEnds
    BY <1>b, <1>6 DEF PlanEnds, consul
  <1>7. CASE NewAnswer
    <2>1. lastResult' = getHealthByService /\ UNCHANGED <<checks, watched>>
      BY <1>7 DEF NewAnswer, consul
    <2>2. ASSUME NEW a \in watched PROVE Reported(a)' = Passing(a)'
      BY <2>1 DEF Reported, Passing, getHealthByService
    <2> QED BY <2>1, <2>2 DEF ReportInv
  <1>8. CASE PollFails
    BY <1>b, <1>c, <1>8 DEF PollFails, planState, consul
  <1>9. ASSUME NEW a \in Apps, Updated(a) PROVE ReportInv'
    BY <1>b, <1>9 DEF Updated, planState, consul
  <1>10. ASSUME NEW a \in Apps, UpdateFails(a) PROVE ReportInv'
    BY <1>c, <1>10 DEF UpdateFails, consul
  <1> QED BY <1>0, <1>1, <1>2, <1>3, <1>4, <1>5, <1>6, <1>7, <1>8, <1>9, <1>10,
             PlanSteps, AsideSteps DEF ConsulNext, Update

\* Nothing comes back into an expired registry before the agent answers.
LEMMA ExpiredStep ==
  ASSUME ConsulInv, [ConsulNext]_consulVars
  PROVE  ExpiredInv'
  <1>0. ConsulTyped /\ PlanInv /\ ExpiredInv
    BY DEF ConsulInv
  <1>a. registry \in [DOMAIN registry -> BOOLEAN] /\ changed \subseteq watched
    BY <1>0 DEF ConsulTyped
  <1> USE DEF ExpiredInv
  <1>1. CASE Aside
    BY <1>0, <1>1 DEF Aside, planState
  <1>2. ASSUME NEW a \in Apps, HealthChange(a) PROVE ExpiredInv'
    BY <1>0, <1>2 DEF HealthChange, planState
  <1>3. CASE Iterate \/ PlanCompleted \/ Stopped \/ Drained
    BY <1>0, <1>3 DEF Iterate, PlanCompleted, Stopped, Drained, planState
  <1>4. CASE Registered
    <2> DEFINE new == {Head(registering)} \ watched
    <2>1. registry' = Emptied(new) /\ UNCHANGED <<plan, planState>>
      BY <1>4 DEF Registered
    <2>2. /\ DOMAIN registry' = DOMAIN registry \cup new
          /\ \A a \in new : ~registry'[a]
          /\ \A a \in DOMAIN registry \ new : registry'[a] = registry[a]
      BY <1>a, <2>1, EmptiedTyped
    <2>3. ASSUME expired, NEW a \in DOMAIN registry' PROVE ~registry'[a]
      BY <1>0, <2>2, <2>3
    <2> QED BY <1>0, <2>1, <2>3 DEF planState
  <1>5. CASE RemoveAll
    <2>1. DOMAIN registry' = {}
      BY <1>5 DEF RemoveAll
    <2> QED BY <1>0, <1>5, <2>1 DEF RemoveAll, planState
  <1>6. CASE PlanEnds
    BY <1>0, <1>6 DEF PlanEnds, Completes
  <1>7. CASE NewAnswer
    BY <1>7 DEF NewAnswer
  <1>8. CASE PollFails
    <2>1. plan' # "update"
      BY <1>8 DEF PollFails
    <2>2. CASE UNCHANGED <<planState, registry>>
      BY <1>0, <2>1, <2>2 DEF planState
    <2>3. CASE expired /\ registry' = registry /\ lastResult' = lastResult
      BY <1>0, <2>1, <2>3
    <2>4. CASE registry' = Emptied(DOMAIN registry) /\ lastResult' = << >>
      <3>1. \A a \in DOMAIN registry' : ~registry'[a]
        BY <1>a, <2>4, EmptiedTyped
      <3> QED BY <2>1, <2>4, <3>1
    <2> QED BY <1>8, <2>2, <2>3, <2>4 DEF PollFails
  <1>9. ASSUME NEW a \in Apps, Updated(a) \/ UpdateFails(a) PROVE ExpiredInv'
    BY <1>0, <1>9 DEF Updated, UpdateFails, planState
  <1> QED BY <1>0, <1>1, <1>2, <1>3, <1>4, <1>5, <1>6, <1>7, <1>8, <1>9,
             PlanSteps, AsideSteps DEF ConsulNext, Update

\* RegistryIsFresh: a watch plan that waits for the next change has brought the
\* registry up to date (runWatchPlan), a registry that has expired serves nothing
\* (queryFailed), and the loop starts a plan only when the last one is over
\* (runWatchLoop), whatever requests fail, whenever apps are registered and
\* whenever the resolver is closed.
THEOREM RegistryStaysFresh == ServicesSpec => []RegistryIsFresh
  <1>1. ConsulInv /\ [ConsulNext]_consulVars => ConsulInv'
    BY ConsulTypedStep, PlanStep, WatchStep, FollowStep, ReportStep, ExpiredStep DEF ConsulInv
  <1>2. ConsulInv => RegistryIsFresh
    <2> SUFFICES ASSUME ConsulInv PROVE RegistryIsFresh
      OBVIOUS
    <2> USE DEF ConsulInv
    <2>1. FreshWhenWaiting
      <3> SUFFICES ASSUME watcher = "select", plan = "poll", lastParamVal = index,
                          NEW a \in watched \ skewed
                   PROVE  registry[a] = Passing(a)
        BY DEF FreshWhenWaiting
      <3>1. a \in DOMAIN registry \ (changed \cup skewed)
        BY DEF WatchInv, PlanInv
      <3>2. registry[a] = Reported(a)
        BY <3>1 DEF FollowInv
      <3>3. Reported(a) = Passing(a)
        BY DEF ReportInv
      <3> QED BY <3>2, <3>3
    <2>2. ExpiredServesNothing
      BY DEF ExpiredInv, ExpiredServesNothing
    <2>3. OnePlanAtATime
      BY DEF PlanInv, OnePlanAtATime
    <2> QED BY <2>1, <2>2, <2>3 DEF RegistryIsFresh
  <1>3. ServicesInit => ConsulInit
    BY DEF ServicesInit
  <1>4. [ServicesNext]_servicesVars => [ConsulNext]_consulVars
    BY DEF ServicesNext, servicesVars
  <1> QED BY <1>1, <1>2, <1>3, <1>4, ConsulInvInit, PTL DEF ServicesSpec
-----------------------------------------------------------------------------
(* MDNSResolver.                                                           *)

CallRec == [pc : {"idle", "missed", "joined", "recheck", "waiting", "refreshing", "settling"},
            first : BOOLEAN, chan : {"none", "open", "addr", "error", "read"},
            ans : Answers, hit : BOOLEAN]

\* A pool is browsed for once: its Once is taken while the browse runs and until
\* the pool is removed, and the browse has not found anything before it ends.
PoolInv ==
  /\ browser # "none" => subs.once /\ ~cleanup
  /\ browser \in {"browsing", "found"} => ~subs.hit
  /\ subs.hit \/ cleanup => subs.once

\* A caller whose pool has found an address has no error in its channel or in its
\* hands, and cannot get one any more: it is not the first, and its pool has ended
\* its browse.
CallFine(c, r, pool) ==
  /\ r.pc \in {"idle", "missed"} => r.chan = "none" /\ ~r.hit /\ ~r.first
  /\ r.chan # "read" => r.ans = "none"
  /\ r.chan = "error" \/ r.ans = "error" => ~r.hit
  /\ r.ans # "timeout"
  /\ r.chan = "open" /\ r.hit => ~r.first /\ (c \in pool.members => pool.hit)
  /\ r.pc = "joined" /\ c \in pool.members /\ ~pool.once => r.chan = "open"

CallInv == \A c \in Callers : CallFine(c, call[c], subs)

\* What a browse has found is in the cache until it expires.
HasFound == browser = "found" \/ subs.hit \/ \E c \in Callers : call[c].hit

FoundInv == HasFound => evicted \/ Cached # {}

MDNSInv == TypeOK /\ PoolInv /\ CallInv /\ FoundInv

\* The select of a caller: it returns, or goes on with what it has received.
LEMMA ReceivedTyped ==
  ASSUME NEW r \in CallRec, NEW ans \in Answers, NEW from
  PROVE  Received(r, ans, from) \in CallRec
  BY DEF Received, CallRec, NoCall, Answers

LEMMA MDNSInvInit == Init => MDNSInv
  <1> SUFFICES ASSUME Init PROVE MDNSInv
    OBVIOUS
  <1> USE DEF Init
  <1>1. NoCall \in CallRec
    BY DEF NoCall, CallRec, Answers
  <1>2. TypeOK
    <2>1. call \in [Callers -> CallRec]
      BY <1>1
    <2>2. cache \in [Addresses -> 0 .. AddressTTL] /\ queue \in 0 .. RefreshCap
      BY MDNSAssumption
    <2> QED BY <2>1, <2>2 DEF TypeOK, CallRec, NoPool, Answers
  <1>3. PoolInv
    BY DEF PoolInv, NoPool
  <1>4. CallInv
    BY DEF CallInv, CallFine, NoCall
  <1>5. FoundInv
    BY DEF FoundInv, HasFound, NoPool, NoCall
  <1> QED BY <1>2, <1>3, <1>4, <1>5 DEF MDNSInv

\* Added keeps the types of the cache, and all of a host's addresses are in it then.
LEMMA AddedCached ==
  ASSUME TypeOK, NEW h \in Hosts, cache' = Added(h)
  PROVE  /\ cache' \in [Addresses -> 0 .. AddressTTL]
         /\ Cached' # {}
  <1>1. PICK a \in h : TRUE
    BY MDNSAssumption
  <1>2. a \in Addresses
    BY DEF Addresses
  <1>3. cache'[a] = AddressTTL /\ AddressTTL > 0
    BY <1>2, MDNSAssumption DEF Added
  <1>4. cache' \in [Addresses -> 0 .. AddressTTL]
    BY MDNSAssumption DEF Added, TypeOK
  <1> QED BY <1>2, <1>3, <1>4 DEF Cached

\* An address that is no longer there after refreshAllApps has expired.
LEMMA ExpiryEvicts ==
  ASSUME TypeOK, RefreshAllApps
  PROVE  /\ cache' \in [Addresses -> 0 .. AddressTTL] /\ evicted' \in BOOLEAN
         /\ evicted \/ Cached # {} => evicted' \/ Cached' # {}
  <1>1. cache' = [a \in Addresses |-> IF cache[a] > 0 THEN cache[a] - 1 ELSE 0]
    BY DEF RefreshAllApps
  <1>2. evicted' = (evicted \/ \E a \in Addresses : cache[a] = 1)
    BY DEF RefreshAllApps
  <1>3. ASSUME NEW a \in Addresses
        PROVE  /\ (IF cache[a] > 0 THEN cache[a] - 1 ELSE 0) \in 0 .. AddressTTL
               /\ cache[a] > 0 /\ cache[a] # 1 => cache'[a] > 0
    <2>1. cache[a] \in 0 .. AddressTTL /\ AddressTTL \in Nat
      BY MDNSAssumption DEF TypeOK
    <2>2. cache'[a] = IF cache[a] > 0 THEN cache[a] - 1 ELSE 0
      BY <1>1
    <2> QED BY <2>1, <2>2
  <1>4. cache' \in [Addresses -> 0 .. AddressTTL]
    BY <1>1, <1>3
  <1>5. evicted' \in BOOLEAN
    BY <1>2
  <1>6. ASSUME NEW a \in Cached, ~evicted' PROVE a \in Cached'
    <2>1. a \in Addresses /\ cache[a] > 0 /\ cache[a] # 1
      BY <1>2, <1>6 DEF Cached
    <2> QED BY <1>3, <2>1 DEF Cached
  <1> QED BY <1>2, <1>4, <1>5, <1>6

\* A caller's own step changes only its own call.
Moves(c, r) == r \in CallRec /\ call' = [call EXCEPT ![c] = r]
\* TypeOK after a step of a caller that leaves the cache alone.
LEMMA MovesTyped ==
  ASSUME TypeOK, NEW c \in Callers, NEW r, Moves(c, r), answer' \in Answers,
         subs' \in [exists : BOOLEAN, once : BOOLEAN, members : SUBSET Callers, hit : BOOLEAN],
         browser' \in {"none", "browsing", "found", "published"}, cleanup' \in BOOLEAN,
         queue' \in 0 .. RefreshCap, UNCHANGED <<cache, evicted>>
  PROVE  TypeOK'
  BY DEF TypeOK, Moves, CallRec

LEMMA MDNSTypedStep == TypeOK /\ [Next]_vars => TypeOK'
  <1> SUFFICES ASSUME TypeOK, [Next]_vars PROVE TypeOK'
    OBVIOUS
  <1>0. /\ subs \in [exists : BOOLEAN, once : BOOLEAN, members : SUBSET Callers, hit : BOOLEAN]
        /\ browser \in {"none", "browsing", "found", "published"} /\ cleanup \in BOOLEAN
        /\ queue \in 0 .. RefreshCap /\ answer \in Answers
        /\ \A c \in Callers : call[c] \in CallRec
        /\ NoCall \in CallRec
    BY DEF TypeOK, CallRec, NoCall, Answers
  <1>1. CASE UNCHANGED vars
    BY <1>1 DEF TypeOK, vars
  <1>2. ASSUME NEW c \in Callers, ResolveID(c) PROVE TypeOK'
    <2>1. \E r : Moves(c, r)
      <3>1. [call[c] EXCEPT !.pc = "missed"] \in CallRec
        BY <1>0 DEF CallRec
      <3> QED BY <1>0, <1>2, <3>1 DEF ResolveID, Return, Moves
    <2>2. /\ UNCHANGED <<subs, browser, cleanup, queue, cache, evicted>>
          /\ answer' \in Answers
      BY <1>0, <1>2 DEF ResolveID, Return, caching, Answers
    <2> QED BY <1>0, <2>1, <2>2, MovesTyped
  <1>3. ASSUME NEW c \in Callers, Join(c) PROVE TypeOK'
    <2>1. \E r : Moves(c, r)
      <3>1. [call[c] EXCEPT !.pc = "joined", !.chan = "open", !.hit = subs.hit] \in CallRec
        BY <1>0 DEF CallRec
      <3> QED BY <1>3, <3>1 DEF Join, Moves
    <2>2. /\ UNCHANGED <<browser, cleanup, queue, cache, evicted, answer>>
          /\ subs' \in [exists : BOOLEAN, once : BOOLEAN, members : SUBSET Callers, hit : BOOLEAN]
      BY <1>0, <1>3 DEF Join, caching
    <2> QED BY <1>0, <2>1, <2>2, MovesTyped
  <1>4. ASSUME NEW c \in Callers, OnceDo(c) PROVE TypeOK'
    <2> DEFINE first == c \in subs.members /\ ~subs.once
    <2>1. \E r : Moves(c, r)
      <3>1. [call[c] EXCEPT !.pc = IF first THEN "waiting" ELSE "recheck", !.first = first] \in CallRec
        BY <1>0 DEF CallRec
      <3> QED BY <1>4, <3>1 DEF OnceDo, Moves
    <2>2. /\ UNCHANGED <<cleanup, queue, cache, evicted, answer>>
          /\ subs' = [subs EXCEPT !.once = @ \/ first] /\ browser' \in {"browsing", browser}
      BY <1>4 DEF OnceDo, caching
    <2>3. subs' \in [exists : BOOLEAN, once : BOOLEAN, members : SUBSET Callers, hit : BOOLEAN]
      BY <1>0, <2>2
    <2> QED BY <1>0, <2>1, <2>2, <2>3, MovesTyped
  <1>5. ASSUME NEW c \in Callers, Recheck(c) PROVE TypeOK'
    <2>1. \E r : Moves(c, r)
      <3>1. [call[c] EXCEPT !.pc = "waiting"] \in CallRec
        BY <1>0 DEF CallRec
      <3> QED BY <1>0, <1>5, <3>1 DEF Recheck, Return, Moves
    <2>2. /\ UNCHANGED <<subs, browser, cleanup, queue, cache, evicted>>
          /\ answer' \in Answers
      BY <1>0, <1>5 DEF Recheck, Return, caching, Answers
    <2> QED BY <1>0, <2>1, <2>2, MovesTyped
  <1>6. ASSUME NEW c \in Callers, Select(c) PROVE TypeOK'
    <2>1. PICK from \in {"AddrChan", "ErrChan"}, ans \in {call[c].chan, "empty"} :
            /\ call' = [call EXCEPT ![c] = Received(@, ans, from)]
            /\ answer' = IF call[c].first THEN answer ELSE ans
      BY <1>6 DEF Select
    <2>2. ans \in Answers
      BY <1>6 DEF Select, Answers
    <2>3. \E r : Moves(c, r)
      BY <1>0, <2>1, <2>2, ReceivedTyped DEF Moves
    <2>4. UNCHANGED <<subs, browser, cleanup, queue, cache, evicted>>
      BY <1>6 DEF Select, caching
    <2> QED BY <1>0, <2>1, <2>2, <2>3, <2>4, MovesTyped
  <1>7. ASSUME NEW c \in Callers, TimesOut(c) PROVE TypeOK'
    <2>1. \E r : Moves(c, r)
      BY <1>0, <1>7 DEF TimesOut, Return, Moves
    <2>2. UNCHANGED <<subs, browser, cleanup, queue, cache, evicted>> /\ answer' \in Answers
      BY <1>7 DEF TimesOut, Return, caching, Answers
    <2> QED BY <1>0, <2>1, <2>2, MovesTyped
  <1>8. ASSUME NEW c \in Callers, PushRefresh(c) PROVE TypeOK'
    <2>1. \E r : Moves(c, r)
      <3>1. [call[c] EXCEPT !.pc = "settling"] \in CallRec
        BY <1>0 DEF CallRec
      <3> QED BY <1>8, <3>1 DEF PushRefresh, Moves
    <2>2. UNCHANGED <<subs, browser, cleanup, cache, evicted, answer>> /\ queue' \in 0 .. RefreshCap
      BY <1>0, <1>8, MDNSAssumption DEF PushRefresh, caching
    <2> QED BY <1>0, <2>1, <2>2, MovesTyped
  <1>9. ASSUME NEW c \in Callers, AwaitPublished(c) PROVE TypeOK'
    <2>1. \E r : Moves(c, r)
      BY <1>0, <1>9 DEF AwaitPublished, Return, Moves
    <2>2. /\ UNCHANGED <<subs, queue, cache, evicted>> /\ answer' \in Answers
          /\ browser' = "none" /\ cleanup' = TRUE
      <3>1. call[c].ans \in Answers
        BY <1>0 DEF CallRec
      <3> QED BY <1>9, <3>1 DEF AwaitPublished, Return, caching
    <2> QED BY <1>0, <2>1, <2>2, MovesTyped
  <1>10. ASSUME NEW h \in Hosts, BrowseEntry(h) \/ RefreshEntry(h) PROVE TypeOK'
    <2>1. cache' = Added(h)
      BY <1>10 DEF BrowseEntry, RefreshEntry
    <2>2. cache' \in [Addresses -> 0 .. AddressTTL]
      BY <2>1, AddedCached
    <2> QED BY <1>10, <2>2 DEF BrowseEntry, RefreshEntry, TypeOK
  <1>11. CASE BrowseEnds
    <2>1. PICK kind \in {"addr", "error"} : /\ call' = Published(kind)
                                           /\ answer' \in {kind, answer}
      BY <1>11 DEF BrowseEnds
    <2>2. ASSUME NEW c \in Callers PROVE Published(kind)[c] \in CallRec
      <3>1. Received(call[c], kind, ChanOf(kind)) \in CallRec
        BY <1>0, ReceivedTyped DEF Answers
      <3>2. [call[c] EXCEPT !.chan = kind, !.hit = (kind = "addr")] \in CallRec
        BY <1>0 DEF CallRec
      <3> QED BY <1>0, <3>1, <3>2 DEF Published
    <2>3. call' \in [Callers -> CallRec]
      BY <2>1, <2>2 DEF Published
    <2>4. /\ UNCHANGED <<cleanup, queue, cache, evicted>> /\ browser' = "published"
          /\ subs' = [subs EXCEPT !.hit = (browser = "found")]
      BY <1>11 DEF BrowseEnds, caching
    <2>5. answer' \in Answers
      BY <1>0, <2>1 DEF Answers
    <2> QED BY <1>0, <2>3, <2>4, <2>5 DEF TypeOK, CallRec
  <1>12. CASE Cleanup
    BY <1>12 DEF Cleanup, TypeOK, NoPool, caching
  <1>13. CASE RefreshOnDemand
    <2>1. queue' \in 0 .. RefreshCap
      BY <1>0, <1>13, MDNSAssumption DEF RefreshOnDemand
    <2> QED BY <1>13, <2>1 DEF RefreshOnDemand, TypeOK
  <1>14. CASE RefreshAllApps
    <2>1. cache' \in [Addresses -> 0 .. AddressTTL] /\ evicted' \in BOOLEAN
      BY <1>14, ExpiryEvicts
    <2> QED BY <1>14, <2>1 DEF RefreshAllApps, TypeOK
  <1>15. CASE RefreshEnds \/ Close
    BY <1>15 DEF RefreshEnds, Close, TypeOK
  <1>16. ASSUME NEW h \in Hosts, HostLeaves(h) PROVE TypeOK'
    BY <1>16 DEF HostLeaves, TypeOK, caching
  <1> QED BY <1>1, <1>2, <1>3, <1>4, <1>5, <1>6, <1>7, <1>8, <1>9, <1>10, <1>11, <1>12,
             <1>13, <1>14, <1>15, <1>16 DEF Next, CallStep
\* The calls after a step of one caller.
LEMMA MovesFine ==
  ASSUME TypeOK, CallInv, NEW c \in Callers, NEW r, Moves(c, r), CallFine(c, r, subs'),
         \A d \in Callers \ {c} : CallFine(d, call[d], subs) => CallFine(d, call[d], subs')
  PROVE  CallInv'
  <1>1. ASSUME NEW d \in Callers PROVE CallFine(d, call'[d], subs')
    <2>1. CASE d = c
      BY <2>1 DEF Moves, TypeOK
    <2>2. CASE d # c
      <3>1. call'[d] = call[d]
        BY <2>2 DEF Moves, TypeOK
      <3> QED BY <2>2, <3>1 DEF CallInv
    <2> QED BY <2>1, <2>2
  <1> QED BY <1>1 DEF CallInv

LEMMA NoCallFine == ASSUME NEW c, NEW pool PROVE NoCall \in CallRec /\ CallFine(c, NoCall, pool)
  BY DEF CallFine, NoCall, CallRec, Answers

LEMMA PoolStep == TypeOK /\ PoolInv /\ [Next]_vars => PoolInv'
  <1> SUFFICES ASSUME TypeOK, PoolInv, [Next]_vars PROVE PoolInv'
    OBVIOUS
  <1>0. subs \in [exists : BOOLEAN, once : BOOLEAN, members : SUBSET Callers, hit : BOOLEAN]
    BY DEF TypeOK
  <1>1. CASE UNCHANGED <<subs, browser, cleanup>>
    BY <1>1 DEF PoolInv
  <1>2. ASSUME NEW c \in Callers, Join(c) PROVE PoolInv'
    <2>1. /\ subs'.once = subs.once /\ subs'.hit = subs.hit
          /\ UNCHANGED <<browser, cleanup>>
      BY <1>0, <1>2 DEF Join
    <2> QED BY <2>1 DEF PoolInv
  <1>3. ASSUME NEW c \in Callers, OnceDo(c) PROVE PoolInv'
    <2> DEFINE first == c \in subs.members /\ ~subs.once
    <2>1. /\ subs'.once = (subs.once \/ first) /\ subs'.hit = subs.hit
          /\ browser' = IF first THEN "browsing" ELSE browser
          /\ UNCHANGED cleanup
      BY <1>0, <1>3 DEF OnceDo
    <2> QED BY <2>1 DEF PoolInv
  <1>4. ASSUME NEW c \in Callers, AwaitPublished(c) PROVE PoolInv'
    BY <1>4 DEF AwaitPublished, PoolInv
  <1>5. ASSUME NEW h \in Hosts, BrowseEntry(h) PROVE PoolInv'
    BY <1>5 DEF BrowseEntry, PoolInv
  <1>6. CASE BrowseEnds
    <2>1. /\ browser \in {"browsing", "found"} /\ browser' = "published"
          /\ subs'.once = subs.once /\ UNCHANGED cleanup
      BY <1>0, <1>6 DEF BrowseEnds
    <2> QED BY <2>1 DEF PoolInv
  <1>7. CASE Cleanup
    BY <1>7 DEF Cleanup, PoolInv, NoPool
  <1> QED BY <1>1, <1>2, <1>3, <1>4, <1>5, <1>6, <1>7
          DEF Next, CallStep, vars, ResolveID, Recheck, Select, TimesOut, PushRefresh,
              RefreshEntry, HostLeaves, RefreshOnDemand, RefreshAllApps, RefreshEnds, Close

LEMMA CallsStep == TypeOK /\ PoolInv /\ CallInv /\ [Next]_vars => CallInv'
  <1> SUFFICES ASSUME TypeOK, PoolInv, CallInv, [Next]_vars PROVE CallInv'
    OBVIOUS
  <1>0. subs \in [exists : BOOLEAN, once : BOOLEAN, members : SUBSET Callers, hit : BOOLEAN]
    BY DEF TypeOK
  <1>c. ASSUME NEW c \in Callers PROVE call[c] \in CallRec /\ CallFine(c, call[c], subs)
    BY DEF TypeOK, CallRec, CallInv
  <1>1. CASE UNCHANGED <<call, subs>>
    BY <1>1 DEF CallInv
  <1>2. ASSUME NEW c \in Callers, ResolveID(c) \/ Recheck(c) \/ PushRefresh(c) PROVE CallInv'
    <2>1. PICK pc \in {"missed", "waiting", "settling"} :
            /\ Moves(c, NoCall) \/ call' = [call EXCEPT ![c].pc = pc]
            /\ pc = "missed" => call[c].pc = "idle"
            /\ UNCHANGED subs
      BY <1>2, NoCallFine DEF ResolveID, Recheck, PushRefresh, Return, Moves
    <2> DEFINE r == [call[c] EXCEPT !.pc = pc]
    <2>2. r \in CallRec /\ CallFine(c, r, subs)
      BY <1>c, <2>1 DEF CallRec, CallFine
    <2>3. Moves(c, NoCall) \/ Moves(c, r)
      BY <2>1, <2>2 DEF Moves
    <2> QED BY <2>1, <2>2, <2>3, NoCallFine, MovesFine
  <1>3. ASSUME NEW c \in Callers, Join(c) PROVE CallInv'
    <2> DEFINE r == [call[c] EXCEPT !.pc = "joined", !.chan = "open", !.hit = subs.hit]
    <2>1. /\ subs'.once = subs.once /\ subs'.hit = subs.hit
          /\ subs'.members = subs.members \cup {c}
      BY <1>0, <1>3 DEF Join
    <2>2. r \in CallRec /\ CallFine(c, r, subs')
      BY <1>0, <1>c, <1>3, <2>1 DEF CallRec, CallFine, Join
    <2>3. Moves(c, r)
      BY <1>3, <2>2 DEF Join, Moves
    <2>4. \A d \in Callers \ {c} : CallFine(d, call[d], subs) => CallFine(d, call[d], subs')
      BY <2>1 DEF CallFine
    <2> QED BY <2>2, <2>3, <2>4, MovesFine
  <1>4. ASSUME NEW c \in Callers, OnceDo(c) PROVE CallInv'
    <2> DEFINE first == c \in subs.members /\ ~subs.once
               r == [call[c] EXCEPT !.pc = IF first THEN "waiting" ELSE "recheck", !.first = first]
    <2>1. /\ subs'.once = (subs.once \/ first) /\ subs'.hit = subs.hit
          /\ subs'.members = subs.members
      BY <1>0, <1>4 DEF OnceDo
    <2>2. call[c].pc = "joined" /\ call' = [call EXCEPT ![c] = r]
      BY <1>4 DEF OnceDo
    <2>3. r \in CallRec
      BY <1>c DEF CallRec
    <2>4. first => ~call[c].hit
      BY <1>c, <2>2 DEF CallFine, PoolInv
    <2>5. /\ r.pc \in {"waiting", "recheck"} /\ r.first = first
          /\ r.chan = call[c].chan /\ r.hit = call[c].hit /\ r.ans = call[c].ans
      BY <1>c DEF CallRec
    <2> HIDE DEF r
    <2>6. CallFine(c, r, subs')
      BY <1>c, <2>1, <2>2, <2>4, <2>5 DEF CallFine
    <2>7. \A d \in Callers \ {c} : CallFine(d, call[d], subs) => CallFine(d, call[d], subs')
      BY <2>1 DEF CallFine
    <2> QED BY <2>2, <2>3, <2>6, <2>7, MovesFine DEF Moves
  <1>5. ASSUME NEW c \in Callers, Select(c) PROVE CallInv'
    <2>1. PICK from \in {"AddrChan", "ErrChan"}, ans \in {call[c].chan, "empty"} :
            call' = [call EXCEPT ![c] = Received(@, ans, from)]
      BY <1>5 DEF Select
    <2>2. call[c].chan \in {"addr", "error"} /\ UNCHANGED subs
      BY <1>5 DEF Select
    <2>3. Received(call[c], ans, from) \in CallRec
      BY <1>c, <2>1, <2>2, ReceivedTyped DEF Answers
    <2>4. CallFine(c, Received(call[c], ans, from), subs)
      BY <1>c, <2>1, <2>2 DEF CallFine, Received, NoCall, CallRec
    <2> QED BY <2>1, <2>2, <2>3, <2>4, MovesFine DEF Moves
  <1>6. ASSUME NEW c \in Callers, TimesOut(c) \/ AwaitPublished(c) PROVE CallInv'
    <2>1. Moves(c, NoCall) /\ UNCHANGED subs
      BY <1>6, NoCallFine DEF TimesOut, AwaitPublished, Return, Moves
    <2> QED BY <2>1, NoCallFine, MovesFine
  <1>7. CASE BrowseEnds
    <2>1. PICK kind \in {"addr", "error"} : call' = Published(kind)
      BY <1>7 DEF BrowseEnds
    <2>2. subs'.once /\ ~subs.hit /\ subs'.members = subs.members
      BY <1>0, <1>7 DEF BrowseEnds, PoolInv
    <2>3. ASSUME NEW c \in Callers PROVE CallFine(c, call'[c], subs')
      <3>1. CASE c \notin subs.members \/ call[c].chan # "open"
        <4>1. call'[c] = call[c]
          BY <2>1, <3>1 DEF Published
        <4> QED BY <1>c, <2>2, <3>1, <4>1 DEF CallFine
      <3>2. CASE c \in subs.members /\ call[c].chan = "open"
        <4>1. ~call[c].hit /\ call[c].pc \notin {"idle", "missed"} /\ call[c].ans = "none"
          BY <1>c, <2>2, <3>2 DEF CallFine
        <4>2. CASE call[c].pc = "waiting"
          <5>1. call'[c] = Received(call[c], kind, ChanOf(kind))
            BY <2>1, <3>2, <4>2 DEF Published
          <5> QED BY <1>c, <2>1, <4>1, <5>1 DEF CallFine, Received, NoCall, CallRec
        <4>3. CASE call[c].pc # "waiting"
          <5>1. call'[c] = [call[c] EXCEPT !.chan = kind, !.hit = (kind = "addr")]
            BY <2>1, <3>2, <4>3 DEF Published
          <5> QED BY <1>c, <2>1, <2>2, <4>1, <5>1 DEF CallFine, CallRec
        <4> QED BY <4>2, <4>3
      <3> QED BY <3>1, <3>2
    <2> QED BY <2>3 DEF CallInv
  <1>8. CASE Cleanup
    <2>1. subs'.members = {} /\ UNCHANGED call
      BY <1>8 DEF Cleanup, NoPool
    <2>2. \A d \in Callers : CallFine(d, call[d], subs) => CallFine(d, call[d], subs')
      BY <2>1 DEF CallFine
    <2> QED BY <2>1, <2>2 DEF CallInv
  <1> QED BY <1>1, <1>2, <1>3, <1>4, <1>5, <1>6, <1>7, <1>8
          DEF Next, CallStep, vars, BrowseEntry,
              RefreshEntry, HostLeaves, RefreshOnDemand, RefreshAllApps, RefreshEnds, Close
\* The calls that know of an address after a step of one caller.
LEMMA MovesFound ==
  ASSUME TypeOK, NEW c \in Callers, NEW r, Moves(c, r), r.hit => HasFound,
         browser' = "found" \/ subs'.hit => HasFound
  PROVE  HasFound' => HasFound
  <1>1. \A d \in Callers \ {c} : call'[d] = call[d]
    BY DEF Moves, TypeOK
  <1>2. call'[c] = r
    BY DEF Moves, TypeOK
  <1> QED BY <1>1, <1>2 DEF HasFound

LEMMA FoundStep == MDNSInv /\ [Next]_vars => FoundInv'
  <1> SUFFICES ASSUME MDNSInv, [Next]_vars PROVE FoundInv'
    OBVIOUS
  <1>0. TypeOK /\ FoundInv
    BY DEF MDNSInv
  <1>s. subs \in [exists : BOOLEAN, once : BOOLEAN, members : SUBSET Callers, hit : BOOLEAN]
    BY <1>0 DEF TypeOK
  <1>c. ASSUME NEW c \in Callers PROVE call[c] \in CallRec /\ (call[c].hit => HasFound)
    BY <1>0 DEF TypeOK, CallRec, HasFound
  <1>k. (HasFound' => HasFound) /\ UNCHANGED <<cache, evicted>> => FoundInv'
    BY <1>0 DEF FoundInv, Cached
  <1>n. NoCall \in CallRec /\ ~NoCall.hit
    BY NoCallFine DEF NoCall
  <1>1. CASE UNCHANGED <<call, subs, browser, cache, evicted>>
    BY <1>k, <1>1 DEF HasFound
  <1>2. ASSUME NEW c \in Callers, ResolveID(c) \/ Recheck(c) \/ PushRefresh(c) PROVE FoundInv'
    <2>1. PICK pc \in {"missed", "waiting", "settling"} :
            /\ Moves(c, NoCall) \/ call' = [call EXCEPT ![c].pc = pc]
            /\ UNCHANGED <<subs, browser, cache, evicted>>
      BY <1>2, <1>n DEF ResolveID, Recheck, PushRefresh, Return, Moves, caching
    <2> DEFINE r == [call[c] EXCEPT !.pc = pc]
    <2>2. r \in CallRec /\ r.hit = call[c].hit
      BY <1>c, <2>1 DEF CallRec
    <2>3. Moves(c, NoCall) \/ Moves(c, r)
      BY <2>1, <2>2 DEF Moves
    <2>4. browser' = "found" \/ subs'.hit => HasFound
      BY <2>1 DEF HasFound
    <2> QED BY <1>0, <1>c, <1>k, <1>n, <2>1, <2>2, <2>3, <2>4, MovesFound
  <1>3. ASSUME NEW c \in Callers, Join(c) PROVE FoundInv'
    <2> DEFINE r == [call[c] EXCEPT !.pc = "joined", !.chan = "open", !.hit = subs.hit]
    <2>1. r \in CallRec /\ r.hit = subs.hit
      BY <1>c, <1>s DEF CallRec
    <2>2. Moves(c, r)
      BY <1>3, <2>1 DEF Join, Moves
    <2>3. UNCHANGED <<browser, cache, evicted>> /\ subs'.hit = subs.hit
      BY <1>3, <1>s DEF Join, caching
    <2>4. (browser' = "found" \/ subs'.hit => HasFound) /\ (subs.hit => HasFound)
      BY <2>3 DEF HasFound
    <2> QED BY <1>0, <1>k, <2>1, <2>2, <2>3, <2>4, MovesFound
  <1>4. ASSUME NEW c \in Callers, OnceDo(c) PROVE FoundInv'
    <2> DEFINE first == c \in subs.members /\ ~subs.once
               r == [call[c] EXCEPT !.pc = IF first THEN "waiting" ELSE "recheck", !.first = first]
    <2>1. r \in CallRec /\ r.hit = call[c].hit
      BY <1>c DEF CallRec
    <2>2. Moves(c, r)
      BY <1>4, <2>1 DEF OnceDo, Moves
    <2>3. UNCHANGED <<cache, evicted>> /\ subs'.hit = subs.hit /\ browser' \in {"browsing", browser}
      BY <1>4, <1>s DEF OnceDo, caching
    <2>4. browser' = "found" \/ subs'.hit => HasFound
      BY <2>3 DEF HasFound
    <2> QED BY <1>0, <1>c, <1>k, <2>1, <2>2, <2>3, <2>4, MovesFound
  <1>5. ASSUME NEW c \in Callers, Select(c) PROVE FoundInv'
    <2>1. PICK from \in {"AddrChan", "ErrChan"}, ans \in {call[c].chan, "empty"} :
            call' = [call EXCEPT ![c] = Received(@, ans, from)]
      BY <1>5 DEF Select
    <2>2. call[c].chan \in {"addr", "error"} /\ UNCHANGED <<subs, browser, cache, evicted>>
      BY <1>5 DEF Select, caching
    <2>3. Received(call[c], ans, from) \in CallRec
      BY <1>c, <2>1, <2>2, ReceivedTyped DEF Answers
    <2>4. Received(call[c], ans, from).hit => call[c].hit
      BY <1>c, <1>n DEF Received, CallRec
    <2>5. browser' = "found" \/ subs'.hit => HasFound
      BY <2>2 DEF HasFound
    <2>6. Moves(c, Received(call[c], ans, from))
      BY <2>1, <2>3 DEF Moves
    <2> QED BY <1>0, <1>c, <1>k, <2>2, <2>4, <2>5, <2>6, MovesFound
  <1>6. ASSUME NEW c \in Callers, TimesOut(c) \/ AwaitPublished(c) PROVE FoundInv'
    <2>1. Moves(c, NoCall) /\ UNCHANGED <<subs, cache, evicted>> /\ browser' \in {"none", browser}
      BY <1>6, <1>n DEF TimesOut, AwaitPublished, Return, Moves, caching
    <2>2. browser' = "found" \/ subs'.hit => HasFound
      BY <2>1 DEF HasFound
    <2> QED BY <1>0, <1>k, <1>n, <2>1, <2>2, MovesFound
  <1>7. CASE BrowseEnds
    <2> DEFINE kind == IF browser = "found" THEN "addr" ELSE "error"
    <2>1. /\ call' = Published(kind) /\ UNCHANGED <<cache, evicted>>
          /\ browser' = "published" /\ subs'.hit = (browser = "found")
      BY <1>7, <1>s DEF BrowseEnds, caching
    <2>2. ASSUME NEW c \in Callers, call'[c].hit, ~call[c].hit PROVE kind = "addr"
      <3>1. CASE call'[c] = Received(call[c], kind, ChanOf(kind))
        <4>1. Received(call[c], kind, ChanOf(kind)).hit => call[c].hit
          BY <1>c, <1>n DEF Received, CallRec
        <4> QED BY <2>2, <3>1, <4>1
      <3>2. CASE call'[c] = [call[c] EXCEPT !.chan = kind, !.hit = (kind = "addr")]
        BY <1>c, <2>2, <3>2 DEF CallRec
      <3>3. CASE call'[c] = call[c]
        BY <2>2, <3>3
      <3> HIDE DEF kind
      <3> QED BY <2>1, <3>1, <3>2, <3>3 DEF Published
    <2>3. HasFound' => HasFound
      BY <2>1, <2>2 DEF HasFound
    <2> QED BY <1>k, <2>1, <2>3
  <1>8. CASE Cleanup
    BY <1>k, <1>8 DEF Cleanup, HasFound, NoPool, caching
  <1>9. ASSUME NEW h \in Hosts, BrowseEntry(h) \/ RefreshEntry(h) PROVE FoundInv'
    <2>1. cache' = Added(h)
      BY <1>9 DEF BrowseEntry, RefreshEntry
    <2> QED BY <1>0, <2>1, AddedCached DEF FoundInv
  <1>10. CASE RefreshAllApps
    <2>1. evicted \/ Cached # {} => evicted' \/ Cached' # {}
      BY <1>0, <1>10, ExpiryEvicts
    <2>2. HasFound' => HasFound
      BY <1>10 DEF RefreshAllApps, HasFound
    <2> QED BY <1>0, <2>1, <2>2 DEF FoundInv
  <1> QED BY <1>1, <1>2, <1>3, <1>4, <1>5, <1>6, <1>7, <1>8, <1>9, <1>10
          DEF Next, CallStep, vars, HostLeaves, RefreshOnDemand, RefreshEnds, Close, caching

\* A caller that returns with an error although its pool has found an address does so
\* because the address has expired.
LEMMA ErrorsAreTrue ==
  ASSUME MDNSInv, [Next]_vars, NEW c \in Callers, Returns(c), call[c].hit,
         answer' \in {"error", "timeout"}
  PROVE  evicted
  <1>0. TypeOK /\ PoolInv /\ CallInv /\ FoundInv
    BY DEF MDNSInv
  <1>1. call[c] \in CallRec /\ CallFine(c, call[c], subs)
    BY <1>0 DEF TypeOK, CallRec, CallInv
  <1>l. Lookup = {} => evicted
    <2>1. HasFound
      BY DEF HasFound
    <2>2. Lookup = {} => Cached = {}
      BY DEF Lookup
    <2> QED BY <1>0, <2>1, <2>2 DEF FoundInv
  <1>m. ASSUME NEW d \in Callers, NEW r, call' = [call EXCEPT ![d] = r] PROVE d = c
    BY <1>0, <1>m DEF Returns, TypeOK
  <1>2. CASE UNCHANGED call
    BY <1>2 DEF Returns
  <1>3. ASSUME NEW d \in Callers, ResolveID(d) \/ Recheck(d) PROVE FALSE
    <2>1. \/ answer' = "addr"
          \/ call' = [call EXCEPT ![d].pc = "missed"] \/ call' = [call EXCEPT ![d].pc = "waiting"]
      BY <1>3 DEF ResolveID, Recheck, Return
    <2>2. call'[c].pc # "idle" \/ answer' = "addr"
      BY <1>0, <2>1 DEF Returns, TypeOK
    <2> QED BY <2>2 DEF Returns
  <1>4. ASSUME NEW d \in Callers, Join(d) \/ OnceDo(d) \/ PushRefresh(d) PROVE FALSE
    BY <1>0, <1>4 DEF Join, OnceDo, PushRefresh, Returns, TypeOK
  <1>5. ASSUME NEW d \in Callers, Select(d) PROVE evicted
    <2>1. PICK from \in {"AddrChan", "ErrChan"} :
            LET ans == IF from = ChanOf(call[d].chan) THEN call[d].chan ELSE "empty"
            IN  /\ call' = [call EXCEPT ![d] = Received(@, ans, from)]
                /\ answer' = IF call[d].first THEN answer ELSE ans
      BY <1>5 DEF Select
    <2>2. d = c /\ call[c].chan \in {"addr", "error"}
      BY <1>m, <1>5, <2>1 DEF Select
    <2>3. call[c].chan = "addr"
      BY <1>1, <2>2 DEF CallFine
    <2>4. CASE call[c].first
      <3>1. call'[c].pc \in {"refreshing", "settling"}
        BY <1>0, <1>1, <2>1, <2>2, <2>4 DEF Received, CallRec, TypeOK
      <3> QED BY <3>1 DEF Returns
    <2>5. CASE ~call[c].first
      BY <2>1, <2>2, <2>3, <2>5
    <2> QED BY <2>4, <2>5
  <1>6. ASSUME NEW d \in Callers, TimesOut(d) PROVE evicted
    <2>1. answer' = IF Lookup # {} THEN "addr" ELSE "timeout"
      BY <1>6 DEF TimesOut, Return
    <2> QED BY <1>l, <2>1
  <1>7. ASSUME NEW d \in Callers, AwaitPublished(d) PROVE FALSE
    <2>1. answer' = call[d].ans /\ d = c
      BY <1>m, <1>7 DEF AwaitPublished, Return
    <2> QED BY <1>1, <2>1 DEF CallFine
  <1>8. CASE BrowseEnds
    <2> DEFINE kind == IF browser = "found" THEN "addr" ELSE "error"
    <2>1. call' = Published(kind) /\ answer' = kind /\ ~subs.hit
      BY <1>0, <1>8 DEF BrowseEnds, PoolInv
    <2>2. c \in subs.members /\ call[c].chan = "open"
      <3> HIDE DEF kind
      <3> QED BY <2>1 DEF Published, Returns
    <2> QED BY <1>1, <2>1, <2>2 DEF CallFine
  <1> QED BY <1>2, <1>3, <1>4, <1>5, <1>6, <1>7, <1>8
          DEF Next, CallStep, vars, BrowseEntry, RefreshEntry, HostLeaves, Cleanup,
              RefreshOnDemand, RefreshAllApps, RefreshEnds, Close, Returns

\* FoundIsAnswered: nobody returns an error or a timeout once the browse of its pool has
\* found an address, however late it joined the pool (ResolveID, pubAddrToSubs), unless
\* the address has expired; for any number of callers, hosts and addresses.
THEOREM FoundAnswered == ServicesSpec => FoundIsAnswered
  <1>1. MDNSInv /\ [Next]_vars => MDNSInv'
    BY MDNSTypedStep, PoolStep, CallsStep, FoundStep DEF MDNSInv
  <1>2. ServicesInit => MDNSInv
    BY MDNSInvInit DEF ServicesInit
  <1>3. [ServicesNext]_servicesVars => [Next]_vars
    BY DEF ServicesNext, servicesVars
  <1>4. MDNSInv /\ [Next]_vars =>
          [\A c \in Callers : Returns(c) /\ answer' \in {"error", "timeout"} =>
                                ~call[c].hit \/ evicted]_vars
    BY ErrorsAreTrue
  <1> QED BY <1>1, <1>2, <1>3, <1>4, PTL DEF ServicesSpec, FoundIsAnswered
-----------------------------------------------------------------------------
(* Configuration.                                                          *)

Events == UNION {[keys -> Nat] : keys \in SUBSET Settings}

SubscriptionRec ==
  [pc : {"none", "starting", "listening", "handling", "calling", "ending", "ended"},
   registered : BOOLEAN, cancelled : BOOLEAN, queue : Seq(Events), hand : Events, etag : Nat]

ConfigurationTyped ==
  /\ provider \in Providers
  /\ setting \in [Settings -> Nat] /\ present \subseteq Settings
  /\ changes \in Nat /\ sentinel \in Nat
  /\ subscription \in [Subscriptions -> SubscriptionRec]
  /\ seen \in [Subscriptions -> [Settings -> Nat]]

\* Values are the numbers of writes.
WritesInv == \A k \in Settings : setting[k] <= changes

\* PostgreSQL and the informer send the value with the notification.
SendsValues == provider \in {"postgres", "kubernetes"}

\* The values of an event lie between lo, what its subscriber has seen, and hi, the
\* present ones.
Timely(lo, e, hi) == \A k \in DOMAIN e : lo[k] <= e[k] /\ e[k] <= hi[k]

\* Event d is not about a later value than event e.
Before(d, e) == \A k \in DOMAIN d \cap DOMAIN e : d[k] <= e[k]

\* The events that wait are in the order of the writes, behind the one in hand.
Ordered(q, hand, lo, hi) ==
  /\ \A i \in DOMAIN q : Timely(lo, q[i], hi) /\ Before(hand, q[i])
  /\ \A i, j \in DOMAIN q : i < j => Before(q[i], q[j])

\* A subscriber knows no value that is still to be written; its goroutine has an
\* event in its hands only while it handles it, and no notifications before it
\* listens; what it is about to tell is not old.
Orderly(st, lo, hi) ==
  /\ \A k \in Settings : lo[k] <= hi[k]
  /\ st.pc \notin {"handling", "calling"} => st.hand = << >>
  /\ st.pc \in {"none", "starting", "ending", "ended"} => st.queue = << >>
  /\ st.pc = "calling" \/ SendsValues => Timely(lo, st.hand, hi)
  /\ SendsValues => Ordered(st.queue, st.hand, lo, hi)

TellInv == \A s \in Subscriptions : Orderly(subscription[s], seen[s], setting)

\* After Close no goroutine listens; one of Redis may be about to, for good.
ClosedInv ==
  closing = "closed" =>
    \A s \in Subscriptions : subscription[s].pc \in {"none", "starting", "ending", "ended"}

ConfigurationInv == ConfigurationTyped /\ WritesInv /\ TellInv /\ ClosedInv

LEMMA NoEvent == << >> \in Events /\ DOMAIN << >> = {} /\ << >> \in Seq(Events)
  <1>1. << >> \in Seq(Nat) /\ Len(<< >>) = 0 /\ << >> \in Seq(Events)
    BY EmptySeq
  <1>2. << >> \in [1 .. 0 -> Nat] /\ DOMAIN << >> = 1 .. 0
    BY <1>1, LenProperties
  <1>3. 1 .. 0 = {}
    OBVIOUS
  <1>4. << >> \in [{} -> Nat]
    BY <1>2, <1>3
  <1>5. << >> \in Events
    BY <1>4 DEF Events
  <1> QED BY <1>1, <1>2, <1>3, <1>5

LEMMA EventTyped ==
  ASSUME ConfigurationTyped, NEW keys \in SUBSET Settings
  PROVE  Event(keys) \in Events /\ DOMAIN Event(keys) = keys
  <1>1. Event(keys) \in [keys -> Nat]
    BY DEF Event, ConfigurationTyped
  <1> QED BY <1>1 DEF Events, Event

LEMMA EventParts ==
  ASSUME NEW e \in Events
  PROVE  DOMAIN e \subseteq Settings /\ \A k \in DOMAIN e : e[k] \in Nat
  BY DEF Events

\* What the goroutine has in hand, or waiting, is nothing.
LEMMA NothingWaits ==
  ASSUME NEW e, NEW lo, NEW hi
  PROVE  Timely(lo, << >>, hi) /\ Before(<< >>, e) /\ Ordered(<< >>, e, lo, hi)
  BY NoEvent DEF Timely, Before, Ordered

\* The record of a goroutine that has not begun.
LEMMA BegunTyped ==
  /\ NotSubscribed \in SubscriptionRec /\ NotSubscribed.hand = << >>
  /\ NotSubscribed.queue = << >> /\ NotSubscribed.pc = "none"
  BY NoEvent DEF NotSubscribed, SubscriptionRec

LEMMA ConfigurationInvInit == ConfigurationInit => ConfigurationInv
  <1> SUFFICES ASSUME ConfigurationInit PROVE ConfigurationInv
    OBVIOUS
  <1> USE DEF ConfigurationInit
  <1>1. ConfigurationTyped
    BY BegunTyped DEF ConfigurationTyped
  <1>2. WritesInv
    BY DEF WritesInv
  <1>3. TellInv
    BY BegunTyped, NothingWaits DEF TellInv, Orderly
  <1>4. ClosedInv
    BY DEF ClosedInv
  <1> QED BY <1>1, <1>2, <1>3, <1>4 DEF ConfigurationInv

\* A step of subscription s alone, which leaves the settings alone: its record
\* becomes r, and its handler has been told told.
Steps(s, r, told) ==
  /\ r \in SubscriptionRec /\ told \in [Settings -> Nat]
  /\ subscription' = [subscription EXCEPT ![s] = r]
  /\ seen' = [seen EXCEPT ![s] = told]
  /\ UNCHANGED <<provider, setting, present, changes>> /\ sentinel' \in Nat

LEMMA StepKeeps ==
  ASSUME ConfigurationInv, NEW s \in Subscriptions, NEW r, NEW told,
         Steps(s, r, told), Orderly(r, told, setting), closing' = closing,
         closing = "closed" => r.pc \in {"none", "starting", "ending", "ended"}
  PROVE  ConfigurationInv'
  <1>0. ConfigurationTyped /\ WritesInv /\ TellInv /\ ClosedInv
    BY DEF ConfigurationInv
  <1>1. /\ subscription'[s] = r /\ seen'[s] = told
        /\ \A t \in Subscriptions \ {s} : subscription'[t] = subscription[t] /\ seen'[t] = seen[t]
    BY <1>0 DEF Steps, ConfigurationTyped
  <1>2. ConfigurationTyped'
    BY <1>0 DEF Steps, ConfigurationTyped
  <1>3. WritesInv'
    BY <1>0 DEF WritesInv, Steps
  <1>4. ASSUME NEW t \in Subscriptions PROVE Orderly(subscription[t], seen[t], setting)'
    <2>1. Orderly(subscription'[t], seen'[t], setting)
      BY <1>0, <1>1 DEF TellInv
    <2>2. setting' = setting /\ provider' = provider
      BY DEF Steps
    <2> QED BY <2>1, <2>2 DEF Orderly, SendsValues, Ordered, Timely, Before
  <1>5. ClosedInv'
    BY <1>0, <1>1 DEF ClosedInv
  <1> QED BY <1>2, <1>3, <1>4, <1>5 DEF ConfigurationInv, TellInv
\* A step of a subscription that keeps the order: what its handler knows after it is
\* not older than before, and the same once Close has returned.
GoodStep(s) ==
  \E r, told :
    /\ Steps(s, r, told) /\ Orderly(r, told, setting) /\ closing' = closing
    /\ closing = "closed" =>
         r.pc \in {"none", "starting", "ending", "ended"} /\ told = seen[s]
    /\ \A k \in Settings : told[k] >= seen[s][k]

\* The same for steps in which no handler is told anything.
LEMMA SilentStep ==
  ASSUME ConfigurationInv, NEW s \in Subscriptions, NEW r \in SubscriptionRec,
         subscription' = [subscription EXCEPT ![s] = r],
         UNCHANGED <<seen, provider, setting, present, changes, closing, sentinel>>,
         Orderly(r, seen[s], setting),
         closing = "closed" => r.pc \in {"none", "starting", "ending", "ended"}
  PROVE  GoodStep(s)
  <1>1. seen[s] \in [Settings -> Nat] /\ sentinel \in Nat /\ seen' = [seen EXCEPT ![s] = seen[s]]
    BY DEF ConfigurationInv, ConfigurationTyped
  <1>2. \A k \in Settings : seen[s][k] >= seen[s][k]
    BY <1>1
  <1>3. Steps(s, r, seen[s])
    BY <1>1 DEF Steps
  <1> QED BY <1>2, <1>3 DEF GoodStep

\* What one subscription has, by the invariant.
LEMMA SubscriptionHas ==
  ASSUME ConfigurationInv, NEW s \in Subscriptions
  PROVE  /\ subscription[s] \in SubscriptionRec /\ seen[s] \in [Settings -> Nat]
         /\ setting \in [Settings -> Nat]
         /\ Orderly(subscription[s], seen[s], setting)
         /\ closing = "closed" => subscription[s].pc \in {"none", "starting", "ending", "ended"}
  BY DEF ConfigurationInv, ConfigurationTyped, TellInv, ClosedInv

\* The next event becomes the one in hand.
LEMMA HeadInOrder ==
  ASSUME NEW q \in Seq(Events), q # << >>, NEW hand, NEW lo, NEW hi, Ordered(q, hand, lo, hi)
  PROVE  Timely(lo, Head(q), hi) /\ Ordered(Tail(q), Head(q), lo, hi)
  <1>1. Head(q) = q[1] /\ 1 \in DOMAIN q
    BY HeadTailProperties, LenProperties
  <1>2. ASSUME NEW i \in DOMAIN Tail(q) PROVE i + 1 \in DOMAIN q /\ Tail(q)[i] = q[i + 1] /\ 1 < i + 1
    BY <1>2
  <1>3. ASSUME NEW i \in DOMAIN Tail(q) PROVE Timely(lo, Tail(q)[i], hi) /\ Before(Head(q), Tail(q)[i])
    BY <1>1, <1>2 DEF Ordered
  <1>4. ASSUME NEW i \in DOMAIN Tail(q), NEW j \in DOMAIN Tail(q), i < j
        PROVE  Before(Tail(q)[i], Tail(q)[j])
    <2>1. i + 1 < j + 1
      BY <1>4
    <2> QED BY <1>2, <2>1 DEF Ordered
  <1> QED BY <1>1, <1>3, <1>4 DEF Ordered

\* An event in hand is told, and what waits is not older.
LEMMA ToldInTime ==
  ASSUME NEW hand \in Events, NEW lo \in [Settings -> Nat], NEW hi \in [Settings -> Nat],
         NEW q \in Seq(Events), \A k \in Settings : lo[k] <= hi[k], Timely(lo, hand, hi),
         NEW told, told = [k \in Settings |-> IF k \in DOMAIN hand THEN hand[k] ELSE lo[k]]
  PROVE  /\ told \in [Settings -> Nat]
         /\ \A k \in Settings : told[k] >= lo[k] /\ told[k] <= hi[k]
         /\ Ordered(q, hand, lo, hi) => Ordered(q, << >>, told, hi)
  <1>1. DOMAIN hand \subseteq Settings /\ \A k \in DOMAIN hand : hand[k] \in Nat
    BY EventParts
  <1>2. told \in [Settings -> Nat]
    BY <1>1
  <1>3. ASSUME NEW k \in Settings PROVE told[k] >= lo[k] /\ told[k] <= hi[k]
    <2>1. CASE k \in DOMAIN hand
      <3>1. told[k] = hand[k] /\ lo[k] <= hand[k] /\ hand[k] <= hi[k]
        BY <2>1 DEF Timely
      <3>2. told[k] \in Nat /\ lo[k] \in Nat
        BY <1>2
      <3> QED BY <3>1, <3>2
    <2>2. CASE k \notin DOMAIN hand
      <3>1. told[k] = lo[k] /\ lo[k] <= hi[k] /\ lo[k] \in Nat
        BY <2>2
      <3> QED BY <3>1
    <2> QED BY <2>1, <2>2
  <1>4. ASSUME Ordered(q, hand, lo, hi), NEW i \in DOMAIN q PROVE Timely(told, q[i], hi)
    <2> SUFFICES ASSUME NEW k \in DOMAIN q[i] PROVE told[k] <= q[i][k] /\ q[i][k] <= hi[k]
      BY DEF Timely
    <2>1. q[i] \in Events
      BY <1>4, ElementOfSeq
    <2>2. k \in Settings
      BY <2>1, EventParts
    <2>3. /\ lo[k] <= q[i][k] /\ q[i][k] <= hi[k]
          /\ k \in DOMAIN hand => hand[k] <= q[i][k]
      BY <1>4 DEF Ordered, Timely, Before
    <2> QED BY <2>2, <2>3
  <1>5. Ordered(q, hand, lo, hi) => Ordered(q, << >>, told, hi)
    <2> SUFFICES ASSUME Ordered(q, hand, lo, hi) PROVE Ordered(q, << >>, told, hi)
      OBVIOUS
    <2>1. \A i \in DOMAIN q : Timely(told, q[i], hi) /\ Before(<< >>, q[i])
      BY <1>4, NothingWaits
    <2> QED BY <2>1 DEF Ordered
  <1> QED BY <1>2, <1>3, <1>5

LEMMA SubscribeGood ==
  ASSUME ConfigurationInv, NEW s \in Subscriptions, Subscribe(s)
  PROVE  GoodStep(s)
  <1>0. UNCHANGED <<provider, setting, present, changes, closing, sentinel>>
    BY DEF Subscribe
  <1>1. \A k \in Settings : seen[s][k] <= setting[k]
    BY SubscriptionHas DEF Orderly
  <1>2. ASSUME NEW pc \in {"starting", "listening"}
        PROVE  /\ Begun(pc) \in SubscriptionRec /\ Begun(pc).pc = pc
               /\ Begun(pc).queue = << >> /\ Begun(pc).hand = << >>
    BY BegunTyped DEF Begun, SubscriptionRec
  <1>3. ASSUME NEW pc \in {"starting", "listening"} PROVE Orderly(Begun(pc), seen[s], setting)
    BY <1>1, <1>2, NothingWaits DEF Orderly
  <1>4. CASE seen' = seen /\ subscription' = [subscription EXCEPT ![s] = Begun("starting")]
    BY <1>0, <1>2, <1>3, <1>4, SilentStep
  <1>5. CASE /\ closing = "open" /\ seen' = seen
             /\ subscription' = [subscription EXCEPT ![s] = Begun("listening")]
    BY <1>0, <1>2, <1>3, <1>5, SilentStep
  <1>6. CASE KubernetesSubscribe(s)
    <2> DEFINE q == IF present = {} THEN << >> ELSE <<Event(present)>>
               r == [Begun("listening") EXCEPT !.registered = FALSE, !.queue = q]
               told == [k \in Settings |-> IF k \in present THEN seen[s][k] ELSE setting[k]]
    <2>1. /\ closing = "open" /\ subscription' = [subscription EXCEPT ![s] = r]
          /\ seen' = [seen EXCEPT ![s] = told]
      BY <1>6 DEF KubernetesSubscribe
    <2>2. /\ present \subseteq Settings
          /\ Event(present) \in Events /\ DOMAIN Event(present) = present
      BY EventTyped DEF ConfigurationInv, ConfigurationTyped
    <2>3. q \in Seq(Events)
      BY <2>2, NoEvent
    <2>4. /\ told \in [Settings -> Nat]
          /\ \A k \in Settings : told[k] >= seen[s][k] /\ told[k] <= setting[k]
      BY <1>1, SubscriptionHas
    <2> HIDE DEF told
    <2>5. Timely(told, Event(present), setting)
      <3>1. \A k \in present : Event(present)[k] = setting[k]
        BY DEF Event
      <3>2. \A k \in present : setting[k] <= setting[k] /\ told[k] <= setting[k]
        BY <2>2, <2>4, SubscriptionHas
      <3> QED BY <2>2, <3>1, <3>2 DEF Timely
    <2>6. Ordered(q, << >>, told, setting)
      <3>1. CASE q = << >>
        BY <3>1, NothingWaits
      <3>2. CASE q = <<Event(present)>>
        <4>1. DOMAIN q = {1} /\ q[1] = Event(present)
          BY <3>2
        <4> HIDE DEF q
        <4>2. \A i \in DOMAIN q : Timely(told, q[i], setting) /\ Before(<< >>, q[i])
          BY <2>5, <4>1, NothingWaits
        <4>3. \A i, j \in DOMAIN q : ~(i < j)
          BY <4>1
        <4> QED BY <4>2, <4>3 DEF Ordered
      <3> QED BY <3>1, <3>2
    <2> HIDE DEF q
    <2>7. /\ r \in SubscriptionRec /\ r.pc = "listening" /\ r.queue = q /\ r.hand = << >>
      BY <1>2, <2>3 DEF SubscriptionRec
    <2> HIDE DEF r
    <2>8. Orderly(r, told, setting)
      BY <2>4, <2>6, <2>7, NothingWaits DEF Orderly
    <2>9. Steps(s, r, told)
      BY <1>0, <2>1, <2>4, <2>7 DEF Steps, ConfigurationInv, ConfigurationTyped
    <2> QED BY <1>0, <2>1, <2>4, <2>8, <2>9 DEF GoodStep
  <1>7. provider \in {"redis", "postgres", "kubernetes"} \cup AppConfig
    BY ConfigurationAssumption DEF AppConfig, ConfigurationInv, ConfigurationTyped
  <1> QED BY <1>4, <1>5, <1>6, <1>7
          DEF Subscribe, RedisSubscribe, PostgresSubscribe, AppConfigSubscribe, AppConfig
\* A record that differs in its flags and its etag only, or has stopped to listen.
LEMMA RegisterGood ==
  ASSUME ConfigurationInv, NEW s \in Subscriptions, KubernetesRegister(s)
  PROVE  GoodStep(s)
  <1> DEFINE r == [subscription[s] EXCEPT !.registered = TRUE]
  <1>1. r \in SubscriptionRec /\ r.pc = subscription[s].pc
        /\ r.queue = subscription[s].queue /\ r.hand = subscription[s].hand
    BY SubscriptionHas DEF SubscriptionRec
  <1>2. /\ subscription' = [subscription EXCEPT ![s] = r]
        /\ UNCHANGED <<seen, provider, setting, present, changes, closing, sentinel>>
    BY DEF KubernetesRegister
  <1> HIDE DEF r
  <1>3. Orderly(r, seen[s], setting)
    BY <1>1, SubscriptionHas DEF Orderly
  <1> QED BY <1>1, <1>2, <1>3, SubscriptionHas, SilentStep

LEMMA ListenGood ==
  ASSUME ConfigurationInv, NEW s \in Subscriptions, Listen(s)
  PROVE  GoodStep(s)
  <1> DEFINE r == [subscription[s] EXCEPT !.pc = "listening"]
  <1>1. /\ r \in SubscriptionRec /\ r.pc = "listening"
        /\ r.queue = subscription[s].queue /\ r.hand = subscription[s].hand
    BY SubscriptionHas DEF SubscriptionRec
  <1>2. /\ subscription' = [subscription EXCEPT ![s] = r] /\ seen' = [seen EXCEPT ![s] = setting]
        /\ UNCHANGED <<provider, setting, present, changes, closing, sentinel>>
        /\ closing = "open" /\ subscription[s].pc = "starting"
    BY DEF Listen, Becomes
  <1> HIDE DEF r
  <1>3. r.queue = << >> /\ r.hand = << >> /\ \A k \in Settings : setting[k] >= seen[s][k]
    BY <1>1, <1>2, SubscriptionHas DEF Orderly
  <1>4. \A k \in Settings : setting[k] <= setting[k]
    BY SubscriptionHas
  <1>5. Orderly(r, setting, setting)
    BY <1>1, <1>3, <1>4, NothingWaits DEF Orderly
  <1>6. Steps(s, r, setting)
    BY <1>1, <1>2, SubscriptionHas DEF Steps, ConfigurationInv, ConfigurationTyped
  <1> QED BY <1>2, <1>3, <1>5, <1>6 DEF GoodStep

LEMMA ReceiveGood ==
  ASSUME ConfigurationInv, NEW s \in Subscriptions, Receive(s)
  PROVE  GoodStep(s)
  <1> DEFINE q == subscription[s].queue
             r == [subscription[s] EXCEPT !.pc = "handling", !.hand = Head(q), !.queue = Tail(q)]
  <1>1. /\ subscription' = [subscription EXCEPT ![s] = r]
        /\ UNCHANGED <<seen, provider, setting, present, changes, closing, sentinel>>
        /\ subscription[s].pc = "listening" /\ q # << >>
    BY DEF Receive, Becomes
  <1>2. q \in Seq(Events)
    BY SubscriptionHas DEF SubscriptionRec
  <1>3. Head(q) \in Events /\ Tail(q) \in Seq(Events)
    BY <1>1, <1>2
  <1>4. SendsValues => Timely(seen[s], Head(q), setting)
                       /\ Ordered(Tail(q), Head(q), seen[s], setting)
    BY <1>1, <1>2, SubscriptionHas, HeadInOrder DEF Orderly
  <1> HIDE DEF q
  <1>5. /\ r \in SubscriptionRec /\ r.pc = "handling" /\ r.queue = Tail(q) /\ r.hand = Head(q)
    BY <1>3, SubscriptionHas DEF SubscriptionRec
  <1> HIDE DEF r
  <1>6. Orderly(r, seen[s], setting)
    BY <1>4, <1>5, SubscriptionHas DEF Orderly
  <1> QED BY <1>1, <1>5, <1>6, SubscriptionHas, SilentStep

LEMMA PollGood ==
  ASSUME ConfigurationInv, NEW s \in Subscriptions, Poll(s)
  PROVE  GoodStep(s)
  <1> DEFINE r == [subscription[s] EXCEPT !.pc = "handling", !.etag = sentinel + 1]
  <1>0. sentinel + 1 \in Nat
    BY DEF ConfigurationInv, ConfigurationTyped
  <1>1. /\ r \in SubscriptionRec /\ r.pc = "handling"
        /\ r.queue = subscription[s].queue /\ r.hand = subscription[s].hand
    BY <1>0, SubscriptionHas DEF SubscriptionRec
  <1>2. /\ subscription' = [subscription EXCEPT ![s] = r]
        /\ UNCHANGED <<seen, provider, setting, present, changes, closing, sentinel>>
        /\ subscription[s].pc = "listening"
    BY DEF Poll, Becomes
  <1> HIDE DEF r
  <1>3. Orderly(r, seen[s], setting)
    BY <1>1, <1>2, SubscriptionHas DEF Orderly
  <1> QED BY <1>1, <1>2, <1>3, SubscriptionHas, SilentStep

\* The event in hand is put down.
LEMMA DropOrderly ==
  ASSUME ConfigurationInv, NEW s \in Subscriptions
  PROVE  /\ Drop(subscription[s]) \in SubscriptionRec /\ Drop(subscription[s]).pc = "listening"
         /\ Drop(subscription[s]).queue = subscription[s].queue
         /\ Drop(subscription[s]).hand = << >>
         /\ Orderly(Drop(subscription[s]), seen[s], setting)
  <1> DEFINE r == Drop(subscription[s])
  <1>1. /\ r \in SubscriptionRec /\ r.pc = "listening"
        /\ r.queue = subscription[s].queue /\ r.hand = << >>
    BY SubscriptionHas, NoEvent DEF SubscriptionRec, Drop
  <1> HIDE DEF r
  <1>2. Ordered(subscription[s].queue, subscription[s].hand, seen[s], setting)
          => Ordered(subscription[s].queue, << >>, seen[s], setting)
    BY NothingWaits DEF Ordered
  <1>3. Orderly(r, seen[s], setting)
    BY <1>1, <1>2, SubscriptionHas, NothingWaits DEF Orderly
  <1> QED BY <1>1, <1>3 DEF r

LEMMA PrepareGood ==
  ASSUME ConfigurationInv, NEW s \in Subscriptions, Prepare(s)
  PROVE  GoodStep(s)
  <1> DEFINE st == subscription[s]
             keys == IF provider = "redis" THEN DOMAIN st.hand ELSE present
             go == [st EXCEPT !.pc = "calling"]
             read == [go EXCEPT !.hand = Event(keys)]
  <1>0. provider \in {"redis", "postgres", "kubernetes"} \cup AppConfig
    BY ConfigurationAssumption DEF AppConfig, ConfigurationInv, ConfigurationTyped
  <1>1. /\ \/ subscription' = [subscription EXCEPT ![s] = Drop(st)]
           \/ SendsValues /\ subscription' = [subscription EXCEPT ![s] = go]
           \/ ~SendsValues /\ subscription' = [subscription EXCEPT ![s] = read]
        /\ UNCHANGED <<seen, provider, setting, present, changes, closing, sentinel>>
        /\ st.pc = "handling"
    BY <1>0 DEF Prepare, Becomes, SendsValues, AppConfig
  <1>2. closing # "closed"
    BY <1>1, SubscriptionHas
  <1>3. CASE subscription' = [subscription EXCEPT ![s] = Drop(st)]
    BY <1>1, <1>2, <1>3, DropOrderly, SilentStep
  <1>4. CASE SendsValues /\ subscription' = [subscription EXCEPT ![s] = go]
    <2>1. go \in SubscriptionRec /\ go.pc = "calling" /\ go.queue = st.queue /\ go.hand = st.hand
      BY SubscriptionHas DEF SubscriptionRec
    <2> HIDE DEF go
    <2>2. Orderly(go, seen[s], setting)
      BY <1>1, <1>4, <2>1, SubscriptionHas DEF Orderly
    <2> QED BY <1>1, <1>2, <1>4, <2>1, <2>2, SilentStep
  <1>5. CASE ~SendsValues /\ subscription' = [subscription EXCEPT ![s] = read]
    <2>1. st.hand \in Events
      BY SubscriptionHas DEF SubscriptionRec
    <2>2. keys \in SUBSET Settings
      BY <2>1, EventParts DEF ConfigurationInv, ConfigurationTyped
    <2>3. Event(keys) \in Events /\ DOMAIN Event(keys) = keys
      BY <2>2, EventTyped DEF ConfigurationInv
    <2> HIDE DEF keys
    <2>4. /\ read \in SubscriptionRec /\ read.pc = "calling"
          /\ read.queue = st.queue /\ read.hand = Event(keys)
      BY <2>3, SubscriptionHas DEF SubscriptionRec
    <2>5. Timely(seen[s], Event(keys), setting)
      <3>1. \A k \in keys : Event(keys)[k] = setting[k]
        BY DEF Event
      <3>2. \A k \in keys : setting[k] <= setting[k] /\ seen[s][k] <= setting[k]
        BY <2>2, SubscriptionHas DEF Orderly
      <3> QED BY <2>3, <3>1, <3>2 DEF Timely
    <2> HIDE DEF read
    <2>6. Orderly(read, seen[s], setting)
      BY <1>5, <2>4, <2>5, SubscriptionHas DEF Orderly
    <2> QED BY <1>1, <1>2, <1>5, <2>4, <2>6, SilentStep
  <1> QED BY <1>1, <1>3, <1>4, <1>5

LEMMA CallHandlerGood ==
  ASSUME ConfigurationInv, NEW s \in Subscriptions, CallHandler(s)
  PROVE  GoodStep(s)
  <1> DEFINE st == subscription[s]
             told == [k \in Settings |-> IF k \in DOMAIN st.hand THEN st.hand[k] ELSE seen[s][k]]
  <1>1. /\ subscription' = [subscription EXCEPT ![s] = Drop(st)]
        /\ seen' = [seen EXCEPT ![s] = told]
        /\ UNCHANGED <<provider, setting, present, changes, closing, sentinel>> /\ st.pc = "calling"
    BY DEF CallHandler, Becomes
  <1>2. st.hand \in Events /\ st.queue \in Seq(Events)
    BY SubscriptionHas DEF SubscriptionRec
  <1>3. /\ \A k \in Settings : seen[s][k] <= setting[k]
        /\ Timely(seen[s], st.hand, setting)
        /\ SendsValues => Ordered(st.queue, st.hand, seen[s], setting)
    BY <1>1, SubscriptionHas DEF Orderly
  <1>4. /\ told \in [Settings -> Nat]
        /\ \A k \in Settings : told[k] >= seen[s][k] /\ told[k] <= setting[k]
        /\ SendsValues => Ordered(st.queue, << >>, told, setting)
    <2>1. told = [k \in Settings |-> IF k \in DOMAIN st.hand THEN st.hand[k] ELSE seen[s][k]]
      OBVIOUS
    <2>2. seen[s] \in [Settings -> Nat] /\ setting \in [Settings -> Nat]
      BY SubscriptionHas
    <2> HIDE DEF told, st
    <2>3. /\ told \in [Settings -> Nat]
          /\ \A k \in Settings : told[k] >= seen[s][k] /\ told[k] <= setting[k]
          /\ Ordered(st.queue, st.hand, seen[s], setting) => Ordered(st.queue, << >>, told, setting)
      BY <1>2, <1>3, <2>1, <2>2, ToldInTime, Zenon
    <2> QED BY <1>3, <2>3
  <1> HIDE DEF told
  <1>5. Orderly(Drop(st), told, setting)
    BY <1>4, DropOrderly, NothingWaits DEF Orderly
  <1>6. Steps(s, Drop(st), told)
    BY <1>1, <1>4, DropOrderly DEF Steps, ConfigurationInv, ConfigurationTyped
  <1>7. closing # "closed"
    BY <1>1, SubscriptionHas
  <1> QED BY <1>1, <1>4, <1>5, <1>6, <1>7 DEF GoodStep

\* The notifications that wait are dropped.
LEMMA EmptiedGood ==
  ASSUME ConfigurationInv, NEW s \in Subscriptions, NEW r \in SubscriptionRec,
         subscription' = [subscription EXCEPT ![s] = r],
         UNCHANGED <<seen, provider, setting, present, changes, closing, sentinel>>,
         subscription[s].pc \notin {"handling", "calling"}, r.pc \notin {"handling", "calling"},
         r.hand = subscription[s].hand, r.queue = << >>,
         closing = "closed" => r.pc \in {"none", "starting", "ending", "ended"}
  PROVE  GoodStep(s)
  <1>1. r.hand = << >> /\ \A k \in Settings : seen[s][k] <= setting[k]
    BY SubscriptionHas DEF Orderly
  <1>2. Orderly(r, seen[s], setting)
    BY <1>1, NothingWaits DEF Orderly
  <1> QED BY <1>2, SilentStep

LEMMA EndGood ==
  ASSUME ConfigurationInv, NEW s \in Subscriptions, End(s)
  PROVE  GoodStep(s)
  <1>1. PICK pc \in {"ending", "ended"}, reg \in BOOLEAN :
          subscription' = [subscription EXCEPT
            ![s] = [subscription[s] EXCEPT !.pc = pc, !.queue = << >>, !.registered = reg]]
    <2>1. subscription[s].registered \in BOOLEAN
      BY SubscriptionHas DEF SubscriptionRec
    <2>2. CASE provider = "postgres" /\ subscription[s].pc # "ending"
      <3>1. subscription' = [subscription EXCEPT
              ![s] = [subscription[s] EXCEPT !.pc = "ending", !.queue = << >>]]
        BY <2>2 DEF End, Becomes
      <3>2. [subscription[s] EXCEPT !.pc = "ending", !.queue = << >>]
              = [subscription[s] EXCEPT !.pc = "ending", !.queue = << >>,
                                        !.registered = subscription[s].registered]
        BY SubscriptionHas DEF SubscriptionRec
      <3> QED BY <2>1, <3>1, <3>2
    <2>3. CASE ~(provider = "postgres" /\ subscription[s].pc # "ending")
      BY <2>1, <2>3 DEF End, Becomes
    <2> QED BY <2>2, <2>3
  <1>2. /\ UNCHANGED <<seen, provider, setting, present, changes, closing, sentinel>>
        /\ subscription[s].pc \in {"starting", "listening", "ending"}
    BY DEF End, Becomes
  <1> DEFINE r == [subscription[s] EXCEPT !.pc = pc, !.queue = << >>, !.registered = reg]
  <1>3. r \in SubscriptionRec /\ r.pc = pc /\ r.queue = << >> /\ r.hand = subscription[s].hand
    BY SubscriptionHas, NoEvent DEF SubscriptionRec
  <1> HIDE DEF r
  <1>4. subscription' = [subscription EXCEPT ![s] = r]
    BY <1>1 DEF r
  <1> QED BY <1>2, <1>3, <1>4, EmptiedGood

LEMMA LossGood ==
  ASSUME ConfigurationInv, NEW s \in Subscriptions, Loss(s)
  PROVE  GoodStep(s)
  <1>1. /\ UNCHANGED <<seen, provider, setting, present, changes, closing, sentinel>>
        /\ subscription[s].pc \in {"listening", "handling"}
    BY DEF Loss, Becomes
  <1>2. closing # "closed"
    BY <1>1, SubscriptionHas
  <1>3. CASE subscription' = [subscription EXCEPT ![s] = Drop(subscription[s])]
    BY <1>1, <1>2, <1>3, DropOrderly, SilentStep
  <1>4. ASSUME NEW r, r \in {[subscription[s] EXCEPT !.queue = << >>],
                             [subscription[s] EXCEPT !.pc = "ending", !.queue = << >>]},
               subscription' = [subscription EXCEPT ![s] = r], subscription[s].pc = "listening"
        PROVE  GoodStep(s)
    <2>1. /\ r \in SubscriptionRec /\ r.pc \in {"listening", "ending"}
          /\ r.queue = << >> /\ r.hand = subscription[s].hand
      BY <1>4, SubscriptionHas, NoEvent DEF SubscriptionRec
    <2> QED BY <1>1, <1>2, <1>4, <2>1, EmptiedGood
  <1> QED BY <1>3, <1>4 DEF Loss, Becomes

LEMMA UnsubscribeGood ==
  ASSUME ConfigurationInv, NEW s \in Subscriptions, Unsubscribe(s) \/ Unlisten(s)
  PROVE  GoodStep(s)
  <1>1. PICK reg \in BOOLEAN, can \in BOOLEAN :
          subscription' = [subscription EXCEPT
            ![s] = [subscription[s] EXCEPT !.cancelled = can, !.registered = reg]]
    <2>1. subscription[s].registered \in BOOLEAN /\ subscription[s].cancelled \in BOOLEAN
      BY SubscriptionHas DEF SubscriptionRec
    <2>2. CASE Unsubscribe(s)
      BY <2>1, <2>2 DEF Unsubscribe
    <2>3. CASE Unlisten(s)
      <3>1. subscription' = subscription
        BY <2>3 DEF Unlisten
      <3>2. subscription[s] = [subscription[s] EXCEPT !.cancelled = subscription[s].cancelled,
                                                      !.registered = subscription[s].registered]
        BY SubscriptionHas DEF SubscriptionRec
      <3>3. subscription = [subscription EXCEPT ![s] = subscription[s]]
        BY DEF ConfigurationInv, ConfigurationTyped
      <3> QED BY <2>1, <3>1, <3>2, <3>3
    <2> QED BY <2>2, <2>3
  <1>2. UNCHANGED <<seen, provider, setting, present, changes, closing, sentinel>>
    BY DEF Unsubscribe, Unlisten
  <1> DEFINE r == [subscription[s] EXCEPT !.cancelled = can, !.registered = reg]
  <1>3. /\ r \in SubscriptionRec /\ r.pc = subscription[s].pc
        /\ r.queue = subscription[s].queue /\ r.hand = subscription[s].hand
    BY SubscriptionHas DEF SubscriptionRec
  <1> HIDE DEF r
  <1>4. Orderly(r, seen[s], setting)
    BY <1>3, SubscriptionHas DEF Orderly
  <1>5. subscription' = [subscription EXCEPT ![s] = r]
    BY <1>1 DEF r
  <1> QED BY <1>2, <1>3, <1>4, <1>5, SubscriptionHas, SilentStep
\* A write makes the present later.
LEMMA WriteLater ==
  ASSUME NEW hi \in [Settings -> Nat], NEW k \in Settings, NEW v \in Nat, hi[k] <= v,
         NEW hi2, hi2 = [hi EXCEPT ![k] = v]
  PROVE  /\ hi2 \in [Settings -> Nat] /\ hi2[k] = v
         /\ \A x \in Settings : hi[x] <= hi2[x]
         /\ \A lo, e : e \in Events /\ Timely(lo, e, hi) => Timely(lo, e, hi2)
  <1>1. hi2 \in [Settings -> Nat] /\ hi2[k] = v /\ \A x \in Settings : hi[x] <= hi2[x]
    OBVIOUS
  <1>2. ASSUME NEW lo, NEW e \in Events, Timely(lo, e, hi), NEW x \in DOMAIN e
        PROVE  lo[x] <= e[x] /\ e[x] <= hi2[x]
    <2>1. x \in Settings /\ e[x] \in Nat
      BY EventParts
    <2>2. lo[x] <= e[x] /\ e[x] <= hi[x]
      BY <1>2 DEF Timely
    <2>3. hi[x] \in Nat /\ hi2[x] \in Nat /\ hi[x] <= hi2[x]
      BY <1>1, <2>1
    <2> QED BY <2>1, <2>2, <2>3
  <1> QED BY <1>1, <1>2 DEF Timely

\* Its notification waits behind the others.
LEMMA AppendInOrder ==
  ASSUME NEW q \in Seq(Events), NEW hand \in Events, NEW lo \in [Settings -> Nat],
         NEW hi \in [Settings -> Nat], NEW hi2 \in [Settings -> Nat],
         NEW k \in Settings, NEW v \in Nat, NEW e, e = [x \in {k} |-> v],
         lo[k] <= hi[k], hi[k] <= v, hi2[k] = v, Timely(lo, hand, hi), Ordered(q, hand, lo, hi),
         \A f \in Events : Timely(lo, f, hi) => Timely(lo, f, hi2)
  PROVE  e \in Events /\ Append(q, e) \in Seq(Events) /\ Ordered(Append(q, e), hand, lo, hi2)
  <1>1. e \in Events /\ DOMAIN e = {k} /\ e[k] = v
    <2>1. e \in [{k} -> Nat] /\ {k} \in SUBSET Settings
      OBVIOUS
    <2> QED BY <2>1 DEF Events
  <1>2. Timely(lo, e, hi2)
    BY <1>1 DEF Timely
  <1>3. ASSUME NEW f \in Events, Timely(lo, f, hi) PROVE Before(f, e)
    <2>1. ASSUME k \in DOMAIN f PROVE f[k] <= v
      <3>1. f[k] \in Nat /\ f[k] <= hi[k]
        BY <1>3, <2>1, EventParts DEF Timely
      <3> QED BY <3>1
    <2> QED BY <1>1, <2>1 DEF Before
  <1>4. \A i \in DOMAIN q : q[i] \in Events /\ Timely(lo, q[i], hi) /\ Before(hand, q[i])
    BY ElementOfSeq DEF Ordered
  <1> DEFINE p == Append(q, e)
  <1>5. /\ p \in Seq(Events) /\ DOMAIN p = 1 .. Len(q) + 1
        /\ \A i \in 1 .. Len(q) : p[i] = q[i]
        /\ p[Len(q) + 1] = e /\ DOMAIN q = 1 .. Len(q) /\ Len(q) \in Nat
    BY <1>1
  <1> HIDE DEF p
  <1>6. ASSUME NEW i \in DOMAIN p
        PROVE  (i \in DOMAIN q /\ p[i] = q[i]) \/ (i = Len(q) + 1 /\ p[i] = e)
    <2>1. i \in 1 .. Len(q) + 1 /\ Len(q) \in Nat
      BY <1>5, <1>6
    <2>2. i \in 1 .. Len(q) \/ i = Len(q) + 1
      BY <2>1
    <2>3. CASE i \in 1 .. Len(q)
      BY <1>5, <2>3
    <2>4. CASE i = Len(q) + 1
      BY <1>5, <2>4
    <2> QED BY <2>2, <2>3, <2>4
  <1>7. ASSUME NEW i \in DOMAIN p PROVE Timely(lo, p[i], hi2) /\ Before(hand, p[i])
    BY <1>2, <1>3, <1>4, <1>6
  <1>8. ASSUME NEW i \in DOMAIN p, NEW j \in DOMAIN p, i < j PROVE Before(p[i], p[j])
    <2>1. i \in DOMAIN q /\ p[i] = q[i]
      BY <1>5, <1>8
    <2>2. CASE j \in DOMAIN q /\ p[j] = q[j]
      BY <1>8, <2>1, <2>2 DEF Ordered
    <2>3. CASE p[j] = e
      BY <1>3, <1>4, <2>1, <2>3
    <2> QED BY <1>6, <2>2, <2>3
  <1>9. Ordered(p, hand, lo, hi2)
    BY <1>7, <1>8 DEF Ordered
  <1> QED BY <1>1, <1>5, <1>9 DEF p

LEMMA ChangeKeeps ==
  ASSUME ConfigurationInv, NEW k \in Settings, Change(k)
  PROVE  ConfigurationInv'
  <1> DEFINE v == changes + 1
             hi == [setting EXCEPT ![k] = v]
             e == [x \in {k} |-> v]
  <1>0. /\ changes' = v /\ setting' = hi
        /\ subscription' = [s \in Subscriptions |-> Notified(subscription[s], k, v)]
        /\ UNCHANGED <<provider, sentinel, closing, seen>>
        /\ present' \in {present \cup {k}, present, present \ {k}}
    BY DEF Change
  <1>1. v \in Nat /\ setting \in [Settings -> Nat] /\ \A x \in Settings : setting[x] <= v
    BY DEF ConfigurationInv, ConfigurationTyped, WritesInv
  <1>2. /\ hi \in [Settings -> Nat] /\ hi[k] = v /\ \A x \in Settings : setting[x] <= hi[x]
        /\ \A lo, f : f \in Events /\ Timely(lo, f, setting) => Timely(lo, f, hi)
    <2>1. hi = [setting EXCEPT ![k] = v]
      OBVIOUS
    <2> HIDE DEF hi, v
    <2> QED BY <1>1, <2>1, WriteLater, Zenon
  <1>3. \A x \in Settings : hi[x] <= v
    BY <1>1
  <1>4. e = [x \in {k} |-> v]
    OBVIOUS
  <1> HIDE DEF v, hi, e
  <1>5. ASSUME NEW s \in Subscriptions
        PROVE  /\ subscription'[s] \in SubscriptionRec
               /\ subscription'[s].pc = subscription[s].pc
               /\ Orderly(subscription'[s], seen[s], hi)
    <2> DEFINE st == subscription[s]
               r == [st EXCEPT !.queue = Append(st.queue, e)]
    <2>1. /\ st \in SubscriptionRec /\ seen[s] \in [Settings -> Nat]
          /\ Orderly(st, seen[s], setting)
      BY SubscriptionHas
    <2>2. st.queue \in Seq(Events) /\ st.hand \in Events
      BY <2>1 DEF SubscriptionRec
    <2>3. \A x \in Settings : seen[s][x] <= setting[x]
      BY <2>1 DEF Orderly
    <2>4. \A x \in Settings : seen[s][x] <= hi[x]
      <3>1. ASSUME NEW x \in Settings PROVE seen[s][x] <= hi[x]
        <4>1. seen[s][x] \in Nat /\ setting[x] \in Nat /\ hi[x] \in Nat
          BY <1>1, <1>2, <2>1
        <4>2. seen[s][x] <= setting[x] /\ setting[x] <= hi[x]
          BY <1>2, <2>3
        <4> QED BY <4>1, <4>2
      <3> QED BY <3>1
    <2>5. Timely(seen[s], st.hand, setting) => Timely(seen[s], st.hand, hi)
      BY <1>2, <2>2
    <2>6. ASSUME Timely(seen[s], st.hand, setting), Ordered(st.queue, st.hand, seen[s], setting)
          PROVE  Ordered(Append(st.queue, e), st.hand, seen[s], hi)
      <3> HIDE DEF st
      <3> QED BY <1>1, <1>2, <1>4, <2>1, <2>2, <2>3, <2>6, AppendInOrder
    <2>7. ASSUME Ordered(st.queue, st.hand, seen[s], setting)
          PROVE  Ordered(st.queue, st.hand, seen[s], hi)
      <3>1. \A i \in DOMAIN st.queue : st.queue[i] \in Events
        BY <2>2, ElementOfSeq
      <3>2. \A i \in DOMAIN st.queue : Timely(seen[s], st.queue[i], hi)
        BY <1>2, <2>7, <3>1 DEF Ordered
      <3> QED BY <2>7, <3>2 DEF Ordered
    <2>8. e \in Events /\ Append(st.queue, e) \in Seq(Events)
      <3>1. e \in [{k} -> Nat] /\ {k} \in SUBSET Settings
        BY <1>1, <1>4
      <3>2. e \in Events
        BY <3>1 DEF Events
      <3> QED BY <2>2, <3>2
    <2>9. subscription'[s] = Notified(st, k, v)
      BY <1>0
    <2>10. CASE Notified(st, k, v) = st
      BY <2>1, <2>4, <2>5, <2>7, <2>9, <2>10 DEF Orderly
    <2>11. CASE st.pc \notin {"none", "starting", "ending", "ended"} /\ Notified(st, k, v) = r
      <3>1. r \in SubscriptionRec /\ r.pc = st.pc /\ r.hand = st.hand
            /\ r.queue = Append(st.queue, e)
        BY <2>1, <2>8 DEF SubscriptionRec
      <3> HIDE DEF r
      <3>2. Orderly(r, seen[s], hi)
        BY <2>1, <2>4, <2>5, <2>6, <2>11, <3>1 DEF Orderly
      <3> QED BY <2>9, <2>11, <3>1, <3>2
    <2>12. \/ Notified(st, k, v) = st
           \/ /\ st.pc \notin {"none", "starting", "ending", "ended"}
              /\ Notified(st, k, v) = r
      <3>1. CASE st.pc \in {"none", "starting", "ending", "ended"} \/ provider \in AppConfig
        BY <3>1 DEF Notified
      <3>2. CASE ~(st.pc \in {"none", "starting", "ending", "ended"} \/ provider \in AppConfig)
        <4>1. Notified(st, k, v) = [st EXCEPT !.queue = Append(st.queue, [x \in {k} |-> v])]
          BY <3>2 DEF Notified
        <4> QED BY <1>4, <3>2, <4>1
      <3> QED BY <3>1, <3>2
    <2> QED BY <2>10, <2>11, <2>12
  <1>6. ConfigurationTyped'
    <2>1. subscription' \in [Subscriptions -> SubscriptionRec]
      BY <1>0, <1>5
    <2> QED BY <1>0, <1>1, <1>2, <2>1 DEF ConfigurationInv, ConfigurationTyped
  <1>7. WritesInv'
    BY <1>0, <1>3 DEF WritesInv
  <1>8. TellInv'
    <2>1. ASSUME NEW s \in Subscriptions PROVE Orderly(subscription[s], seen[s], setting)'
      <3>1. Orderly(subscription'[s], seen'[s], setting') /\ provider' = provider
        BY <1>0, <1>5
      <3> QED BY <3>1 DEF Orderly, SendsValues, Ordered, Timely, Before
    <2> QED BY <2>1 DEF TellInv
  <1>9. ClosedInv'
    BY <1>0, <1>5 DEF ConfigurationInv, ClosedInv
  <1> QED BY <1>6, <1>7, <1>8, <1>9 DEF ConfigurationInv

\* Steps that change no more of a subscription than its flags.
LEMMA FlagsKeep ==
  ASSUME ConfigurationInv, UNCHANGED <<seen, provider, setting, present, changes>>,
         sentinel' \in Nat,
         subscription' \in [Subscriptions -> SubscriptionRec],
         \A s \in Subscriptions : /\ subscription'[s].pc = subscription[s].pc
                                  /\ subscription'[s].queue = subscription[s].queue
                                  /\ subscription'[s].hand = subscription[s].hand,
         ClosedInv'
  PROVE  ConfigurationInv'
  <1>1. ConfigurationTyped'
    BY DEF ConfigurationInv, ConfigurationTyped
  <1>2. WritesInv'
    BY DEF ConfigurationInv, WritesInv
  <1>3. TellInv'
    BY DEF ConfigurationInv, TellInv, Orderly, SendsValues, Ordered, Timely, Before
  <1> QED BY <1>1, <1>2, <1>3 DEF ConfigurationInv

\* No handler is told anything, and no goroutine comes to the point of calling one.
Mute == seen' = seen /\ \A s \in Subscriptions : subscription'[s].pc = subscription[s].pc

LEMMA AnnounceKeeps == ConfigurationInv /\ (Announce \/ CloseReturns) => ConfigurationInv' /\ Mute
  <1> SUFFICES ASSUME ConfigurationInv, Announce \/ CloseReturns PROVE ConfigurationInv' /\ Mute
    OBVIOUS
  <1>1. /\ UNCHANGED <<seen, provider, setting, present, changes, subscription>>
        /\ sentinel' \in {sentinel, changes}
    BY DEF Announce, CloseReturns
  <1>2. ClosedInv'
    BY DEF Announce, CloseReturns, ConfigurationInv, ClosedInv
  <1> QED BY <1>1, <1>2, FlagsKeep DEF ConfigurationInv, ConfigurationTyped, Mute

LEMMA CloseStoreKeeps == ConfigurationInv /\ CloseStore => ConfigurationInv' /\ Mute
  <1> SUFFICES ASSUME ConfigurationInv, CloseStore PROVE ConfigurationInv' /\ Mute
    OBVIOUS
  <1>1. UNCHANGED <<seen, provider, setting, present, changes, sentinel>> /\ closing' = "waiting"
    BY DEF CloseStore
  <1>2. ASSUME NEW s \in Subscriptions
        PROVE  /\ subscription'[s] \in SubscriptionRec
               /\ subscription'[s].pc = subscription[s].pc
               /\ subscription'[s].queue = subscription[s].queue
               /\ subscription'[s].hand = subscription[s].hand
    <2> DEFINE r == [subscription[s] EXCEPT !.cancelled = TRUE,
                       !.registered = subscription[s].registered /\ provider = "postgres"]
    <2>1. r \in SubscriptionRec /\ r.pc = subscription[s].pc
          /\ r.queue = subscription[s].queue /\ r.hand = subscription[s].hand
      BY SubscriptionHas DEF SubscriptionRec
    <2>2. subscription'[s] \in {r, subscription[s]}
      BY DEF CloseStore
    <2> HIDE DEF r
    <2> QED BY <2>1, <2>2, SubscriptionHas
  <1>3. subscription' \in [Subscriptions -> SubscriptionRec]
    BY <1>2 DEF CloseStore
  <1>4. ClosedInv' /\ sentinel' \in Nat
    BY <1>1 DEF ClosedInv, ConfigurationInv, ConfigurationTyped
  <1> QED BY <1>1, <1>2, <1>3, <1>4, FlagsKeep DEF Mute
\* What a step may do to subscription t: the conjuncts of ToldInOrder.
InOrder(t) ==
  /\ \A k \in Settings : seen'[t][k] >= seen[t][k]
  /\ subscription[t].cancelled /\ subscription'[t].pc = "calling"
       => subscription[t].pc = "calling" \/ provider = "postgres"
  /\ closing = "closed" => seen'[t] = seen[t]

\* Only Prepare comes to the point of calling a handler, and looks at the context.
LEMMA CancelledDoNotCall ==
  ASSUME ConfigurationInv, NEW s \in Subscriptions,
         \/ Subscribe(s) \/ Goroutine(s) \/ Loss(s) \/ Unsubscribe(s) \/ Unlisten(s),
         subscription[s].cancelled, subscription'[s].pc = "calling"
  PROVE  subscription[s].pc = "calling" \/ provider = "postgres"
  <1>0. provider \in {"redis", "postgres", "kubernetes"} \cup AppConfig
    BY ConfigurationAssumption DEF AppConfig, ConfigurationInv, ConfigurationTyped
  <1>1. subscription[s] \in SubscriptionRec
    BY SubscriptionHas
  <1>2. ASSUME NEW r, subscription' = [subscription EXCEPT ![s] = r] PROVE r.pc = "calling"
    BY <1>2 DEF ConfigurationInv, ConfigurationTyped
  <1>3. CASE Prepare(s) /\ provider # "postgres"
    <2>1. subscription' = [subscription EXCEPT ![s] = Drop(subscription[s])]
      BY <1>0, <1>3 DEF Prepare, Becomes, AppConfig
    <2> QED BY <1>2, <2>1, DropOrderly
  <1>4. CASE Subscribe(s)
    <2>1. PICK r : /\ subscription' = [subscription EXCEPT ![s] = r]
                   /\ \/ r \in {Begun("starting"), Begun("listening")}
                      \/ \E q : r = [Begun("listening") EXCEPT !.registered = FALSE, !.queue = q]
      BY <1>0, <1>4 DEF Subscribe, RedisSubscribe, PostgresSubscribe, AppConfigSubscribe,
                        KubernetesSubscribe, AppConfig
    <2>2. r.pc \in {"starting", "listening"}
      BY <2>1, BegunTyped DEF Begun, SubscriptionRec
    <2> QED BY <1>2, <2>1, <2>2
  <1>5. CASE KubernetesRegister(s) \/ Unsubscribe(s) \/ Unlisten(s)
    <2>1. ASSUME NEW a, NEW b
          PROVE  /\ [subscription[s] EXCEPT !.registered = b].pc = subscription[s].pc
                 /\ [subscription[s] EXCEPT !.cancelled = a, !.registered = b].pc
                      = subscription[s].pc
      BY <1>1 DEF SubscriptionRec
    <2>2. CASE KubernetesRegister(s)
      BY <1>2, <2>1, <2>2 DEF KubernetesRegister
    <2>3. CASE Unsubscribe(s)
      BY <1>2, <2>1, <2>3 DEF Unsubscribe
    <2>4. CASE Unlisten(s)
      BY <2>4 DEF Unlisten
    <2> QED BY <1>5, <2>2, <2>3, <2>4
  <1>6. CASE Listen(s) \/ Receive(s) \/ Poll(s)
    <2>1. ASSUME NEW a, NEW b
          PROVE  /\ [subscription[s] EXCEPT !.pc = "listening"].pc = "listening"
                 /\ [subscription[s] EXCEPT !.pc = "handling", !.etag = a].pc = "handling"
                 /\ [subscription[s] EXCEPT !.pc = "handling", !.hand = a, !.queue = b].pc
                      = "handling"
      BY <1>1 DEF SubscriptionRec
    <2>2. CASE Listen(s)
      BY <1>2, <2>1, <2>2 DEF Listen, Becomes
    <2>3. CASE Receive(s)
      BY <1>2, <2>1, <2>3 DEF Receive, Becomes
    <2>4. CASE Poll(s)
      BY <1>2, <2>1, <2>4 DEF Poll, Becomes
    <2> QED BY <1>6, <2>2, <2>3, <2>4
  <1>7. CASE CallHandler(s)
    BY <1>7 DEF CallHandler
  <1>8. CASE End(s) \/ Loss(s)
    <2>1. PICK r : /\ subscription' = [subscription EXCEPT ![s] = r]
                   /\ \/ r = Drop(subscription[s])
                      \/ r = [subscription[s] EXCEPT !.queue = << >>]
                      \/ \E pc \in {"ending", "ended"} : \E reg :
                           r \in {[subscription[s] EXCEPT !.pc = pc, !.queue = << >>],
                                  [subscription[s] EXCEPT !.pc = pc, !.queue = << >>,
                                                          !.registered = reg]}
      BY <1>8 DEF End, Loss, Becomes
    <2>2. r.pc \in {"listening", "ending", "ended", subscription[s].pc}
      BY <1>1, <2>1 DEF Drop, SubscriptionRec
    <2> QED BY <1>2, <2>1, <2>2
  <1> QED BY <1>3, <1>4, <1>5, <1>6, <1>7, <1>8 DEF Goroutine

LEMMA ConfigurationStep ==
  ASSUME ConfigurationInv, [ConfigurationNext]_configurationVars
  PROVE  ConfigurationInv' /\ \A t \in Subscriptions : InOrder(t)
  <1>0. ConfigurationTyped
    BY DEF ConfigurationInv
  <1>s. \A t \in Subscriptions, k \in Settings : seen[t][k] >= seen[t][k]
    <2>1. ASSUME NEW t \in Subscriptions, NEW k \in Settings PROVE seen[t][k] >= seen[t][k]
      <3>1. seen[t][k] \in Nat
        BY <1>0 DEF ConfigurationTyped
      <3> QED BY <3>1
    <2> QED BY <2>1
  <1>m. Mute => \A t \in Subscriptions : InOrder(t)
    BY <1>s DEF Mute, InOrder
  <1>1. CASE UNCHANGED configurationVars
    <2>1. Mute
      BY <1>1 DEF Mute, configurationVars
    <2>2. ConfigurationInv'
      <3>1. ClosedInv'
        BY <1>1 DEF ConfigurationInv, ClosedInv, configurationVars
      <3> QED BY <1>0, <1>1, <3>1, FlagsKeep DEF ConfigurationTyped, configurationVars
    <2> QED BY <1>m, <2>1, <2>2
  <1>2. ASSUME NEW k \in Settings, Change(k)
        PROVE  ConfigurationInv' /\ \A t \in Subscriptions : InOrder(t)
    <2>1. seen' = seen
      BY <1>2 DEF Change
    <2>2. \A t \in Subscriptions : subscription'[t].pc = subscription[t].pc
      <3>1. ASSUME NEW t \in Subscriptions PROVE subscription'[t].pc = subscription[t].pc
        <4>1. subscription'[t] = Notified(subscription[t], k, changes')
          BY <1>2 DEF Change
        <4>2. subscription[t] \in SubscriptionRec
          BY SubscriptionHas
        <4>3. ASSUME NEW q PROVE [subscription[t] EXCEPT !.queue = q].pc = subscription[t].pc
          BY <4>2 DEF SubscriptionRec
        <4> QED BY <4>1, <4>3 DEF Notified
      <3> QED BY <3>1
    <2> QED BY <1>2, <1>m, <2>1, <2>2, ChangeKeeps DEF Mute
  <1>3. CASE Announce \/ CloseReturns
    BY <1>3, <1>m, AnnounceKeeps
  <1>4. CASE CloseStore
    BY <1>4, <1>m, CloseStoreKeeps
  <1>5. ASSUME NEW s \in Subscriptions,
               Subscribe(s) \/ Goroutine(s) \/ Loss(s) \/ Unsubscribe(s) \/ Unlisten(s)
        PROVE  ConfigurationInv' /\ \A t \in Subscriptions : InOrder(t)
    <2>1. GoodStep(s)
      BY <1>5, SubscribeGood, RegisterGood, ListenGood, ReceiveGood, PollGood, PrepareGood,
         CallHandlerGood, EndGood, LossGood, UnsubscribeGood DEF Goroutine
    <2>2. PICK r, told :
            /\ Steps(s, r, told) /\ Orderly(r, told, setting) /\ closing' = closing
            /\ closing = "closed" =>
                 r.pc \in {"none", "starting", "ending", "ended"} /\ told = seen[s]
            /\ \A k \in Settings : told[k] >= seen[s][k]
      BY <2>1 DEF GoodStep
    <2>3. ConfigurationInv'
      BY <2>2, StepKeeps
    <2>4. seen'[s] = told
      BY <1>0, <2>2 DEF Steps, ConfigurationTyped
    <2>5. InOrder(s)
      BY <1>5, <2>2, <2>4, CancelledDoNotCall DEF InOrder
    <2>6. ASSUME NEW t \in Subscriptions, t # s PROVE InOrder(t)
      <3>1. seen'[t] = seen[t] /\ subscription'[t] = subscription[t]
        BY <1>0, <2>2, <2>6 DEF Steps, ConfigurationTyped
      <3> QED BY <1>s, <3>1 DEF InOrder
    <2> QED BY <2>3, <2>5, <2>6
  <1> QED BY <1>1, <1>2, <1>3, <1>4, <1>5 DEF ConfigurationNext

\* ToldInOrder: no subscriber is told of a value after a later one, none that has been
\* cancelled is called for a new event, PostgreSQL's excepted, and none after Close has
\* returned; for any number of settings, writes, subscriptions and losses.
THEOREM TellsInOrder == ServicesSpec => ToldInOrder
  <1>1. ConfigurationInv /\ [ConfigurationNext]_configurationVars => ConfigurationInv'
    BY ConfigurationStep
  <1>2. ServicesInit => ConfigurationInv
    BY ConfigurationInvInit DEF ServicesInit
  <1>3. [ServicesNext]_servicesVars => [ConfigurationNext]_configurationVars
    BY DEF ServicesNext, servicesVars
  <1>4. ConfigurationInv /\ [ConfigurationNext]_configurationVars =>
          [\A s \in Subscriptions :
             /\ \A k \in Settings : seen'[s][k] >= seen[s][k]
             /\ subscription[s].cancelled /\ subscription'[s].pc = "calling"
                  => subscription[s].pc = "calling" \/ provider = "postgres"
             /\ closing = "closed" => seen'[s] = seen[s]]_configurationVars
    BY ConfigurationStep DEF InOrder
  <1> QED BY <1>1, <1>2, <1>3, <1>4, PTL DEF ServicesSpec, ToldInOrder
-----------------------------------------------------------------------------
(* Migrations: the invariant.                                              *)

Statuses == {"stopped", "running", "failed", "done"}
Versions == 0..MigrationsOf[database]

\* Where a sidecar is in the program.
Position == [status : Statuses, at : Nat, level : Nat, found : SUBSET STRING]

MigrationTyped ==
  /\ database \in Databases /\ level \in Versions
  /\ migrating \in Starters \cup {Nobody}
  /\ crashes \in Nat
  /\ starter \in [Starters -> Position]
  /\ \A i \in Starters : starter[i].at \in DOMAIN Programs[database]

\* A sidecar has executed such a statement, or left it out.
Passed(i, kinds) ==
  \E k \in 1..(starter[i].at - 1) : Programs[database][k].do \in kinds

\* The lock is with the sidecar that has come past it.
HolderInv(i) == migrating = i <=> starter[i].status = "running" /\ Passed(i, Acquiring)

\* The level a sidecar has read is not above the present one; its migration is above,
\* and those before it are not.
VersionInv(i) ==
  starter[i].status = "running" =>
    /\ starter[i].level <= level
    /\ ~Passed(i, {"read"}) => starter[i].level = 0
    /\ At(i).of # 0 => level < At(i).of
    /\ Passed(i, {"read"}) =>
         \A k \in 1..(starter[i].at - 1) :
           Programs[database][k].of # At(i).of => Programs[database][k].of <= level

\* What a sidecar has found is there, and what it has created or left out.
ThereInv(i) ==
  starter[i].status = "running" =>
    /\ \A o \in starter[i].found :
         /\ o \in schema
         /\ \E k \in 1..(starter[i].at - 1) : /\ Programs[database][k].do = "check"
                                              /\ o \in Programs[database][k].objects
    /\ \A k \in 1..(starter[i].at - 1) :
         Programs[database][k].do # "check" => MainObjects(Programs[database][k]) \subseteq schema

\* LevelIsTrue, and of the database a rollback brings back.
TrueFor(s, l) ==
  /\ l \in Versions
  /\ l > 0 => ObjectsOf[database][l] \subseteq s
  /\ (\E i \in Starters : starter[i].status = "done")
       => ObjectsOf[database][MigrationsOf[database]] \subseteq s
TrueInv ==
  /\ TrueFor(schema, level)
  /\ database \in {"sqlite", "sqlite_hosts"} /\ migrating # Nobody =>
       TrueFor(undo.schema, undo.level)

\* As long as nothing goes wrong nothing is there that is still to be created.
Calm == database \notin ChecksThenCreates /\ crashes = 0 /\ ~inserted
CalmInv ==
  Calm =>
    /\ \A i \in Starters : starter[i].status # "failed"
    /\ DOMAIN rows \subseteq {1}
    /\ \A i \in Starters : starter[i].status = "running" /\ At(i).do = "not_null" => NullRows = {}
    /\ \A k \in DOMAIN Programs[database] :
         LET s == Programs[database][k] IN
         /\ s.do # "check" /\ s.of > level
         /\ ~ \E i \in Starters : migrating = i /\ starter[i].at > k
         => s.objects \cap schema = {}

MigrationInv ==
  /\ MigrationTyped /\ TrueInv /\ CalmInv
  /\ \A i \in Starters : HolderInv(i) /\ VersionInv(i) /\ ThereInv(i)

-----------------------------------------------------------------------------
(* Migrations: the programs.                                               *)

\* A program is a sequence of statements, and not empty.
LEMMA ProgramTyped ==
  ASSUME NEW p, Sound(p)
  PROVE  /\ Len(p) \in Nat /\ Len(p) > 0 /\ DOMAIN p = 1..Len(p)
         /\ \A k \in 1..Len(p) : /\ p[k].of \in Nat /\ p[k].do \in Kinds
                                 /\ p[k].objects \in SUBSET STRING
  <1> DEFINE S == [do : Kinds, objects : SUBSET STRING, of : Nat]
  <1>1. p \in Seq(S) /\ Len(p) > 0
    BY DEF Sound
  <1> HIDE DEF S
  <1>2. Len(p) \in Nat /\ DOMAIN p = 1..Len(p)
    BY <1>1
  <1>3. \A k \in 1..Len(p) : p[k] \in S
    BY <1>1
  <1> QED BY <1>1, <1>2, <1>3 DEF S

\* A statement that is in place of a table with its columns leaves at least the table.
LEMMA MainObjectsAreObjects ==
  ASSUME NEW s
  PROVE  MainObjects(s) \subseteq s.objects
  BY DEF MainObjects

\* The last statement releases the lock, and is not left out.
LEMMA LastReleases ==
  ASSUME NEW p, Sound(p), LocksOnce(p)
  PROVE  LET s == p[Len(p)] IN s.do \in Releasing /\ s.of = 0
  <1>1. Len(p) \in 1..Len(p)
    BY ProgramTyped
  <1> QED BY <1>1 DEF LocksOnce

\* Between a statement of a migration and one of another there is the level.
LEMMA LevelBetween ==
  ASSUME NEW p, Sound(p), LocksOnce(p), Versioned(p),
         NEW n \in 1..Len(p), NEW k \in 1..n-1, p[k].of # 0, p[k].of # p[n].of
  PROVE  \E v \in k..n-1 : p[v].do = "level" /\ p[v].of = p[k].of
  <1>1. /\ Len(p) \in Nat /\ k \in 1..Len(p) /\ k < n
        /\ \A j \in 1..Len(p) : p[j].of \in Nat
    BY ProgramTyped
  <1>2. PICK v \in k..Len(p) : p[v].do = "level" /\ p[v].of = p[k].of
    BY <1>1 DEF Versioned
  <1>3. ~ (n <= v)
    <2> SUFFICES ASSUME n <= v PROVE FALSE
      OBVIOUS
    <2>1. v \in 1..Len(p) /\ n < v
      BY <1>1, <1>2
    <2>2. p[n].of <= p[v].of
      BY <1>1, <1>2, <2>1 DEF Versioned
    <2>3. CASE p[n].of # 0
      <3>1. p[k].of <= p[n].of
        BY <1>1, <2>3 DEF Versioned
      <3> QED BY <1>1, <1>2, <2>2, <3>1
    <2>4. CASE p[n].of = 0
      <3>1. n = Len(p)
        BY <1>1, <2>4 DEF LocksOnce
      <3> QED BY <1>1, <2>1, <3>1
    <2> QED BY <2>3, <2>4
  <1>4. v \in k..n-1
    BY <1>1, <1>3
  <1> QED BY <1>2, <1>4

\* The highest version is the one of the last migration.
LEMMA HighestVersion ==
  ASSUME NEW d \in Databases
  PROVE  /\ MigrationsOf[d] \in Nat
         /\ \A k \in DOMAIN Programs[d] : Programs[d][k].of <= MigrationsOf[d]
  <1> DEFINE p == Programs[d]
             T == {0} \cup {p[k].of : k \in DOMAIN p}
             Highest(n) == \A k \in DOMAIN p : p[k].of <= n
  <1>1. MigrationsOf[d] = CHOOSE n \in T : Highest(n)
    BY DEF MigrationsOf
  <1>2. Sound(p)
    BY ProgramsAssumption DEF WellFormed
  <1> HIDE DEF p
  <1>3. /\ Len(p) \in Nat /\ Len(p) > 0 /\ DOMAIN p = 1..Len(p)
        /\ \A k \in 1..Len(p) : p[k].of \in Nat
    BY <1>2, ProgramTyped
  <1>4. \E n \in T : Highest(n)
    <2>1. CASE \A k \in 1..Len(p) : p[k].of = 0
      BY <1>3, <2>1
    <2>2. CASE \E k \in 1..Len(p) : p[k].of # 0
      <3>1. PICK k \in 1..Len(p) : p[k].of # 0
        BY <2>2
      <3>2. LocksOnce(p) /\ Versioned(p)
        <4>1. ~ Plain(p)
          BY <3>1 DEF Plain
        <4> QED BY <4>1, ProgramsAssumption DEF WellFormed, p
      <3>3. p[Len(p)].of = 0
        BY <1>2, <3>2, LastReleases
      <3> DEFINE e == Len(p) - 1
      <3>4. e \in 1..Len(p) /\ k <= e /\ Len(p) = e + 1 /\ e \in Nat
        BY <1>3, <3>1, <3>3
      <3>5. p[e].of # 0
        <4> SUFFICES ASSUME p[e].of = 0 PROVE FALSE
          OBVIOUS
        <4>1. k \in 1..e-1
          BY <1>3, <3>1, <3>4
        <4>2. e = Len(p)
          BY <3>1, <3>2, <3>4, <4>1 DEF LocksOnce
        <4> QED BY <1>3, <4>2
      <3>6. ASSUME NEW j \in 1..Len(p) PROVE p[j].of <= p[e].of
        <4>1. CASE j < e
          BY <3>2, <3>4, <3>5, <4>1 DEF Versioned
        <4>2. CASE j = e
          BY <1>3, <4>2
        <4>3. CASE j = Len(p)
          BY <1>3, <3>3, <3>4, <4>3
        <4> HIDE DEF e
        <4>4. j < e \/ j = e \/ j = Len(p)
          BY <3>4
        <4> QED BY <4>1, <4>2, <4>3, <4>4
      <3>7. p[e].of \in T /\ Highest(p[e].of)
        BY <1>3, <3>4, <3>6
      <3> QED BY <3>7
    <2> QED BY <2>1, <2>2
  <1> DEFINE m == CHOOSE n \in T : Highest(n)
  <1>5. m \in T /\ Highest(m)
    BY <1>4
  <1>6. T \subseteq Nat
    BY <1>3
  <1> HIDE DEF m, T
  <1>7. MigrationsOf[d] = m
    BY <1>1 DEF m, T
  <1> QED BY <1>5, <1>6, <1>7 DEF p

\* The objects the first n migrations of a store leave.
LEMMA ObjectsOfVersion ==
  ASSUME NEW d \in Databases, NEW n \in 0..MigrationsOf[d]
  PROVE  \A o : o \in ObjectsOf[d][n] <=>
           \E k \in DOMAIN Programs[d] : /\ Programs[d][k].do # "check" /\ Programs[d][k].of <= n
                                         /\ o \in Programs[d][k].objects
  BY DEF ObjectsOf

\* A set of numbers that is not empty has a least one.
LEMMA LeastNumber ==
  ASSUME NEW T \in SUBSET Nat, T # {}
  PROVE  \E n \in T : \A k \in T : n <= k
  <1>1. PICK n \in T : \A k \in T : ~ (<<k, n>> \in OpToRel(<, Nat))
    BY WFMin, NatLessThanWellFounded, Zenon
  <1>2. \A k \in T : ~ (k < n)
    BY <1>1 DEF OpToRel
  <1>3. ASSUME NEW k \in T PROVE n <= k
    <2>1. n \in Nat /\ k \in Nat /\ ~ (k < n)
      BY <1>2
    <2> QED BY <2>1
  <1> QED BY <1>3

-----------------------------------------------------------------------------
(* Migrations: where a statement leads.                                    *)

\* The program of the database, and which of the two kinds it is of.
LEMMA ProgramOfDatabase ==
  ASSUME database \in Databases
  PROVE  LET p == Programs[database]
         IN  /\ Sound(p)
             /\ Plain(p) \/ (LocksOnce(p) /\ Versioned(p))
             /\ database \notin ChecksThenCreates => LocksOnce(p) /\ Versioned(p)
             /\ database \in {"sqlite", "sqlite_hosts"} =>
                  LocksOnce(p) /\ Versioned(p) /\ p[1].do = "begin"
  <1>1. WellFormed(database)
    BY ProgramsAssumption
  <1>2. database \in {"sqlite", "sqlite_hosts"} => database \notin ChecksThenCreates
    BY DEF ChecksThenCreates
  <1> QED BY <1>1, <1>2 DEF WellFormed

\* Where a sidecar is there is a statement.
LEMMA AtTyped ==
  ASSUME MigrationTyped, NEW i \in Starters
  PROVE  LET p == Programs[database]
         IN  /\ database \in Databases /\ level \in Nat /\ Len(p) \in Nat
             /\ DOMAIN p = 1..Len(p) /\ starter[i].at \in 1..Len(p)
             /\ starter \in [Starters -> Position] /\ starter[i].level \in Nat
             /\ At(i) = p[starter[i].at] /\ At(i).objects \in SUBSET STRING
             /\ \A k \in 1..Len(p) : p[k].of \in Nat
  <1> DEFINE p == Programs[database]
  <1>1. /\ database \in Databases /\ starter \in [Starters -> Position]
        /\ starter[i].at \in DOMAIN p /\ level \in 0..MigrationsOf[database]
    BY DEF MigrationTyped, Versions
  <1>2. level \in Nat
    BY <1>1, HighestVersion
  <1>3. Sound(p)
    BY <1>1, ProgramOfDatabase
  <1>4. At(i) = p[starter[i].at]
    BY DEF At
  <1> HIDE DEF p
  <1>5. /\ Len(p) \in Nat /\ DOMAIN p = 1..Len(p)
        /\ \A k \in 1..Len(p) : p[k].of \in Nat /\ p[k].objects \in SUBSET STRING
    BY <1>3, ProgramTyped
  <1>6. starter[i] \in Position
    BY <1>1
  <1>7. starter[i].level \in Nat
    BY <1>6 DEF Position
  <1> QED BY <1>1, <1>2, <1>4, <1>5, <1>7 DEF p

\* The sidecar goes to the next statement that is not left out.
LEMMA OnwardMoves ==
  ASSUME database \in Databases, NEW st \in Position
  PROVE  LET p == Programs[database]
             o == Onward(st)
         IN  /\ o \in Position /\ o.level = st.level /\ o.found = st.found
             /\ \/ /\ o.status = "done" /\ o.at = st.at
                   /\ \A k \in DOMAIN p : st.at < k => Skips(o, k)
                \/ /\ o.status = st.status /\ o.at \in DOMAIN p /\ st.at < o.at
                   /\ ~ Skips(o, o.at)
                   /\ \A k \in DOMAIN p : st.at < k /\ k < o.at => Skips(o, k)
  <1> DEFINE p == Programs[database]
             left == {k \in DOMAIN p : k > st.at /\ ~ Skips(st, k)}
             o == Onward(st)
  <1>1. DOMAIN p \subseteq Nat
    BY ProgramOfDatabase, ProgramTyped
  <1>2. o = IF left = {} THEN [st EXCEPT !.status = "done"]
            ELSE [st EXCEPT !.at = CHOOSE k \in left : \A j \in left : k <= j]
    BY DEF Onward
  <1>3. ASSUME NEW x \in Position, x.level = st.level, x.found = st.found, NEW k
        PROVE  Skips(x, k) <=> Skips(st, k)
    BY <1>3 DEF Skips
  <1>4. CASE left = {}
    <2>1. o = [st EXCEPT !.status = "done"]
      BY <1>2, <1>4
    <2>2. /\ o \in Position /\ o.level = st.level /\ o.found = st.found
          /\ o.status = "done" /\ o.at = st.at
      BY <2>1 DEF Position, Statuses
    <2>3. ASSUME NEW k \in DOMAIN p, st.at < k PROVE Skips(o, k)
      <3>1. Skips(st, k)
        BY <1>1, <1>4, <2>3 DEF Position
      <3> QED BY <1>3, <2>2, <3>1
    <2> QED BY <2>2, <2>3
  <1>5. CASE left # {}
    <2> DEFINE n == CHOOSE k \in left : \A j \in left : k <= j
    <2>1. \E k \in left : \A j \in left : k <= j
      <3>1. left \in SUBSET Nat
        BY <1>1
      <3> HIDE DEF left
      <3> QED BY <1>5, <3>1, LeastNumber
    <2>2. n \in left /\ \A j \in left : n <= j
      BY <2>1
    <2>3. o = [st EXCEPT !.at = n]
      BY <1>2, <1>5
    <2> HIDE DEF n, o
    <2>4. n \in DOMAIN p /\ n \in Nat /\ n > st.at /\ ~ Skips(st, n)
      BY <1>1, <2>2
    <2>5. /\ o \in Position /\ o.level = st.level /\ o.found = st.found
          /\ o.status = st.status /\ o.at = n
      BY <2>3, <2>4 DEF Position
    <2>6. st.at < n /\ ~ Skips(o, n)
      BY <1>3, <2>4, <2>5 DEF Position
    <2>7. ASSUME NEW k \in DOMAIN p, st.at < k, k < n PROVE Skips(o, k)
      <3>1. k \in Nat /\ st.at \in Nat
        BY <1>1 DEF Position
      <3>2. k \notin left
        BY <2>2, <2>4, <2>7, <3>1
      <3>3. Skips(st, k)
        BY <2>7, <3>1, <3>2
      <3> QED BY <1>3, <2>5, <3>3
    <2> QED BY <2>4, <2>5, <2>6, <2>7 DEF o
  <1> QED BY <1>4, <1>5

\* Statement k is left out by the step of sidecar i.
LeftOut(i, k) ==
  starter[i].at < k /\ (starter'[i].status = "done" \/ k < starter'[i].at)

\* Sidecar i has executed its statement.
Moved(i) ==
  LET p == Programs[database]
  IN  /\ starter' \in [Starters -> Position]
      /\ \A j \in Starters \ {i} : starter'[j] = starter[j]
      /\ starter'[i].level = IF At(i).do = "read" THEN level ELSE starter[i].level
      /\ starter'[i].found = IF At(i).do = "check"
                               THEN starter[i].found \cup (At(i).objects \cap schema)
                               ELSE starter[i].found
      /\ \/ starter'[i].status = "done" /\ starter'[i].at = starter[i].at
         \/ /\ starter'[i].status = "running" /\ starter'[i].at \in DOMAIN p
            /\ starter[i].at < starter'[i].at /\ ~ Skips(starter'[i], starter'[i].at)
      /\ \A k \in DOMAIN p : LeftOut(i, k) => Skips(starter'[i], k)

LEMMA RunMoves ==
  ASSUME MigrationTyped, NEW i \in Starters, Run(i)
  PROVE  Moved(i)
  <1> DEFINE p == Programs[database]
             s == At(i)
             st == [starter[i] EXCEPT
                      !.level = IF s.do = "read" THEN level ELSE @,
                      !.found = IF s.do = "check" THEN @ \cup (s.objects \cap schema) ELSE @]
             o == Onward(st)
  <1>1. /\ starter' = [starter EXCEPT ![i] = o] /\ starter[i].status = "running"
        /\ starter \in [Starters -> Position] /\ starter[i].at \in DOMAIN p
        /\ level \in Nat /\ database \in Databases /\ DOMAIN p \subseteq Nat
    BY AtTyped DEF Run
  <1>2. s.objects \in SUBSET STRING
    BY AtTyped
  <1> DEFINE l == IF s.do = "read" THEN level ELSE starter[i].level
             f == IF s.do = "check" THEN starter[i].found \cup (s.objects \cap schema)
                  ELSE starter[i].found
  <1>3. /\ st \in Position /\ st.status = "running" /\ st.at = starter[i].at
        /\ st.level = l /\ st.found = f
    <2>1. st = [starter[i] EXCEPT !.level = l, !.found = f]
      BY <1>1 DEF Position
    <2>2. l \in Nat /\ f \in SUBSET STRING /\ starter[i] \in Position
      BY <1>1, <1>2 DEF Position
    <2> HIDE DEF st, l, f
    <2> QED BY <1>1, <2>1, <2>2 DEF Position
  <1>4. /\ o \in Position /\ o.level = l /\ o.found = f
        /\ \/ /\ o.status = "done" /\ o.at = starter[i].at
              /\ \A k \in DOMAIN p : starter[i].at < k => Skips(o, k)
           \/ /\ o.status = "running" /\ o.at \in DOMAIN p /\ starter[i].at < o.at
              /\ ~ Skips(o, o.at)
              /\ \A k \in DOMAIN p : starter[i].at < k /\ k < o.at => Skips(o, k)
    <2> HIDE DEF st, l, f
    <2> QED BY <1>1, <1>3, OnwardMoves
  <1> HIDE DEF o, l, f, s, st
  <1>5. /\ starter'[i] = o /\ \A j \in Starters \ {i} : starter'[j] = starter[j]
        /\ starter' \in [Starters -> Position]
    BY <1>1, <1>4
  <1>6. ASSUME NEW k \in DOMAIN p, LeftOut(i, k) PROVE Skips(starter'[i], k)
    <2>1. starter[i].at < k /\ (o.status = "done" \/ k < o.at)
      BY <1>5, <1>6 DEF LeftOut
    <2>2. starter[i].at \in Nat /\ k \in Nat
      BY <1>1 DEF Position
    <2>3. Skips(o, k)
      BY <1>4, <2>1, <2>2
    <2> QED BY <1>5, <2>3
  <1> QED BY <1>4, <1>5, <1>6 DEF Moved, l, f, s

-----------------------------------------------------------------------------
(* Migrations: one statement keeps the invariant.                          *)

\* A statement that is left out is of a migration that has been done, or creates what
\* has been found.
LEMMA SkipsWhy ==
  ASSUME NEW st, NEW k
  PROVE  Skips(st, k) <=>
           LET s == Programs[database][k]
           IN  \/ s.of # 0 /\ s.of <= st.level
               \/ s.do \in {"create", "ensure"} /\ s.objects \cap st.found # {}
  BY DEF Skips

\* With a lock, only the last statement ends Init.
LEMMA NotYetDone ==
  ASSUME MigrationTyped, NEW i \in Starters, Moved(i), LocksOnce(Programs[database]),
         starter[i].at # Len(Programs[database])
  PROVE  starter'[i].status = "running" /\ starter'[i].at > starter[i].at
  <1> DEFINE p == Programs[database]
             e == Len(p)
  <1>1. e \in DOMAIN p /\ starter[i].at < e /\ starter[i].at \in Nat
    BY AtTyped
  <1>2. Sound(p)
    BY AtTyped, ProgramOfDatabase
  <1>3. p[e].of = 0 /\ p[e].do \notin {"create", "ensure"}
    <2> HIDE DEF p
    <2>1. p[e].do \in Releasing /\ p[e].of = 0
      BY <1>2, LastReleases DEF p
    <2> QED BY <2>1 DEF Releasing
  <1>4. ~ Skips(starter'[i], e)
    BY <1>3, SkipsWhy
  <1>5. ~ LeftOut(i, e)
    BY <1>1, <1>4 DEF Moved
  <1>6. starter'[i].status # "done"
    BY <1>1, <1>5 DEF LeftOut
  <1>7. starter'[i].at > starter[i].at
    BY <1>1, <1>6, AtTyped DEF Moved
  <1> QED BY <1>6, <1>7 DEF Moved

\* Migrations, the level and the release are the lock holder's.
LEMMA HoldsLock ==
  ASSUME MigrationTyped, NEW i \in Starters, HolderInv(i), starter[i].status = "running",
         LocksOnce(Programs[database]), NEW k \in 1..starter[i].at,
         LET s == Programs[database][k]
         IN  s.do = "read" \/ s.of # 0 \/ k = Len(Programs[database])
  PROVE  migrating = i
  <1> DEFINE p == Programs[database]
             a == starter[i].at
  <1>1. Len(p) \in Nat /\ a \in 1..Len(p) /\ k \in 1..Len(p)
    BY AtTyped
  <1> HIDE DEF p, a
  <1>2. LocksOnce(p) /\ (p[k].do = "read" \/ p[k].of # 0 \/ k = Len(p)) /\ k \in 1..a
    BY DEF p, a
  <1>3. PICK j \in 1..k-1 : p[j].do \in Acquiring
    BY <1>1, <1>2 DEF LocksOnce
  <1>4. j \in 1..a-1
    BY <1>1, <1>2, <1>3
  <1>5. Passed(i, Acquiring)
    BY <1>3, <1>4 DEF Passed, p, a
  <1> QED BY <1>5 DEF HolderInv

\* The level only grows, and nothing that is there goes.
LEMMA RunOnlyAdds ==
  ASSUME MigrationInv, NEW i \in Starters, Run(i)
  PROVE  /\ level' \in Versions /\ level' \in Nat /\ level <= level'
         /\ level' # level => At(i).do = "level" /\ level' = At(i).of /\ At(i).of # 0
         /\ At(i).do = "level" => level' = At(i).of
         /\ schema' = IF At(i).do = "check" THEN schema ELSE schema \cup At(i).objects
         /\ schema \subseteq schema'
  <1> DEFINE p == Programs[database]
             s == At(i)
  <1>1. /\ MigrationTyped /\ VersionInv(i) /\ starter[i].status = "running"
        /\ schema' = IF s.do = "check" THEN schema ELSE schema \cup s.objects
        /\ level' = IF s.do = "level" THEN s.of ELSE level
    BY DEF MigrationInv, Run, Execute
  <1>2. CASE s.do = "level"
    <2>1. /\ starter[i].at \in 1..Len(p) /\ s = p[starter[i].at] /\ level \in Nat
          /\ s.of \in Nat /\ database \in Databases /\ DOMAIN p = 1..Len(p)
      BY <1>1, AtTyped
    <2>2. s.of # 0
      <3>1. LocksOnce(p)
        BY <1>2, <2>1, ProgramOfDatabase DEF Plain
      <3> DEFINE k == starter[i].at
      <3>2. k \in 1..Len(p) /\ p[k].do = "level" /\ p[k] = s
        BY <1>2, <2>1
      <3> HIDE DEF p, k, s
      <3>3. p[k].of = 0 => p[k].do \in {"ensure", "read"} \cup Acquiring \cup Releasing
        BY <3>1, <3>2 DEF LocksOnce
      <3> QED BY <3>2, <3>3 DEF Acquiring, Releasing
    <2>3. level < s.of
      BY <1>1, <2>2 DEF VersionInv
    <2>4. s.of <= MigrationsOf[database] /\ MigrationsOf[database] \in Nat
      BY <2>1, HighestVersion
    <2> QED BY <1>1, <1>2, <2>1, <2>2, <2>3, <2>4 DEF Versions
  <1>3. CASE s.do # "level"
    BY <1>1, <1>3, AtTyped DEF MigrationTyped
  <1> QED BY <1>2, <1>3

LEMMA RunKeepsTyped ==
  ASSUME MigrationInv, NEW i \in Starters, Run(i)
  PROVE  MigrationTyped'
  <1>1. /\ MigrationTyped /\ Moved(i) /\ level' \in Versions
        /\ database' = database /\ crashes' = crashes
        /\ migrating' \in {i, Nobody, migrating}
    <2>1. MigrationTyped
      BY DEF MigrationInv
    <2>2. Moved(i) /\ level' \in Versions
      BY <2>1, RunMoves, RunOnlyAdds
    <2>3. /\ database' = database /\ crashes' = crashes
          /\ migrating' \in {i, Nobody, migrating}
      BY DEF Run
    <2> QED BY <2>1, <2>2, <2>3
  <1>2. starter' \in [Starters -> Position]
    BY <1>1 DEF Moved
  <1>3. ASSUME NEW j \in Starters PROVE starter'[j].at \in DOMAIN Programs[database]
    <2>1. CASE j = i
      BY <1>1, <2>1 DEF Moved, MigrationTyped
    <2>2. CASE j # i
      BY <1>1, <2>2 DEF Moved, MigrationTyped
    <2> QED BY <2>1, <2>2
  <1>4. Versions' = Versions
    BY <1>1 DEF Versions
  <1> QED BY <1>1, <1>2, <1>3, <1>4 DEF MigrationTyped

\* Everything up to the level is there: what the statements of a migration create that
\* come before its level.
LEMMA RunKeepsLevelTrue ==
  ASSUME MigrationInv, NEW i \in Starters, Run(i), level' > 0
  PROVE  ObjectsOf[database][level'] \subseteq schema'
  <1> DEFINE p == Programs[database]
             a == starter[i].at
  <1>1. MigrationTyped /\ TrueInv /\ ThereInv(i) /\ starter[i].status = "running"
    BY DEF MigrationInv, Run
  <1>2. CASE level' = level
    <2>1. ObjectsOf[database][level] \subseteq schema
      BY <1>1, <1>2 DEF TrueInv, TrueFor
    <2> QED BY <1>2, <2>1, RunOnlyAdds
  <1>3. CASE level' # level
    <2>1. /\ At(i).do = "level" /\ level' = At(i).of /\ At(i).of # 0 /\ level' \in Versions
          /\ schema \subseteq schema'
      BY <1>3, RunOnlyAdds
    <2>2. /\ database \in Databases /\ Len(p) \in Nat /\ DOMAIN p = 1..Len(p) /\ a \in 1..Len(p)
          /\ At(i) = p[a] /\ \A k \in 1..Len(p) : p[k].of \in Nat
      BY <1>1, AtTyped
    <2>3. Sound(p) /\ Versioned(p)
      BY <2>1, <2>2, ProgramOfDatabase DEF Plain
    <2>4. ASSUME NEW o \in ObjectsOf[database][level'] PROVE o \in schema'
      <3>1. PICK k \in DOMAIN p : p[k].do # "check" /\ p[k].of <= level' /\ o \in p[k].objects
        BY <2>1, <2>2, ObjectsOfVersion DEF Versions
      <3> HIDE DEF p, a
      <3>2. PICK j \in 1..Len(p) : p[j].do # "check" /\ p[j].of = p[k].of /\ o \in MainObjects(p[j])
        BY <2>2, <2>3, <3>1 DEF Sound
      <3>3. o \in p[j].objects
        BY <3>2, MainObjectsAreObjects
      <3>4. ~ (a <= j)
        <4> SUFFICES ASSUME a <= j PROVE FALSE
          OBVIOUS
        <4>1. j \in a..Len(p) /\ p[a].do = "level" /\ p[j].of <= p[a].of
          BY <2>1, <2>2, <3>1, <3>2
        <4> QED BY <2>2, <2>3, <3>3, <4>1 DEF Versioned
      <3>5. j \in 1..a-1
        BY <2>2, <3>4
      <3>6. MainObjects(p[j]) \subseteq schema
        BY <1>1, <3>2, <3>5 DEF ThereInv, p, a
      <3> QED BY <2>1, <3>2, <3>6
    <2> QED BY <2>4
  <1> QED BY <1>2, <1>3

\* What a sidecar has found is there, and it has looked for it.
LEMMA RunFinds ==
  ASSUME MigrationInv, NEW i \in Starters, Run(i), NEW o \in starter'[i].found
  PROVE  /\ o \in schema'
         /\ \E c \in 1..starter[i].at : /\ Programs[database][c].do = "check"
                                        /\ o \in Programs[database][c].objects
  <1> DEFINE p == Programs[database]
             a == starter[i].at
  <1>1. /\ MigrationTyped /\ ThereInv(i) /\ starter[i].status = "running" /\ Moved(i)
        /\ schema \subseteq schema'
    BY RunMoves, RunOnlyAdds DEF MigrationInv, Run
  <1>2. a \in Nat /\ a \in 1..a /\ At(i) = p[a]
    BY <1>1, AtTyped
  <1>3. CASE o \in starter[i].found
    <2>1. o \in schema /\ \E c \in 1..a-1 : p[c].do = "check" /\ o \in p[c].objects
      BY <1>1, <1>3 DEF ThereInv
    <2>2. 1..a-1 \subseteq 1..a
      BY <1>2
    <2> HIDE DEF p, a
    <2>3. o \in schema' /\ \E c \in 1..a : p[c].do = "check" /\ o \in p[c].objects
      BY <1>1, <2>1, <2>2
    <2> QED BY <2>3 DEF p, a
  <1>4. CASE o \notin starter[i].found
    <2>1. At(i).do = "check" /\ o \in At(i).objects /\ o \in schema
      BY <1>1, <1>4 DEF Moved
    <2> QED BY <1>1, <1>2, <2>1
  <1> QED BY <1>3, <1>4

\* What a statement creates that is left out is there.
LEMMA LeftOutIsThere ==
  ASSUME MigrationInv, NEW i \in Starters, Run(i), NEW k \in DOMAIN Programs[database],
         LeftOut(i, k), Programs[database][k].do # "check"
  PROVE  MainObjects(Programs[database][k]) \subseteq schema'
  <1> DEFINE p == Programs[database]
             a == starter[i].at
  <1>1. MigrationTyped /\ VersionInv(i) /\ starter[i].status = "running" /\ Moved(i)
    BY RunMoves DEF MigrationInv, Run
  <1>2. /\ database \in Databases /\ Len(p) \in Nat /\ DOMAIN p = 1..Len(p) /\ a \in 1..Len(p)
        /\ p[k].of \in Nat /\ level \in Nat /\ starter[i].level \in Nat /\ a < k /\ Sound(p)
    BY <1>1, AtTyped, ProgramOfDatabase DEF LeftOut
  <1>3. \/ p[k].of # 0 /\ p[k].of <= starter'[i].level
        \/ p[k].do \in {"create", "ensure"} /\ p[k].objects \cap starter'[i].found # {}
    BY <1>1, SkipsWhy DEF Moved
  <1>4. CASE p[k].of # 0 /\ p[k].of <= starter'[i].level
    <2>1. starter'[i].level <= level /\ starter'[i].level \in Nat
      BY <1>1, <1>2 DEF Moved, VersionInv
    <2>2. level' \in Nat /\ level' \in Versions /\ p[k].of <= level' /\ level' > 0
      BY <1>2, <1>4, <2>1, RunOnlyAdds
    <2>3. ObjectsOf[database][level'] \subseteq schema'
      BY <2>2, RunKeepsLevelTrue
    <2>4. p[k].objects \subseteq ObjectsOf[database][level']
      BY <1>2, <2>2, ObjectsOfVersion DEF Versions
    <2> QED BY <2>3, <2>4, MainObjectsAreObjects
  <1>5. CASE p[k].do \in {"create", "ensure"} /\ p[k].objects \cap starter'[i].found # {}
    <2>1. PICK o \in p[k].objects : o \in starter'[i].found
      BY <1>5
    <2>2. o \in schema' /\ \E c \in 1..a : p[c].do = "check" /\ o \in p[c].objects
      BY <2>1, RunFinds
    <2> HIDE DEF p, a
    <2>3. PICK c \in 1..a : p[c].do = "check" /\ o \in p[c].objects
      BY <2>2
    <2>4. c \in 1..Len(p) /\ k \in 1..Len(p) /\ c < k
      BY <1>2 DEF p
    <2>5. MainObjects(p[k]) = {o}
      BY <1>2, <1>5, <2>1, <2>3, <2>4 DEF Sound
    <2> QED BY <2>2, <2>5 DEF p
  <1> QED BY <1>3, <1>4, <1>5

\* What has been found or created stays there for those that do nothing.
LEMMA OthersStayThere ==
  ASSUME NEW j, ThereInv(j), starter'[j] = starter[j], database' = database,
         schema \subseteq schema'
  PROVE  ThereInv(j)'
  BY DEF ThereInv

LEMMA RunKeepsThere ==
  ASSUME MigrationInv, NEW i \in Starters, Run(i), NEW j \in Starters
  PROVE  ThereInv(j)'
  <1> DEFINE p == Programs[database]
             a == starter[i].at
             n == starter'[i].at
  <1>1. /\ MigrationTyped /\ Moved(i) /\ ThereInv(i) /\ ThereInv(j)
        /\ starter[i].status = "running"
    BY RunMoves DEF MigrationInv, Run
  <1>2. schema \subseteq schema' /\ database' = database
    BY RunOnlyAdds DEF Run
  <1>3. CASE j # i
    <2>1. starter'[j] = starter[j]
      BY <1>1, <1>3 DEF Moved
    <2> QED BY <1>1, <1>2, <2>1, OthersStayThere
  <1>4. CASE j = i /\ starter'[i].status # "running"
    BY <1>4 DEF ThereInv
  <1>5. CASE j = i /\ starter'[i].status = "running"
    <2>1. /\ a \in Nat /\ n \in DOMAIN p /\ n \in Nat /\ a < n /\ DOMAIN p = 1..Len(p)
          /\ Len(p) \in Nat /\ At(i) = p[a]
      BY <1>1, <1>5, AtTyped DEF Moved
    <2>2. ASSUME NEW o \in starter'[i].found
          PROVE  o \in schema' /\ \E c \in 1..n-1 : p[c].do = "check" /\ o \in p[c].objects
      <3>1. o \in schema' /\ \E c \in 1..a : p[c].do = "check" /\ o \in p[c].objects
        BY <2>2, RunFinds
      <3>2. 1..a \subseteq 1..n-1
        BY <2>1
      <3> HIDE DEF p, a, n
      <3> QED BY <3>1, <3>2
    <2>3. ASSUME NEW k \in 1..n-1, p[k].do # "check"
          PROVE  MainObjects(p[k]) \subseteq schema'
      <3>1. CASE k < a
        <4>1. k \in 1..a-1
          BY <2>1, <3>1
        <4> QED BY <1>1, <1>2, <2>3, <4>1 DEF ThereInv
      <3>2. CASE k = a
        <4>1. At(i).objects \subseteq schema'
          BY <2>1, <2>3, <3>2, RunOnlyAdds
        <4> QED BY <2>1, <3>2, <4>1, MainObjectsAreObjects
      <3>3. CASE a < k
        <4>1. k \in DOMAIN p /\ LeftOut(i, k)
          BY <2>1, <3>3 DEF LeftOut
        <4> QED BY <2>3, <4>1, LeftOutIsThere
      <3> QED BY <2>1, <3>1, <3>2, <3>3
    <2> HIDE DEF p, n
    <2>4. /\ \A o \in starter'[i].found :
               o \in schema' /\ \E c \in 1..n-1 : p[c].do = "check" /\ o \in p[c].objects
          /\ \A k \in 1..n-1 : p[k].do # "check" => MainObjects(p[k]) \subseteq schema'
      BY <2>2, <2>3
    <2> QED BY <1>2, <1>5, <2>4 DEF ThereInv, p, n
  <1> QED BY <1>3, <1>4, <1>5

\* The end of Init leaves everything there.
LEMMA DoneHasAll ==
  ASSUME MigrationInv, NEW i \in Starters, Run(i), starter'[i].status = "done"
  PROVE  ObjectsOf[database][MigrationsOf[database]] \subseteq schema'
  <1> DEFINE p == Programs[database]
             a == starter[i].at
  <1>1. MigrationTyped /\ Moved(i) /\ ThereInv(i) /\ starter[i].status = "running"
    BY RunMoves DEF MigrationInv, Run
  <1>2. /\ a \in 1..Len(p) /\ DOMAIN p = 1..Len(p) /\ Len(p) \in Nat /\ At(i) = p[a]
        /\ database \in Databases /\ Sound(p) /\ schema \subseteq schema'
        /\ MigrationsOf[database] \in 0..MigrationsOf[database]
    BY <1>1, AtTyped, RunOnlyAdds, ProgramOfDatabase, HighestVersion
  <1>3. ASSUME NEW o \in ObjectsOf[database][MigrationsOf[database]] PROVE o \in schema'
    <2>1. PICK k \in DOMAIN p : p[k].do # "check" /\ o \in p[k].objects
      BY <1>2, ObjectsOfVersion
    <2>2. PICK j \in DOMAIN p : p[j].do # "check" /\ o \in MainObjects(p[j])
      <3> HIDE DEF p
      <3> QED BY <1>2, <2>1 DEF Sound
    <2>3. CASE j < a
      <3>1. j \in 1..a-1
        BY <1>2, <2>3
      <3> QED BY <1>1, <1>2, <2>2, <3>1 DEF ThereInv
    <2>4. CASE j = a
      <3>1. o \in At(i).objects /\ At(i).do # "check"
        BY <1>2, <2>2, <2>4, MainObjectsAreObjects
      <3> QED BY <3>1, RunOnlyAdds
    <2>5. CASE a < j
      <3>1. LeftOut(i, j)
        BY <2>5 DEF LeftOut
      <3> QED BY <2>2, <3>1, LeftOutIsThere
    <2> QED BY <1>2, <2>3, <2>4, <2>5
  <1> QED BY <1>3

LEMMA RunKeepsTrue ==
  ASSUME MigrationInv, NEW i \in Starters, Run(i)
  PROVE  TrueInv'
  <1> DEFINE p == Programs[database]
             All == ObjectsOf[database][MigrationsOf[database]]
             Done == \E j \in Starters : starter[j].status = "done"
  <1>1. MigrationTyped /\ Moved(i) /\ TrueInv /\ starter[i].status = "running" /\ HolderInv(i)
    BY RunMoves DEF MigrationInv, Run
  <1>2. /\ database' = database /\ schema \subseteq schema' /\ level' \in Versions
        /\ Versions' = Versions
    BY RunOnlyAdds DEF Run, Versions
  <1>3. TrueFor(schema, level)'
    <2>1. level' > 0 => ObjectsOf[database][level'] \subseteq schema'
      BY RunKeepsLevelTrue
    <2>2. ASSUME NEW j \in Starters, starter'[j].status = "done" PROVE All \subseteq schema'
      <3>1. CASE j = i
        BY <2>2, <3>1, DoneHasAll
      <3>2. CASE j # i
        <4>1. starter[j].status = "done"
          BY <1>1, <2>2, <3>2 DEF Moved
        <4> QED BY <1>1, <1>2, <4>1 DEF TrueInv, TrueFor
      <3> QED BY <3>1, <3>2
    <2> QED BY <1>2, <2>1, <2>2 DEF TrueFor
  <1>4. ASSUME database \in {"sqlite", "sqlite_hosts"}, migrating' # Nobody
        PROVE  TrueFor(undo.schema, undo.level)'
    <2>1. /\ LocksOnce(p) /\ p[1].do = "begin" /\ Len(p) \in Nat
          /\ starter[i].at \in 1..Len(p) /\ At(i) = p[starter[i].at]
      BY <1>1, <1>4, AtTyped, ProgramOfDatabase
    <2>2. /\ migrating' = CASE At(i).do \in {"lock", "begin"}     -> i
                            [] At(i).do \in {"release", "commit"} -> Nobody
                            [] OTHER                              -> migrating
          /\ undo' = IF At(i).do = "begin" THEN [schema |-> schema, level |-> level] ELSE undo
      BY DEF Run
    <2>3. At(i).do \notin Releasing
      BY <1>4, <2>2 DEF Releasing
    <2>4. ASSUME NEW j \in Starters, starter'[j].status = "done"
          PROVE  starter[j].status = "done"
      <3>1. CASE j = i
        <4>1. starter[i].at # Len(p)
          BY <2>1, <2>3 DEF LocksOnce
        <4> QED BY <1>1, <2>1, <2>4, <3>1, <4>1, NotYetDone
      <3>2. CASE j # i
        BY <1>1, <2>4, <3>2 DEF Moved
      <3> QED BY <3>1, <3>2
    <2>5. CASE At(i).do = "begin"
      <3>1. undo'.schema = schema /\ undo'.level = level
        BY <2>2, <2>5
      <3>2. TrueFor(schema, level)
        BY <1>1 DEF TrueInv
      <3> QED BY <1>2, <2>4, <3>1, <3>2 DEF TrueFor
    <2>6. CASE At(i).do # "begin"
      <3>1. At(i).do # "lock"
        <4> SUFFICES ASSUME At(i).do = "lock" PROVE FALSE
          OBVIOUS
        <4>1. 1 \in 1..Len(p) /\ p[1].do \in Acquiring /\ p[starter[i].at].do \in Acquiring
          BY <2>1 DEF Acquiring
        <4>2. starter[i].at = 1
          BY <2>1, <4>1 DEF LocksOnce
        <4> QED BY <2>1, <4>2
      <3>2. migrating' = migrating /\ undo' = undo
        BY <2>2, <2>3, <2>6, <3>1 DEF Releasing
      <3>3. TrueFor(undo.schema, undo.level)
        BY <1>1, <1>4, <3>2 DEF TrueInv
      <3> QED BY <1>2, <2>4, <3>2, <3>3 DEF TrueFor
    <2> QED BY <2>5, <2>6
  <1> QED BY <1>2, <1>3, <1>4 DEF TrueInv

\* Another sidecar's place in the program is as before.
LEMMA OthersStayPassed ==
  ASSUME NEW j, starter'[j] = starter[j], database' = database, NEW kinds
  PROVE  Passed(j, kinds)' <=> Passed(j, kinds)
  BY DEF Passed

LEMMA RunKeepsHolder ==
  ASSUME MigrationInv, NEW i \in Starters, Run(i), NEW j \in Starters
  PROVE  HolderInv(j)'
  <1> DEFINE p == Programs[database]
             a == starter[i].at
             n == starter'[i].at
  <1>1. /\ MigrationTyped /\ Moved(i) /\ starter[i].status = "running"
        /\ HolderInv(i) /\ HolderInv(j)
    BY RunMoves DEF MigrationInv, Run
  <1>2. /\ database' = database
        /\ At(i).do \in Acquiring => migrating = Nobody
        /\ migrating' = CASE At(i).do \in Acquiring -> i
                          [] At(i).do \in Releasing -> Nobody
                          [] OTHER                  -> migrating
    BY DEF Run, Acquiring, Releasing
  <1>3. /\ a \in 1..Len(p) /\ DOMAIN p = 1..Len(p) /\ Len(p) \in Nat /\ At(i) = p[a]
        /\ database \in Databases /\ Sound(p) /\ i # Nobody /\ j # Nobody
    BY <1>1, AtTyped, ProgramOfDatabase, StartersAssumption
  <1>4. Acquiring \cap Releasing = {} /\ Acquiring \cap {"create", "ensure", "check"} = {}
    BY DEF Acquiring, Releasing
  <1>5. CASE Plain(p)
    <2>1. \A k \in 1..Len(p) : p[k].do \notin Acquiring \cup Releasing
      <3> HIDE DEF p
      <3> QED BY <1>5 DEF Plain, Acquiring, Releasing
    <2>2. migrating' = migrating
      BY <1>2, <1>3, <2>1
    <2>3. ASSUME NEW q \in Starters PROVE ~ Passed(q, Acquiring)
      <3>1. starter[q].at \in 1..Len(p)
        BY <1>1, AtTyped
      <3>2. 1..starter[q].at-1 \subseteq 1..Len(p)
        BY <1>3, <3>1
      <3> QED BY <2>1, <3>2 DEF Passed
    <2>4. ~ Passed(j, Acquiring)'
      <3>1. starter'[j].at \in 1..Len(p)
        BY <1>1, <1>3, RunKeepsTyped, <1>2 DEF MigrationTyped
      <3>2. 1..starter'[j].at-1 \subseteq 1..Len(p)
        BY <1>3, <3>1
      <3> QED BY <1>2, <2>1, <3>2 DEF Passed
    <2> QED BY <1>1, <2>2, <2>3, <2>4 DEF HolderInv
  <1>6. CASE LocksOnce(p) /\ j # i
    <2>1. starter'[j] = starter[j]
      BY <1>1, <1>6 DEF Moved
    <2>2. HolderInv(j)' <=> (migrating' = j <=> migrating = j)
      BY <1>1, <1>2, <2>1, OthersStayPassed DEF HolderInv
    <2>3. CASE At(i).do \in Acquiring
      BY <1>2, <1>3, <1>6, <2>2, <2>3
    <2>4. CASE At(i).do \in Releasing
      <3>1. a = Len(p)
        BY <1>3, <1>6, <2>4 DEF LocksOnce
      <3>2. migrating = i
        BY <1>1, <1>3, <1>6, <3>1, HoldsLock
      <3> QED BY <1>2, <1>3, <1>4, <1>6, <2>2, <2>4, <3>2
    <2>5. CASE At(i).do \notin Acquiring \cup Releasing
      BY <1>2, <2>2, <2>5
    <2> QED BY <2>3, <2>4, <2>5
  <1>7. CASE LocksOnce(p) /\ j = i /\ At(i).do \in Releasing
    <2>1. a = Len(p)
      BY <1>3, <1>7 DEF LocksOnce
    <2>2. starter'[i].status = "done"
      BY <1>1, <1>3, <2>1 DEF Moved
    <2>3. migrating' = Nobody
      BY <1>2, <1>4, <1>7
    <2> QED BY <1>3, <1>7, <2>2, <2>3 DEF HolderInv
  <1>8. CASE LocksOnce(p) /\ j = i /\ At(i).do \notin Releasing
    <2>1. a # Len(p)
      BY <1>3, <1>8 DEF LocksOnce
    <2>2. starter'[i].status = "running" /\ n > a /\ n \in 1..Len(p)
      BY <1>1, <1>3, <1>8, <2>1, NotYetDone DEF Moved
    <2>3. Passed(i, Acquiring)' <=> At(i).do \in Acquiring \/ Passed(i, Acquiring)
      <3>1. Passed(i, Acquiring)' <=> \E k \in 1..n-1 : p[k].do \in Acquiring
        BY <1>2 DEF Passed
      <3>2. Passed(i, Acquiring) <=> \E k \in 1..a-1 : p[k].do \in Acquiring
        BY DEF Passed
      <3>3. ASSUME NEW k \in 1..n-1, a < k PROVE p[k].do \notin Acquiring
        <4>1. k \in DOMAIN p /\ LeftOut(i, k)
          BY <1>3, <2>2, <3>3 DEF LeftOut
        <4>2. p[k].of # 0 \/ p[k].do \in {"create", "ensure"}
          BY <1>1, <4>1, SkipsWhy DEF Moved
        <4> HIDE DEF p
        <4>3. p[k].of # 0 => p[k].do \notin Acquiring
          BY <1>3, <1>8, <4>1 DEF LocksOnce
        <4> QED BY <1>4, <4>2, <4>3
      <3> QED BY <1>3, <2>2, <3>1, <3>2, <3>3
    <2>4. CASE At(i).do \in Acquiring
      BY <1>2, <1>8, <2>2, <2>3, <2>4 DEF HolderInv
    <2>5. CASE At(i).do \notin Acquiring
      <3>1. migrating' = migrating
        BY <1>2, <1>8, <2>5
      <3> QED BY <1>1, <1>8, <2>2, <2>3, <2>5, <3>1 DEF HolderInv
    <2> QED BY <2>4, <2>5
  <1> QED BY <1>3, <1>5, <1>6, <1>7, <1>8, ProgramOfDatabase

\* The sidecar has come to a statement of a migration that is to be done, with the
\* level it has read.
LEMMA NextIsAbove ==
  ASSUME MigrationInv, NEW i \in Starters, Run(i), starter'[i].status = "running",
         LocksOnce(Programs[database]), Versioned(Programs[database]),
         Programs[database][starter'[i].at].of # 0
  PROVE  level' < Programs[database][starter'[i].at].of
  <1> DEFINE p == Programs[database]
             a == starter[i].at
             n == starter'[i].at
  <1>1. /\ MigrationTyped /\ Moved(i) /\ VersionInv(i) /\ starter[i].status = "running"
    BY RunMoves DEF MigrationInv, Run
  <1>2. /\ a \in 1..Len(p) /\ DOMAIN p = 1..Len(p) /\ Len(p) \in Nat /\ At(i) = p[a]
        /\ level \in Nat /\ n \in 1..Len(p) /\ a < n
        /\ \A k \in 1..Len(p) : p[k].of \in Nat
    BY <1>1, AtTyped DEF Moved
  <1>3. starter'[i].level < p[n].of
    <2>1. starter'[i].level \in Nat
      BY <1>1 DEF Moved, Position
    <2>2. ~ (p[n].of <= starter'[i].level)
      BY <1>1, <1>2, SkipsWhy DEF Moved
    <2> QED BY <1>2, <2>1, <2>2
  <1>4. CASE At(i).of # 0
    <2>1. level < p[a].of
      BY <1>1, <1>2, <1>4 DEF VersionInv
    <2>2. p[a].of <= p[n].of
      BY <1>2 DEF Versioned
    <2>3. CASE p[a].do = "level"
      <3>1. level' = p[a].of
        BY <1>2, <2>3, RunOnlyAdds
      <3>2. n \in a..Len(p) /\ n # a
        BY <1>2
      <3>3. ~ (p[n].of <= p[a].of)
        BY <1>2, <2>3, <3>2 DEF Versioned
      <3> QED BY <1>2, <3>1, <3>3
    <2>4. CASE p[a].do # "level"
      <3>1. level' = level
        BY <1>2, <2>4, RunOnlyAdds
      <3> DEFINE x == p[a].of
                 y == p[n].of
      <3>2. level \in Nat /\ x \in Nat /\ y \in Nat /\ level < x /\ x <= y
        BY <1>2, <2>1, <2>2
      <3> HIDE DEF x, y
      <3>3. level' < y
        BY <3>1, <3>2
      <3> QED BY <3>3 DEF y
    <2> QED BY <2>3, <2>4
  <1>5. CASE At(i).of = 0
    <2>1. level' = level
      BY <1>5, RunOnlyAdds
    <2>2. At(i).do = "read"
      <3>1. PICK r \in 1..n-1 : p[r].do = "read"
        BY <1>2 DEF LocksOnce
      <3>2. r \in 1..Len(p) /\ p[r].of = 0
        BY <1>2, <3>1 DEF LocksOnce
      <3>3. CASE r < a
        <4>1. r \in 1..a-1
          BY <1>2, <3>3
        <4>2. a = Len(p)
          BY <1>2, <1>5, <3>1, <4>1 DEF LocksOnce
        <4> QED BY <1>2, <4>2
      <3>4. CASE r = a
        BY <1>2, <3>1, <3>4
      <3>5. CASE a < r
        <4>1. r \in DOMAIN p /\ LeftOut(i, r)
          BY <1>2, <3>1, <3>5 DEF LeftOut
        <4> QED BY <1>1, <3>1, <3>2, <4>1, SkipsWhy DEF Moved
      <3> QED BY <1>2, <3>3, <3>4, <3>5
    <2>3. starter'[i].level = level
      BY <1>1, <2>2 DEF Moved
    <2> QED BY <1>3, <2>1, <2>3
  <1> QED BY <1>4, <1>5

\* The migrations before the one the sidecar has come to have been done.
LEMMA BeforeIsDone ==
  ASSUME MigrationInv, NEW i \in Starters, Run(i), starter'[i].status = "running",
         LocksOnce(Programs[database]), Versioned(Programs[database]),
         NEW k \in 1..starter'[i].at-1,
         Programs[database][k].of # Programs[database][starter'[i].at].of,
         Passed(i, {"read"}) \/ At(i).do = "read"
  PROVE  Programs[database][k].of <= level'
  <1> DEFINE p == Programs[database]
             a == starter[i].at
             n == starter'[i].at
  <1>1. /\ MigrationTyped /\ Moved(i) /\ VersionInv(i) /\ starter[i].status = "running"
    BY RunMoves DEF MigrationInv, Run
  <1>2. /\ a \in 1..Len(p) /\ DOMAIN p = 1..Len(p) /\ Len(p) \in Nat /\ At(i) = p[a]
        /\ level \in Nat /\ n \in 1..Len(p) /\ a < n /\ database \in Databases
        /\ starter[i].level \in Nat
        /\ \A q \in 1..Len(p) : p[q].of \in Nat
    BY <1>1, AtTyped DEF Moved
  <1>3. level' \in Nat /\ level <= level' /\ k \in 1..Len(p)
    BY <1>2, RunOnlyAdds
  <1>4. Sound(p)
    BY <1>2, ProgramOfDatabase
  <1>5. CASE p[k].of = 0
    BY <1>3, <1>5
  <1>6. CASE p[k].of # 0 /\ k < a /\ p[k].of # p[a].of
    <2>1. k \in 1..a-1
      BY <1>2, <1>6
    <2>2. Passed(i, {"read"})
      <3>1. CASE Passed(i, {"read"})
        BY <3>1
      <3>2. CASE At(i).do = "read"
        <4>1. p[a].of = 0
          BY <1>2, <3>2 DEF LocksOnce
        <4>2. a = Len(p)
          BY <1>2, <1>6, <2>1, <4>1 DEF LocksOnce
        <4> QED BY <1>2, <4>2
      <3> QED BY <3>1, <3>2
    <2>3. p[k].of <= level
      BY <1>1, <1>2, <1>6, <2>1, <2>2 DEF VersionInv
    <2> QED BY <1>2, <1>3, <2>3
  <1>7. CASE p[k].of # 0 /\ (k >= a \/ p[k].of = p[a].of)
    <2> DEFINE m == IF k < a THEN a ELSE k
    <2>1. m \in 1..n-1 /\ a <= m /\ p[m].of = p[k].of /\ m \in Nat
      BY <1>2, <1>7
    <2> HIDE DEF m
    <2>2. PICK v \in m..n-1 : p[v].do = "level" /\ p[v].of = p[m].of
      <3> HIDE DEF p, n
      <3>1. n \in 1..Len(p) /\ m \in 1..n-1 /\ p[m].of # 0 /\ p[m].of # p[n].of
            /\ LocksOnce(p) /\ Versioned(p)
        BY <1>2, <1>7, <2>1 DEF p, n
      <3> QED BY <1>4, <3>1, LevelBetween
    <2>3. v \in 1..Len(p) /\ a <= v /\ v < n
      BY <1>2, <2>1, <2>2
    <2>4. CASE v = a
      <3>1. level' = p[a].of
        BY <1>2, <2>2, <2>4, RunOnlyAdds
      <3> QED BY <1>2, <1>3, <2>1, <2>2, <2>4, <3>1
    <2>5. CASE v # a
      <3>1. LeftOut(i, v)
        BY <1>2, <2>3, <2>5 DEF LeftOut
      <3>2. p[v].of <= starter'[i].level
        BY <1>1, <1>2, <2>2, <2>3, <3>1, SkipsWhy DEF Moved
      <3>3. starter'[i].level \in Nat /\ starter'[i].level <= level
        BY <1>1, <1>2 DEF Moved, VersionInv
      <3> DEFINE x == p[k].of
                 l == starter'[i].level
      <3>4. x <= l /\ x \in Nat
        BY <1>2, <1>3, <2>1, <2>2, <3>2
      <3>5. l \in Nat /\ l <= level /\ level \in Nat /\ level' \in Nat /\ level <= level'
        BY <1>2, <1>3, <3>3
      <3> HIDE DEF x, l
      <3>6. x <= level'
        BY <3>4, <3>5
      <3> QED BY <3>6 DEF x
    <2> QED BY <2>4, <2>5
  <1> QED BY <1>2, <1>3, <1>5, <1>6, <1>7

LEMMA RunKeepsVersion ==
  ASSUME MigrationInv, NEW i \in Starters, Run(i), NEW j \in Starters
  PROVE  VersionInv(j)'
  <1> DEFINE p == Programs[database]
             a == starter[i].at
             n == starter'[i].at
  <1>1. /\ MigrationTyped /\ Moved(i) /\ starter[i].status = "running" /\ HolderInv(i)
        /\ HolderInv(j) /\ VersionInv(i) /\ VersionInv(j)
    BY RunMoves DEF MigrationInv, Run
  <1>2. /\ a \in 1..Len(p) /\ DOMAIN p = 1..Len(p) /\ Len(p) \in Nat /\ At(i) = p[a]
        /\ level \in Nat /\ level' \in Nat /\ level <= level' /\ database \in Databases
        /\ database' = database /\ starter[i].level \in Nat
        /\ Plain(p) \/ (LocksOnce(p) /\ Versioned(p))
        /\ \A k \in 1..Len(p) : p[k].of \in Nat
    BY <1>1, AtTyped, RunOnlyAdds, ProgramOfDatabase DEF Run
  <1>3. At(j)' = p[starter'[j].at]
    BY <1>2 DEF At
  <1>4. ASSUME j # i, starter[j].status = "running" PROVE VersionInv(j)'
    <2>1. starter'[j] = starter[j] /\ At(j)' = At(j)
      BY <1>1, <1>2, <1>4 DEF Moved, At
    <2>2. /\ starter[j].at \in 1..Len(p) /\ starter[j].level \in Nat
          /\ At(j) = p[starter[j].at]
      BY <1>1, AtTyped
    <2>3. CASE level' = level
      BY <1>1, <1>2, <2>1, <2>3, OthersStayPassed DEF VersionInv
    <2>4. CASE level' # level
      <3>1. At(i).of # 0
        BY <2>4, RunOnlyAdds
      <3>2. LocksOnce(p)
        BY <1>2, <3>1 DEF Plain
      <3>3. migrating = i
        BY <1>1, <1>2, <3>1, <3>2, HoldsLock
      <3>4. ~ Passed(j, {"read"})
        <4> SUFFICES ASSUME Passed(j, {"read"}) PROVE FALSE
          OBVIOUS
        <4>1. PICK k \in 1..starter[j].at-1 : p[k].do = "read"
          BY DEF Passed
        <4>2. k \in 1..starter[j].at
          BY <2>2
        <4>3. migrating = j
          BY <1>1, <1>4, <3>2, <4>1, <4>2, HoldsLock
        <4> QED BY <1>4, <3>3, <4>3
      <3>5. At(j).of = 0
        <4> SUFFICES ASSUME At(j).of # 0 PROVE FALSE
          OBVIOUS
        <4>1. starter[j].at \in 1..starter[j].at
          BY <2>2
        <4>2. migrating = j
          BY <1>1, <1>4, <2>2, <3>2, <4>1, HoldsLock
        <4> QED BY <1>4, <3>3, <4>2
      <3>6. starter[j].level = 0
        BY <1>1, <1>4, <3>4 DEF VersionInv
      <3> QED BY <1>2, <2>1, <3>4, <3>5, <3>6, OthersStayPassed DEF VersionInv
    <2> QED BY <2>3, <2>4
  <1>5. ASSUME j # i, starter[j].status # "running" PROVE VersionInv(j)'
    BY <1>1, <1>5 DEF Moved, VersionInv
  <1>6. ASSUME j = i, starter'[i].status = "running" PROVE VersionInv(j)'
    <2>1. n \in 1..Len(p) /\ a < n /\ starter'[i].level \in Nat
      BY <1>1, <1>2, <1>6 DEF Moved
    <2>2. starter'[i].level <= level'
      BY <1>1, <1>2 DEF Moved, VersionInv
    <2>3. Passed(i, {"read"})' <=> \E k \in 1..n-1 : p[k].do = "read"
      BY <1>2 DEF Passed
    <2>4. ASSUME ~ Passed(i, {"read"})' PROVE starter'[i].level = 0
      <3>1. a \in 1..n-1 /\ 1..a-1 \subseteq 1..n-1
        BY <1>2, <2>1
      <3>2. At(i).do # "read"
        BY <1>2, <2>3, <2>4, <3>1
      <3>3. ~ Passed(i, {"read"})
        BY <2>3, <2>4, <3>1 DEF Passed
      <3> QED BY <1>1, <3>2, <3>3 DEF Moved, VersionInv
    <2>5. CASE Plain(p)
      <3>1. \A k \in 1..Len(p) : p[k].of = 0
        <4> HIDE DEF p
        <4> QED BY <2>5 DEF Plain
      <3>2. At(i)'.of = 0 /\ \A k \in 1..n-1 : p[k].of = 0
        BY <1>2, <1>3, <1>6, <2>1, <3>1
      <3>3. \A k \in 1..n-1 : p[k].of <= level'
        BY <1>2, <3>2
      <3> QED BY <1>2, <1>6, <2>2, <2>4, <3>2, <3>3 DEF VersionInv
    <2>6. CASE LocksOnce(p) /\ Versioned(p)
      <3>1. At(i)'.of # 0 => level' < At(i)'.of
        BY <1>3, <1>6, <2>6, NextIsAbove
      <3>2. ASSUME Passed(i, {"read"})', NEW k \in 1..n-1, p[k].of # p[n].of
            PROVE  p[k].of <= level'
        <4>1. CASE Passed(i, {"read"}) \/ At(i).do = "read"
          BY <1>6, <2>6, <3>2, <4>1, BeforeIsDone
        <4>2. CASE ~ Passed(i, {"read"}) /\ At(i).do # "read"
          <5>1. PICK r \in 1..n-1 : p[r].do = "read"
            BY <2>3, <3>2
          <5>2. r \in 1..Len(p) /\ p[r].of = 0
            BY <1>2, <2>1, <2>6, <5>1 DEF LocksOnce
          <5>3. ~ (r < a)
            <6> SUFFICES ASSUME r < a PROVE FALSE
              OBVIOUS
            <6>1. r \in 1..a-1
              BY <1>2, <5>2
            <6> QED BY <4>2, <5>1, <6>1 DEF Passed
          <5>4. LeftOut(i, r)
            BY <1>2, <2>1, <4>2, <5>1, <5>2, <5>3 DEF LeftOut
          <5> QED BY <1>1, <1>2, <5>1, <5>2, <5>4, SkipsWhy DEF Moved
        <4> QED BY <4>1, <4>2
      <3> QED BY <1>2, <1>3, <1>6, <2>2, <2>4, <3>1, <3>2 DEF VersionInv
    <2> QED BY <1>2, <2>5, <2>6
  <1>7. ASSUME j = i, starter'[i].status # "running" PROVE VersionInv(j)'
    BY <1>7 DEF VersionInv
  <1> QED BY <1>4, <1>5, <1>6, <1>7

\* No row has a row_id that is NULL when those of at most one row are filled in.
LEMMA BackfillFills ==
  ASSUME DOMAIN rows \subseteq {1}
  PROVE  /\ DOMAIN Ranked = DOMAIN rows
         /\ \A r \in DOMAIN rows : Ranked[r] # NULL
  <1>1. DOMAIN Ranked = DOMAIN rows
    BY DEF Ranked
  <1>2. ASSUME NEW r \in DOMAIN rows PROVE Ranked[r] # NULL
    <2>1. r = 1
      OBVIOUS
    <2>2. CASE r \in NullRows
      <3>1. {q \in NullRows : q <= r} = {1}
        BY <2>1, <2>2 DEF NullRows
      <3>2. Cardinality({1}) = 1
        BY FS_Singleton
      <3>3. Ranked[r] = 1
        BY <2>2, <3>1, <3>2 DEF Ranked
      <3> QED BY <3>3 DEF NULL
    <2>3. CASE r \notin NullRows
      BY <2>3 DEF Ranked, NullRows
    <2> QED BY <2>2, <2>3
  <1> QED BY <1>1, <1>2

\* As long as nothing goes wrong there is nothing to be created that is there.
Uncreated(k) ==
  LET s == Programs[database][k] IN
  s.do # "check" /\ s.of > level /\ ~ (\E j \in Starters : migrating = j /\ starter[j].at > k)
    => s.objects \cap schema = {}

LEMMA RunKeepsUncreated ==
  ASSUME MigrationInv, Calm, NEW i \in Starters, Run(i), NEW k \in DOMAIN Programs[database]
  PROVE  Uncreated(k)'
  <1> DEFINE p == Programs[database]
             a == starter[i].at
             s == p[k]
             Come == \E j \in Starters : migrating = j /\ starter[j].at > k
  <1>1. /\ MigrationTyped /\ Moved(i) /\ starter[i].status = "running" /\ HolderInv(i)
        /\ VersionInv(i)
    BY RunMoves DEF MigrationInv, Run
  <1>2. /\ a \in 1..Len(p) /\ DOMAIN p = 1..Len(p) /\ Len(p) \in Nat /\ At(i) = p[a]
        /\ level \in Nat /\ level' \in Nat /\ level <= level' /\ database \in Databases
        /\ database' = database /\ LocksOnce(p) /\ Versioned(p) /\ s.of \in Nat
        /\ k \in 1..Len(p)
    BY <1>1, AtTyped, RunOnlyAdds, ProgramOfDatabase DEF Run, Calm
  <1>3. /\ At(i).do \in Acquiring => migrating = Nobody
        /\ migrating' = CASE At(i).do \in Acquiring -> i
                          [] At(i).do \in Releasing -> Nobody
                          [] OTHER                  -> migrating
    BY DEF Run, Acquiring, Releasing
  <1>4. Acquiring \cap Releasing = {}
    BY DEF Acquiring, Releasing
  <1>5. SUFFICES ASSUME s.do # "check", s.of > level', ~ Come'
                 PROVE  s.objects \cap schema' = {}
    BY <1>2 DEF Uncreated
  <1>6. s.of # 0 /\ s.of > level
    BY <1>2, <1>5
  <1>7. ~ Come
    <2> SUFFICES ASSUME NEW j \in Starters, migrating = j, starter[j].at > k PROVE FALSE
      OBVIOUS
    <2>1. j # Nobody
      BY StartersAssumption
    <2>2. At(i).do \notin Acquiring
      BY <1>3, <2>1
    <2>3. CASE At(i).do \in Releasing
      <3>1. a = Len(p)
        BY <1>2, <2>3 DEF LocksOnce
      <3>2. migrating = i /\ j = i
        <4>1. a \in 1..a
          BY <1>2
        <4>2. migrating = i
          BY <1>1, <1>2, <3>1, <4>1, HoldsLock
        <4> QED BY <4>2
      <3>3. PICK r \in 1..k-1 : p[r].do = "read"
        BY <1>2, <1>6 DEF LocksOnce
      <3>4. r \in 1..a-1 /\ k \in 1..a-1
        BY <1>2, <3>1, <3>2, <3>3
      <3>5. Passed(i, {"read"})
        BY <3>3, <3>4 DEF Passed
      <3>6. p[a].of = 0
        BY <1>2, <2>3 DEF LocksOnce
      <3>7. p[k].of <= level
        BY <1>1, <1>2, <1>6, <3>4, <3>5, <3>6 DEF VersionInv
      <3> QED BY <1>2, <1>6, <3>7
    <2>4. CASE At(i).do \notin Releasing
      <3>1. migrating' = j
        BY <1>3, <2>2, <2>4
      <3>2. starter'[j].at > k
        <4>1. CASE j # i
          BY <1>1, <4>1 DEF Moved
        <4>2. CASE j = i
          <5>1. a # Len(p)
            BY <1>2, <2>4 DEF LocksOnce
          <5>2. starter'[i].at > a
            BY <1>1, <1>2, <5>1, NotYetDone
          <5>3. starter'[i].at \in Nat
            BY <1>1 DEF Moved, Position
          <5> QED BY <1>2, <4>2, <5>2, <5>3
        <4> QED BY <4>1, <4>2
      <3> QED BY <1>5, <3>1, <3>2
    <2> QED BY <2>3, <2>4
  <1>8. s.objects \cap schema = {}
    <2>1. Uncreated(k)
      BY DEF MigrationInv, CalmInv, Calm, Uncreated
    <2> QED BY <1>5, <1>6, <1>7, <2>1 DEF Uncreated
  <1>9. k # a
    <2> SUFFICES ASSUME k = a PROVE FALSE
      OBVIOUS
    <2>1. At(i).do \notin Acquiring \cup Releasing
      BY <1>2, <1>6 DEF LocksOnce
    <2>2. a \in 1..a
      BY <1>2
    <2>3. migrating = i
      BY <1>1, <1>2, <1>6, <2>2, HoldsLock
    <2>4. migrating' = i
      BY <1>3, <2>1, <2>3
    <2>5. a # Len(p)
      BY <1>2, <2>1 DEF LocksOnce
    <2>6. starter'[i].at > a
      BY <1>1, <1>2, <2>5, NotYetDone
    <2> QED BY <1>5, <2>4, <2>6
  <1>10. At(i).do # "check" => s.objects \cap At(i).objects = {}
    <2>1. k < a \/ a < k
      BY <1>2, <1>9
    <2> HIDE DEF p
    <2> QED BY <1>2, <1>5, <2>1 DEF Versioned
  <1> QED BY <1>8, <1>10, RunOnlyAdds

LEMMA RunKeepsCalm ==
  ASSUME MigrationInv, NEW i \in Starters, Run(i)
  PROVE  CalmInv'
  <1> DEFINE p == Programs[database]
             a == starter[i].at
             n == starter'[i].at
  <1>1. SUFFICES ASSUME Calm' PROVE CalmInv'
    BY DEF CalmInv, Calm
  <1>2. /\ database' = database /\ Calm
        /\ rows' = IF At(i).do = "backfill" THEN Ranked ELSE rows
    BY <1>1 DEF Run, Execute, Calm
  <1>3. /\ MigrationTyped /\ Moved(i) /\ starter[i].status = "running"
        /\ \A j \in Starters : starter[j].status # "failed"
        /\ DOMAIN rows \subseteq {1}
        /\ \A j \in Starters : starter[j].status = "running" /\ At(j).do = "not_null"
             => NullRows = {}
    BY <1>2, RunMoves DEF MigrationInv, CalmInv, Calm, Run
  <1>4. /\ a \in 1..Len(p) /\ DOMAIN p = 1..Len(p) /\ Len(p) \in Nat /\ At(i) = p[a]
        /\ database \in Databases /\ LocksOnce(p) /\ Versioned(p)
    BY <1>2, <1>3, AtTyped, ProgramOfDatabase DEF Calm
  <1>5. \A j \in Starters : starter'[j].status # "failed"
    BY <1>3 DEF Moved
  <1>6. DOMAIN rows' \subseteq {1}
    BY <1>2, <1>3, BackfillFills
  <1>7. At(i).do = "backfill" => NullRows' = {}
    BY <1>2, <1>3, BackfillFills DEF NullRows
  <1>8. ASSUME NEW j \in Starters, starter'[j].status = "running", At(j)'.do = "not_null"
        PROVE  NullRows' = {}
    <2>1. CASE At(i).do = "backfill"
      BY <1>7, <2>1
    <2>2. CASE At(i).do # "backfill" /\ j # i
      <3>1. starter'[j] = starter[j] /\ At(j)' = At(j) /\ rows' = rows
        BY <1>2, <1>3, <2>2 DEF Moved, At
      <3>2. NullRows' = NullRows
        BY <3>1 DEF NullRows
      <3> QED BY <1>3, <1>8, <3>1, <3>2
    <2>3. CASE At(i).do # "backfill" /\ j = i
      <3>1. n \in 1..Len(p) /\ a < n /\ p[n].do = "not_null"
        BY <1>2, <1>3, <1>4, <1>8, <2>3 DEF Moved, At
      <3> DEFINE b == n - 1
      <3>2. p[b].do = "backfill" /\ p[b].of = p[n].of
        BY <1>4, <3>1 DEF Versioned
      <3>3. b \in 1..Len(p) /\ a < b /\ b < n
        <4>1. a # b
          BY <1>4, <2>3, <3>2
        <4>2. a \in Nat \ {0} /\ n \in Nat /\ n <= Len(p) /\ Len(p) \in Nat /\ a < n
          BY <1>4, <3>1
        <4> HIDE DEF p
        <4> QED BY <4>1, <4>2
      <3>4. LeftOut(i, b)
        BY <3>3 DEF LeftOut
      <3>5. p[n].of # 0 /\ p[n].of <= starter'[i].level
        BY <1>3, <1>4, <3>2, <3>3, <3>4, SkipsWhy DEF Moved
      <3> QED BY <1>3, <1>8, <2>3, <3>5, SkipsWhy DEF Moved
    <2> QED BY <2>1, <2>2, <2>3
  <1>9. ASSUME NEW k \in DOMAIN Programs[database] PROVE Uncreated(k)'
    BY <1>2, RunKeepsUncreated
  <1> QED BY <1>2, <1>5, <1>6, <1>8, <1>9 DEF CalmInv, Uncreated

LEMMA RunKeepsMigrations ==
  ASSUME MigrationInv, NEW i \in Starters, Run(i)
  PROVE  MigrationInv'
  BY RunKeepsTyped, RunKeepsTrue, RunKeepsCalm, RunKeepsHolder, RunKeepsVersion,
     RunKeepsThere DEF MigrationInv

-----------------------------------------------------------------------------
(* Migrations: faults, starts and rows keep the invariant.                 *)

\* Without a fault no statement is refused.
LEMMA NothingIsRefused ==
  ASSUME MigrationInv, NEW i \in Starters, starter[i].status = "running", Refused(At(i))
  PROVE  ~ Calm
  <1> SUFFICES ASSUME Calm PROVE FALSE
    OBVIOUS
  <1> DEFINE p == Programs[database]
             a == starter[i].at
  <1>1. /\ MigrationTyped /\ HolderInv(i) /\ VersionInv(i) /\ DOMAIN rows \subseteq {1}
        /\ At(i).do = "not_null" => NullRows = {}
        /\ Uncreated(a)
    <2>1. MigrationTyped /\ HolderInv(i) /\ VersionInv(i) /\ CalmInv
      BY DEF MigrationInv
    <2>2. a \in DOMAIN p
      BY <2>1 DEF MigrationTyped
    <2> QED BY <2>1, <2>2 DEF CalmInv, Uncreated
  <1>2. /\ a \in 1..Len(p) /\ Len(p) \in Nat /\ At(i) = p[a] /\ p[a].of \in Nat
        /\ LocksOnce(p)
    BY <1>1, AtTyped, ProgramOfDatabase DEF Calm
  <1>3. CASE At(i).do = "create" /\ At(i).objects \cap schema # {}
    <2>1. At(i).of # 0
      <3> SUFFICES ASSUME p[a].of = 0 PROVE FALSE
        BY <1>2
      <3>1. p[a].do \in {"ensure", "read"} \cup Acquiring \cup Releasing
        BY <1>2 DEF LocksOnce
      <3> QED BY <1>2, <1>3, <3>1 DEF Acquiring, Releasing
    <2>2. level < At(i).of
      BY <1>1, <2>1 DEF VersionInv
    <2>3. PICK j \in Starters : migrating = j /\ starter[j].at > a
      BY <1>1, <1>2, <1>3, <2>2 DEF Uncreated
    <2>4. migrating = i
      <3>1. a \in 1..a
        BY <1>2
      <3> QED BY <1>1, <1>2, <2>1, <3>1, HoldsLock
    <2> QED BY <1>2, <2>3, <2>4
  <1>4. CASE At(i).do = "not_null" /\ NullRows # {}
    BY <1>1, <1>4
  <1>5. CASE DuplicateRowIDs
    BY <1>1, <1>5 DEF DuplicateRowIDs
  <1> QED BY <1>3, <1>4, <1>5 DEF Refused

\* A sidecar that stops gives the lock back and leaves the others where they are.
LEMMA AbortKeepsHolder ==
  ASSUME MigrationInv, NEW i \in Starters, Abort(i), NEW j \in Starters
  PROVE  HolderInv(j)'
  <1>1. /\ starter' = [starter EXCEPT ![i].status = "failed"] /\ database' = database
        /\ migrating' = IF migrating = i THEN Nobody ELSE migrating
        /\ starter \in [Starters -> Position] /\ HolderInv(j) /\ i # Nobody /\ j # Nobody
    BY StartersAssumption DEF Abort, MigrationInv, MigrationTyped
  <1>2. CASE j = i
    BY <1>1, <1>2 DEF HolderInv, Position
  <1>3. CASE j # i
    <2>1. starter'[j] = starter[j]
      BY <1>1, <1>3
    <2>2. migrating' = j <=> migrating = j
      BY <1>1, <1>3
    <2> QED BY <1>1, <2>1, <2>2, OthersStayPassed DEF HolderInv
  <1> QED BY <1>2, <1>3

LEMMA AbortKeepsMigrations ==
  ASSUME MigrationInv, NEW i \in Starters, Abort(i), starter[i].status = "running",
         crashes' \in Nat
  PROVE  /\ MigrationTyped' /\ TrueInv'
         /\ \A j \in Starters : HolderInv(j)' /\ VersionInv(j)' /\ ThereInv(j)'
  <1> DEFINE p == Programs[database]
             Undone == migrating = i /\ database \in {"sqlite", "sqlite_hosts"}
  <1>1. /\ starter' = [starter EXCEPT ![i].status = "failed"] /\ database' = database
        /\ undo' = undo /\ migrating' = IF migrating = i THEN Nobody ELSE migrating
        /\ Undone => schema' = undo.schema /\ level' = undo.level
        /\ ~ Undone => schema' = schema /\ level' = level
    BY DEF Abort
  <1>2. /\ MigrationTyped /\ TrueInv /\ starter \in [Starters -> Position]
        /\ i # Nobody /\ Versions' = Versions /\ Versions \subseteq Nat
        /\ \A j \in Starters : starter[j].at \in DOMAIN p
    BY <1>1, HighestVersion, StartersAssumption DEF MigrationInv, MigrationTyped, Versions
  <1>3. /\ starter' \in [Starters -> Position]
        /\ starter'[i].status = "failed" /\ starter'[i].at = starter[i].at
        /\ \A j \in Starters \ {i} : starter'[j] = starter[j]
    BY <1>1, <1>2 DEF Position, Statuses
  <1>4. ASSUME NEW s, NEW l, TrueFor(s, l), schema' = s, level' = l
        PROVE  TrueFor(schema, level)'
    BY <1>1, <1>2, <1>3, <1>4 DEF TrueFor
  <1>5. TrueFor(schema, level)'
    <2>1. CASE Undone
      BY <1>1, <1>2, <1>4, <2>1 DEF TrueInv
    <2>2. CASE ~ Undone
      BY <1>1, <1>2, <1>4, <2>2 DEF TrueInv
    <2> QED BY <2>1, <2>2
  <1>6. ASSUME database \in {"sqlite", "sqlite_hosts"}, migrating' # Nobody
        PROVE  TrueFor(undo.schema, undo.level)'
    <2>1. TrueFor(undo.schema, undo.level)
      BY <1>1, <1>2, <1>6 DEF TrueInv
    <2> QED BY <1>1, <1>2, <1>3, <2>1 DEF TrueFor
  <1>7. MigrationTyped'
    <2>1. migrating' \in Starters \cup {Nobody} /\ level' \in Versions
      BY <1>1, <1>2, <1>5 DEF MigrationTyped, TrueFor
    <2>2. \A j \in Starters : starter'[j].at \in DOMAIN p
      BY <1>2, <1>3
    <2> QED BY <1>1, <1>2, <1>3, <2>1, <2>2 DEF MigrationTyped
  <1>8. ASSUME NEW j \in Starters PROVE VersionInv(j)' /\ ThereInv(j)'
    <2>1. VersionInv(j) /\ ThereInv(j) /\ HolderInv(j)
      BY DEF MigrationInv
    <2>2. CASE j = i
      BY <1>3, <2>2 DEF VersionInv, ThereInv
    <2>3. CASE j # i /\ ~ Undone
      <3>1. starter'[j] = starter[j] /\ At(j)' = At(j) /\ schema' = schema /\ level' = level
        BY <1>1, <1>3, <2>3 DEF At
      <3> QED BY <1>1, <2>1, <3>1, OthersStayThere, OthersStayPassed DEF VersionInv
    <2>4. CASE j # i /\ Undone /\ starter[j].status # "running"
      BY <1>3, <2>4 DEF VersionInv, ThereInv
    <2>5. CASE j # i /\ Undone /\ starter[j].status = "running"
      <3>1. ~ Passed(j, Acquiring)
        BY <2>1, <2>5 DEF HolderInv
      <3>2. /\ starter[j].at \in 1..Len(p) /\ Len(p) \in Nat /\ At(j) = p[starter[j].at]
            /\ LocksOnce(p) /\ p[1].do \in Acquiring
        BY <1>2, <2>5, AtTyped, ProgramOfDatabase DEF Acquiring
      <3>3. starter[j].at = 1
        <4> SUFFICES ASSUME starter[j].at # 1 PROVE FALSE
          OBVIOUS
        <4>1. 1 \in 1..starter[j].at-1
          BY <3>2
        <4> QED BY <3>1, <3>2, <4>1 DEF Passed
      <3>4. p[1].of = 0
        BY <3>2 DEF LocksOnce
      <3>5. 1..starter[j].at-1 = {}
        BY <3>3
      <3>6. starter[j].level = 0 /\ starter[j].found = {}
        BY <2>1, <2>5, <3>5 DEF VersionInv, ThereInv, Passed
      <3>7. starter'[j] = starter[j] /\ At(j)'.of = 0 /\ 0 <= level'
        BY <1>1, <1>2, <1>3, <1>5, <2>5, <3>2, <3>3, <3>4 DEF At, TrueFor
      <3> QED BY <3>5, <3>6, <3>7 DEF VersionInv, ThereInv, Passed
    <2> QED BY <2>2, <2>3, <2>4, <2>5
  <1>9. \A j \in Starters : HolderInv(j)'
    BY AbortKeepsHolder
  <1> QED BY <1>1, <1>5, <1>6, <1>7, <1>8, <1>9 DEF TrueInv

LEMMA FaultKeepsMigrations ==
  ASSUME MigrationInv, NEW i \in Starters, StatementFails(i) \/ Crash(i)
  PROVE  MigrationInv'
  <1>1. /\ Abort(i) /\ starter[i].status = "running" /\ crashes \in Nat
        /\ database' = database /\ inserted' = inserted
    BY DEF StatementFails, Crash, Abort, MigrationInv, MigrationTyped
  <1>2. crashes' \in Nat /\ ~ Calm'
    <2>1. CASE StatementFails(i)
      <3>1. Refused(At(i)) /\ crashes' = crashes
        BY <2>1 DEF StatementFails
      <3>2. ~ Calm
        BY <1>1, <3>1, NothingIsRefused
      <3> QED BY <1>1, <3>1, <3>2 DEF Calm
    <2>2. CASE Crash(i)
      BY <1>1, <2>2 DEF Crash, Calm
    <2> QED BY <2>1, <2>2
  <1> QED BY <1>1, <1>2, AbortKeepsMigrations DEF MigrationInv, CalmInv

\* A sidecar that starts has passed nothing.
LEMMA StartKeepsMigrations ==
  ASSUME MigrationInv, NEW i \in Starters, NEW status \in {"stopped", "failed"},
         Start(i, status)
  PROVE  MigrationInv'
  <1> DEFINE p == Programs[database]
  <1>1. /\ starter[i].status = status /\ starter' = [starter EXCEPT ![i] = Fresh]
        /\ database' = database /\ schema' = schema /\ level' = level /\ rows' = rows
        /\ migrating' = migrating /\ undo' = undo /\ crashes' = crashes
        /\ inserted' = inserted
    BY DEF Start
  <1>2. /\ MigrationTyped /\ TrueInv /\ CalmInv /\ starter \in [Starters -> Position]
        /\ \A j \in Starters : HolderInv(j) /\ VersionInv(j) /\ ThereInv(j)
    BY DEF MigrationInv, MigrationTyped
  <1>3. /\ Fresh \in Position /\ Fresh.status = "running" /\ Fresh.at = 1 /\ Fresh.level = 0
        /\ Fresh.found = {}
    BY DEF Fresh, Position, Statuses
  <1>4. /\ starter' \in [Starters -> Position] /\ starter'[i] = Fresh
        /\ \A j \in Starters \ {i} : starter'[j] = starter[j]
    BY <1>1, <1>2, <1>3
  <1>5. /\ 1 \in 1..Len(p) /\ DOMAIN p = 1..Len(p) /\ level \in Nat /\ Len(p) \in Nat
        /\ database \in Databases
    BY <1>2, AtTyped
  <1>6. p[1].of = 0 /\ p[1].do # "not_null"
    <2>1. Plain(p) \/ (LocksOnce(p) /\ Versioned(p))
      BY <1>5, ProgramOfDatabase
    <2> HIDE DEF p
    <2>2. CASE Plain(p)
      BY <1>5, <2>2 DEF Plain
    <2>3. CASE LocksOnce(p) /\ Versioned(p)
      <3>1. p[1].do # "not_null"
        BY <1>5, <2>3 DEF Versioned
      <3>2. 1..1-1 = {}
        OBVIOUS
      <3>3. p[1].of # 0 => \E j \in 1..1-1 : p[j].do = "read"
        BY <1>5, <2>3 DEF LocksOnce
      <3> QED BY <3>1, <3>2, <3>3
    <2> QED BY <2>1, <2>2, <2>3
  <1>7. At(i)' = p[1] /\ 1..starter'[i].at-1 = {}
    BY <1>1, <1>3, <1>4 DEF At
  <1>8. MigrationTyped'
    <2>1. ASSUME NEW j \in Starters PROVE starter'[j].at \in DOMAIN p
      BY <1>2, <1>3, <1>4, <1>5 DEF MigrationTyped
    <2>2. Versions' = Versions
      BY <1>1 DEF Versions
    <2> QED BY <1>1, <1>2, <1>4, <2>1, <2>2 DEF MigrationTyped
  <1>9. TrueInv'
    <2>1. ASSUME NEW j \in Starters, starter'[j].status = "done"
          PROVE  starter[j].status = "done"
      BY <1>3, <1>4, <2>1
    <2>2. Versions' = Versions
      BY <1>1 DEF Versions
    <2> QED BY <1>1, <1>2, <2>1, <2>2 DEF TrueInv, TrueFor
  <1>10. migrating # i
    BY <1>1, <1>2 DEF HolderInv
  <1>11. CalmInv'
    <2> SUFFICES ASSUME Calm' PROVE CalmInv'
      BY DEF CalmInv, Calm
    <2>1. Calm
      BY <1>1 DEF Calm
    <2>2. \A j \in Starters : starter'[j].status # "failed"
      BY <1>2, <1>3, <1>4, <2>1 DEF CalmInv, Calm
    <2>3. NullRows' = NullRows
      BY <1>1 DEF NullRows
    <2>4. ASSUME NEW j \in Starters, starter'[j].status = "running", At(j)'.do = "not_null"
          PROVE  NullRows' = {}
      <3>1. j # i
        BY <1>6, <1>7, <2>4
      <3>2. starter'[j] = starter[j] /\ At(j)' = At(j)
        BY <1>1, <1>4, <3>1 DEF At
      <3> QED BY <1>2, <2>1, <2>3, <2>4, <3>2 DEF CalmInv, Calm
    <2>5. ASSUME NEW k \in DOMAIN p PROVE Uncreated(k)'
      <3>1. Uncreated(k)
        BY <1>2, <2>1 DEF CalmInv, Calm, Uncreated
      <3>2. \A j \in Starters : migrating = j => starter'[j] = starter[j]
        BY <1>4, <1>10
      <3> QED BY <1>1, <3>1, <3>2 DEF Uncreated
    <2>6. DOMAIN rows' \subseteq {1}
      BY <1>1, <1>2, <2>1 DEF CalmInv, Calm
    <2> QED BY <1>1, <2>2, <2>4, <2>5, <2>6 DEF CalmInv, Uncreated
  <1>12. ASSUME NEW j \in Starters PROVE HolderInv(j)' /\ VersionInv(j)' /\ ThereInv(j)'
    <2>1. CASE j = i
      <3>1. \A kinds : ~ Passed(i, kinds)'
        BY <1>7 DEF Passed
      <3>2. HolderInv(i)'
        BY <1>1, <1>10, <3>1 DEF HolderInv
      <3>3. VersionInv(i)'
        BY <1>1, <1>3, <1>4, <1>5, <1>6, <1>7, <3>1 DEF VersionInv
      <3>4. ThereInv(i)'
        BY <1>3, <1>4, <1>7 DEF ThereInv
      <3> QED BY <2>1, <3>2, <3>3, <3>4
    <2>2. CASE j # i
      <3>1. starter'[j] = starter[j] /\ At(j)' = At(j)
        BY <1>1, <1>4, <2>2 DEF At
      <3>2. HolderInv(j)' /\ VersionInv(j)'
        BY <1>1, <1>2, <3>1, OthersStayPassed DEF HolderInv, VersionInv
      <3>3. ThereInv(j)'
        BY <1>1, <1>2, <3>1, OthersStayThere
      <3> QED BY <3>2, <3>3
    <2> QED BY <2>1, <2>2
  <1> QED BY <1>8, <1>9, <1>11, <1>12 DEF MigrationInv

LEMMA InsertKeepsMigrations ==
  ASSUME MigrationInv, InsertRow
  PROVE  MigrationInv'
  <1>1. UNCHANGED <<database, schema, level, migrating, undo, starter, crashes>> /\ inserted'
    BY DEF InsertRow
  <1>2. ~ Calm'
    BY <1>1 DEF Calm
  <1>3. MigrationTyped' /\ TrueInv'
    BY <1>1 DEF MigrationInv, MigrationTyped, TrueInv, TrueFor, Versions
  <1>4. ASSUME NEW j \in Starters PROVE HolderInv(j)' /\ VersionInv(j)' /\ ThereInv(j)'
    BY <1>1 DEF MigrationInv, HolderInv, VersionInv, ThereInv, Passed, At
  <1> QED BY <1>2, <1>3, <1>4 DEF MigrationInv, CalmInv

LEMMA MigrationInvInit == MigrationInit => MigrationInv
  <1> SUFFICES ASSUME MigrationInit PROVE MigrationInv
    OBVIOUS
  <1> DEFINE p == Programs[database]
             st == [Fresh EXCEPT !.status = "stopped"]
  <1>1. /\ database \in Databases /\ migrating = Nobody /\ crashes = 0
        /\ starter = [i \in Starters |-> st]
        /\ rows \in {<<>>} \cup (IF "table" \in schema THEN {<<NULL>>} ELSE {})
    BY DEF MigrationInit
  <1>2. PICK e \in Earlier(database) : schema = e.schema /\ level = e.level
    BY DEF MigrationInit
  <1>3. st \in Position /\ st.status = "stopped" /\ st.at = 1
    BY DEF Fresh, Position, Statuses
  <1>4. \A i \in Starters : starter[i] = st /\ i # Nobody
    BY <1>1, StartersAssumption
  <1>5. /\ Len(p) \in Nat /\ Len(p) > 0 /\ DOMAIN p = 1..Len(p) /\ Sound(p)
        /\ MigrationsOf[database] \in Nat /\ \A k \in 1..Len(p) : p[k].of \in Nat
    <2>1. Sound(p) /\ MigrationsOf[database] \in Nat
      BY <1>1, ProgramOfDatabase, HighestVersion
    <2> HIDE DEF p
    <2> QED BY <2>1, ProgramTyped
  <1>6. /\ level \in Versions /\ (level > 0 => schema = ObjectsOf[database][level])
        /\ database \notin ChecksThenCreates /\ level = 0 => schema = {}
    <2>1. CASE e = [schema |-> {}, level |-> 0]
      BY <1>2, <1>5, <2>1 DEF Versions
    <2>2. CASE \E i \in 1..MigrationsOf[database] :
                 e = [schema |-> ObjectsOf[database][i], level |-> i]
      BY <1>2, <1>5, <2>2 DEF Versions
    <2>3. CASE /\ database \in {"mysql", "cockroachdb", "sqlserver"}
               /\ e = [schema |-> {"database", "schema", "table"}, level |-> 0]
      BY <1>2, <1>5, <2>3 DEF Versions, ChecksThenCreates
    <2> QED BY <2>1, <2>2, <2>3 DEF Earlier
  <1>7. MigrationTyped
    <2>1. starter \in [Starters -> Position]
      <3> HIDE DEF st
      <3> QED BY <1>1, <1>3
    <2>2. 1 \in DOMAIN p
      BY <1>5
    <2>3. \A i \in Starters : starter[i].at \in DOMAIN p
      <3> HIDE DEF st, p
      <3> QED BY <1>3, <1>4, <2>2
    <2> QED BY <1>1, <1>6, <2>1, <2>3 DEF MigrationTyped
  <1>8. TrueInv
    BY <1>1, <1>3, <1>4, <1>6 DEF TrueInv, TrueFor
  <1>9. \A i \in Starters : HolderInv(i) /\ VersionInv(i) /\ ThereInv(i)
    BY <1>1, <1>3, <1>4 DEF HolderInv, VersionInv, ThereInv
  <1>10. CalmInv
    <2> SUFFICES ASSUME Calm PROVE CalmInv
      BY DEF CalmInv
    <2>1. DOMAIN rows \subseteq {1}
      BY <1>1
    <2>2. ASSUME NEW k \in DOMAIN p, p[k].do # "check", p[k].of > level,
                 NEW o \in p[k].objects, o \in schema
          PROVE  FALSE
      <3>1. level # 0 /\ level \in Nat /\ level \in 0..MigrationsOf[database]
        BY <1>5, <1>6, <2>2 DEF Calm, Versions
      <3>2. o \in ObjectsOf[database][level]
        BY <1>6, <2>2, <3>1
      <3>3. PICK j \in DOMAIN p : /\ p[j].do # "check" /\ p[j].of <= level
                                  /\ o \in p[j].objects
        BY <1>1, <3>1, <3>2, ObjectsOfVersion
      <3>4. Versioned(p)
        BY <1>1, ProgramOfDatabase DEF Calm
      <3>5. k < j \/ j < k
        BY <1>5, <2>2, <3>1, <3>3
      <3> HIDE DEF p
      <3> QED BY <1>5, <2>2, <3>3, <3>4, <3>5 DEF Versioned
    <2>3. \A k \in DOMAIN p : p[k].do # "check" /\ p[k].of > level
                                => p[k].objects \cap schema = {}
      BY <2>2
    <2> QED BY <1>3, <1>4, <2>1, <2>3 DEF CalmInv
  <1> QED BY <1>7, <1>8, <1>9, <1>10 DEF MigrationInv

LEMMA MigrationInvNext ==
  ASSUME MigrationInv, [MigrationNext]_migrationVars
  PROVE  MigrationInv'
  <1>1. CASE MigrationNext
    <2>1. ASSUME NEW i \in Starters, Run(i) PROVE MigrationInv'
      BY <2>1, RunKeepsMigrations
    <2>2. ASSUME NEW i \in Starters, StatementFails(i) \/ Crash(i) PROVE MigrationInv'
      BY <2>2, FaultKeepsMigrations
    <2>3. ASSUME NEW i \in Starters, Start(i, "stopped") \/ Start(i, "failed")
          PROVE  MigrationInv'
      BY <2>3, StartKeepsMigrations
    <2>4. CASE InsertRow
      BY <2>4, InsertKeepsMigrations
    <2> QED BY <1>1, <2>1, <2>2, <2>3, <2>4 DEF MigrationNext
  <1>2. CASE UNCHANGED migrationVars
    <2>1. UNCHANGED <<database, schema, level, rows, migrating, undo, starter, crashes,
                      inserted>>
      BY <1>2 DEF migrationVars
    <2>2. MigrationTyped' /\ TrueInv'
      BY <2>1 DEF MigrationInv, MigrationTyped, TrueInv, TrueFor, Versions
    <2>3. ASSUME NEW j \in Starters PROVE HolderInv(j)' /\ VersionInv(j)' /\ ThereInv(j)'
      BY <2>1 DEF MigrationInv, HolderInv, VersionInv, ThereInv, Passed, At
    <2>4. CalmInv'
      BY <2>1 DEF MigrationInv, CalmInv, Calm, At, NullRows
    <2> QED BY <2>2, <2>3, <2>4 DEF MigrationInv
  <1> QED BY <1>1, <1>2

\* A statement of a migration is executed with the lock, above the level.
LEMMA MigrationsAreAbove ==
  ASSUME MigrationInv, NEW i \in Starters, starter[i].status = "running", At(i).of # 0
  PROVE  At(i).of > level /\ migrating = i
  <1> DEFINE p == Programs[database]
  <1>1. /\ MigrationTyped /\ VersionInv(i) /\ HolderInv(i)
    BY DEF MigrationInv
  <1>2. /\ starter[i].at \in 1..Len(p) /\ Len(p) \in Nat /\ At(i) = p[starter[i].at]
        /\ At(i).of \in Nat /\ level \in Nat /\ database \in Databases
    BY <1>1, AtTyped
  <1>3. LocksOnce(p)
    BY <1>2, ProgramOfDatabase DEF Plain
  <1>4. starter[i].at \in 1..starter[i].at
    BY <1>2
  <1>5. migrating = i
    BY <1>1, <1>2, <1>3, <1>4, HoldsLock
  <1> QED BY <1>1, <1>2, <1>5 DEF VersionInv

\* However many sidecars bring the schema up to date at the same time, and wherever
\* they crash: a migration that has been completed is not executed again, it is executed
\* with the lock, the level is true, and without a fault nobody is disturbed.
THEOREM MigrationsOnce == ServicesSpec => MigrationsRunOnce
  <1>1. ServicesInit => MigrationInv
    BY MigrationInvInit DEF ServicesInit
  <1>2. [ServicesNext]_servicesVars => [MigrationNext]_migrationVars
    BY DEF ServicesNext, servicesVars
  <1>3. MigrationInv /\ [MigrationNext]_migrationVars => MigrationInv'
    BY MigrationInvNext
  <1>4. MigrationInv => LevelIsTrue
    BY DEF MigrationInv, TrueInv, TrueFor, LevelIsTrue
  <1>5. MigrationInv => InitsDoNotCollide
    BY DEF MigrationInv, CalmInv, Calm, InitsDoNotCollide
  <1>6. MigrationInv /\ [MigrationNext]_migrationVars =>
          [\A i \in Starters :
             LET s == At(i)
             IN  starter[i].status = "running" /\ starter'[i].at > starter[i].at /\ s.of # 0
                 => s.of > level /\ migrating = i]_migrationVars
    BY MigrationsAreAbove
  <1> QED BY <1>1, <1>2, <1>3, <1>4, <1>5, <1>6, PTL DEF ServicesSpec, MigrationsRunOnce
=============================================================================
