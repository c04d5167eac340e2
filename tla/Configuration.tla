---------------------------- MODULE Configuration ----------------------------
(***************************************************************************)
(* The configuration stores: Redis, PostgreSQL, Azure App Configuration    *)
(* and Kubernetes ConfigMaps.  Subscribe starts a goroutine (or registers  *)
(* with the informer) that tells a handler of the settings that change,    *)
(* Unsubscribe and Close end it.                                           *)
(*                                                                         *)
(* The value of a setting is the number of the write it comes from, a      *)
(* removal included.  A subscription is for all settings; those of         *)
(* "appconfig_keys" name every one of them.  Whoever calls Unsubscribe has *)
(* no deadline.                                                            *)
(***************************************************************************)
EXTENDS Integers, Sequences, FiniteSets

CONSTANTS
  Providers,      \* the stores to choose from
  Settings,       \* keys
  Subscriptions,
  PoolSize,       \* connections of PostgreSQL's pool
  MaxChanges,     \* bound: writes
  MaxLosses       \* bound: failed reads and lost connections

ASSUME ConfigurationAssumption ==
  Providers \subseteq {"redis", "postgres", "appconfig", "appconfig_keys", "kubernetes"}

AppConfig == {"appconfig", "appconfig_keys"}

VARIABLES
  provider,     \* the store of this behaviour
  setting,      \* setting[k]: the value of k
  present,      \* the settings that are there
  changes,      \* writes so far
  sentinel,     \* the value of the sentinel key: the writes it announces
  subscription, \* the state of each subscription, see NotSubscribed
  unsubscribe,  \* Unsubscribe of each: "no", "waiting" for a connection, "returned"
  closing,      \* Close: "open", "waiting" for the goroutines, "closed"
  seen,         \* history: what the handler of each subscription has been told
  losses        \* the number of faults so far

configurationVars == <<provider, setting, present, changes, sentinel, subscription,
                       unsubscribe, closing, seen, losses>>

\* pc: what the goroutine is at.  registered: there is a cancel function, or an
\* entry in ActiveSubscriptions.  cancelled: its context is done.  queue: changes it
\* has still to be told of.  hand: the event it is working on.  etag: of the
\* sentinel.
NotSubscribed == [pc |-> "none", registered |-> FALSE, cancelled |-> FALSE,
                  queue |-> <<>>, hand |-> <<>>, etag |-> 0]

\* An event: the settings it is about, with their values.
Event(keys) == [k \in keys |-> setting[k]]

ConfigurationInit ==
  /\ provider \in Providers
  /\ setting = [k \in Settings |-> 0]
  /\ present = {} /\ changes = 0 /\ sentinel = 0 /\ losses = 0
  /\ subscription = [s \in Subscriptions |-> NotSubscribed]
  /\ unsubscribe = [s \in Subscriptions |-> "no"]
  /\ closing = "open"
  /\ seen = [s \in Subscriptions |-> setting]

(***************************************************************************)
(* The services.                                                           *)
(***************************************************************************)
\* Redis names the key that has changed, PostgreSQL and the informer the value as
\* well; App Configuration notifies nobody.
Notified(st, k, v) ==
  IF st.pc \in {"none", "starting", "ending", "ended"} \/ provider \in AppConfig THEN st
  ELSE [st EXCEPT !.queue = Append(@, [x \in {k} |-> v])]

\* A setting is written or removed, which Redis and PostgreSQL tell like a write.  The
\* sentinel key of App Configuration is written after the settings it announces.
Change(k) ==
  /\ changes < MaxChanges
  /\ changes' = changes + 1
  /\ setting' = [setting EXCEPT ![k] = changes']
  /\ \/ present' = present \cup {k}
     \/ /\ provider \notin {"redis", "postgres"}
        /\ k \in present /\ present' = present \ {k}
  /\ subscription' = [s \in Subscriptions |-> Notified(subscription[s], k, changes')]
  /\ UNCHANGED <<provider, sentinel, unsubscribe, closing, seen, losses>>

Announce ==
  /\ provider \in AppConfig
  /\ sentinel # changes
  /\ sentinel' = changes
  /\ UNCHANGED <<provider, setting, present, changes, subscription, unsubscribe, closing, seen,
                 losses>>

(***************************************************************************)
(* Subscribe.                                                              *)
(***************************************************************************)
\* Unsubscribe of the PostgreSQL store waits for a connection, and holds the locks
\* of the store and of ActiveSubscriptions.
ConfigLocked == \E s \in Subscriptions : unsubscribe[s] = "waiting"

\* Connections of the pool that subscriptions hold.
InUse == Cardinality({s \in Subscriptions :
                        subscription[s].pc \in {"listening", "handling", "calling"}})

Begun(pc) == [NotSubscribed EXCEPT !.pc = pc, !.registered = TRUE]

\* Redis does not look whether the store is closed.
RedisSubscribe(s) ==
  /\ subscription' = [subscription EXCEPT ![s] = Begun("starting")]
  /\ UNCHANGED seen

PostgresSubscribe(s) ==
  /\ closing = "open" /\ ~ConfigLocked
  /\ subscription' = [subscription EXCEPT ![s] = Begun("starting")]
  /\ UNCHANGED seen

AppConfigSubscribe(s) ==
  /\ closing = "open"
  /\ subscription' = [subscription EXCEPT ![s] = Begun("listening")]
  /\ UNCHANGED seen

\* AddEventHandler replays the settings there are, and there is nothing to tell of
\* the others; s.subscriptions gets its entry after that, see KubernetesRegister.
KubernetesSubscribe(s) ==
  /\ closing = "open"
  /\ subscription' = [subscription EXCEPT ![s] =
       [Begun("listening") EXCEPT !.registered = FALSE,
                                  !.queue = IF present = {} THEN <<>> ELSE <<Event(present)>>]]
  /\ seen' = [seen EXCEPT ![s] = [k \in Settings |-> IF k \in present THEN seen[s][k]
                                                    ELSE setting[k]]]

Subscribe(s) ==
  /\ subscription[s].pc = "none"
  /\ CASE provider = "redis"      -> RedisSubscribe(s)
       [] provider = "postgres"   -> PostgresSubscribe(s)
       [] provider \in AppConfig  -> AppConfigSubscribe(s)
       [] provider = "kubernetes" -> KubernetesSubscribe(s)
  /\ UNCHANGED <<provider, setting, present, changes, sentinel, unsubscribe, closing, losses>>

KubernetesRegister(s) ==
  /\ provider = "kubernetes"
  /\ subscription[s].pc # "none" /\ ~subscription[s].registered /\ unsubscribe[s] = "no"
  /\ ~subscription[s].cancelled
  /\ subscription' = [subscription EXCEPT ![s].registered = TRUE]
  /\ UNCHANGED <<provider, setting, present, changes, sentinel, unsubscribe, closing, seen,
                 losses>>

(***************************************************************************)
(* The goroutine of a subscription.                                        *)
(***************************************************************************)
Becomes(s, st) ==
  /\ subscription' = [subscription EXCEPT ![s] = st]
  /\ UNCHANGED <<provider, setting, present, changes, sentinel, unsubscribe, closing>>

\* SUBSCRIBE, or LISTEN on a connection of the pool.  What has changed before is
\* for the application to read.
Listen(s) ==
  /\ subscription[s].pc = "starting"
  /\ closing = "open"
  /\ provider = "postgres" => ~subscription[s].cancelled /\ InUse < PoolSize
  /\ Becomes(s, [subscription[s] EXCEPT !.pc = "listening"])
  /\ seen' = [seen EXCEPT ![s] = setting]
  /\ UNCHANGED losses

\* Slip: changes that have come together are taken for one.
Receive_Coalesced(s) ==
  LET st == subscription[s]
  IN  /\ provider \notin AppConfig
      /\ st.pc = "listening" /\ st.queue # <<>>
      /\ provider = "postgres" => ~st.cancelled
      /\ Becomes(s, [st EXCEPT !.pc = "handling", !.hand = Head(st.queue), !.queue = <<>>])
      /\ UNCHANGED <<seen, losses>>

\* The next notification.  A select may take it although the context is done; the
\* wait of PostgreSQL does not.
Receive(s) ==
  LET st == subscription[s]
  IN  /\ provider \notin AppConfig
      /\ st.pc = "listening" /\ st.queue # <<>>
      /\ provider = "postgres" => ~st.cancelled
      /\ Becomes(s, [st EXCEPT !.pc = "handling", !.hand = Head(st.queue), !.queue = Tail(@)])
      /\ UNCHANGED <<seen, losses>>

\* doSubscribe of App Configuration: the sentinel has changed, or is read for the
\* first time.
Poll(s) ==
  LET st == subscription[s]
  IN  /\ provider \in AppConfig
      /\ st.pc = "listening" /\ ~st.cancelled
      /\ st.etag # sentinel + 1
      /\ Becomes(s, [st EXCEPT !.pc = "handling", !.etag = sentinel + 1])
      /\ UNCHANGED <<seen, losses>>

Drop(st) == [st EXCEPT !.pc = "listening", !.hand = <<>>]

\* Get of App Configuration lists the settings there are, or reads those that are
\* named one by one and fails when one is not there; doSubscribe has noted the etag of
\* the sentinel by then.
ReadFails == provider = "appconfig_keys" /\ present # Settings

\* Slip: the values are read with a context of their own.
Prepare_OwnContext(s) ==
  LET st == subscription[s]
      keys == IF provider = "redis" THEN DOMAIN st.hand ELSE present
      go == [st EXCEPT !.pc = "calling"]
  IN  /\ st.pc = "handling"
      /\ CASE provider \in {"redis"} \cup AppConfig ->
                 Becomes(s, IF ReadFails THEN Drop(st) ELSE [go EXCEPT !.hand = Event(keys)])
           [] provider = "postgres" ->
                 ~ConfigLocked /\ Becomes(s, IF st.registered THEN go ELSE Drop(st))
           [] provider = "kubernetes" ->
                 Becomes(s, IF st.cancelled THEN Drop(st) ELSE go)
      /\ UNCHANGED <<seen, losses>>

\* handleSubscribedChange up to the call of the handler.  Redis and App
\* Configuration read the values now, with the context of the subscription;
\* PostgreSQL looks the subscription up; the informer's handler looks at the context.
Prepare(s) ==
  LET st == subscription[s]
      keys == IF provider = "redis" THEN DOMAIN st.hand ELSE present
      go == [st EXCEPT !.pc = "calling"]
  IN  /\ st.pc = "handling"
      /\ CASE provider \in {"redis"} \cup AppConfig ->
                 Becomes(s, IF st.cancelled \/ ReadFails THEN Drop(st)
                            ELSE [go EXCEPT !.hand = Event(keys)])
           [] provider = "postgres" ->
                 ~ConfigLocked /\ Becomes(s, IF st.registered THEN go ELSE Drop(st))
           [] provider = "kubernetes" ->
                 Becomes(s, IF st.cancelled THEN Drop(st) ELSE go)
      /\ UNCHANGED <<seen, losses>>

CallHandler(s) ==
  LET st == subscription[s]
  IN  /\ st.pc = "calling"
      /\ Becomes(s, Drop(st))
      /\ seen' = [seen EXCEPT ![s] = [k \in Settings |-> IF k \in DOMAIN st.hand THEN st.hand[k]
                                                        ELSE seen[s][k]]]
      /\ UNCHANGED losses

\* The goroutine finds its context done, or the informer has been stopped; that of
\* PostgreSQL gives its connection back before it removes its entry.
End(s) ==
  LET st == subscription[s]
  IN  /\ st.pc \in {"starting", "listening", "ending"}
      /\ \/ st.cancelled \/ st.pc = "ending"
         \/ provider = "kubernetes" /\ closing # "open"
      /\ IF provider = "postgres" /\ st.pc # "ending"
           THEN Becomes(s, [st EXCEPT !.pc = "ending", !.queue = <<>>])
           ELSE /\ provider = "postgres" => ~ConfigLocked
                /\ Becomes(s, [st EXCEPT !.pc = "ended", !.queue = <<>>,
                                         !.registered = @ /\ provider = "kubernetes"])
      /\ UNCHANGED <<seen, losses>>

\* A value cannot be read and the change is dropped, or notifications are lost with
\* the connection: Redis connects again, a subscription of PostgreSQL ends.
Loss(s) ==
  LET st == subscription[s]
  IN  /\ losses < MaxLosses
      /\ losses' = losses + 1
      /\ \/ provider \in {"redis"} \cup AppConfig /\ st.pc = "handling" /\ Becomes(s, Drop(st))
         \/ provider = "redis" /\ st.pc = "listening" /\ Becomes(s, [st EXCEPT !.queue = <<>>])
         \/ /\ provider = "postgres" /\ st.pc = "listening"
            /\ Becomes(s, [st EXCEPT !.pc = "ending", !.queue = <<>>])
      /\ UNCHANGED seen

(***************************************************************************)
(* Unsubscribe and Close.                                                  *)
(***************************************************************************)
\* The PostgreSQL store sends UNLISTEN, on some connection of the pool.
Unsubscribe(s) ==
  LET st == subscription[s]
  IN  /\ unsubscribe[s] = "no" /\ st.registered
      /\ provider = "postgres" => closing = "open" /\ ~ConfigLocked
      /\ subscription' = [subscription EXCEPT
           ![s] = [st EXCEPT !.cancelled = TRUE, !.registered = @ /\ provider = "postgres"]]
      /\ unsubscribe' = [unsubscribe EXCEPT
           ![s] = IF provider = "postgres" THEN "waiting" ELSE "returned"]
      /\ UNCHANGED <<provider, setting, present, changes, sentinel, closing, seen, losses>>

Unlisten(s) ==
  /\ unsubscribe[s] = "waiting"
  /\ InUse < PoolSize
  /\ unsubscribe' = [unsubscribe EXCEPT ![s] = "returned"]
  /\ UNCHANGED <<provider, setting, present, changes, sentinel, subscription, closing, seen,
                 losses>>

\* Every subscription there is a cancel function for is cancelled.
CloseStore ==
  /\ closing = "open" /\ ~ConfigLocked
  /\ closing' = "waiting"
  /\ subscription' = [s \in Subscriptions |->
       IF subscription[s].registered
         THEN [subscription[s] EXCEPT !.cancelled = TRUE,
                                      !.registered = @ /\ provider = "postgres"]
         ELSE subscription[s]]
  /\ UNCHANGED <<provider, setting, present, changes, sentinel, unsubscribe, seen, losses>>

\* The goroutines have ended.
CloseReturns ==
  /\ closing = "waiting"
  /\ \A s \in Subscriptions : subscription[s].pc \in {"none", "ended"}
  /\ closing' = "closed"
  /\ UNCHANGED <<provider, setting, present, changes, sentinel, subscription, unsubscribe, seen,
                 losses>>

Goroutine(s) ==
  KubernetesRegister(s) \/ Listen(s) \/ Receive(s) \/ Poll(s) \/ Prepare(s) \/ CallHandler(s)
    \/ End(s)

ConfigurationNext ==
  \/ \E k \in Settings : Change(k)
  \/ Announce
  \/ \E s \in Subscriptions :
       Subscribe(s) \/ Goroutine(s) \/ Loss(s) \/ Unsubscribe(s) \/ Unlisten(s)
  \/ CloseStore \/ CloseReturns

\* Goroutines run and handlers return; whoever changes settings of App Configuration
\* announces it; Unsubscribe and Close go on when they can.
ConfigurationFairness ==
  /\ WF_configurationVars(Announce)
  /\ WF_configurationVars(CloseReturns)
  /\ \A s \in Subscriptions : /\ WF_configurationVars(Goroutine(s))
                              /\ WF_configurationVars(Unlisten(s))
-------------------------------------------------------------------------------
(***************************************************************************)
(* Properties.                                                             *)
(***************************************************************************)
\* The goroutine listens and nobody has ended the subscription.
Subscribed(s) ==
  /\ subscription[s].pc \in {"listening", "handling", "calling"}
  /\ ~subscription[s].cancelled /\ closing = "open"

\* No subscriber is told of a value after it has been told of a later one, none
\* receives an event that is not in hand already once it has been cancelled, and
\* none any after Close has returned.
ToldInOrder ==
  [][\A s \in Subscriptions :
       /\ \A k \in Settings : seen'[s][k] >= seen[s][k]
       /\ subscription[s].cancelled /\ subscription'[s].pc = "calling"
            => subscription[s].pc = "calling" \/ provider = "postgres"
       /\ closing = "closed" => seen'[s] = seen[s]]_configurationVars

\* Redis: a Subscribe that comes while Close waits is never cancelled.
LateSubscriber ==
  provider = "redis" /\ closing # "open"
    /\ \E s \in Subscriptions : subscription[s].pc # "none" /\ ~subscription[s].cancelled

\* App Configuration tells nobody that a setting is removed, and nothing to who names
\* a setting that is not there.
Untold(k) ==
  provider \in AppConfig /\ (k \notin present \/ ReadFails)

\* PostgreSQL: Unsubscribe waits with both locks for a connection, and every one of
\* the pool belongs to a subscription that nobody has ended, or to one whose goroutine
\* waits for one of these locks.
PoolExhausted ==
  /\ provider = "postgres" /\ ConfigLocked
  /\ PoolSize <= Cardinality({s \in Subscriptions :
                                \/ subscription[s].pc = "listening" /\ ~subscription[s].cancelled
                                \/ subscription[s].pc = "handling"})

\* Every subscriber is told of the latest value of every setting in the end, except
\* for what App Configuration cannot tell, if no notification has been lost (the
\* stores do not look again after a loss: a read that fails, or a connection that is
\* lost, leaves the subscriber with the old value until the next change); and every
\* Unsubscribe and Close has returned in the end, also when handlers run and
\* notifications arrive meanwhile.  Nothing of this is so once the pool of PostgreSQL
\* is exhausted.
SubscribersServed ==
  <>[](\/ PoolExhausted
       \/ /\ losses = 0 => \A s \in Subscriptions :
              Subscribed(s) => \A k \in Settings : seen[s][k] = setting[k] \/ Untold(k)
          /\ \A s \in Subscriptions : unsubscribe[s] # "waiting"
          /\ closing = "waiting" => LateSubscriber)
===============================================================================
