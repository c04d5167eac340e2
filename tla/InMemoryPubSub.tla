---------------------------- MODULE InMemoryPubSub ----------------------------
(***************************************************************************)
(* pubsub/in-memory/in-memory.go on top of common/eventbus/event_bus.go.   *)
(*                                                                         *)
(* The bus keeps, per subscribed topic (which may end in a wildcard), the  *)
(* list of its handlers, under bus.lock.  Every handler of the component   *)
(* is asynchronous and transactional: Publish, before it starts the        *)
(* goroutine that calls the handler, releases bus.lock, takes the          *)
(* handler's own lock and takes bus.lock again; the goroutine releases the *)
(* handler's lock when the handler has returned.  What happens between two *)
(* such points is one action, so bus.lock needs no variable.               *)
(*                                                                         *)
(* An operator D_Slip before a definition D is D with a plausible slip,    *)
(* kept to show that some property fails with it.                          *)
(***************************************************************************)
EXTENDS Naturals, Sequences, FiniteSets, SequencesExt

CONSTANTS
  Publishers,   \* goroutines that call Publish
  Subs,         \* calls of Subscribe
  Topics,       \* topics published to
  Patterns,     \* topics subscribed to
  PatternOf,    \* PatternOf[s]: the topic of Subscribe call s
  Matches,      \* Matches[p]: the topics pattern p matches
  MaxPublish,   \* bound: MaxPublish[p] messages of publisher p
  NoTopic

ASSUME ConstantsAssumption ==
  /\ PatternOf \in [Subs -> Patterns]
  /\ Matches \in [Patterns -> SUBSET Topics]
  /\ MaxPublish \in [Publishers -> Nat]
  /\ NoTopic \notin Topics
  /\ IsFiniteSet(Patterns)

VARIABLES
  handlers,  \* bus.handlers
  hlock,     \* hlock[s]: is the mutex of s's eventHandler locked
  pub,       \* pub[p]: the Publish call of p
  spawned,   \* spawned[s]: messages whose goroutine has not called s's handler yet
  calling,   \* calling[s]: messages s's handler is running with
  sub,       \* sub[s]: "new", "joining" (past the check of a.closed), "live",
             \* "leaving" (context done or closed), "gone"
  closed,    \* a.closed and closeCh
  closing,   \* is a Close waiting for the subscriptions' goroutines (a.wg)
  \* history
  got,       \* got[s]: the messages s's handler was called with, in order
  owed       \* owed[p]: the subscriptions live when p's Publish copied the handlers
             \* and not served by it yet

vars == <<handlers, hlock, pub, spawned, calling, sub, closed, closing, got, owed>>

Message == [from : Publishers, seq : Nat, topic : Topics]

\* A Publish call: the message, and the handlers it has still to serve.
NoPublish(n) == [pc |-> "idle", seq |-> n, topic |-> NoTopic, rest |-> << >>]

Msg(p) == [from |-> p, seq |-> pub[p].seq, topic |-> pub[p].topic]

-----------------------------------------------------------------------------
(* Subscribe and Unsubscribe.                                              *)

SubscribeChecks(s) ==
  /\ ~closed
  /\ sub[s] = "new"
  /\ sub' = [sub EXCEPT ![s] = "joining"]
  /\ UNCHANGED <<handlers, hlock, pub, spawned, calling, closed, closing, got, owed>>

\* SubscribeAsync; the goroutine started last waits for the context or closeCh, and
\* if Close came in between, goes on at once.
SubscribeRegisters(s) ==
  /\ sub[s] = "joining"
  /\ handlers' = [handlers EXCEPT ![PatternOf[s]] = Append(@, s)]
  /\ sub' = [sub EXCEPT ![s] = IF closed THEN "leaving" ELSE "live"]
  /\ UNCHANGED <<hlock, pub, spawned, calling, closed, closing, got, owed>>

\* The subscription's context is done.
Cancel(s) ==
  /\ sub[s] = "live"
  /\ sub' = [sub EXCEPT ![s] = "leaving"]
  /\ UNCHANGED <<handlers, hlock, pub, spawned, calling, closed, closing, got, owed>>

\* findHandlerIdx compares code pointers, and all handlers the component registers
\* are closures of one function literal: it always finds the first.
findHandlerIdx(topic, s) == 1

removeHandler(topic, i) ==
  [handlers EXCEPT ![topic] = IF i \in DOMAIN @ THEN RemoveAt(@, i) ELSE @]

Unsubscribe(s) ==
  /\ sub[s] = "leaving"
  /\ handlers' = removeHandler(PatternOf[s], findHandlerIdx(PatternOf[s], s))
  /\ sub' = [sub EXCEPT ![s] = "gone"]
  /\ UNCHANGED <<hlock, pub, spawned, calling, closed, closing, got, owed>>

-----------------------------------------------------------------------------
(* Publish.                                                                *)

\* The places of the lists whose pattern matches: pattern and index.
MatchingPlaces(topic) ==
  UNION {{k} \X DOMAIN handlers[k] : k \in {k \in Patterns : topic \in Matches[k]}}

\* The lists of the matching patterns one after the other, each in one piece, in any
\* order in which Go ranges over the map.
getCallbacks(topic) ==
  {[i \in DOMAIN order |-> handlers[order[i][1]][order[i][2]]] :
     order \in {o \in SetToSeqs(MatchingPlaces(topic)) :
                  \A i, j \in DOMAIN o :
                    i < j /\ o[i][1] = o[j][1] => o[j][2] = o[i][2] + (j - i)}}

PublishChecks(p, topic) ==
  /\ ~closed
  /\ pub[p].pc = "idle"
  /\ pub[p].seq < MaxPublish[p]
  /\ pub' = [pub EXCEPT ![p] =
               [pc |-> "copy", seq |-> @.seq + 1, topic |-> topic, rest |-> << >>]]
  /\ UNCHANGED <<handlers, hlock, spawned, calling, sub, closed, closing, got, owed>>

\* The handlers are copied; with none, Publish is over.
PublishCopies(p) ==
  /\ pub[p].pc = "copy"
  /\ \E callbacks \in getCallbacks(pub[p].topic) :
       pub' = [pub EXCEPT ![p] =
                 IF callbacks = << >> THEN NoPublish(@.seq)
                 ELSE [@ EXCEPT !.pc = "lock", !.rest = callbacks]]
  /\ owed' = [owed EXCEPT ![p] = {s \in Subs : /\ sub[s] = "live"
                                               /\ pub[p].topic \in Matches[PatternOf[s]]}]
  /\ UNCHANGED <<handlers, hlock, spawned, calling, sub, closed, closing, got>>

PublishLocksHandler_Not(p) ==
  /\ pub[p].pc = "lock"
  /\ pub' = [pub EXCEPT ![p].pc = "go"]
  /\ UNCHANGED <<handlers, hlock, spawned, calling, sub, closed, closing, got, owed>>

\* handler.Lock(), with bus.lock released.
PublishLocksHandler(p) ==
  LET s == Head(pub[p].rest) IN
  /\ pub[p].pc = "lock"
  /\ ~hlock[s]
  /\ hlock' = [hlock EXCEPT ![s] = TRUE]
  /\ pub' = [pub EXCEPT ![p].pc = "go"]
  /\ UNCHANGED <<handlers, spawned, calling, sub, closed, closing, got, owed>>

\* bus.lock again; the goroutine is started, and it is the next handler's turn.
PublishSpawns(p) ==
  LET s == Head(pub[p].rest) IN
  /\ pub[p].pc = "go"
  /\ spawned' = [spawned EXCEPT ![s] = @ \cup {Msg(p)}]
  /\ pub' = [pub EXCEPT ![p] =
               IF Len(@.rest) = 1 THEN NoPublish(@.seq)
               ELSE [@ EXCEPT !.pc = "lock", !.rest = Tail(pub[p].rest)]]
  /\ owed' = [owed EXCEPT ![p] = @ \ {s}]
  /\ UNCHANGED <<handlers, hlock, calling, sub, closed, closing, got>>

\* doPublishAsync calls the handler ...
HandlerCalled(s, m) ==
  /\ m \in spawned[s]
  /\ spawned' = [spawned EXCEPT ![s] = @ \ {m}]
  /\ calling' = [calling EXCEPT ![s] = @ \cup {m}]
  /\ got' = [got EXCEPT ![s] = Append(@, m)]
  /\ UNCHANGED <<handlers, hlock, pub, sub, closed, closing, owed>>

HandlerReturns_KeepsLock(s, m) ==
  /\ m \in calling[s]
  /\ calling' = [calling EXCEPT ![s] = @ \ {m}]
  /\ UNCHANGED <<handlers, hlock, pub, spawned, sub, closed, closing, got, owed>>

\* ... and releases its lock when it has returned.
HandlerReturns(s, m) ==
  /\ m \in calling[s]
  /\ calling' = [calling EXCEPT ![s] = @ \ {m}]
  /\ hlock' = [hlock EXCEPT ![s] = FALSE]
  /\ UNCHANGED <<handlers, pub, spawned, sub, closed, closing, got, owed>>

\* Close: every subscription's goroutine sees closeCh ...
Close ==
  /\ ~closed
  /\ closed' = TRUE
  /\ closing' = TRUE
  /\ sub' = [s \in Subs |-> IF sub[s] = "live" THEN "leaving" ELSE sub[s]]
  /\ UNCHANGED <<handlers, hlock, pub, spawned, calling, got, owed>>

\* ... and it waits for them, not for the goroutines that call handlers.
CloseReturns ==
  /\ closing
  /\ \A s \in Subs : sub[s] \notin {"live", "leaving"}
  /\ closing' = FALSE
  /\ UNCHANGED <<handlers, hlock, pub, spawned, calling, sub, closed, got, owed>>

-----------------------------------------------------------------------------
Init ==
  /\ handlers = [t \in Patterns |-> << >>]
  /\ hlock = [s \in Subs |-> FALSE]
  /\ pub = [p \in Publishers |-> NoPublish(0)]
  /\ spawned = [s \in Subs |-> {}]
  /\ calling = [s \in Subs |-> {}]
  /\ sub = [s \in Subs |-> "new"]
  /\ closed = FALSE
  /\ closing = FALSE
  /\ got = [s \in Subs |-> << >>]
  /\ owed = [p \in Publishers |-> {}]

Publish(p) == \/ \E topic \in Topics : PublishChecks(p, topic)
              \/ PublishCopies(p)
              \/ PublishLocksHandler(p)
              \/ PublishSpawns(p)

Subscribe(s) == SubscribeChecks(s) \/ SubscribeRegisters(s)

Handler(s) == \/ \E m \in spawned[s] : HandlerCalled(s, m)
              \/ \E m \in calling[s] : HandlerReturns(s, m)

Next == \/ \E s \in Subs : Subscribe(s) \/ Cancel(s) \/ Unsubscribe(s) \/ Handler(s)
        \/ \E p \in Publishers : Publish(p)
        \/ Close
        \/ CloseReturns

Spec == Init /\ [][Next]_vars

\* What has been begun goes on: goroutines run and handlers return.  New calls,
\* cancellation and Close need not come.
Progress == \/ \E s \in Subs : SubscribeRegisters(s) \/ Unsubscribe(s) \/ Handler(s)
            \/ \E p \in Publishers :
                 PublishCopies(p) \/ PublishLocksHandler(p) \/ PublishSpawns(p)
            \/ CloseReturns

Fairness == WF_vars(Progress)

FairSpec == Spec /\ Fairness

-----------------------------------------------------------------------------
(* Properties.                                                             *)

\* The values the variables can have.
TypeOK ==
  /\ handlers \in [Patterns -> Seq(Subs)]
  /\ hlock \in [Subs -> BOOLEAN]
  /\ pub \in [Publishers -> [pc : {"idle", "copy", "lock", "go"}, seq : Nat,
                             topic : Topics \cup {NoTopic}, rest : Seq(Subs)]]
  /\ \A p \in Publishers :
       /\ pub[p].seq <= MaxPublish[p]
       /\ pub[p].pc = "idle" <=> pub[p].topic = NoTopic
       /\ pub[p].pc \in {"lock", "go"} <=> pub[p].rest # << >>
  /\ spawned \in [Subs -> SUBSET Message] /\ calling \in [Subs -> SUBSET Message]
  /\ sub \in [Subs -> {"new", "joining", "live", "leaving", "gone"}]
  /\ closed \in BOOLEAN /\ closing \in BOOLEAN
  /\ got \in [Subs -> Seq(Message)]
  /\ owed \in [Publishers -> SUBSET Subs]

\* Transactional handlers run serially: the handler of a subscription is never
\* running twice at a time, however many Publish calls are under way.
HandlersRunSerially == \A s \in Subs : Cardinality(spawned[s] \cup calling[s]) <= 1

\* A subscription is called with the messages of one publisher in the order in
\* which they were published, although every call has a goroutine of its own.
PublisherOrderKept ==
  \A s \in Subs : \A i, j \in DOMAIN got[s] :
    i < j /\ got[s][i].from = got[s][j].from => got[s][i].seq < got[s][j].seq

\* A subscription whose context is not done is registered with the bus: only its
\* own Unsubscribe takes its handler out.
LiveSubscriberRegistered ==
  \A s \in Subs : sub[s] = "live" => s \in Range(handlers[PatternOf[s]])

\* When Publish returns, every subscription that was live when it looked, by its
\* topic or by a wildcard, has a goroutine for the message.
PublishServesEveryone == \A p \in Publishers : pub[p].pc = "idle" => owed[p] = {}

\* Publish returns, as long as handlers do.
PublishReturns == \A p \in Publishers : pub[p].pc # "idle" ~> pub[p].pc = "idle"

\* After Close the bus ends up without handlers, also those of subscriptions that
\* raced with Close, and Close returns.
CloseUnregisters ==
  closed ~> ~closing /\ \A s \in Subs : sub[s] \in {"new", "gone"}
                     /\ \A t \in Patterns : handlers[t] = << >>

\* What is published reaches every live subscriber, one call at a time and in the
\* order of each publisher.
EveryoneServedInOrder ==
  /\ HandlersRunSerially /\ PublisherOrderKept
  /\ LiveSubscriberRegistered /\ PublishServesEveryone

\* Publish and Close return, and leave nothing behind.
CallsReturn == PublishReturns /\ CloseUnregisters
=============================================================================
