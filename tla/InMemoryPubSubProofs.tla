------------------------- MODULE InMemoryPubSubProofs -------------------------
(***************************************************************************)
(* Theorems about InMemoryPubSub.                                          *)
(*                                                                         *)
(* A handler's lock is taken by one goroutine, the publisher, and released *)
(* by another, the one that called the handler.  LockInv says who is       *)
(* behind a lock that is held: at most one of a publisher about to start   *)
(* the goroutine, the goroutine, and the handler that runs.  SentInv and   *)
(* FreshInv follow a publisher's messages through these stages; they need  *)
(* that Publish meets no handler twice, which is what RestInv is for.      *)
(* ServedInv, about who is registered, holds only if no topic is           *)
(* subscribed to twice.                                                    *)
(***************************************************************************)
EXTENDS InMemoryPubSub, FiniteSetTheorems, SequenceTheorems, TLAPS

\* The types, in two parts: the Publish calls, and the rest.
PubRec == [pc : {"idle", "copy", "lock", "go"}, seq : Nat,
           topic : Topics \cup {NoTopic}, rest : Seq(Subs)]

PubSane(p) ==
  /\ pub[p].seq <= MaxPublish[p]
  /\ pub[p].pc = "idle" <=> pub[p].topic = NoTopic
  /\ pub[p].pc \in {"lock", "go"} <=> pub[p].rest # << >>

PubTyped == pub \in [Publishers -> PubRec] /\ \A p \in Publishers : PubSane(p)

BusTyped ==
  /\ handlers \in [Patterns -> Seq(Subs)]
  /\ hlock \in [Subs -> BOOLEAN]
  /\ spawned \in [Subs -> SUBSET Message] /\ calling \in [Subs -> SUBSET Message]
  /\ sub \in [Subs -> {"new", "joining", "live", "leaving", "gone"}]
  /\ closed \in BOOLEAN /\ closing \in BOOLEAN
  /\ got \in [Subs -> Seq(Message)]
  /\ owed \in [Publishers -> SUBSET Subs]

TypeInv == PubTyped /\ BusTyped

\* Every subscription is at most once in the bus, under its own pattern, and not
\* before it has registered.
ListInv ==
  \A t \in Patterns :
    /\ IsInjective(handlers[t])
    /\ \A i \in DOMAIN handlers[t] :
         PatternOf[handlers[t][i]] = t /\ sub[handlers[t][i]] \in {"live", "leaving", "gone"}

\* A Publish call serves no handler twice.
RestInv == \A p \in Publishers : IsInjective(pub[p].rest)

\* The publisher is about to start the goroutine for s: it has s's lock.
Holds(p, s) == pub[p].pc = "go" /\ Head(pub[p].rest) = s

LockInv ==
  \A s \in Subs :
    /\ \A m \in spawned[s] \cup calling[s] : hlock[s] /\ spawned[s] \cup calling[s] = {m}
    /\ spawned[s] \cap calling[s] = {}
    /\ \A p \in Publishers : Holds(p, s) =>
         /\ hlock[s] /\ spawned[s] \cup calling[s] = {}
         /\ \A q \in Publishers : Holds(q, s) => q = p

\* The Publish call c has still to come to s.
Ahead(c, s) == c.pc = "copy" \/ s \in Range(c.rest)

\* m is its publisher's latest message at most, and not that one if the publisher,
\* whose call is c, has still to come to s.
Sent(m, c, s) == m.seq <= c.seq /\ (Ahead(c, s) => m.seq < c.seq)

SentInv ==
  \A s \in Subs :
    /\ \A m \in spawned[s] : Sent(m, pub[m.from], s)
    /\ \A i \in DOMAIN got[s] : Sent(got[s][i], pub[got[s][i].from], s)

\* A message whose goroutine is about to call the handler is newer than all of its
\* publisher's that the handler has seen.
FreshInv ==
  \A s \in Subs : \A m \in spawned[s], i \in DOMAIN got[s] :
    got[s][i].from = m.from => got[s][i].seq < m.seq

IInv == TypeInv /\ ListInv /\ RestInv /\ LockInv /\ SentInv /\ FreshInv /\ PublisherOrderKept

\* No topic has two subscriptions.
OneSubPerPattern == \A s, r \in Subs : PatternOf[s] = PatternOf[r] => s = r

\* Then the list of a pattern is the subscription that is there, or empty.
AloneInv ==
  \A s \in Subs : sub[s] \in {"live", "leaving"} <=> handlers[PatternOf[s]] = <<s>>

\* What Publish owes is what it has still to come to.
OwedInv == \A p \in Publishers : owed[p] \subseteq Range(pub[p].rest)

ServedInv == AloneInv /\ OwedInv

-----------------------------------------------------------------------------
(* Lists of handlers.                                                      *)

\* One more handler at the end.
LEMMA AppendOnce ==
  ASSUME NEW S, NEW l \in Seq(S), NEW x \in S
  PROVE  /\ Append(l, x) \in Seq(S)
         /\ Range(Append(l, x)) = Range(l) \cup {x}
         /\ IsInjective(l) /\ x \notin Range(l) => IsInjective(Append(l, x))
<1>1. /\ Append(l, x) \in Seq(S)
      /\ DOMAIN Append(l, x) = 1 .. Len(l) + 1 /\ DOMAIN l = 1 .. Len(l) /\ Len(l) \in Nat
      /\ \A i \in 1 .. Len(l) : Append(l, x)[i] = l[i]
      /\ Append(l, x)[Len(l) + 1] = x
  OBVIOUS
<1>2. Range(Append(l, x)) = Range(l) \cup {x}
  BY <1>1 DEF Range
<1>3. ASSUME IsInjective(l), x \notin Range(l) PROVE IsInjective(Append(l, x))
  BY <1>1, <1>3 DEF IsInjective, Range
<1>4. QED
  BY <1>1, <1>2, <1>3

\* All handlers but the first.
LEMMA TailOnce ==
  ASSUME NEW S, NEW l \in Seq(S), l # << >>
  PROVE  /\ Head(l) \in S /\ Head(l) \in Range(l)
         /\ Tail(l) \in Seq(S)
         /\ Range(l) = {Head(l)} \cup Range(Tail(l))
         /\ IsInjective(l) => IsInjective(Tail(l)) /\ Head(l) \notin Range(Tail(l))
         /\ Tail(l) = << >> <=> Len(l) = 1
<1>1. /\ Tail(l) \in Seq(S) /\ Head(l) = l[1] /\ Head(l) \in S
      /\ Len(l) \in Nat /\ Len(l) >= 1 /\ DOMAIN l = 1 .. Len(l)
      /\ DOMAIN Tail(l) = 1 .. Len(l) - 1 /\ Len(Tail(l)) = Len(l) - 1
      /\ \A i \in 1 .. Len(l) - 1 : Tail(l)[i] = l[i + 1]
  OBVIOUS
<1>2. Range(l) = {Head(l)} \cup Range(Tail(l))
  <2>1. \A i \in 1 .. Len(l) : i = 1 \/ (i - 1 \in 1 .. Len(l) - 1 /\ Tail(l)[i - 1] = l[i])
    BY <1>1
  <2>2. \A i \in 1 .. Len(l) - 1 : i + 1 \in 1 .. Len(l)
    BY <1>1
  <2>3. 1 \in DOMAIN l
    BY <1>1
  <2>4. ASSUME NEW x \in Range(l) PROVE x = Head(l) \/ x \in Range(Tail(l))
    <3>1. PICK i \in 1 .. Len(l) : x = l[i]
      BY <1>1 DEF Range
    <3>2. CASE i = 1
      BY <1>1, <3>1, <3>2
    <3>3. CASE i # 1
      BY <1>1, <2>1, <3>1, <3>3 DEF Range
    <3>4. QED
      BY <3>2, <3>3
  <2>5. \A x \in Range(Tail(l)) : x \in Range(l)
    BY <1>1, <2>2 DEF Range
  <2>6. Head(l) \in Range(l)
    BY <1>1, <2>3 DEF Range
  <2>7. QED
    BY <2>4, <2>5, <2>6
<1>3. ASSUME IsInjective(l) PROVE IsInjective(Tail(l)) /\ Head(l) \notin Range(Tail(l))
  <2>1. \A i, j \in 1 .. Len(l) - 1 : l[i + 1] = l[j + 1] => i = j
    BY <1>1, <1>3 DEF IsInjective
  <2>2. \A i \in 1 .. Len(l) - 1 : l[i + 1] # l[1]
    BY <1>1, <1>3 DEF IsInjective
  <2>3. QED
    BY <1>1, <2>1, <2>2 DEF IsInjective, Range
<1>4. Tail(l) = << >> <=> Len(l) = 1
  <2>1. Tail(l) = << >> <=> Len(Tail(l)) = 0
    BY <1>1, EmptySeq
  <2>2. QED
    BY <1>1, <2>1
<1>5. QED
  BY <1>1, <1>2, <1>3, <1>4

\* What Unsubscribe makes of a list: it takes out the first handler.
LEMMA RemoveFirstIsTail ==
  ASSUME NEW S, NEW l \in Seq(S), l # << >>
  PROVE  RemoveAt(l, 1) = Tail(l)
<1>1. SubSeq(l, 1, 0) = << >>
  OBVIOUS
<1>2. SubSeq(l, 2, Len(l)) \in Seq(S) /\ SubSeq(l, 2, Len(l)) = Tail(l)
  OBVIOUS
<1>3. << >> \o SubSeq(l, 2, Len(l)) = SubSeq(l, 2, Len(l))
  BY <1>2
<1>4. QED
  BY <1>1, <1>2, <1>3 DEF RemoveAt

\* The places of the matching lists are finitely many, and an order of them leaves
\* none out.
LEMMA PlacesFinite ==
  ASSUME TypeInv, NEW topic
  PROVE  IsFiniteSet(MatchingPlaces(topic))
<1> DEFINE K == {k \in Patterns : topic \in Matches[k]}
           F == [k \in K |-> {k} \X DOMAIN handlers[k]]
           R == {{k} \X DOMAIN handlers[k] : k \in K}
<1>1. IsFiniteSet(K)
  BY ConstantsAssumption, FS_Subset
<1>2. F \in Surjection(K, R)
  BY DEF Surjection
<1>3. IsFiniteSet(R)
  <2> HIDE DEF K, F, R
  <2> QED
    BY <1>1, <1>2, FS_Surjection
<1>4. ASSUME NEW k \in K PROVE IsFiniteSet({k} \X DOMAIN handlers[k])
  <2>1. DOMAIN handlers[k] = 1 .. Len(handlers[k]) /\ Len(handlers[k]) \in Nat
    BY DEF TypeInv, BusTyped
  <2>2. IsFiniteSet(DOMAIN handlers[k])
    BY <2>1, FS_Interval
  <2>3. QED
    BY <2>2, FS_Singleton, FS_Product
<1>5. IsFiniteSet(UNION R)
  BY <1>3, <1>4, FS_UNION
<1>6. QED
  BY <1>5 DEF MatchingPlaces

LEMMA OrderComplete ==
  ASSUME NEW S, IsFiniteSet(S), NEW o \in SetToSeqs(S)
  PROVE  /\ Cardinality(S) \in Nat
         /\ o \in [1 .. Cardinality(S) -> S]
         /\ IsInjective(o)
         /\ \A x \in S : \E i \in 1 .. Cardinality(S) : o[i] = x
<1> DEFINE n == Cardinality(S)
<1>1. n \in Nat
  BY FS_CardinalityType
<1>2. o \in [1 .. n -> S] /\ \A i, j \in 1 .. n : i # j => o[i] # o[j]
  BY DEF SetToSeqs
<1>3. Cardinality(1 .. n) = n
  BY <1>1, FS_Interval
<1> HIDE DEF n
<1>4. o \in Injection(1 .. n, S)
  BY <1>2 DEF Injection, IsInjective
<1>5. o \in Surjection(1 .. n, S)
  BY <1>3, <1>4, FS_Injection DEF n
<1>6. QED
  BY <1>1, <1>2, <1>4, <1>5 DEF Injection, Surjection, IsInjective, n

\* The handlers Publish copies: all those whose pattern matches, each of them once.
LEMMA CallbacksServe ==
  ASSUME TypeInv, ListInv, NEW topic, NEW callbacks \in getCallbacks(topic)
  PROVE  /\ callbacks \in Seq(Subs)
         /\ IsInjective(callbacks)
         /\ \A k \in Patterns : topic \in Matches[k] =>
              \A i \in DOMAIN handlers[k] : handlers[k][i] \in Range(callbacks)
<1> DEFINE P == MatchingPlaces(topic)
           n == Cardinality(P)
<1>1. PICK o \in SetToSeqs(P) : callbacks = [i \in DOMAIN o |-> handlers[o[i][1]][o[i][2]]]
  BY DEF getCallbacks
<1>2. /\ n \in Nat /\ o \in [1 .. n -> P] /\ IsInjective(o)
      /\ \A x \in P : \E i \in 1 .. n : o[i] = x
  BY PlacesFinite, OrderComplete
<1>3. \A x \in P : /\ x[1] \in Patterns /\ x[2] \in DOMAIN handlers[x[1]]
                   /\ x = <<x[1], x[2]>>
  BY DEF MatchingPlaces
<1>4. \A k \in Patterns : topic \in Matches[k] => \A i \in DOMAIN handlers[k] : <<k, i>> \in P
  BY DEF MatchingPlaces
<1> HIDE DEF P, n
<1>5. callbacks = [i \in 1 .. n |-> handlers[o[i][1]][o[i][2]]]
  BY <1>1, <1>2
<1>6. \A k \in Patterns : handlers[k] \in Seq(Subs)
  BY DEF TypeInv, BusTyped
<1>7. \A i \in 1 .. n : callbacks[i] \in Subs
  BY <1>2, <1>3, <1>5, <1>6
<1>8. callbacks \in Seq(Subs)
  BY <1>2, <1>5, <1>7
<1>9. ASSUME NEW i \in 1 .. n, NEW j \in 1 .. n, callbacks[i] = callbacks[j] PROVE i = j
  <2>1. /\ o[i] \in P /\ o[j] \in P
        /\ handlers[o[i][1]][o[i][2]] = handlers[o[j][1]][o[j][2]]
    BY <1>2, <1>5, <1>9
  <2>2. o[i][1] = o[j][1]
    BY <1>3, <2>1 DEF ListInv
  <2>3. o[i][2] = o[j][2]
    BY <1>3, <2>1, <2>2 DEF ListInv, IsInjective
  <2>4. o[i] = o[j]
    BY <1>3, <2>1, <2>2, <2>3
  <2>5. QED
    BY <1>2, <2>4 DEF IsInjective
<1>10. IsInjective(callbacks)
  BY <1>5, <1>9 DEF IsInjective
<1>11. ASSUME NEW k \in Patterns, topic \in Matches[k], NEW j \in DOMAIN handlers[k]
       PROVE  handlers[k][j] \in Range(callbacks)
  <2>1. PICK i \in 1 .. n : o[i] = <<k, j>>
    BY <1>2, <1>4, <1>11
  <2>2. callbacks[i] = handlers[k][j] /\ i \in DOMAIN callbacks
    BY <1>5, <2>1
  <2>3. QED
    BY <2>2 DEF Range
<1>12. QED
  BY <1>8, <1>10, <1>11

-----------------------------------------------------------------------------
(* What a step does to the Publish calls: to that of one publisher only.   *)

\* The steps that do not concern Publish leave the calls alone.
LEMMA PubFrame ==
  ASSUME \/ \E s \in Subs : Subscribe(s) \/ Cancel(s) \/ Unsubscribe(s) \/ Handler(s)
         \/ Close \/ CloseReturns \/ UNCHANGED vars
  PROVE  pub' = pub /\ owed' = owed
  BY DEF Subscribe, SubscribeChecks, SubscribeRegisters, Cancel, Unsubscribe, Handler,
    HandlerCalled, HandlerReturns, Close, CloseReturns, vars

\* The call after a step of its publisher.
LEMMA ChecksEffect ==
  ASSUME PubTyped, NEW p \in Publishers, NEW topic \in Topics, PublishChecks(p, topic)
  PROVE  /\ pub' \in [Publishers -> PubRec] /\ \A q \in Publishers \ {p} : pub'[q] = pub[q]
         /\ pub'[p].pc = "copy" /\ pub'[p].seq = pub[p].seq + 1
         /\ pub'[p].topic = topic /\ pub'[p].rest = << >>
         /\ pub[p].pc = "idle" /\ pub[p].seq \in Nat
         /\ PubSane(p)'
<1>1. pub[p] \in PubRec /\ MaxPublish[p] \in Nat /\ topic # NoTopic
  BY ConstantsAssumption DEF PubTyped
<1>2. pub[p].seq \in Nat /\ pub[p].seq < MaxPublish[p] /\ pub[p].pc = "idle"
  BY <1>1 DEF PubRec, PublishChecks
<1>3. [pc |-> "copy", seq |-> pub[p].seq + 1, topic |-> topic, rest |-> << >>] \in PubRec
  BY <1>2 DEF PubRec
<1>4. pub' = [pub EXCEPT ![p] = [pc |-> "copy", seq |-> pub[p].seq + 1, topic |-> topic, rest |-> << >>]]
  BY DEF PublishChecks
<1>5. pub'[p] = [pc |-> "copy", seq |-> pub[p].seq + 1, topic |-> topic, rest |-> << >>]
  BY <1>4 DEF PubTyped
<1>6. /\ pub' \in [Publishers -> PubRec]
      /\ \A q \in Publishers \ {p} : pub'[q] = pub[q]
  BY <1>3, <1>4 DEF PubTyped
<1>7. PubSane(p)'
  BY <1>1, <1>2, <1>5 DEF PubSane
<1>8. QED
  BY <1>2, <1>5, <1>6, <1>7

\* Publish copies the handlers, and is over if there are none.
LEMMA CopiesEffect ==
  ASSUME TypeInv, ListInv, NEW p \in Publishers, PublishCopies(p)
  PROVE  /\ pub' \in [Publishers -> PubRec] /\ \A q \in Publishers \ {p} : pub'[q] = pub[q]
         /\ pub'[p].rest \in getCallbacks(pub[p].topic)
         /\ pub'[p].pc \in {"idle", "lock"} /\ pub'[p].seq = pub[p].seq
         /\ pub[p].pc = "copy" /\ PubSane(p)'
<1>0. PubTyped /\ pub[p] \in PubRec /\ PubSane(p) /\ pub[p].pc = "copy"
  BY DEF TypeInv, PubTyped, PublishCopies
<1>1. PICK callbacks \in getCallbacks(pub[p].topic) :
        pub' = [pub EXCEPT ![p] = IF callbacks = << >> THEN NoPublish(pub[p].seq)
                                  ELSE [pub[p] EXCEPT !.pc = "lock", !.rest = callbacks]]
  BY DEF PublishCopies
<1>2. callbacks \in Seq(Subs)
  BY CallbacksServe
<1>3. CASE callbacks = << >>
  <2>1. pub' = [pub EXCEPT ![p] = NoPublish(pub[p].seq)]
    BY <1>1, <1>3
  <2>2. NoPublish(pub[p].seq) \in PubRec
    BY <1>0 DEF NoPublish, PubRec
  <2>3. pub' \in [Publishers -> PubRec] /\ pub'[p] = NoPublish(pub[p].seq)
        /\ \A q \in Publishers \ {p} : pub'[q] = pub[q]
    BY <1>0, <2>1, <2>2 DEF PubTyped
  <2>4. QED
    BY <1>0, <1>1, <1>3, <2>3 DEF NoPublish, PubSane
<1>4. CASE callbacks # << >>
  <2> DEFINE new == [pub[p] EXCEPT !.pc = "lock", !.rest = callbacks]
  <2>1. pub' = [pub EXCEPT ![p] = new]
    BY <1>1, <1>4
  <2>2. /\ new \in PubRec
        /\ new.pc = "lock" /\ new.rest = callbacks
        /\ new.seq = pub[p].seq /\ new.topic = pub[p].topic
    BY <1>0, <1>2 DEF PubRec
  <2> HIDE DEF new
  <2>3. pub' \in [Publishers -> PubRec] /\ pub'[p] = new
        /\ \A q \in Publishers \ {p} : pub'[q] = pub[q]
    BY <1>0, <2>1, <2>2 DEF PubTyped
  <2>4. QED
    BY <1>0, <1>1, <1>4, <2>2, <2>3 DEF PubSane
<1>5. QED
  BY <1>3, <1>4

LEMMA LocksEffect ==
  ASSUME PubTyped, NEW p \in Publishers, PublishLocksHandler(p)
  PROVE  /\ pub' \in [Publishers -> PubRec] /\ \A q \in Publishers \ {p} : pub'[q] = pub[q]
         /\ pub'[p].pc = "go" /\ pub'[p].seq = pub[p].seq
         /\ pub'[p].topic = pub[p].topic /\ pub'[p].rest = pub[p].rest
         /\ pub[p].pc = "lock" /\ PubSane(p)'
<1>1. pub[p] \in PubRec /\ PubSane(p) /\ pub[p].pc = "lock"
  BY DEF PubTyped, PublishLocksHandler
<1>2. pub' = [pub EXCEPT ![p].pc = "go"]
  BY DEF PublishLocksHandler
<1>3. QED
  BY <1>1, <1>2 DEF PubTyped, PubRec, PubSane

\* The goroutine for the first handler is started, and the others remain.
LEMMA SpawnsEffect ==
  ASSUME PubTyped, NEW p \in Publishers, PublishSpawns(p)
  PROVE  /\ pub' \in [Publishers -> PubRec] /\ \A q \in Publishers \ {p} : pub'[q] = pub[q]
         /\ pub'[p].pc \in {"idle", "lock"} /\ pub'[p].seq = pub[p].seq
         /\ pub'[p].rest = Tail(pub[p].rest) /\ pub[p].rest # << >>
         /\ pub[p].pc = "go" /\ PubSane(p)'
<1>1. pub[p] \in PubRec /\ PubSane(p) /\ pub[p].pc = "go"
  BY DEF PubTyped, PublishSpawns
<1>2. pub[p].rest \in Seq(Subs) /\ pub[p].rest # << >>
  BY <1>1 DEF PubRec, PubSane
<1>3. Tail(pub[p].rest) \in Seq(Subs) /\ (Tail(pub[p].rest) = << >> <=> Len(pub[p].rest) = 1)
  BY <1>2, TailOnce
<1>4. pub' = [pub EXCEPT ![p] = IF Len(pub[p].rest) = 1 THEN NoPublish(pub[p].seq)
                                ELSE [pub[p] EXCEPT !.pc = "lock", !.rest = Tail(pub[p].rest)]]
  BY DEF PublishSpawns
<1>5. CASE Len(pub[p].rest) = 1
  <2>1. pub' = [pub EXCEPT ![p] = NoPublish(pub[p].seq)]
    BY <1>4, <1>5
  <2>2. NoPublish(pub[p].seq) \in PubRec
    BY <1>1 DEF NoPublish, PubRec
  <2>3. pub' \in [Publishers -> PubRec] /\ pub'[p] = NoPublish(pub[p].seq)
        /\ \A q \in Publishers \ {p} : pub'[q] = pub[q]
    BY <2>1, <2>2 DEF PubTyped
  <2>4. QED
    BY <1>1, <1>2, <1>3, <1>5, <2>3 DEF NoPublish, PubSane
<1>6. CASE Len(pub[p].rest) # 1
  <2> DEFINE new == [pub[p] EXCEPT !.pc = "lock", !.rest = Tail(pub[p].rest)]
  <2>1. pub' = [pub EXCEPT ![p] = new]
    BY <1>4, <1>6
  <2>2. /\ new \in PubRec
        /\ new.pc = "lock" /\ new.rest = Tail(pub[p].rest)
        /\ new.seq = pub[p].seq /\ new.topic = pub[p].topic
    BY <1>1, <1>3 DEF PubRec
  <2> HIDE DEF new
  <2>3. pub' \in [Publishers -> PubRec] /\ pub'[p] = new
        /\ \A q \in Publishers \ {p} : pub'[q] = pub[q]
    BY <2>1, <2>2 DEF PubTyped
  <2>4. QED
    BY <1>1, <1>2, <1>3, <1>6, <2>2, <2>3 DEF PubSane
<1>7. QED
  BY <1>5, <1>6

-----------------------------------------------------------------------------
(* The types.                                                              *)

LEMMA PubStep ==
  ASSUME TypeInv, ListInv, [Next]_vars
  PROVE  PubTyped'
<1>0. PubTyped
  BY DEF TypeInv
<1>1. ASSUME NEW p \in Publishers, Publish(p) PROVE PubTyped'
  <2>1. /\ pub' \in [Publishers -> PubRec]
        /\ \A q \in Publishers \ {p} : pub'[q] = pub[q]
        /\ PubSane(p)'
    BY <1>0, <1>1, ChecksEffect, CopiesEffect, LocksEffect, SpawnsEffect DEF Publish
  <2>2. \A q \in Publishers \ {p} : PubSane(q)'
    BY <1>0, <2>1 DEF PubTyped, PubSane
  <2>3. QED
    BY <2>1, <2>2 DEF PubTyped
<1>2. CASE pub' = pub
  BY <1>0, <1>2 DEF PubTyped, PubSane
<1>3. QED
  BY <1>1, <1>2, PubFrame DEF Next

\* The message of a Publish call that is under way.
LEMMA MsgTyped ==
  ASSUME PubTyped, NEW p \in Publishers, pub[p].pc # "idle"
  PROVE  Msg(p) \in Message /\ Msg(p).from = p /\ Msg(p).seq = pub[p].seq
  BY DEF PubTyped, PubSane, PubRec, Msg, Message

LEMMA BusStep ==
  ASSUME TypeInv, [Next]_vars
  PROVE  BusTyped'
<1>0. BusTyped /\ PubTyped
  BY DEF TypeInv
<1>1. ASSUME NEW s \in Subs, SubscribeChecks(s) \/ Cancel(s) PROVE BusTyped'
  BY <1>0, <1>1 DEF BusTyped, SubscribeChecks, Cancel
<1>2. ASSUME NEW s \in Subs, SubscribeRegisters(s) PROVE BusTyped'
  <2>1. PatternOf[s] \in Patterns
    BY ConstantsAssumption
  <2>2. handlers' \in [Patterns -> Seq(Subs)]
    BY <1>0, <1>2, <2>1 DEF BusTyped, SubscribeRegisters
  <2>3. QED
    BY <1>0, <1>2, <2>2 DEF BusTyped, SubscribeRegisters
<1>3. ASSUME NEW s \in Subs, Unsubscribe(s) PROVE BusTyped'
  <2>1. PatternOf[s] \in Patterns
    BY ConstantsAssumption
  <2>2. ASSUME NEW t \in Patterns, handlers[t] # << >> PROVE RemoveAt(handlers[t], 1) \in Seq(Subs)
    <3>1. handlers[t] \in Seq(Subs)
      BY <1>0 DEF BusTyped
    <3>2. RemoveAt(handlers[t], 1) = Tail(handlers[t])
      BY <2>2, <3>1, RemoveFirstIsTail
    <3>3. Tail(handlers[t]) \in Seq(Subs)
      BY <2>2, <3>1, TailOnce
    <3>4. QED
      BY <3>2, <3>3
  <2>3. \A t \in Patterns : 1 \in DOMAIN handlers[t] => handlers[t] # << >>
    BY <1>0 DEF BusTyped
  <2>4. handlers' \in [Patterns -> Seq(Subs)]
    BY <1>0, <1>3, <2>1, <2>2, <2>3 DEF BusTyped, Unsubscribe, removeHandler, findHandlerIdx
  <2>5. QED
    BY <1>0, <1>3, <2>4 DEF BusTyped, Unsubscribe
<1>4. ASSUME NEW s \in Subs, NEW m \in spawned[s], HandlerCalled(s, m) PROVE BusTyped'
  BY <1>0, <1>4 DEF BusTyped, HandlerCalled
<1>5. ASSUME NEW s \in Subs, NEW m \in calling[s], HandlerReturns(s, m) PROVE BusTyped'
  BY <1>0, <1>5 DEF BusTyped, HandlerReturns
<1>6. ASSUME NEW p \in Publishers, NEW topic \in Topics, PublishChecks(p, topic) PROVE BusTyped'
  BY <1>0, <1>6 DEF BusTyped, PublishChecks
<1>7. ASSUME NEW p \in Publishers, PublishCopies(p) PROVE BusTyped'
  BY <1>0, <1>7 DEF BusTyped, PublishCopies
<1>8. ASSUME NEW p \in Publishers, PublishLocksHandler(p) PROVE BusTyped'
  BY <1>0, <1>8 DEF BusTyped, PublishLocksHandler
<1>9. ASSUME NEW p \in Publishers, PublishSpawns(p) PROVE BusTyped'
  <2>1. Msg(p) \in Message
    BY <1>0, <1>9, MsgTyped DEF PublishSpawns
  <2>2. QED
    BY <1>0, <1>9, <2>1 DEF BusTyped, PublishSpawns
<1>10. CASE Close
  BY <1>0, <1>10 DEF BusTyped, Close
<1>11. CASE CloseReturns
  BY <1>0, <1>11 DEF BusTyped, CloseReturns
<1>12. CASE UNCHANGED vars
  BY <1>0, <1>12 DEF BusTyped, vars
<1>13. QED
  BY <1>1, <1>2, <1>3, <1>4, <1>5, <1>6, <1>7, <1>8, <1>9, <1>10, <1>11, <1>12
  DEF Next, Subscribe, Handler, Publish

-----------------------------------------------------------------------------
(* The lists.                                                              *)

\* A subscription is past registering for good.
LEMMA RegisteredStays ==
  ASSUME BusTyped, [Next]_vars, NEW s \in Subs, sub[s] \in {"live", "leaving", "gone"}
  PROVE  sub'[s] \in {"live", "leaving", "gone"}
  BY DEF BusTyped, Next, Subscribe, SubscribeChecks, SubscribeRegisters, Cancel, Unsubscribe,
    Handler, HandlerCalled, HandlerReturns, Publish, PublishChecks, PublishCopies,
    PublishLocksHandler, PublishSpawns, Close, CloseReturns, vars

LEMMA HandlersFrame ==
  ASSUME [Next]_vars, \A s \in Subs : ~SubscribeRegisters(s) /\ ~Unsubscribe(s)
  PROVE  handlers' = handlers
  BY DEF Next, Subscribe, SubscribeChecks, Cancel, Handler, HandlerCalled, HandlerReturns,
    Publish, PublishChecks, PublishCopies, PublishLocksHandler, PublishSpawns, Close,
    CloseReturns, vars

LEMMA ListStep ==
  ASSUME BusTyped, BusTyped', ListInv, [Next]_vars
  PROVE  ListInv'
<1>1. \A t \in Patterns : handlers[t] \in Seq(Subs) /\ handlers'[t] \in Seq(Subs)
  BY DEF BusTyped
<1>2. SUFFICES ASSUME NEW t \in Patterns
               PROVE  /\ IsInjective(handlers'[t])
                      /\ \A i \in DOMAIN handlers'[t] :
                           /\ PatternOf[handlers'[t][i]] = t
                           /\ sub'[handlers'[t][i]] \in {"live", "leaving", "gone"}
  BY DEF ListInv
<1>3. /\ IsInjective(handlers[t])
      /\ \A x \in Range(handlers[t]) :
           /\ x \in Subs /\ PatternOf[x] = t
           /\ sub[x] \in {"live", "leaving", "gone"} /\ sub'[x] \in {"live", "leaving", "gone"}
  BY <1>1, RegisteredStays DEF ListInv, Range
<1>4. SUFFICES /\ IsInjective(handlers'[t])
               /\ \A x \in Range(handlers'[t]) :
                    PatternOf[x] = t /\ sub'[x] \in {"live", "leaving", "gone"}
  BY DEF Range
<1>5. CASE handlers'[t] = handlers[t]
  BY <1>3, <1>5
<1>6. ASSUME NEW s \in Subs, SubscribeRegisters(s), PatternOf[s] = t
      PROVE  /\ IsInjective(handlers'[t])
             /\ \A x \in Range(handlers'[t]) :
                  PatternOf[x] = t /\ sub'[x] \in {"live", "leaving", "gone"}
  <2>1. handlers'[t] = Append(handlers[t], s) /\ sub[s] = "joining"
    BY <1>6 DEF BusTyped, SubscribeRegisters
  <2>2. s \notin Range(handlers[t])
    BY <1>3, <2>1
  <2>3. IsInjective(handlers'[t]) /\ Range(handlers'[t]) = Range(handlers[t]) \cup {s}
    BY <1>1, <1>3, <2>1, <2>2, AppendOnce
  <2>4. sub'[s] \in {"live", "leaving"}
    BY <1>6 DEF BusTyped, SubscribeRegisters
  <2>5. QED
    BY <1>3, <1>6, <2>3, <2>4
<1>7. ASSUME NEW s \in Subs, Unsubscribe(s), PatternOf[s] = t, handlers[t] # << >>
      PROVE  /\ IsInjective(handlers'[t])
             /\ \A x \in Range(handlers'[t]) :
                  PatternOf[x] = t /\ sub'[x] \in {"live", "leaving", "gone"}
  <2>1. 1 \in DOMAIN handlers[t]
    BY <1>1, <1>7
  <2>2. handlers'[t] = RemoveAt(handlers[t], 1)
    BY <1>7, <2>1 DEF BusTyped, Unsubscribe, removeHandler, findHandlerIdx
  <2>3. handlers'[t] = Tail(handlers[t])
    BY <1>1, <1>7, <2>2, RemoveFirstIsTail
  <2>4. IsInjective(handlers'[t]) /\ Range(handlers'[t]) \subseteq Range(handlers[t])
    BY <1>1, <1>3, <1>7, <2>3, TailOnce
  <2>5. QED
    BY <1>3, <2>4
<1>8. ASSUME NEW s \in Subs, SubscribeRegisters(s), PatternOf[s] # t
      PROVE  handlers'[t] = handlers[t]
  BY <1>8 DEF BusTyped, SubscribeRegisters
<1>9. ASSUME NEW s \in Subs, Unsubscribe(s), PatternOf[s] # t \/ handlers[t] = << >>
      PROVE  handlers'[t] = handlers[t]
  BY <1>9 DEF BusTyped, Unsubscribe, removeHandler, findHandlerIdx
<1>10. QED
  BY <1>5, <1>6, <1>7, <1>8, <1>9, HandlersFrame

LEMMA RestStep ==
  ASSUME TypeInv, ListInv, RestInv, [Next]_vars
  PROVE  RestInv'
<1>0. PubTyped
  BY DEF TypeInv
<1>1. ASSUME NEW p \in Publishers, Publish(p) PROVE RestInv'
  <2>1. \A q \in Publishers \ {p} : pub'[q] = pub[q]
    BY <1>0, <1>1, ChecksEffect, CopiesEffect, LocksEffect, SpawnsEffect DEF Publish
  <2>2. IsInjective(pub[p].rest) /\ pub[p].rest \in Seq(Subs)
    BY <1>0 DEF RestInv, PubTyped, PubRec
  <2>3. IsInjective(<< >>)
    BY DEF IsInjective
  <2>4. IsInjective(pub'[p].rest)
    <3>1. ASSUME NEW topic \in Topics, PublishChecks(p, topic) PROVE IsInjective(pub'[p].rest)
      BY <1>0, <2>3, <3>1, ChecksEffect
    <3>2. CASE PublishCopies(p)
      BY <3>2, CopiesEffect, CallbacksServe
    <3>3. CASE PublishLocksHandler(p)
      BY <1>0, <2>2, <3>3, LocksEffect
    <3>4. CASE PublishSpawns(p)
      BY <1>0, <2>2, <3>4, SpawnsEffect, TailOnce
    <3>5. QED
      BY <1>1, <3>1, <3>2, <3>3, <3>4 DEF Publish
  <2>5. QED
    BY <2>1, <2>4 DEF RestInv
<1>2. QED
  BY <1>1, PubFrame DEF Next, RestInv

-----------------------------------------------------------------------------
(* The handlers' locks.                                                    *)

LEMMA LockStep ==
  ASSUME TypeInv, ListInv, LockInv, [Next]_vars
  PROVE  LockInv'
<1>0. /\ PubTyped
      /\ hlock \in [Subs -> BOOLEAN]
      /\ spawned \in [Subs -> SUBSET Message] /\ calling \in [Subs -> SUBSET Message]
  BY DEF TypeInv, BusTyped
<1>1. CASE UNCHANGED <<hlock, spawned, calling, pub>>
  BY <1>1 DEF LockInv, Holds
<1>2. ASSUME NEW p \in Publishers,
             PublishCopies(p) \/ \E topic \in Topics : PublishChecks(p, topic)
      PROVE  LockInv'
  <2>1. /\ \A q \in Publishers \ {p} : pub'[q] = pub[q]
        /\ pub'[p].pc # "go"
    BY <1>0, <1>2, ChecksEffect, CopiesEffect
  <2>2. UNCHANGED <<hlock, spawned, calling>>
    BY <1>2 DEF PublishCopies, PublishChecks
  <2>3. \A q \in Publishers, s \in Subs : Holds(q, s)' => Holds(q, s)
    BY <2>1 DEF Holds
  <2>4. QED
    BY <2>2, <2>3 DEF LockInv
<1>3. ASSUME NEW p \in Publishers, PublishLocksHandler(p) PROVE LockInv'
  <2> DEFINE h == Head(pub[p].rest)
  <2>1. /\ \A q \in Publishers \ {p} : pub'[q] = pub[q]
        /\ pub'[p].rest = pub[p].rest
    BY <1>0, <1>3, LocksEffect
  <2>2. h \in Subs
    <3>1. pub[p].rest \in Seq(Subs) /\ pub[p].rest # << >>
      BY <1>0, <1>3 DEF PubTyped, PubRec, PubSane, PublishLocksHandler
    <3>2. QED
      BY <3>1, TailOnce
  <2>3. /\ UNCHANGED <<spawned, calling>>
        /\ ~hlock[h] /\ hlock' = [hlock EXCEPT ![h] = TRUE]
    BY <1>3 DEF PublishLocksHandler
  <2>4. \A q \in Publishers, s \in Subs : Holds(q, s)' => Holds(q, s) \/ (q = p /\ s = h)
    BY <2>1 DEF Holds
  <2> HIDE DEF h
  <2>5. spawned[h] \cup calling[h] = {} /\ \A q \in Publishers : ~Holds(q, h)
    BY <2>2, <2>3 DEF LockInv
  <2>6. \A s \in Subs : hlock[s] => hlock'[s]
    BY <1>0, <2>2, <2>3
  <2>7. hlock'[h]
    BY <1>0, <2>2, <2>3
  <2>8. QED
    BY <2>2, <2>3, <2>4, <2>5, <2>6, <2>7 DEF LockInv
<1>4. ASSUME NEW p \in Publishers, PublishSpawns(p) PROVE LockInv'
  <2> DEFINE h == Head(pub[p].rest)
  <2>1. /\ \A q \in Publishers \ {p} : pub'[q] = pub[q]
        /\ pub'[p].pc # "go"
    BY <1>0, <1>4, SpawnsEffect
  <2>2. h \in Subs
    <3>1. pub[p].rest \in Seq(Subs) /\ pub[p].rest # << >>
      BY <1>0, <1>4 DEF PubTyped, PubRec, PubSane, PublishSpawns
    <3>2. QED
      BY <3>1, TailOnce
  <2>3. /\ UNCHANGED <<hlock, calling>>
        /\ spawned' = [spawned EXCEPT ![h] = @ \cup {Msg(p)}]
        /\ Holds(p, h)
    BY <1>4 DEF PublishSpawns, Holds
  <2>4. \A q \in Publishers, s \in Subs : Holds(q, s)' => q # p /\ Holds(q, s)
    BY <2>1 DEF Holds
  <2> HIDE DEF h
  <2>5. /\ hlock[h] /\ spawned[h] = {} /\ calling[h] = {}
        /\ \A q \in Publishers : Holds(q, h) => q = p
    BY <2>2, <2>3 DEF LockInv
  <2>6. /\ spawned'[h] = {Msg(p)}
        /\ \A s \in Subs \ {h} : spawned'[s] = spawned[s]
    BY <1>0, <2>2, <2>3, <2>5
  <2>7. QED
    BY <2>2, <2>3, <2>4, <2>5, <2>6 DEF LockInv
<1>5. ASSUME NEW s \in Subs, NEW m \in spawned[s], HandlerCalled(s, m) PROVE LockInv'
  <2>1. /\ UNCHANGED <<hlock, pub>>
        /\ spawned' = [spawned EXCEPT ![s] = @ \ {m}]
        /\ calling' = [calling EXCEPT ![s] = @ \cup {m}]
    BY <1>5 DEF HandlerCalled
  <2>2. hlock[s] /\ spawned[s] = {m} /\ calling[s] = {}
    BY DEF LockInv
  <2>3. /\ spawned'[s] = {} /\ calling'[s] = {m}
        /\ \A r \in Subs \ {s} : spawned'[r] = spawned[r] /\ calling'[r] = calling[r]
    BY <1>0, <2>1, <2>2
  <2>4. \A q \in Publishers, r \in Subs : Holds(q, r)' => Holds(q, r)
    BY <2>1 DEF Holds
  <2>5. QED
    BY <2>1, <2>2, <2>3, <2>4 DEF LockInv
<1>6. ASSUME NEW s \in Subs, NEW m \in calling[s], HandlerReturns(s, m) PROVE LockInv'
  <2>1. /\ UNCHANGED <<spawned, pub>>
        /\ hlock' = [hlock EXCEPT ![s] = FALSE]
        /\ calling' = [calling EXCEPT ![s] = @ \ {m}]
    BY <1>6 DEF HandlerReturns
  <2>2. spawned[s] = {} /\ calling[s] = {m} /\ \A q \in Publishers : ~Holds(q, s)
    BY DEF LockInv
  <2>3. /\ spawned'[s] = {} /\ calling'[s] = {}
        /\ \A r \in Subs \ {s} : calling'[r] = calling[r] /\ hlock'[r] = hlock[r]
    BY <1>0, <2>1, <2>2
  <2>4. \A q \in Publishers, r \in Subs : Holds(q, r)' => Holds(q, r)
    BY <2>1 DEF Holds
  <2>5. QED
    BY <2>1, <2>2, <2>3, <2>4 DEF LockInv
<1>7. ASSUME \/ \E s \in Subs : Subscribe(s) \/ Cancel(s) \/ Unsubscribe(s)
             \/ Close \/ CloseReturns \/ UNCHANGED vars
      PROVE  UNCHANGED <<hlock, spawned, calling, pub>>
  BY <1>7 DEF Subscribe, SubscribeChecks, SubscribeRegisters, Cancel, Unsubscribe, Close,
    CloseReturns, vars
<1>8. QED
  BY <1>1, <1>2, <1>3, <1>4, <1>5, <1>6, <1>7 DEF Next, Publish, Handler

-----------------------------------------------------------------------------
(* The messages.                                                           *)

\* What a step makes of `Sent`: a message that is out stays in its place, unless the
\* publisher has just come to the subscription.
LEMMA SentStays ==
  ASSUME TypeInv, ListInv, [Next]_vars,
         NEW m \in Message, NEW s \in Subs, Sent(m, pub[m.from], s)
  PROVE  Sent(m, pub'[m.from], s)
<1>0. PubTyped /\ m.from \in Publishers /\ m.seq \in Nat
  BY DEF TypeInv, Message
<1> DEFINE p == m.from
<1>1. pub[p] \in PubRec /\ pub[p].seq \in Nat
  BY <1>0 DEF PubTyped, PubRec
<1>2. CASE pub'[p] = pub[p]
  BY <1>2 DEF Sent, Ahead
<1>3. ASSUME NEW topic \in Topics, PublishChecks(p, topic) PROVE Sent(m, pub'[p], s)
  <2>1. pub'[p].seq = pub[p].seq + 1 /\ m.seq <= pub[p].seq
    BY <1>0, <1>3, ChecksEffect DEF Sent
  <2>2. m.seq < pub'[p].seq /\ m.seq <= pub'[p].seq
    BY <1>0, <1>1, <2>1
  <2>3. QED
    BY <2>2 DEF Sent
<1>4. CASE PublishCopies(p)
  <2>1. pub'[p].seq = pub[p].seq /\ Ahead(pub[p], s)
    BY <1>0, <1>4, CopiesEffect DEF Ahead
  <2>2. QED
    BY <2>1 DEF Sent
<1>5. CASE PublishLocksHandler(p)
  <2>1. pub'[p].seq = pub[p].seq /\ pub'[p].pc # "copy" /\ pub'[p].rest = pub[p].rest
    BY <1>0, <1>5, LocksEffect
  <2>2. QED
    BY <2>1 DEF Sent, Ahead
<1>6. CASE PublishSpawns(p)
  <2>1. /\ pub'[p].seq = pub[p].seq /\ pub'[p].pc # "copy"
        /\ pub'[p].rest = Tail(pub[p].rest) /\ pub[p].rest # << >>
    BY <1>0, <1>6, SpawnsEffect
  <2>2. pub[p].rest \in Seq(Subs)
    BY <1>1 DEF PubRec
  <2>3. Range(pub'[p].rest) \subseteq Range(pub[p].rest)
    BY <2>1, <2>2, TailOnce
  <2>4. QED
    BY <2>1, <2>3 DEF Sent, Ahead
<1>7. ASSUME NEW q \in Publishers \ {p}, Publish(q) PROVE pub'[p] = pub[p]
  BY <1>0, <1>7, ChecksEffect, CopiesEffect, LocksEffect, SpawnsEffect DEF Publish
<1>8. QED
  BY <1>0, <1>2, <1>3, <1>4, <1>5, <1>6, <1>7, PubFrame DEF Next, Publish

\* Of the messages that are out, only PublishSpawns and HandlerCalled make new ones.
LEMMA OutFrame ==
  ASSUME [Next]_vars,
         \A p \in Publishers : ~PublishSpawns(p),
         \A s \in Subs : \A m \in spawned[s] : ~HandlerCalled(s, m)
  PROVE  UNCHANGED <<spawned, got>>
  BY DEF Next, Subscribe, SubscribeChecks, SubscribeRegisters, Cancel, Unsubscribe, Handler,
    HandlerReturns, Publish, PublishChecks, PublishCopies, PublishLocksHandler, Close,
    CloseReturns, vars

LEMMA OutStep ==
  ASSUME IInv, [Next]_vars
  PROVE  SentInv' /\ FreshInv' /\ PublisherOrderKept'
<1>0. /\ TypeInv /\ ListInv /\ PubTyped /\ RestInv
      /\ SentInv /\ FreshInv /\ PublisherOrderKept
      /\ spawned \in [Subs -> SUBSET Message] /\ got \in [Subs -> Seq(Message)]
  BY DEF IInv, TypeInv, BusTyped
<1>1. \A s \in Subs : \A i \in DOMAIN got[s] : got[s][i] \in Message
  BY <1>0
<1>2. \A s \in Subs, m \in Message : Sent(m, pub[m.from], s) => Sent(m, pub'[m.from], s)
  BY <1>0, SentStays
<1>3. \A s \in Subs : /\ \A m \in spawned[s] : Sent(m, pub'[m.from], s)
                      /\ \A i \in DOMAIN got[s] : Sent(got[s][i], pub'[got[s][i].from], s)
  BY <1>0, <1>1, <1>2 DEF SentInv
<1>4. CASE UNCHANGED <<spawned, got>>
  BY <1>0, <1>3, <1>4 DEF SentInv, FreshInv, PublisherOrderKept
<1>5. ASSUME NEW p \in Publishers, PublishSpawns(p)
      PROVE  SentInv' /\ FreshInv' /\ PublisherOrderKept'
  <2>1. /\ pub'[p].seq = pub[p].seq /\ pub'[p].pc # "copy"
        /\ pub'[p].rest = Tail(pub[p].rest) /\ pub[p].rest # << >>
        /\ pub[p].pc = "go"
    BY <1>0, <1>5, SpawnsEffect
  <2>2. pub[p].rest \in Seq(Subs) /\ pub[p].seq \in Nat
    BY <1>0 DEF PubTyped, PubRec
  <2>3. PICK h \in Subs : h = Head(pub[p].rest)
    BY <2>1, <2>2, TailOnce
  <2>4. h \in Range(pub[p].rest) /\ h \notin Range(pub'[p].rest)
    BY <1>0, <2>1, <2>2, <2>3, TailOnce DEF RestInv
  <2>5. PICK n \in Message : n = Msg(p) /\ n.from = p /\ n.seq = pub[p].seq
    BY <1>0, <2>1, MsgTyped
  <2>6. got' = got /\ spawned' = [spawned EXCEPT ![h] = @ \cup {n}]
    BY <1>5, <2>3, <2>5 DEF PublishSpawns
  <2>7. \A s \in Subs : \A m \in spawned'[s] : m \in spawned[s] \/ (s = h /\ m = n)
    BY <1>0, <2>6
  <2>8. Sent(n, pub'[p], h)
    <3>1. ~Ahead(pub'[p], h)
      BY <2>1, <2>4 DEF Ahead
    <3>2. n.seq <= pub'[p].seq
      BY <2>1, <2>2, <2>5
    <3>3. QED
      BY <3>1, <3>2 DEF Sent
  <2>9. SentInv'
    BY <1>3, <2>5, <2>6, <2>7, <2>8 DEF SentInv
  <2>10. \A i \in DOMAIN got[h] : got[h][i].from = p => got[h][i].seq < n.seq
    <3>1. Ahead(pub[p], h)
      BY <2>4 DEF Ahead
    <3>2. QED
      BY <1>0, <2>5, <3>1 DEF SentInv, Sent
  <2>11. FreshInv'
    <3>1. ASSUME NEW s \in Subs, NEW m \in spawned'[s], NEW i \in DOMAIN got[s],
                 got[s][i].from = m.from
          PROVE  got[s][i].seq < m.seq
      <4>1. CASE m \in spawned[s]
        BY <1>0, <3>1, <4>1 DEF FreshInv
      <4>2. CASE s = h /\ m = n
        BY <2>5, <2>10, <3>1, <4>2
      <4>3. QED
        BY <2>7, <4>1, <4>2
    <3>2. QED
      BY <2>6, <3>1 DEF FreshInv
  <2>12. PublisherOrderKept'
    BY <1>0, <2>6 DEF PublisherOrderKept
  <2>13. QED
    BY <2>9, <2>11, <2>12
<1>6. ASSUME NEW s \in Subs, NEW m \in spawned[s], HandlerCalled(s, m)
      PROVE  SentInv' /\ FreshInv' /\ PublisherOrderKept'
  <2>1. /\ got' = [got EXCEPT ![s] = Append(@, m)]
        /\ spawned' = [spawned EXCEPT ![s] = @ \ {m}]
    BY <1>6 DEF HandlerCalled
  <2>2. m \in Message /\ got[s] \in Seq(Message) /\ spawned[s] = {m}
    BY <1>0 DEF IInv, LockInv
  <2> DEFINE n == Len(got[s])
  <2>3. /\ n \in Nat /\ DOMAIN got[s] = 1 .. n
        /\ DOMAIN got'[s] = 1 .. n + 1
        /\ \A i \in 1 .. n : got'[s][i] = got[s][i]
        /\ got'[s][n + 1] = m
    BY <1>0, <2>1, <2>2
  <2> HIDE DEF n
  <2>4. /\ spawned'[s] = {}
        /\ \A r \in Subs \ {s} : spawned'[r] = spawned[r] /\ got'[r] = got[r]
    BY <1>0, <2>1, <2>2
  <2>5. \A i \in 1 .. n + 1 : i \in 1 .. n \/ i = n + 1
    BY <2>3
  <2>6. SentInv'
    <3>1. \A i \in DOMAIN got'[s] : Sent(got'[s][i], pub'[got'[s][i].from], s)
      BY <1>3, <2>3, <2>5
    <3>2. QED
      BY <1>3, <2>4, <3>1 DEF SentInv
  <2>7. FreshInv'
    BY <1>0, <2>4 DEF FreshInv
  <2>8. ASSUME NEW i \in 1 .. n + 1, NEW j \in 1 .. n + 1, i < j, got'[s][i].from = got'[s][j].from
        PROVE  got'[s][i].seq < got'[s][j].seq
    <3>1. i \in 1 .. n
      BY <2>3, <2>8
    <3>2. CASE j \in 1 .. n
      BY <1>0, <2>3, <2>8, <3>1, <3>2 DEF PublisherOrderKept
    <3>3. CASE j = n + 1
      BY <1>0, <2>3, <2>8, <3>1, <3>3 DEF FreshInv
    <3>4. QED
      BY <2>5, <3>2, <3>3
  <2>9. PublisherOrderKept'
    BY <1>0, <2>3, <2>4, <2>8 DEF PublisherOrderKept
  <2>10. QED
    BY <2>6, <2>7, <2>9
<1>7. QED
  BY <1>4, <1>5, <1>6, OutFrame

-----------------------------------------------------------------------------
(* The invariant, and what follows from it.                                *)

LEMMA InitInv == Init => IInv
<1> SUFFICES ASSUME Init PROVE IInv
  OBVIOUS
<1>1. \A p \in Publishers : /\ pub[p] = NoPublish(0) /\ NoPublish(0) \in PubRec
                            /\ MaxPublish[p] \in Nat
  BY ConstantsAssumption DEF Init, NoPublish, PubRec
<1>2. PubTyped
  <2>1. pub \in [Publishers -> PubRec]
    BY <1>1 DEF Init
  <2>2. \A p \in Publishers : PubSane(p)
    BY <1>1 DEF PubSane, NoPublish
  <2>3. QED
    BY <2>1, <2>2 DEF PubTyped
<1>3. BusTyped
  <2>1. handlers \in [Patterns -> Seq(Subs)] /\ got \in [Subs -> Seq(Message)]
    BY DEF Init
  <2>2. sub \in [Subs -> {"new", "joining", "live", "leaving", "gone"}] /\ hlock \in [Subs -> BOOLEAN]
    BY DEF Init
  <2>3. /\ spawned \in [Subs -> SUBSET Message] /\ calling \in [Subs -> SUBSET Message]
        /\ owed \in [Publishers -> SUBSET Subs]
    BY DEF Init
  <2>4. closed \in BOOLEAN /\ closing \in BOOLEAN
    BY DEF Init
  <2>5. QED
    BY <2>1, <2>2, <2>3, <2>4 DEF BusTyped
<1>4. ListInv
  BY DEF Init, ListInv, IsInjective
<1>5. RestInv
  BY <1>1 DEF RestInv, NoPublish, IsInjective
<1>6. LockInv
  BY <1>1 DEF Init, LockInv, Holds, NoPublish
<1>7. SentInv /\ FreshInv /\ PublisherOrderKept
  BY DEF Init, SentInv, FreshInv, PublisherOrderKept
<1>8. QED
  BY <1>2, <1>3, <1>4, <1>5, <1>6, <1>7 DEF IInv, TypeInv

LEMMA StepInv == IInv /\ [Next]_vars => IInv'
<1> SUFFICES ASSUME IInv, [Next]_vars PROVE IInv'
  OBVIOUS
<1>1. TypeInv /\ ListInv /\ RestInv /\ LockInv /\ BusTyped
  BY DEF IInv, TypeInv
<1>2. TypeInv'
  BY <1>1, PubStep, BusStep DEF TypeInv
<1>3. ListInv'
  BY <1>1, <1>2, ListStep DEF TypeInv
<1>4. RestInv' /\ LockInv'
  BY <1>1, RestStep, LockStep
<1>5. QED
  BY <1>2, <1>3, <1>4, OutStep DEF IInv

THEOREM Invariance == Spec => []IInv
  BY InitInv, StepInv, PTL DEF Spec

\* The types hold for any publishers, subscriptions and topics.
THEOREM TypeCorrect == Spec => []TypeOK
<1>1. IInv => TypeOK
  BY DEF IInv, TypeInv, PubTyped, PubSane, PubRec, BusTyped, TypeOK
<1>2. QED
  BY <1>1, Invariance, PTL

\* However many goroutines publish and however many subscriptions share a topic, a
\* handler never runs twice at a time, although its lock is taken by the publisher
\* and released by another goroutine; and each handler sees the messages of one
\* publisher in the order of publication, each at most once.
THEOREM SerialInOrder == Spec => [](HandlersRunSerially /\ PublisherOrderKept)
<1>1. IInv => HandlersRunSerially
  <2> SUFFICES ASSUME IInv, NEW s \in Subs PROVE Cardinality(spawned[s] \cup calling[s]) <= 1
    BY DEF HandlersRunSerially
  <2>1. CASE spawned[s] \cup calling[s] = {}
    BY <2>1, FS_EmptySet
  <2>2. ASSUME NEW m \in spawned[s] \cup calling[s]
        PROVE  Cardinality(spawned[s] \cup calling[s]) <= 1
    <3>1. spawned[s] \cup calling[s] = {m}
      BY DEF IInv, LockInv
    <3>2. Cardinality({m}) = 1
      BY FS_Singleton
    <3>3. QED
      BY <3>1, <3>2
  <2>3. QED
    BY <2>1, <2>2
<1>2. IInv => PublisherOrderKept
  BY DEF IInv
<1>3. QED
  BY <1>1, <1>2, Invariance, PTL

-----------------------------------------------------------------------------
(* Who is registered, and served.                                          *)

LEMMA AloneStep ==
  ASSUME OneSubPerPattern, IInv, AloneInv, [Next]_vars
  PROVE  AloneInv'
<1>0. BusTyped /\ ListInv /\ BusTyped'
  BY BusStep DEF IInv, TypeInv
<1>1. \A s \in Subs : PatternOf[s] \in Patterns
  BY ConstantsAssumption
<1>2. ASSUME NEW s \in Subs, NEW r \in Subs \ {s}, SubscribeRegisters(s) \/ Unsubscribe(s)
      PROVE  /\ handlers'[PatternOf[r]] = handlers[PatternOf[r]]
             /\ sub'[r] = sub[r]
  <2>1. PatternOf[r] # PatternOf[s]
    BY DEF OneSubPerPattern
  <2>2. QED
    BY <1>0, <1>1, <1>2, <2>1 DEF BusTyped, SubscribeRegisters, Unsubscribe, removeHandler
<1>3. ASSUME NEW s \in Subs, SubscribeRegisters(s) PROVE AloneInv'
  <2> DEFINE t == PatternOf[s]
  <2>1. /\ sub[s] = "joining" /\ sub'[s] \in {"live", "leaving"}
        /\ handlers'[t] = Append(handlers[t], s)
    BY <1>0, <1>1, <1>3 DEF BusTyped, SubscribeRegisters
  <2>2. handlers[t] = << >>
    <3>1. handlers[t] \in Seq(Subs)
      BY <1>0, <1>1 DEF BusTyped
    <3>2. ASSUME handlers[t] # << >> PROVE FALSE
      <4>1. 1 \in DOMAIN handlers[t] /\ handlers[t][1] \in Subs
        BY <3>1, <3>2
      <4>2. handlers[t][1] = s
        BY <1>0, <1>1, <4>1 DEF ListInv, OneSubPerPattern
      <4>3. QED
        BY <1>0, <1>1, <2>1, <4>1, <4>2 DEF ListInv
    <3>3. QED
      BY <3>2
  <2>3. handlers'[t] = <<s>>
    BY <2>1, <2>2
  <2>4. QED
    BY <1>2, <1>3, <2>1, <2>3 DEF AloneInv
<1>4. ASSUME NEW s \in Subs, Unsubscribe(s) PROVE AloneInv'
  <2> DEFINE t == PatternOf[s]
  <2>1. sub[s] = "leaving" /\ sub'[s] = "gone"
    BY <1>0, <1>4 DEF BusTyped, Unsubscribe
  <2>2. handlers[t] = <<s>> /\ handlers[t] \in Seq(Subs)
    BY <1>0, <1>1, <2>1 DEF AloneInv, BusTyped
  <2>3. handlers'[t] = RemoveAt(handlers[t], 1)
    <3>1. 1 \in DOMAIN handlers[t]
      BY <2>2
    <3>2. QED
      BY <1>0, <1>1, <1>4, <3>1 DEF BusTyped, Unsubscribe, removeHandler, findHandlerIdx
  <2>4. handlers'[t] = Tail(<<s>>)
    BY <2>2, <2>3, RemoveFirstIsTail
  <2>5. handlers'[t] # <<s>>
    BY <2>4
  <2>6. QED
    BY <1>2, <1>4, <2>1, <2>5 DEF AloneInv
<1>5. ASSUME \A s \in Subs : ~SubscribeRegisters(s) /\ ~Unsubscribe(s)
      PROVE  \A s \in Subs : sub'[s] \in {"live", "leaving"} <=> sub[s] \in {"live", "leaving"}
  BY <1>0, <1>5 DEF BusTyped, Next, Subscribe, SubscribeChecks, Cancel,
    Handler, HandlerCalled, HandlerReturns, Publish, PublishChecks, PublishCopies,
    PublishLocksHandler, PublishSpawns, Close, CloseReturns, vars
<1>6. CASE \A s \in Subs : ~SubscribeRegisters(s) /\ ~Unsubscribe(s)
  BY <1>5, <1>6, HandlersFrame DEF AloneInv
<1>7. QED
  BY <1>3, <1>4, <1>6

LEMMA OwedStep ==
  ASSUME IInv, AloneInv, OwedInv, [Next]_vars
  PROVE  OwedInv'
<1>0. /\ TypeInv /\ ListInv /\ PubTyped
      /\ owed \in [Publishers -> SUBSET Subs]
      /\ \A t \in Patterns : handlers[t] \in Seq(Subs)
  BY DEF IInv, TypeInv, BusTyped
<1>1. ASSUME NEW p \in Publishers, Publish(p) PROVE OwedInv'
  <2>1. \A q \in Publishers \ {p} : pub'[q] = pub[q]
    BY <1>0, <1>1, ChecksEffect, CopiesEffect, LocksEffect, SpawnsEffect DEF Publish
  <2>2. \A q \in Publishers \ {p} : owed'[q] = owed[q]
    BY <1>0, <1>1 DEF Publish, PublishChecks, PublishCopies, PublishLocksHandler, PublishSpawns
  <2>3. ASSUME NEW topic \in Topics, PublishChecks(p, topic)
        PROVE  owed'[p] \subseteq Range(pub'[p].rest)
    <3>1. owed'[p] = owed[p] /\ pub[p].pc = "idle" /\ pub'[p].rest = << >>
      BY <1>0, <2>3, ChecksEffect DEF PublishChecks
    <3>2. pub[p].rest = << >>
      BY <1>0, <3>1 DEF PubTyped, PubSane
    <3>3. QED
      BY <3>1, <3>2 DEF OwedInv
  <2>4. ASSUME PublishCopies(p) PROVE owed'[p] \subseteq Range(pub'[p].rest)
    <3>1. pub'[p].rest \in getCallbacks(pub[p].topic)
      BY <1>0, <2>4, CopiesEffect
    <3>2. PICK callbacks \in getCallbacks(pub[p].topic) : callbacks = pub'[p].rest
      BY <3>1
    <3>3. \A k \in Patterns : pub[p].topic \in Matches[k] =>
            \A i \in DOMAIN handlers[k] : handlers[k][i] \in Range(callbacks)
      BY <1>0, CallbacksServe
    <3>4. ASSUME NEW s \in owed'[p] PROVE s \in Range(callbacks)
      <4>1. s \in Subs /\ sub[s] = "live" /\ pub[p].topic \in Matches[PatternOf[s]]
        BY <1>0, <2>4 DEF PublishCopies
      <4>2. PatternOf[s] \in Patterns /\ handlers[PatternOf[s]] = <<s>>
        BY <4>1, ConstantsAssumption DEF AloneInv
      <4>3. 1 \in DOMAIN handlers[PatternOf[s]] /\ handlers[PatternOf[s]][1] = s
        BY <4>2
      <4>4. QED
        BY <3>3, <4>1, <4>2, <4>3
    <3>5. QED
      BY <3>2, <3>4
  <2>5. ASSUME PublishLocksHandler(p) PROVE owed'[p] \subseteq Range(pub'[p].rest)
    <3>1. pub'[p].rest = pub[p].rest
      BY <1>0, <2>5, LocksEffect
    <3>2. owed' = owed
      BY <2>5 DEF PublishLocksHandler
    <3>3. QED
      BY <3>1, <3>2 DEF OwedInv
  <2>6. ASSUME PublishSpawns(p) PROVE owed'[p] \subseteq Range(pub'[p].rest)
    <3>1. pub'[p].rest = Tail(pub[p].rest) /\ pub[p].rest # << >> /\ pub[p].rest \in Seq(Subs)
      BY <1>0, <2>6, SpawnsEffect DEF PubTyped, PubRec
    <3>2. owed'[p] = owed[p] \ {Head(pub[p].rest)}
      BY <1>0, <2>6 DEF PublishSpawns
    <3>3. Range(pub[p].rest) = {Head(pub[p].rest)} \cup Range(pub'[p].rest)
      BY <3>1, TailOnce
    <3>4. QED
      BY <3>2, <3>3 DEF OwedInv
  <2>7. owed'[p] \subseteq Range(pub'[p].rest)
    BY <1>1, <2>3, <2>4, <2>5, <2>6 DEF Publish
  <2>8. QED
    BY <2>1, <2>2, <2>7 DEF OwedInv
<1>2. QED
  BY <1>1, PubFrame DEF Next, OwedInv

\* As long as no topic is subscribed to twice, as dapr's runtime has it, every live
\* subscription is in the bus until its own Unsubscribe, and a Publish call that
\* returns has a goroutine under way for each subscription that was live when it
\* looked, by topic or by wildcard: so messages reach everyone, serially and in
\* order.  (With two subscriptions of one topic Unsubscribe takes out the first of
\* the two whoever calls it; SerialInOrder holds even then.)
THEOREM EveryoneServed == OneSubPerPattern => (Spec => []EveryoneServedInOrder)
<1> SUFFICES ASSUME OneSubPerPattern PROVE Spec => []EveryoneServedInOrder
  OBVIOUS
<1>1. Init => ServedInv
  <2> SUFFICES ASSUME Init PROVE AloneInv /\ OwedInv
    BY DEF ServedInv
  <2>1. \A s \in Subs : handlers[PatternOf[s]] = << >> /\ sub[s] = "new"
    BY ConstantsAssumption DEF Init
  <2>2. \A s \in Subs : << >> # <<s>>
    OBVIOUS
  <2>3. QED
    BY <2>1, <2>2 DEF Init, AloneInv, OwedInv
<1>2. IInv /\ ServedInv /\ [Next]_vars => ServedInv'
  BY AloneStep, OwedStep DEF ServedInv
<1>3. IInv /\ ServedInv => LiveSubscriberRegistered
  <2> SUFFICES ASSUME ServedInv, NEW s \in Subs, sub[s] = "live"
               PROVE  s \in Range(handlers[PatternOf[s]])
    BY DEF LiveSubscriberRegistered
  <2>1. handlers[PatternOf[s]] = <<s>>
    BY DEF ServedInv, AloneInv
  <2>2. 1 \in DOMAIN <<s>> /\ <<s>>[1] = s
    OBVIOUS
  <2>3. QED
    BY <2>1, <2>2 DEF Range
<1>4. IInv /\ ServedInv => PublishServesEveryone
  <2> SUFFICES ASSUME IInv, ServedInv, NEW p \in Publishers, pub[p].pc = "idle"
               PROVE  owed[p] = {}
    BY DEF PublishServesEveryone
  <2>1. pub[p].rest = << >>
    BY DEF IInv, TypeInv, PubTyped, PubSane
  <2>2. QED
    BY <2>1 DEF ServedInv, OwedInv, Range
<1>5. QED
  BY <1>1, <1>2, <1>3, <1>4, Invariance, SerialInOrder, PTL DEF Spec, EveryoneServedInOrder
=============================================================================
