--------------------------- MODULE MCInMemoryPubSub ---------------------------
(* Instances of InMemoryPubSub for TLC: messages to the topics "ab" and "ac",    *)
(* subscriptions to "ab" and to "a*".                                            *)
EXTENDS InMemoryPubSub, TLC

CONSTANTS ab, ac, aStar, s1, s2, p1, p2

OneSubPerTopic == (s1 :> ab) @@ (s2 :> aStar)
TwoSubsOnTopic == (s1 :> ab) @@ (s2 :> ab)
Wildcard       == (ab :> {ab} \cap Topics) @@ (aStar :> {ab, ac} \cap Topics)

TwoAndOne == (p1 :> 2) @@ (p2 :> 1)
OneEach   == (p1 :> 1) @@ (p2 :> 1)
=============================================================================
