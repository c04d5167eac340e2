--------------------------- MODULE MCInMemoryStore ---------------------------
(* Instances of InMemoryStore for TLC.  *)
EXTENDS InMemoryStore, TLC

CONSTANTS k1, k2, k3, p1, p2, r1, s1

TwoKeys      == {k1, k2}
ThreeKeys    == {k1, k2, k3}
AllPrefixes  == {p1, p2}
ParentTwo    == (k1 :> p1) @@ (k2 :> p1)
ParentThree  == (k1 :> p1) @@ (k2 :> p1) @@ (k3 :> p2)
AtOnce       == {TwoKeys}
ScanPatterns == {ThreeKeys, {k1, k3}}
ExpiringTTLs == {-1, 1}
NoTTLs       == {0}
=============================================================================
