------------------------------ MODULE MCKafka ------------------------------
(* Model-checking instance of Kafka. *)
EXTENDS Kafka, TLC

CONSTANTS s1, s2, t1, t2

OneEach == s1 :> t1 @@ s2 :> t2
TwoAndOne == t1 :> 2 @@ t2 :> 1
AllModes == {[bulk |-> 0, retry |-> "forever"], [bulk |-> 0, retry |-> "off"],
             [bulk |-> 2, retry |-> "limited"]}
BulkForever == {[bulk |-> 2, retry |-> "forever"]}
=============================================================================
