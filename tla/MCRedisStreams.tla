---------------------------- MODULE MCRedisStreams ----------------------------
(* Instances of RedisStreams for TLC. *)
EXTENDS RedisStreams

CONSTANT w1
=============================================================================
