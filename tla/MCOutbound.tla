----------------------------- MODULE MCOutbound -----------------------------
(* Model-checking instance of Outbound. *)
EXTENDS Outbound

CONSTANTS h1, h2, a1

\* h2 is h1 started again, or another process that is given its address.
SharedAddress == [h \in Sidecars |-> a1]

AllBindings == DOMAIN Programs
AllSenders == DOMAIN PublishPrograms
AllComponents == DOMAIN Inits
AllPaged == {"sqlite", "postgresql", "mysql", "mongodb", "sqlserver", "oracle", "redis",
             "etcd"}
AllBulk == {"postgresql", "mysql", "sqlite", "mongodb", "cosmosdb", "coherence", "oracle",
            "sqlserver v2", "default"}
=============================================================================
