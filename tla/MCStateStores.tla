--------------------------- MODULE MCStateStores ---------------------------
(* Model-checking instance of StateStores. *)
EXTENDS StateStores

CONSTANTS c1, c2, k1, k2

MCClients == {c1, c2}
MCKeys == {k1, k2}
MCSymmetry == Permutations(MCClients)

AllStores == {"sqlite", "mysql", "postgresql", "cockroachdb", "postgresql v2",
              "sqlserver", "sqlserver v2", "oracle", "mongodb", "cosmosdb", "dynamodb",
              "ravendb", "tablestorage", "blobstorage", "oci", "redis", "etcd",
              "zookeeper", "couchbase", "aerospike", "tablestore", "rethinkdb",
              "cassandra", "memcached", "coherence", "workerskv", "firestore",
              "jetstream", "hazelcast", "consul"}
=============================================================================
