--------------------------- MODULE KeyValueStores ---------------------------
(***************************************************************************)
(* The stores on key-value services.                                       *)
(***************************************************************************)
EXTENDS StoreCalls

(***************************************************************************)
(* state/redis.  The version is a counter of the hash that starts again    *)
(* when the key does; the script of a Set and the EXPIRE or PERSIST after  *)
(* it are two commands.                                                    *)
(***************************************************************************)
\* parseETag: the version of the request, where LastWrite means none.
RedisVersion(op) ==
  IF HasETag(op) /\ op.conc # "last-write" THEN op.etag ELSE 0

\* setDefaultQuery.  HSET and HINCRBY keep the expiry of the key.
RedisScript(op, row, firstWrite) ==
  CASE ~Exists(row) ->
         Done([Written(op, 1, "never") EXCEPT !.fw = firstWrite])
    [] Exists(row) /\ (row.etag = RedisVersion(op)
                       \/ (~row.fw /\ RedisVersion(op) = 0)) ->
         Done([Written(op, row.etag + 1, row.exp) EXCEPT !.fw = row.fw \/ firstWrite])
    [] OTHER -> Mismatch(row)

RedisExpire(op, row) ==
  IF Exists(row) /\ op.ttl # "nil" THEN [row EXCEPT !.exp = ParseTTL(op)] ELSE row

RedisSet(op, pc, row) ==
  CASE pc = "expire" -> Done(RedisExpire(op, row))
    [] OTHER -> LET script == RedisScript(op, row, IsFirstWrite(op))
                IN  IF script.err = "ok" /\ op.ttl # "nil"
                      THEN Go(script.row, "expire") ELSE script

RedisDelete(op, row) ==
  IF HasETag(op) /\ Exists(row) /\ ~Matches(op, row) THEN Mismatch(row)
                                                     ELSE Done(NoRow)

\* In Multi the script gets no first-write argument and every command of the
\* pipeline runs, whatever became of the others.
RedisMultiSet(op, row) ==
  LET script == RedisScript(op, row, FALSE)
  IN  [script EXCEPT !.row = RedisExpire(op, script.row)]

RedisGet(row) == row

(***************************************************************************)
(* state/etcd.  doValidateEtag reads the key; the transaction that follows *)
(* compares again, and a comparison that fails is no error.  Any           *)
(* ttlInSeconds is the lease of the key.                                   *)
(***************************************************************************)
EtcdValidate(op, row, next) ==
  CASE Creates(op) /\ Exists(row)       -> Mismatch(row)
    [] HasETag(op) /\ ~Matches(op, row) -> Mismatch(row)
    [] OTHER                            -> Go(row, next)

EtcdLease(op) == IF op.ttl = "nil" THEN "never" ELSE "armed"

EtcdSet(op, pc, row) ==
  CASE pc = "start" /\ (HasETag(op) \/ IsFirstWrite(op)) ->
         EtcdValidate(op, row, "txn")
    [] pc = "txn" /\ HasETag(op) /\ ~Matches(op, row) -> Done(row)
    [] OTHER -> Done(Written(op, op.id, EtcdLease(op)))

EtcdDelete(op, pc, row) ==
  CASE pc = "start" /\ (HasETag(op) \/ IsFirstWrite(op)) ->
         EtcdValidate(op, row, "txn")
    [] pc = "txn" /\ HasETag(op) /\ ~Matches(op, row) -> Done(row)
    [] OTHER -> Done(NoRow)

EtcdGet(row) == row

(***************************************************************************)
(* state/zookeeper.  The version of a node starts at 0.  Set creates the   *)
(* node if there is none.                                                  *)
(***************************************************************************)
ZookeeperVersion(op) == IF op.conc = "last-write" THEN NoETag ELSE op.etag

ZookeeperRefuses(op, row) ==
  ZookeeperVersion(op) # NoETag /\ row.etag # ZookeeperVersion(op)

ZookeeperSet(op, pc, row) ==
  CASE pc = "create" /\ Exists(row)  -> Mismatch(row)
    [] pc = "create" /\ ~Exists(row) -> Done(Written(op, 0, "never"))
    [] ~Exists(row)                  -> Go(row, "create")
    [] ZookeeperRefuses(op, row)     -> Mismatch(row)
    [] OTHER -> Done(Written(op, row.etag + 1, "never"))

ZookeeperDelete(op, row) ==
  IF Exists(row) /\ ZookeeperRefuses(op, row) THEN Mismatch(row) ELSE Done(NoRow)

ZookeeperGet(row) == row

(***************************************************************************)
(* state/couchbase.  A request without an etag is an upsert, the one of a  *)
(* first write too.                                                        *)
(***************************************************************************)
CouchbaseSet(op, row) ==
  IF HasETag(op) /\ ~Matches(op, row) THEN Mismatch(row)
                                      ELSE Done(Written(op, op.id, "never"))

CouchbaseDelete(op, row) ==
  CASE HasETag(op) /\ ~Matches(op, row) -> Mismatch(row)
    [] ~HasETag(op) /\ ~Exists(row)     -> Fail(row, "failed to delete key")
    [] OTHER                            -> Done(NoRow)

CouchbaseGet(row) == row

(***************************************************************************)
(* state/aerospike.  The etag is the generation of the record, which       *)
(* starts again at 1 with a new record.                                    *)
(***************************************************************************)
AerospikeSet(op, row) ==
  CASE HasETag(op) /\ ~Matches(op, row) -> Mismatch(row)
    [] ~Exists(row) -> Done(Written(op, 1, "never"))
    [] OTHER        -> Done(Written(op, row.etag + 1, "never"))

AerospikeDelete(op, row) ==
  IF HasETag(op) /\ Exists(row) /\ ~Matches(op, row) THEN Mismatch(row)
                                                     ELSE Done(NoRow)

AerospikeGet(row) == row

(***************************************************************************)
(* state/alicloud/tablestore and state/rethinkdb keep the etag of the      *)
(* request and compare it with nothing; a row whose writers never gave one *)
(* has none.                                                               *)
(***************************************************************************)
TablestoreSet(op, row) ==
  Done(Written(op, IF ~HasETag(op) /\ Exists(row) THEN row.etag ELSE op.etag, "never"))

TablestoreDelete(op, row) ==
  IF Exists(row) THEN Done(NoRow) ELSE Fail(row, "row does not exist")

TablestoreGet(row) == row

RethinkSet(op, row) == Done(Written(op, op.etag, "never"))

RethinkDelete(op, row) == Done(NoRow)

RethinkGet(row) == row

(***************************************************************************)
(* Stores without etags: every write is blind.                             *)
(***************************************************************************)
\* state/cassandra: the service refuses a TTL of -1.
CassandraSet(op, row) ==
  IF op.ttl = "persist" THEN Fail(row, "invalid TTL")
                        ELSE Done(Written(op, NoETag, ParseTTL(op)))
CassandraDelete(op, row) == Done(NoRow)
CassandraGet(row) == row

\* state/memcached
MemcachedTTL(op) == ParseTTL(op)
MemcachedSet(op, row) == Done(Written(op, NoETag, MemcachedTTL(op)))
MemcachedDelete(op, row) == Done(NoRow)
MemcachedGet(row) == row

\* state/coherence
CoherenceSet(op, row) == Done(Written(op, NoETag, ParseTTL(op)))
CoherenceDelete(op, row) == Done(NoRow)
CoherenceGet(row) == row

\* state/cloudflare/workerskv: a TTL below a minute is refused, -1 too.
WorkersKVSet(op, row) ==
  IF op.ttl = "persist" THEN Fail(row, "the minimum value is 60 seconds")
                        ELSE Done(Written(op, NoETag, ParseTTL(op)))
WorkersKVDelete(op, row) == Done(NoRow)
WorkersKVGet(row) == row

\* state/gcp/firestore
FirestoreSet(op, row) == Done(Written(op, NoETag, "never"))
FirestoreDelete(op, row) == Done(NoRow)
FirestoreGet(row) == row

\* state/jetstream
JetstreamSet(op, row) == Done(Written(op, NoETag, "never"))
JetstreamDelete(op, row) == Done(NoRow)
JetstreamGet(row) == row

\* state/hazelcast
HazelcastSet(op, row) == Done(Written(op, NoETag, "never"))
HazelcastDelete(op, row) == Done(NoRow)
HazelcastGet(row) == row

\* state/hashicorp/consul
ConsulSet(op, row) == Done(Written(op, NoETag, "never"))
ConsulDelete(op, row) == Done(NoRow)
ConsulGet(row) == row
==============================================================================
