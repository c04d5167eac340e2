----------------------------- MODULE StateStores -----------------------------
(***************************************************************************)
(* Clients of one state store: Set, Delete and their bulk forms, Multi,    *)
(* expiry and the sweep of expired rows, for every store of state/.  The   *)
(* store is chosen in the initial state; its operators are those of        *)
(* SqlStores, DocumentStores and KeyValueStores.                           *)
(*                                                                         *)
(* A client that sends an etag has read it: seen holds what Get has been   *)
(* able to answer at any time.                                             *)
(***************************************************************************)
EXTENDS SqlStores, DocumentStores, KeyValueStores, FiniteSets, SequencesExt

CONSTANTS
  Stores,       \* the stores to choose from
  Clients, Keys,
  MaxRequests,  \* bound: SetRequests and DeleteRequests in a behaviour
  SetKeys,      \* bound: the keys Set and Delete are called for
  MultiTTLs     \* bound: ttlInSeconds of the requests in Multi

ASSUME StateStoresAssumption == MaxRequests \in Nat /\ SetKeys \subseteq Keys

VARIABLES
  store,     \* the store of this behaviour
  db,        \* what the service keeps under each key
  calls,     \* what each client has under way: its requests, the command each
             \* has come to, how they are executed, which of them have taken
             \* effect, and the error, kept until the next call
  seen,      \* the rows Get has been able to return
  requests   \* the number of requests made

vars == <<store, db, calls, seen, requests>>

(***************************************************************************)
(* The stores.                                                             *)
(***************************************************************************)
\* Set of a store: the outcome of the command at pc.
Set(op, pc, row) ==
  CASE store = "sqlite"       -> SqliteSet(op, row)
    [] store = "mysql"        -> MySQLSet(op, row)
    [] store = "postgresql"   -> PostgresV1Set(op, row, PostgresV1Query(op, row))
    [] store = "cockroachdb"  -> PostgresV1Set(op, row, CockroachQuery(op, row))
    [] store = "postgresql v2" -> PostgresV2Set(op, row)
    [] store = "sqlserver"    -> SQLServerSet(op, pc, row)
    [] store = "sqlserver v2" -> SQLServerV2Set(op, pc, row)
    [] store = "oracle"       -> OracleSet(op, row)
    [] store = "mongodb"      -> MongoSet(op, row)
    [] store = "cosmosdb"     -> CosmosSet(op, row)
    [] store = "dynamodb"     -> DynamoSet(op, row)
    [] store = "ravendb"      -> RavenSet(op, pc, row)
    [] store = "tablestorage" -> TableStorageSet(op, pc, row)
    [] store = "blobstorage"  -> BlobSet(op, row)
    [] store = "oci"          -> OCISet(op, row)
    [] store = "redis"        -> RedisSet(op, pc, row)
    [] store = "etcd"         -> EtcdSet(op, pc, row)
    [] store = "zookeeper"    -> ZookeeperSet(op, pc, row)
    [] store = "couchbase"    -> CouchbaseSet(op, row)
    [] store = "aerospike"    -> AerospikeSet(op, row)
    [] store = "tablestore"   -> TablestoreSet(op, row)
    [] store = "rethinkdb"    -> RethinkSet(op, row)
    [] store = "cassandra"    -> CassandraSet(op, row)
    [] store = "memcached"    -> MemcachedSet(op, row)
    [] store = "coherence"    -> CoherenceSet(op, row)
    [] store = "workerskv"    -> WorkersKVSet(op, row)
    [] store = "firestore"    -> FirestoreSet(op, row)
    [] store = "jetstream"    -> JetstreamSet(op, row)
    [] store = "hazelcast"    -> HazelcastSet(op, row)
    [] store = "consul"       -> ConsulSet(op, row)

Delete(op, pc, row) ==
  CASE store = "sqlite"       -> SqliteDelete(op, row)
    [] store = "mysql"        -> MySQLDelete(op, row)
    [] store \in {"postgresql", "cockroachdb"} -> PostgresV1Delete(op, row)
    [] store = "postgresql v2" -> PostgresV2Delete(op, row)
    [] store = "sqlserver"    -> SQLServerDelete(op, row)
    [] store = "sqlserver v2" -> SQLServerV2Delete(op, row)
    [] store = "oracle"       -> OracleDelete(op, row)
    [] store = "mongodb"      -> MongoDelete(op, row)
    [] store = "cosmosdb"     -> CosmosDelete(op, row)
    [] store = "dynamodb"     -> DynamoDelete(op, row)
    [] store = "ravendb"      -> RavenDelete(op, row)
    [] store = "tablestorage" -> TableStorageDelete(op, row)
    [] store = "blobstorage"  -> BlobDelete(op, row)
    [] store = "oci"          -> OCIDelete(op, row)
    [] store = "redis"        -> RedisDelete(op, row)
    [] store = "etcd"         -> EtcdDelete(op, pc, row)
    [] store = "zookeeper"    -> ZookeeperDelete(op, row)
    [] store = "couchbase"    -> CouchbaseDelete(op, row)
    [] store = "aerospike"    -> AerospikeDelete(op, row)
    [] store = "tablestore"   -> TablestoreDelete(op, row)
    [] store = "rethinkdb"    -> RethinkDelete(op, row)
    [] store = "cassandra"    -> CassandraDelete(op, row)
    [] store = "memcached"    -> MemcachedDelete(op, row)
    [] store = "coherence"    -> CoherenceDelete(op, row)
    [] store = "workerskv"    -> WorkersKVDelete(op, row)
    [] store = "firestore"    -> FirestoreDelete(op, row)
    [] store = "jetstream"    -> JetstreamDelete(op, row)
    [] store = "hazelcast"    -> HazelcastDelete(op, row)
    [] store = "consul"       -> ConsulDelete(op, row)

\* What Get and BulkGet return of a row.
Get(row) ==
  CASE store = "sqlite"       -> SqliteGet(row)
    [] store = "mysql"        -> MySQLGet(row)
    [] store \in {"postgresql", "cockroachdb"} -> PostgresV1Get(row)
    [] store = "postgresql v2" -> PostgresV2Get(row)
    [] store = "sqlserver"    -> SQLServerGet(row)
    [] store = "sqlserver v2" -> SQLServerV2Get(row)
    [] store = "oracle"       -> OracleGet(row)
    [] store = "mongodb"      -> MongoGet(row)
    [] store = "cosmosdb"     -> CosmosGet(row)
    [] store = "dynamodb"     -> DynamoGet(row)
    [] store = "ravendb"      -> RavenGet(row)
    [] store = "tablestorage" -> TableStorageGet(row)
    [] store = "blobstorage"  -> BlobGet(row)
    [] store = "oci"          -> OCIGet(row)
    [] store = "redis"        -> RedisGet(row)
    [] store = "etcd"         -> EtcdGet(row)
    [] store = "zookeeper"    -> ZookeeperGet(row)
    [] store = "couchbase"    -> CouchbaseGet(row)
    [] store = "aerospike"    -> AerospikeGet(row)
    [] store = "tablestore"   -> TablestoreGet(row)
    [] store = "rethinkdb"    -> RethinkGet(row)
    [] store = "cassandra"    -> CassandraGet(row)
    [] store = "memcached"    -> MemcachedGet(row)
    [] store = "coherence"    -> CoherenceGet(row)
    [] store = "workerskv"    -> WorkersKVGet(row)
    [] store = "firestore"    -> FirestoreGet(row)
    [] store = "jetstream"    -> JetstreamGet(row)
    [] store = "hazelcast"    -> HazelcastGet(row)
    [] store = "consul"       -> ConsulGet(row)

Do(op, pc, row) ==
  IF op.kind = "set" THEN Set(op, pc, row) ELSE Delete(op, pc, row)

\* Features.
Transactional == {"sqlite", "mysql", "postgresql", "cockroachdb",
                  "postgresql v2", "sqlserver", "sqlserver v2", "oracle",
                  "mongodb", "cosmosdb", "dynamodb", "ravendb", "redis", "etcd"}
WithTTL == {"sqlite", "mysql", "postgresql", "cockroachdb", "postgresql v2",
            "sqlserver", "sqlserver v2", "oracle", "mongodb", "cosmosdb",
            "dynamodb", "ravendb", "oci", "redis", "etcd", "cassandra", "memcached",
            "coherence", "workerskv"}

\* Services that drop a row when its time is over, instead of later.
DropAtOnce == {"cosmosdb", "redis", "etcd", "cassandra", "memcached",
               "coherence", "workerskv"}

\* Nobody removes the expired rows of these.
NoSweep == {"oracle", "oci"}

(***************************************************************************)
(* Multi.                                                                  *)
(***************************************************************************)
\* etcd validates, and RavenDB loads, request by request before the commit.
Prepares(op) ==
  CASE store = "etcd"    -> HasETag(op) \/ IsFirstWrite(op)
    [] store = "ravendb" -> op.kind = "delete" \/ IsFirstWrite(op)
    [] OTHER             -> FALSE

PrepareOp(op, row) ==
  IF store = "ravendb" /\ op.kind = "delete"
    THEN RavenMultiDelete(op, "start", row) ELSE Do(op, "start", row)

\* A request inside the commit.
MultiOp(op, pc, row) ==
  CASE store = "cosmosdb" /\ op.kind = "delete" -> CosmosBatchDelete(op, row)
    [] store = "dynamodb" /\ op.kind = "delete" -> DynamoMultiDelete(op, row)
    [] store = "ravendb" /\ op.kind = "delete"  -> RavenMultiDelete(op, pc, row)
    [] store = "redis" /\ op.kind = "set"       -> RedisMultiSet(op, row)
    [] OTHER                                    -> Do(op, pc, row)

\* The keys after the requests of ops have had outcomes out.  They are distinct.
AllApplied(ops, out) ==
  [k \in Keys |-> IF \E i \in DOMAIN ops : ops[i].key = k
                    THEN out[CHOOSE i \in DOMAIN ops : ops[i].key = k].row
                    ELSE db[k]]

\* One operation with all its commands (two at most).
RunOp(op, row) ==
  LET first == Do(op, "start", row)
  IN  IF first.pc = "done" THEN first ELSE Do(op, first.pc, first.row)

\* Operations in order in one transaction, rolled back at the first that fails.
InTransaction(ops) ==
  LET run[i \in 0..Len(ops)] ==
        IF i = 0 THEN [db |-> db, err |-> "ok"]
        ELSE LET o == RunOp(ops[i], run[i - 1].db[ops[i].key])
             IN  IF run[i - 1].err # "ok" THEN run[i - 1]
                 ELSE [db |-> [run[i - 1].db EXCEPT ![ops[i].key] = o.row],
                       err |-> o.err]
      end == run[Len(ops)]
  IN  IF end.err = "ok" THEN end ELSE [db |-> db, err |-> end.err]

\* How the commit executes the requests: one after another in a transaction, as
\* a list the service takes as a whole, or (Redis) as a list without rollback.
SqliteMulti      == "transaction"
MySQLMulti       == "transaction"
PostgresV1Multi  == "transaction"
PostgresV2Multi  == "transaction"
SQLServerMulti   == "transaction"
SQLServerV2Multi == "transaction"
OracleMulti      == "transaction"
MongoMulti       == "transaction"
RedisMulti       == "list without rollback"

MultiMode ==
  CASE store = "sqlite"        -> SqliteMulti
    [] store = "mysql"         -> MySQLMulti
    [] store \in {"postgresql", "cockroachdb"} -> PostgresV1Multi
    [] store = "postgresql v2" -> PostgresV2Multi
    [] store = "sqlserver"     -> SQLServerMulti
    [] store = "sqlserver v2"  -> SQLServerV2Multi
    [] store = "oracle"        -> OracleMulti
    [] store = "mongodb"       -> MongoMulti
    [] store = "redis"         -> RedisMulti
    [] OTHER                   -> "list"

\* Slip: the writes are sent one by one.
BatchMulti_NoTransaction(ops, pcs) ==
  LET out == [i \in DOMAIN ops |-> MultiOp(ops[i], pcs[i], db[ops[i].key])]
      failed == {i \in DOMAIN ops : out[i].err # "ok"}
  IN  [db  |-> AllApplied(ops, out),
       err |-> IF failed = {} THEN "ok" ELSE out[CHOOSE i \in failed : TRUE].err]

\* Services that take a list of writes as a whole; without rollback those that
\* can be are executed.
BatchMulti(ops, pcs) ==
  LET out == [i \in DOMAIN ops |-> MultiOp(ops[i], pcs[i], db[ops[i].key])]
      failed == {i \in DOMAIN ops : out[i].err # "ok"}
  IN  [db  |-> IF failed = {} \/ MultiMode = RedisMulti THEN AllApplied(ops, out) ELSE db,
       err |-> IF failed = {} THEN "ok" ELSE out[CHOOSE i \in failed : TRUE].err]

\* The commit of Multi with its requests at pcs.
Multi(ops, pcs) ==
  IF MultiMode = "transaction" THEN InTransaction(ops) ELSE BatchMulti(ops, pcs)

\* What Multi reports when the commit itself fails.  MongoDB's drops the error
\* of WithTransaction.
CommitError == IF store = "mongodb" THEN "ok" ELSE "failed"

(***************************************************************************)
(* Calls.                                                                  *)
(***************************************************************************)
Idle(err) == [ops |-> <<>>, pcs |-> <<>>, mode |-> "idle", applied |-> {}, err |-> err]

Begin(ops, mode) == [ops |-> ops, pcs |-> [i \in DOMAIN ops |-> "start"],
                     mode |-> mode, applied |-> {}, err |-> "ok"]

\* The requests a client may make for a key, with number id.  Only Redis and
\* ZooKeeper tell "last-write" from no concurrency option.
RequestsFor(k, id, ttls) ==
  LET tags == {s \in seen : s.key = k} \cup {[key |-> k, etag |-> NoETag, id |-> 0]}
      concs == {"", "first-write"} \cup
                 (IF store \in {"redis", "zookeeper"} THEN {"last-write"} ELSE {})
  IN  {Operation(id, "set", k, tag.etag, tag.id, conc, ttl) :
         tag \in tags, conc \in concs, ttl \in ttls}
      \cup {Operation(id, "delete", k, tag.etag, tag.id, conc, "nil") :
              tag \in tags, conc \in concs}

TTLs == IF store \in WithTTL THEN {"nil", "persist", "some"} ELSE {"nil"}

Readable(d) == {[key |-> k, etag |-> Get(d[k]).etag, id |-> d[k].id] :
                  k \in {x \in Keys : Get(d[x]) # NoRow /\ d[x].etag # NoETag}}

\* A row another client has left.
SeedRow == RunOp(Operation(0, "set", CHOOSE k \in Keys : TRUE, NoETag, 0, "", "nil"),
                 NoRow).row

Init ==
  /\ store \in Stores
  /\ db \in [Keys -> {NoRow, SeedRow}]
  /\ calls = [c \in Clients |-> Idle("ok")]
  /\ seen = Readable(db)
  /\ requests = 0

\* What a call does before its first command touches nothing that is shared, so
\* it is enough to let one call at a time be between its start and that command.
Starting == \E c \in Clients : /\ calls[c].mode # "idle"
                               /\ \A i \in DOMAIN calls[c].pcs : calls[c].pcs[i] = "start"

\* Set or Delete.
StartOne(c) ==
  /\ ~Starting
  /\ calls[c].mode = "idle"
  /\ requests < MaxRequests
  /\ \E k \in SetKeys : \E op \in RequestsFor(k, requests + 1, TTLs) :
       calls' = [calls EXCEPT ![c] = Begin(<<op>>, "one")]
  /\ requests' = requests + 1
  /\ UNCHANGED <<store, db, seen>>

\* Multi.
StartMulti(c) ==
  /\ ~Starting
  /\ calls[c].mode = "idle"
  /\ requests + 2 <= MaxRequests
  /\ store \in Transactional
  /\ \E k1 \in SetKeys : \E k2 \in Keys \ {k1} :
     \E op1 \in RequestsFor(k1, requests + 1, MultiTTLs) :
     \E op2 \in RequestsFor(k2, requests + 2, {"nil"}) :
       calls' = [calls EXCEPT ![c] = Begin(<<op1, op2>>, "multi")]
  /\ requests' = requests + 2
  /\ UNCHANGED <<store, db, seen>>

\* Request op has done what it asks for.
TookEffect(op, d) ==
  IF op.kind = "set" THEN d[op.key] # NoRow /\ d[op.key].id = op.id
                     ELSE d[op.key] = NoRow

\* A call after a command: over with its last one.  The error of one request
\* does not stop the others of a bulk call.
Advance(call, pcs, applied, err) ==
  IF \A i \in DOMAIN pcs : pcs[i] = "done" THEN Idle(err)
    ELSE [call EXCEPT !.pcs = pcs, !.applied = applied, !.err = err]

AppliedBy(call, d) ==
  call.applied \cup {i \in DOMAIN call.ops : TookEffect(call.ops[i], d)}

\* One command of request i of a Set, Delete or bulk call.
Step(c, i) ==
  LET call == calls[c]
      op   == call.ops[i]
      out  == Do(op, call.pcs[i], db[op.key])
  IN  /\ call.mode = "one"
      /\ Starting => call.pcs[i] = "start"
      /\ db' = [db EXCEPT ![op.key] = out.row]
      /\ calls' = [calls EXCEPT ![c] =
                     Advance(call, [call.pcs EXCEPT ![i] = out.pc],
                             AppliedBy(call, db'),
                             IF out.err = "ok" THEN call.err ELSE "failed")]
      /\ seen' = seen \cup Readable(db')
      /\ UNCHANGED <<store, requests>>

\* The first request of Multi that has to be looked at before the commit.
Unprepared(call) ==
  {i \in DOMAIN call.ops : call.pcs[i] = "start" /\ Prepares(call.ops[i])}

Prepare(c) ==
  LET call == calls[c]
      i    == CHOOSE j \in Unprepared(call) : \A x \in Unprepared(call) : j <= x
      out  == PrepareOp(call.ops[i], db[call.ops[i].key])
  IN  /\ call.mode = "multi"
      /\ Unprepared(call) # {}
      /\ Starting => \A j \in DOMAIN call.pcs : call.pcs[j] = "start"
      /\ calls' = [calls EXCEPT ![c] =
                     IF out.err # "ok" THEN Idle("failed")
                     ELSE [call EXCEPT !.pcs[i] = out.pc,
                                       !.applied = AppliedBy(call, db)]]
      /\ UNCHANGED <<store, db, seen, requests>>

Commit(c) ==
  LET call == calls[c]
      out  == Multi(call.ops, call.pcs)
  IN  /\ call.mode = "multi"
      /\ Unprepared(call) = {}
      /\ db' = out.db
      /\ calls' = [calls EXCEPT ![c] = Idle(IF out.err = "ok" THEN "ok" ELSE "failed")]
      /\ seen' = seen \cup Readable(db')
      /\ UNCHANGED <<store, requests>>

\* The commit fails and the service has rolled back.
CommitFails(c) ==
  /\ calls[c].mode = "multi"
  /\ Unprepared(calls[c]) = {}
  /\ calls' = [calls EXCEPT ![c] = Idle(CommitError)]
  /\ UNCHANGED <<store, db, seen, requests>>

\* The connection is lost, or the client ends, between two commands.
Interrupted(c) ==
  /\ \E i \in DOMAIN calls[c].pcs : calls[c].pcs[i] # "start"
  /\ calls' = [calls EXCEPT ![c] = Idle("failed")]
  /\ UNCHANGED <<store, db, seen, requests>>

(***************************************************************************)
(* Time.                                                                   *)
(***************************************************************************)
Expire(k) ==
  /\ ~Starting
  /\ db[k] # NoRow /\ db[k].exp = "armed"
  /\ db' = [db EXCEPT ![k] = IF store \in DropAtOnce THEN NoRow
                             ELSE [db[k] EXCEPT !.exp = "passed"]]
  /\ UNCHANGED <<store, calls, seen, requests>>

\* The garbage collector of the component, or the sweep of the service.
Collect(k) ==
  /\ store \notin NoSweep
  /\ ~Starting
  /\ db[k] # NoRow /\ db[k].exp = "passed"
  /\ db' = [db EXCEPT ![k] = NoRow]
  /\ UNCHANGED <<store, calls, seen, requests>>

Next ==
  \/ \E c \in Clients : \/ StartOne(c)
                        \/ StartMulti(c)
                        \/ \E i \in DOMAIN calls[c].ops : Step(c, i)
                        \/ Prepare(c)
                        \/ Commit(c)
                        \/ CommitFails(c)
                        \/ Interrupted(c)
  \/ \E k \in Keys : Expire(k) \/ Collect(k)

Spec == Init /\ [][Next]_vars
-----------------------------------------------------------------------------
(***************************************************************************)
(* Properties: the promises of the etag, first-write, transaction and TTL  *)
(* features.  The stores that break one are named, with the reason; TLC    *)
(* refutes the property for each of them.                                  *)
(***************************************************************************)
TypeOK ==
  /\ store \in Stores
  /\ db \in [Keys -> Row \cup {NoRow}]
  /\ \A c \in Clients :
       /\ calls[c].mode \in {"idle", "one", "multi"}
       /\ calls[c].err \in {"ok", "failed"}
       /\ DOMAIN calls[c].pcs = DOMAIN calls[c].ops
       /\ calls[c].applied \subseteq DOMAIN calls[c].ops
  /\ requests \in 0..MaxRequests

\* Stores without FeatureETag, or whose etags are the caller's own.
NoETags == {"tablestore", "rethinkdb", "cassandra", "memcached", "coherence",
            "workerskv", "firestore", "jetstream", "hazelcast", "consul"}

\* A stale etag can win: the etag is a counter that starts again with the key
\* (Redis, ZooKeeper, Aerospike) or with an upsert (CockroachDB), the request is
\* sent without it ("last-write" of Redis and ZooKeeper, anything but
\* "first-write" of OCI), or Multi deletes without it (DynamoDB, RavenDB).
ReusedETags == {"cockroachdb", "dynamodb", "ravendb", "oci", "redis",
                "zookeeper", "aerospike"}

\* A Set with an etag inserts where nothing is.
ETagInserts == {"mongodb", "cosmosdb", "ravendb", "tablestorage", "oci",
                "redis", "zookeeper"}

\* A first write is checked by another command than the one that writes
\* (SQL Server, RavenDB, etcd), by a mark only first writes leave (Redis), or
\* not at all.
FirstWriteRaces == {"sqlserver", "sqlserver v2", "ravendb", "redis", "etcd", "zookeeper",
                    "couchbase", "aerospike"} \cup NoETags

\* Statements that see rows Get takes for expired.
SeesExpired == {"mysql", "sqlserver", "sqlserver v2", "oracle", "mongodb", "dynamodb",
                "ravendb", "oci"}

\* -1 is a time in the past or a short lease, or (Redis) a Set without a TTL
\* keeps the one of the row before.
OddTTL == {"redis", "etcd", "sqlserver", "sqlserver v2", "mongodb", "dynamodb", "oci"}

\* op, under way in client c, takes effect in this step.
TakesEffect(c, op) ==
  calls'[c] # calls[c] /\ TookEffect(op, db') /\ ~TookEffect(op, db)

\* A Set or Delete with an etag never replaces or removes any row but the one
\* the caller read: no stale etag wins, however the requests of the clients,
\* deletions and expiries interleave.
StaleETagNeverWins ==
  [][(store \notin ReusedETags =>
       \A c \in Clients : \A i \in DOMAIN calls[c].ops :
         LET op == calls[c].ops[i]
         IN  TakesEffect(c, op) /\ HasETag(op) /\ Exists(db[op.key])
             => db[op.key].id = op.seen)]_vars

\* A Set with an etag does not bring back a row that has been deleted since.
NoResurrection ==
  [][(store \notin ETagInserts =>
       \A c \in Clients : \A i \in DOMAIN calls[c].ops :
         LET op == calls[c].ops[i]
         IN  TakesEffect(c, op) /\ HasETag(op) /\ op.kind = "set"
             => Exists(db[op.key]))]_vars

\* Of several first writes of a key one wins: such a Set never replaces a row
\* that is there and has not expired.
FirstWriteKeepsExisting ==
  [][(store \notin FirstWriteRaces =>
       \A c \in Clients : \A i \in DOMAIN calls[c].ops :
         LET op == calls[c].ops[i]
         IN  TakesEffect(c, op) /\ Creates(op) /\ op.kind = "set"
             => ~IsLive(db[op.key]))]_vars

\* A call that reports success has done all it was asked for.  etcd drops the
\* answer of its transaction and MongoDB's Multi the error of its commit.
SuccessTookEffect ==
  [][(store \notin {"etcd", "mongodb"} =>
       \A c \in Clients :
         calls[c].mode # "idle" /\ calls'[c].mode = "idle" /\ calls'[c].err = "ok"
         => AppliedBy(calls[c], db') = DOMAIN calls[c].ops)]_vars

\* Multi does all of its requests or none.  Redis has no rollback,
\* and the comparisons inside etcd's transaction fail one by one.
MultiAllOrNothing ==
  [][(store \notin {"redis", "etcd"} =>
       \A c \in Clients : calls[c].mode = "multi" /\ calls'[c] # calls[c] =>
         LET ops == calls[c].ops
         IN  \/ AppliedBy(calls[c], db') = DOMAIN ops
             \/ \A i \in DOMAIN ops : db'[ops[i].key] = db[ops[i].key])]_vars

\* To a Set, an expired row that has not been collected yet is no row: an etag
\* of it does not match, and a first write may take its place.
ExpiredRowIsAbsent ==
  [][(store \notin SeesExpired =>
       \A c \in Clients : \A i \in DOMAIN calls[c].ops :
         LET op == calls[c].ops[i]
             expired == Exists(db[op.key]) /\ ~IsLive(db[op.key])
         IN  expired /\ op.kind = "set" /\ calls'[c].mode = "idle"
             /\ Len(calls[c].ops) = 1
             => (TookEffect(op, db') <=> ~HasETag(op)))]_vars

\* A row is subject to expiry if and only if its writer asked for a time to
\* live, once no call is under way.
ExpiryIsTheWriters ==
  store \notin OddTTL =>
    ((\A c \in Clients : calls[c].mode = "idle") =>
       \A k \in Keys : Exists(db[k]) =>
         (db[k].exp # "never" <=> db[k].ttl = "some"))

\* An etag guards a row against writers who have not seen it, while it is there
\* and when it is gone, and so does "first-write" where there is no etag yet.
ETagGuards == StaleETagNeverWins /\ NoResurrection /\ FirstWriteKeepsExisting

\* What a call reports is what it did: success stands for every request of it,
\* failure of a Multi for none.
ReportsAreTrue == SuccessTookEffect /\ MultiAllOrNothing

\* Rows expire when, and only when, their writers asked for it, and are then no
\* obstacle to others.
ExpiryRespected == []ExpiryIsTheWriters /\ ExpiredRowIsAbsent
==============================================================================
