-------------------------- MODULE StoreLifecycles ---------------------------
(***************************************************************************)
(* The words in which the life of a component is written (what the steps   *)
(* of its Init, Read and Close open, start, keep, stop and release), and   *)
(* Init and Close of the state stores, the lock and the configuration      *)
(* stores in these words.  A resource is a connection, a client, a pool or *)
(* a registration that has to be released; a client that needs no release  *)
(* is not one.                                                             *)
(***************************************************************************)
EXTENDS Naturals, Sequences

LOCAL LifeStep(do, what) ==
  [do |-> do, what |-> what, undo |-> {}, fatal |-> FALSE, optional |-> FALSE]

(* Steps of Init and Read. *)

\* A check or a request: an error ends the call.
Check(what) == LifeStep("check", what)
\* Opens a resource that a field of the component refers to.
Opens(r) == LifeStep("open", r)
\* Opens a resource that only a local variable refers to, until Keeps.
Takes(r) == LifeStep("take", r)
Keeps(r) == LifeStep("keep", r)
\* Opens a resource in a local variable without a request that could fail, and
\* releases it.
OpensLocal(r) == LifeStep("hold", r)
ClosesLocal(r) == LifeStep("drop", r)
\* Opens a resource in a field without a request that could fail.
Makes(r) == LifeStep("make", r)
\* Starts a goroutine.
Spawns(g) == LifeStep("spawn", g)
\* The step is skipped, by its configuration or because its error is ignored.
Perhaps(step) == [step EXCEPT !.optional = TRUE]
\* An error of the step also releases the resources.
OrElse(step, resources) == [step EXCEPT !.undo = resources]
\* An error of the step ends the process.
Fatal(step) == [step EXCEPT !.fatal = TRUE]

(* Steps of Close. *)

\* A second call returns here.
Once == LifeStep("once", "closed")
\* The call returns here when the field is nil.
Needs(r) == LifeStep("needs", r)
\* Tells a goroutine to end.
Signals(g) == LifeStep("signal", g)
\* Releases a resource if its field is not nil.
Releases(r) == LifeStep("release", r)
\* Calls a method of a field that may be nil, which releases the resource.
Derefs(r) == LifeStep("deref", r)
\* Calls a method of a field that may be nil and releases nothing.
Touches(r) == LifeStep("touch", r)
\* Sets the field to nil.
Clears(r) == LifeStep("clear", r)
\* Waits for a goroutine.
Joins(g) == LifeStep("join", g)

(* PostgreSQL and CockroachDB, the state stores of the first and second table layout. *)
PostgresAuth == <<Check("connection string"), Check("environment settings")>>
PoolConfig ==
  <<Check("connection string"), Check("pool options"), Check("token credential")>>

PostgresV1Metadata ==
  <<Check("properties")>> \o PostgresAuth \o <<Check("timeout")>>
PostgresV1Init ==
  PostgresV1Metadata \o PoolConfig
  \o <<Check("AWS IAM"), Opens("db"), Check("ping"), Check("migrations"),
       Check("collector"), Perhaps(Spawns("gc"))>>
PostgresV1Close ==
  <<Releases("db"), Clears("db"), Signals("gc"), Joins("gc")>>

PostgresV2Metadata ==
  <<Check("properties")>> \o PostgresAuth \o <<Check("timeout")>>
PostgresV2Init ==
  PostgresV2Metadata \o PoolConfig
  \o <<Check("AWS IAM"), Opens("db"), Check("ping"), Check("migrations"),
       Check("collector"), Perhaps(Spawns("gc"))>>
PostgresV2Close ==
  <<Releases("db"), Clears("db"), Signals("gc"), Joins("gc")>>

\* The other SQL state stores.

MySQLMetadata ==
  <<Check("properties"), Check("table names"), Check("connection string"),
    Check("certificate")>>
MySQLFinishInit ==
  <<Keeps("db"), Check("schema"), OrElse(Check("database of the schema"), {"db"}),
    Check("ping"), Check("state table"),
    Check("metadata table"), Check("collector"), Perhaps(Spawns("gc"))>>
MySQLInit == MySQLMetadata \o <<Takes("db")>> \o MySQLFinishInit
MySQLClose ==
  <<Needs("db"), Releases("db"), Clears("db"), Signals("gc"), Joins("gc")>>
SQLServerConnector ==
  <<Check("connection string"), Check("token credential")>>

\* The connection that names no database is not closed when the database cannot be
\* created.  If the connection string names one, the first three steps and the second
\* connector are left out, and errors end in the same way.
SQLServerMigrations ==
  SQLServerConnector
  \o <<OpensLocal("connection"), Check("database"), ClosesLocal("connection")>>
  \o SQLServerConnector
  \o <<OpensLocal("migrations"), OrElse(Check("schema"), {"migrations"}),
       OrElse(Check("tables"), {"migrations"}), OrElse(Check("procedures"), {"migrations"}),
       OrElse(Check("indexes"), {"migrations"}), ClosesLocal("migrations")>>

SQLServerMetadata ==
  <<Check("properties"), Check("table names"), Check("indexed properties"),
    Check("cleanup interval")>>
SQLServerInit ==
  SQLServerMetadata \o SQLServerMigrations \o SQLServerConnector
  \o <<Makes("db"), Check("collector"), Perhaps(Spawns("gc"))>>
SQLServerClose == <<Releases("db"), Clears("db"), Signals("gc"), Joins("gc")>>

SQLServerV2Metadata ==
  <<Check("properties"), Check("table names"), Check("indexed properties"),
    Check("cleanup interval")>>
SQLServerV2Init ==
  SQLServerV2Metadata \o SQLServerMigrations \o SQLServerConnector
  \o <<Makes("db"), Check("collector"), Perhaps(Spawns("gc"))>>
SQLServerV2Close ==
  <<Releases("db"), Clears("db"), Signals("gc"), Joins("gc")>>
SqliteConnection == <<Check("options of the connection string")>>

SqliteMetadata ==
  <<Check("properties"), Check("timeout"), Check("table names")>>
SqliteInit ==
  SqliteMetadata \o SqliteConnection
  \o <<Opens("db"), Check("ping"), Check("migrations"), Check("collector"),
       Perhaps(Spawns("gc"))>>
SqliteClose == <<Signals("gc"), Joins("gc"), Releases("db")>>

OracleInit ==
  <<Check("properties"), Check("connection string"), Takes("db"),
    OrElse(Check("ping"), {"db"}), Keeps("db"), OrElse(Check("table"), {"db"})>>
OracleClose == <<Releases("db")>>

\* The document and key-value stores.
RedisClient ==
  <<Check("properties"), Check("hosts"), Check("token"), Opens("client")>>
RedisInit ==
  RedisClient \o <<Check("query schemas"), Check("ping"), Check("replicas"),
                     Check("schema registration")>>
RedisClose == <<Derefs("client")>>
RedisLockInit ==
  RedisClient \o <<Check("host"), Check("type"), Check("ping"), Check("replicas")>>
RedisLockClose == <<Releases("client"), Clears("client")>>
MongoInit ==
  <<Check("metadata"), Opens("client"), Check("ping"), Check("write concern"),
    Check("read concern"), Check("ttl index")>>
MongoClose == <<Needs("client"), Releases("client")>>
CosmosInit ==
  <<Check("metadata"), Check("credential"), Check("client"), Check("container"),
    Check("read of the container")>>
TableStorageInit ==
  <<Check("metadata"), Check("credential"), Check("client"), Check("table")>>

BlobContainerMetadata ==
  <<Check("properties"), Check("account"), Check("container name"),
    Check("access level"), Check("retry count")>>
BlobContainerClient ==
  <<Check("credential"), Check("container URL"), Check("client")>>
BlobStoreInit ==
  BlobContainerMetadata \o <<Check("environment"), Check("custom endpoint")>>
  \o BlobContainerClient
  \o <<Check("container")>>
DynamoInit ==
  <<Check("metadata"), Check("AWS config"), Check("access to the table")>>
OCIInit == <<Check("metadata"), Check("client"), Check("bucket")>>
TableStoreInit == <<Check("metadata")>>
FirestoreInit == <<Check("metadata"), Opens("client")>>
FirestoreClose == <<Releases("client")>>
AerospikeInit == <<Check("metadata"), Opens("client")>>
ZookeeperInit == <<Check("config"), Opens("connection")>>
EtcdInit == <<Check("config"), Check("TLS"), Opens("client")>>
EtcdClose == <<Needs("client"), Releases("client")>>
RavenInit == <<Check("metadata"), Check("certificate"), Opens("store")>>
RavenClose == <<Needs("store"), Releases("store")>>
RethinkInit ==
  <<Check("config"), Check("TLS"), Opens("session"), Check("list of tables"),
    Check("state table"), Check("archive table"), Check("index")>>
RethinkClose == <<Needs("session"), Releases("session")>>
JetStreamInit ==
  <<Check("metadata"), Opens("connection"), Check("context"), Check("bucket")>>
JetStreamClose == <<Once, Releases("connection")>>
ConsulStoreInit == <<Check("config"), Check("client")>>
HazelcastInit == <<Check("metadata"), Takes("client"), Check("map")>>
CoherenceInit ==
  <<Check("metadata"), Takes("session"), Check("cache"), Keeps("session")>>
CoherenceClose == <<Releases("session")>>
MemcachedInit == <<Check("metadata"), Makes("client"), Check("ping")>>
MemcachedClose == <<Releases("client")>>
CassandraInit ==
  <<Check("metadata"), Check("cluster config"), Opens("session"),
    Check("keyspace"), Check("table")>>
CassandraClose == <<Needs("session"), Releases("session")>>
CouchbaseInit == <<Check("metadata"), Takes("cluster"), Opens("bucket")>>
CouchbaseClose == <<Needs("bucket"), Releases("bucket")>>
WorkerInit == <<Makes("context"), Check("worker")>>
WorkerClose == <<Releases("context"), Clears("context")>>
WorkersKVInit ==
  <<Check("metadata"), Check("account"), Check("namespace")>> \o WorkerInit
WorkersKVClose == WorkerClose

\* The configuration stores.
RedisConfigInit == RedisClient \o <<Check("ping"), Check("replicas")>>
RedisConfigClose == <<Derefs("client")>>

PostgresConfigMetadata ==
  <<Check("properties"), Check("table"), Check("channel"), Check("timeout")>>
  \o PostgresAuth
PostgresConfigInit ==
  PostgresConfigMetadata \o PoolConfig
  \o <<Check("AWS IAM"), Opens("pool"), Check("ping"), Check("table exists")>>
PostgresConfigClose == <<Releases("pool")>>
ConfigMapInit ==
  <<Check("metadata"), Check("client"), Spawns("informer of configmaps"),
    Check("first synchronisation")>>
ConfigMapClose ==
  <<Signals("informer of configmaps"), Joins("informer of configmaps")>>
AppConfigInit == <<Check("metadata"), Check("credential"), Check("client")>>

StoreInits ==
  [postgres_v1 |-> PostgresV1Init, postgres_v2 |-> PostgresV2Init,
   mysql |-> MySQLInit, sqlserver |-> SQLServerInit,
   sqlserver_v2 |-> SQLServerV2Init, sqlite |-> SqliteInit,
   oracle |-> OracleInit, redis |-> RedisInit, redis_lock |-> RedisLockInit,
   mongodb |-> MongoInit, cosmosdb |-> CosmosInit,
   tablestorage |-> TableStorageInit, blob_store |-> BlobStoreInit,
   dynamodb |-> DynamoInit, oci |-> OCIInit, tablestore |-> TableStoreInit,
   firestore |-> FirestoreInit, aerospike |-> AerospikeInit,
   zookeeper |-> ZookeeperInit, etcd |-> EtcdInit, ravendb |-> RavenInit,
   rethinkdb |-> RethinkInit, jetstream_store |-> JetStreamInit,
   consul_store |-> ConsulStoreInit, hazelcast |-> HazelcastInit,
   coherence |-> CoherenceInit, memcached |-> MemcachedInit,
   cassandra |-> CassandraInit, couchbase |-> CouchbaseInit,
   workerskv |-> WorkersKVInit, redis_config |-> RedisConfigInit,
   postgres_config |-> PostgresConfigInit, configmap |-> ConfigMapInit,
   appconfig |-> AppConfigInit]

\* Of the components whose Close does something with a resource or a goroutine.
StoreCloses ==
  [postgres_v1 |-> PostgresV1Close, postgres_v2 |-> PostgresV2Close,
   mysql |-> MySQLClose, sqlserver |-> SQLServerClose,
   sqlserver_v2 |-> SQLServerV2Close, sqlite |-> SqliteClose,
   oracle |-> OracleClose, redis |-> RedisClose, redis_lock |-> RedisLockClose,
   mongodb |-> MongoClose, firestore |-> FirestoreClose, etcd |-> EtcdClose,
   ravendb |-> RavenClose, rethinkdb |-> RethinkClose,
   jetstream_store |-> JetStreamClose, coherence |-> CoherenceClose,
   memcached |-> MemcachedClose, cassandra |-> CassandraClose,
   couchbase |-> CouchbaseClose, workerskv |-> WorkersKVClose,
   redis_config |-> RedisConfigClose, postgres_config |-> PostgresConfigClose,
   configmap |-> ConfigMapClose]
=============================================================================
