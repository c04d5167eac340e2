------------------------------ MODULE Migrations ------------------------------
(***************************************************************************)
(* Sidecars that start at the same time and bring the schema of one        *)
(* database up to date: common/component/sql/migrations.go, its PostgreSQL *)
(* and SQLite forms, and the stores that create their tables themselves.   *)
(*                                                                         *)
(* The Init of a store is a program of statements over the objects of the  *)
(* schema.  Sidecars crash between two statements, statements fail, and a  *)
(* sidecar whose Init has failed is started again.  Meanwhile sidecars of  *)
(* an older version, already running, insert rows.                         *)
(***************************************************************************)
EXTENDS Integers, Sequences, FiniteSets

CONSTANTS
  Databases,   \* the stores to choose from
  Starters,    \* the sidecars that start
  Nobody,      \* no sidecar
  MaxCrashes,  \* bound: crashes and failed statements
  MaxRows      \* bound: rows of the state table

VARIABLES
  database,    \* the store of this behaviour
  schema,      \* the objects there are: tables, columns, indexes, procedures
  level,       \* the migration level in the metadata table
  rows,        \* the row_id of each row of the state table, 0 where it is NULL
  sequence,    \* the next value of the identity of row_id
  migrating,   \* the sidecar that has the migration lock
  undo,        \* the database at the start of SQLite's exclusive transaction
  starter,     \* each sidecar: its status, the statement it has come to, the
               \* level it has read and the objects its checks have found
  crashes,     \* the number of faults so far
  inserted     \* whether a row has been inserted meanwhile

migrationVars == <<database, schema, level, rows, sequence, migrating, undo,
                   starter, crashes, inserted>>

(***************************************************************************)
(* Statements.                                                             *)
(***************************************************************************)
Statement(do, objects) == [do |-> do, objects |-> objects, of |-> 0]

\* SELECT EXISTS (...); a create of what has been found is left out.
Check(o)  == Statement("check", {o})
\* CREATE or ALTER ... ADD: an error if the object is there.
Create(o) == Statement("create", {o})
\* CREATE ... IF NOT EXISTS.
Ensure(o) == Statement("ensure", {o})

Lock     == Statement("lock", {})
Read     == Statement("read", {})
Release  == Statement("release", {})
Begin    == Statement("begin", {})
Commit   == Statement("commit", {})

\* Migration i of Migrate: its statements, and then the level.  It is left out if
\* the level that has been read is i or more.
Migration(i, statements) ==
  [k \in DOMAIN statements |-> [statements[k] EXCEPT !.of = i]]
    \o <<[Statement("level", {}) EXCEPT !.of = i]>>

\* The migrations run outside of the transaction that has the lock row.
PostgresPerform(migrations) ==
  <<Ensure("metadata_table"), Ensure("lock_row"), Lock, Read>> \o migrations \o <<Release>>

SqlitePerform(migrations) ==
  <<Begin, Ensure("metadata_table"), Read>> \o migrations \o <<Commit>>

(***************************************************************************)
(* The stores.                                                             *)
(***************************************************************************)
\* The last migration of both PostgreSQL stores.
AddRowID ==
  <<Check("row_id"), Create("row_id"), Statement("backfill", {}),
    Statement("not_null", {"row_id_not_null"}), Check("identity"), Create("identity"),
    Statement("align", {}), Statement("unique", {"row_id_index"})>>

PostgresV1Migrations ==
  PostgresPerform(Migration(1, <<Ensure("table")>>)
                    \o Migration(2, <<Create("expiredate")>>)
                    \o Migration(3, AddRowID))

PostgresV2Migrations ==
  PostgresPerform(Migration(1, <<Ensure("table")>>) \o Migration(2, AddRowID))

SqliteStateMigrations == SqlitePerform(Migration(1, <<Ensure("table")>>))

SqliteHostsMigrations == SqlitePerform(Migration(1, <<Create("table")>>))

\* New tables have all columns, so the other statements change nothing then.
CockroachTables ==
  <<Check("table"), Statement("create", {"table", "expiredate", "row_id", "row_id_index"}),
    Ensure("expiredate"), Ensure("expiredate_index"), Ensure("row_id"), Ensure("row_id_index"),
    Check("metadata_table"), Create("metadata_table")>>

MySQLTables ==
  <<Check("database"), Create("database"),
    Check("table"), Statement("ensure", {"table", "expiredate", "expiredate_index"}),
    Check("expiredate"), Ensure("expiredate"), Ensure("expiredate_index"),
    Check("row_id"), Create("row_id"),
    Check("metadata_table"), Ensure("metadata_table")>>

\* One batch checks and creates, but not in one step.
SQLServerEnsure(o) == <<Check(o), Create(o)>>

SQLServerTables ==
  SQLServerEnsure("database") \o SQLServerEnsure("schema")
    \o <<Check("table"), Statement("create", {"table", "expiredate"})>>
    \o SQLServerEnsure("expiredate") \o SQLServerEnsure("metadata_table")
    \o SQLServerEnsure("type") \o SQLServerEnsure("procedure") \o SQLServerEnsure("index")

SQLServerV2Tables ==
  SQLServerEnsure("database") \o SQLServerEnsure("schema") \o SQLServerEnsure("table")
    \o SQLServerEnsure("metadata_table") \o SQLServerEnsure("type")
    \o SQLServerEnsure("procedure") \o SQLServerEnsure("index")

OracleTables == <<Check("table"), Create("table")>>

Program(d) ==
  CASE d = "postgresql"    -> PostgresV1Migrations
    [] d = "postgresql_v2" -> PostgresV2Migrations
    [] d = "sqlite"        -> SqliteStateMigrations
    [] d = "sqlite_hosts"  -> SqliteHostsMigrations
    [] d = "cockroachdb"   -> CockroachTables
    [] d = "mysql"         -> MySQLTables
    [] d = "sqlserver"     -> SQLServerTables
    [] d = "sqlserver_v2"  -> SQLServerV2Tables
    [] d = "oracle"        -> OracleTables

Programs == [d \in Databases |-> Program(d)]

\* Stores that look for a table or column in one statement and create it in
\* another: of two sidecars that start together one may fail.
ChecksThenCreates == {"cockroachdb", "mysql", "sqlserver", "sqlserver_v2", "oracle"}

(***************************************************************************)
(* What the programs have in common.  They are tables in which no constant *)
(* occurs, so TLC decides the assumption for each of them; the proofs of   *)
(* ServicesProofs use it, and nothing else of the tables.                  *)
(***************************************************************************)
Kinds == {"check", "create", "ensure", "lock", "read", "release", "begin", "commit",
          "level", "backfill", "not_null", "align", "unique"}

Acquiring == {"lock", "begin"}
Releasing == {"release", "commit"}

\* What is there after a statement, executed or left out: of a table created with its
\* columns perhaps the table only, because the table of an older version lacks them.
MainObjects(s) == IF "table" \in s.objects THEN {"table"} ELSE s.objects

\* A statement is left out only when what it creates has been found, and what the
\* CREATE of a table does not add to a table that is there, other statements do.
Sound(p) ==
  /\ p \in Seq([do : Kinds, objects : SUBSET STRING, of : Nat]) /\ Len(p) > 0
  /\ \A j, k \in 1..Len(p) :
       p[j].do = "check" /\ p[k].do \in {"create", "ensure"} /\ j < k
         => \A o \in p[j].objects \cap p[k].objects : MainObjects(p[k]) = {o}
  /\ \A k \in 1..Len(p) : \A o \in p[k].objects :
       p[k].do # "check" => \E j \in 1..Len(p) : /\ p[j].do # "check"
                                                /\ p[j].of = p[k].of
                                                /\ o \in MainObjects(p[j])

\* A program without migrations and without a lock.
Plain(p) == \A k \in 1..Len(p) : p[k].of = 0 /\ p[k].do \in {"check", "create", "ensure"}

\* A program with them: one statement takes the lock and the last one releases it,
\* with the level read and then the migrations between the two.
LocksOnce(p) ==
  \A k \in 1..Len(p) :
    /\ p[k].do \in Releasing <=> k = Len(p)
    /\ p[k].do \in Acquiring => \A j \in 1..Len(p) : p[j].do \in Acquiring => j = k
    /\ p[k].do = "read" \/ p[k].of # 0 \/ k = Len(p)
         => \E j \in 1..k-1 : p[j].do \in Acquiring
    /\ p[k].of # 0 => \E j \in 1..k-1 : p[j].do = "read"
    /\ p[k].of # 0 => p[k].do \notin {"read"} \cup Acquiring \cup Releasing
    /\ p[k].of = 0 => /\ p[k].do \in {"ensure", "read"} \cup Acquiring \cup Releasing
                      /\ \A j \in 1..k-1 : p[j].of # 0 \/ p[j].do = "read" => k = Len(p)

\* Migrations are in the order of their levels, and each ends with its own; what one
\* statement creates no other does.
Versioned(p) ==
  /\ \A k \in 1..Len(p) :
       /\ p[k].of # 0 => \E v \in k..Len(p) : p[v].do = "level" /\ p[v].of = p[k].of
       /\ p[k].do = "not_null" => k > 1 /\ p[k-1].do = "backfill" /\ p[k-1].of = p[k].of
       /\ p[k].do = "level" => \A j \in k..Len(p) :
            p[j].of <= p[k].of => p[j].objects = {} /\ (j = k \/ p[j].of = 0)
  /\ \A j, k \in 1..Len(p) : j < k =>
       /\ p[k].of # 0 => p[j].of <= p[k].of
       /\ p[j].do # "check" /\ p[k].do # "check" => p[j].objects \cap p[k].objects = {}

\* SQLite's lock comes with the transaction, before everything else.
WellFormed(d) ==
  /\ Sound(Programs[d])
  /\ IF d \in ChecksThenCreates THEN Plain(Programs[d])
     ELSE LocksOnce(Programs[d]) /\ Versioned(Programs[d])
  /\ d \in {"sqlite", "sqlite_hosts"} => Programs[d][1].do = "begin"

ASSUME ProgramsAssumption == \A d \in Databases : WellFormed(d)

ASSUME StartersAssumption == Nobody \notin Starters /\ MaxCrashes \in Nat

\* How many migrations a program has, and the objects they leave: ObjectsOf[d][n]
\* those of the first n, and of the statements outside of migrations.
MigrationsOf == [d \in Databases |->
  CHOOSE n \in {0} \cup {Programs[d][k].of : k \in DOMAIN Programs[d]} :
    \A k \in DOMAIN Programs[d] : Programs[d][k].of <= n]

ObjectsOf == [d \in Databases |-> [n \in 0..MigrationsOf[d] |->
  UNION {Programs[d][k].objects :
           k \in {j \in DOMAIN Programs[d] : /\ Programs[d][j].do # "check"
                                            /\ Programs[d][j].of <= n}}]]

\* Databases this or an older version of a store has left: with the objects of its
\* first migrations, or with a table that lacks the columns added since.
Earlier(d) ==
  {[schema |-> {}, level |-> 0]}
    \cup {[schema |-> ObjectsOf[d][i], level |-> i] : i \in 1..MigrationsOf[d]}
    \cup (IF d \in {"mysql", "cockroachdb", "sqlserver"}
            THEN {[schema |-> {"database", "schema", "table"}, level |-> 0]} ELSE {})

(***************************************************************************)
(* The database.                                                           *)
(***************************************************************************)
NULL == 0
NullRows == {r \in DOMAIN rows : rows[r] = NULL}

\* ROW_NUMBER() OVER (ORDER BY ...) of the rows WHERE row_id IS NULL.
Ranked == [r \in DOMAIN rows |->
             IF r \in NullRows THEN Cardinality({q \in NullRows : q <= r}) ELSE rows[r]]

MaxRowID == CHOOSE m \in {0} \cup {rows[r] : r \in DOMAIN rows} :
              \A r \in DOMAIN rows : rows[r] <= m

DuplicateRowIDs == \E q, r \in DOMAIN rows : q # r /\ rows[q] = rows[r]

\* The statement is refused.
Refused(s) ==
  \/ s.do = "create" /\ s.objects \cap schema # {}
  \/ s.do = "not_null" /\ NullRows # {}
  \/ s.do = "unique" /\ ~(s.objects \subseteq schema) /\ DuplicateRowIDs

Execute(s) ==
  /\ schema' = IF s.do = "check" THEN schema ELSE schema \cup s.objects
  /\ level' = IF s.do = "level" THEN s.of ELSE level
  /\ rows' = IF s.do = "backfill" THEN Ranked ELSE rows
  /\ sequence' = CASE s.do = "align" -> MaxRowID + 1
                   [] s.do = "create" /\ "identity" \in s.objects -> 1
                   [] OTHER -> sequence

(***************************************************************************)
(* Init of a store.                                                        *)
(***************************************************************************)
\* Slip: the last migration that has been done is done again.
Skips_OffByOne(st, k) ==
  LET s == Programs[database][k]
  IN  \/ s.of # 0 /\ s.of < st.level
      \/ s.do \in {"create", "ensure"} /\ s.objects \cap st.found # {}

\* Statement k is left out, by a sidecar in state st: it is of a migration that has
\* been done, or creates what has been found.
Skips(st, k) ==
  LET s == Programs[database][k]
  IN  \/ s.of # 0 /\ s.of <= st.level
      \/ s.do \in {"create", "ensure"} /\ s.objects \cap st.found # {}

\* A sidecar after the statement it has come to: at the next one, or ready.
Onward(st) ==
  LET p == Programs[database]
      left == {k \in DOMAIN p : k > st.at /\ ~Skips(st, k)}
  IN  IF left = {} THEN [st EXCEPT !.status = "done"]
      ELSE [st EXCEPT !.at = CHOOSE k \in left : \A j \in left : k <= j]

Fresh == [status |-> "running", at |-> 1, level |-> 0, found |-> {}]

At(i) == Programs[database][starter[i].at]

MigrationInit ==
  /\ database \in Databases
  /\ \E e \in Earlier(database) : schema = e.schema /\ level = e.level
  /\ rows \in {<<>>} \cup (IF "table" \in schema THEN {<<NULL>>} ELSE {})
  /\ sequence = 1
  /\ migrating = Nobody
  /\ undo = [schema |-> {}, level |-> 0]
  /\ starter = [i \in Starters |-> [Fresh EXCEPT !.status = "stopped"]]
  /\ crashes = 0
  /\ inserted = FALSE

\* One statement.
Run(i) ==
  LET s == At(i)
      st == starter[i]
  IN  /\ st.status = "running"
      /\ ~Refused(s)
      /\ s.do \in {"lock", "begin"} => migrating = Nobody
      /\ Execute(s)
      /\ migrating' = CASE s.do \in {"lock", "begin"}     -> i
                        [] s.do \in {"release", "commit"} -> Nobody
                        [] OTHER                          -> migrating
      /\ undo' = IF s.do = "begin" THEN [schema |-> schema, level |-> level] ELSE undo
      /\ starter' = [starter EXCEPT ![i] = Onward(
                       [st EXCEPT !.level = IF s.do = "read" THEN level ELSE @,
                                  !.found = IF s.do = "check" THEN @ \cup (s.objects \cap schema)
                                                              ELSE @])]
      /\ UNCHANGED <<database, crashes, inserted>>

\* Slip: the transaction that has the lock is not rolled back.
Abort_Unreleased(i) ==
  /\ starter' = [starter EXCEPT ![i].status = "failed"]
  /\ UNCHANGED <<database, schema, level, rows, sequence, migrating, undo, inserted>>

\* Init ends early: the lock goes, and SQLite's transaction is rolled back.
Abort(i) ==
  /\ starter' = [starter EXCEPT ![i].status = "failed"]
  /\ migrating' = IF migrating = i THEN Nobody ELSE migrating
  /\ IF migrating = i /\ database \in {"sqlite", "sqlite_hosts"}
       THEN schema' = undo.schema /\ level' = undo.level
       ELSE UNCHANGED <<schema, level>>
  /\ UNCHANGED <<database, rows, sequence, undo, inserted>>

\* The database refuses the statement.
StatementFails(i) ==
  /\ starter[i].status = "running"
  /\ Refused(At(i))
  /\ Abort(i)
  /\ UNCHANGED crashes

\* The sidecar crashes, a statement or the wait for the lock times out.
Crash(i) ==
  /\ starter[i].status = "running"
  /\ crashes < MaxCrashes
  /\ crashes' = crashes + 1
  /\ Abort(i)

\* The process is started, or started again.
Start(i, status) ==
  /\ starter[i].status = status
  /\ starter' = [starter EXCEPT ![i] = Fresh]
  /\ UNCHANGED <<database, schema, level, rows, sequence, migrating, undo, crashes,
                 inserted>>

\* A sidecar of an older version inserts a row: without row_id, unless the column
\* generates it, and unless a constraint refuses it.
InsertRow ==
  LET id == IF "identity" \in schema THEN sequence ELSE NULL
  IN  /\ database \in {"postgresql", "postgresql_v2"}
      /\ "table" \in schema
      /\ Len(rows) < MaxRows
      /\ id = NULL => "row_id_not_null" \notin schema
      /\ "row_id_index" \in schema => \A r \in DOMAIN rows : rows[r] # id
      /\ rows' = Append(rows, id)
      /\ sequence' = IF "identity" \in schema THEN sequence + 1 ELSE sequence
      /\ inserted' = TRUE
      /\ UNCHANGED <<database, schema, level, migrating, undo, starter, crashes>>

MigrationNext ==
  \/ \E i \in Starters : Run(i) \/ StatementFails(i) \/ Crash(i)
                             \/ Start(i, "stopped") \/ Start(i, "failed")
  \/ InsertRow

MigrationFairness ==
  \A i \in Starters : WF_migrationVars(Run(i) \/ StatementFails(i) \/ Start(i, "failed"))
-------------------------------------------------------------------------------
(***************************************************************************)
(* Properties.                                                             *)
(***************************************************************************)
\* A restart does not help: PostgreSQL's second migration cannot be done twice, and
\* it is when the sidecar stops before the level is written; and rows inserted
\* during the last migration get a row_id others have.
Stuck == \/ database = "postgresql" /\ crashes > 0
         \/ database \in {"postgresql", "postgresql_v2"} /\ inserted

\* The level in the metadata table is true: what the migrations up to it create is
\* there, wherever sidecars have crashed, and nobody is ready before all of it is.
LevelIsTrue ==
  /\ level > 0 => ObjectsOf[database][level] \subseteq schema
  /\ (\E i \in Starters : starter[i].status = "done")
       => ObjectsOf[database][MigrationsOf[database]] \subseteq schema

\* The Init of a store fails only where the database or the process does: sidecars
\* that start together do not disturb each other.
InitsDoNotCollide ==
  database \notin ChecksThenCreates /\ crashes = 0 /\ ~inserted
    => \A i \in Starters : starter[i].status # "failed"

\* A migration that has been completed is not executed again, however many sidecars
\* start at the same time, and no two execute migrations at once (Migrate reads the
\* level under the lock); the level is true at all times, and sidecars do not make
\* each other fail.
MigrationsRunOnce ==
  /\ []LevelIsTrue /\ []InitsDoNotCollide
  /\ [][\A i \in Starters :
          LET s == At(i)
          IN  starter[i].status = "running" /\ starter'[i].at > starter[i].at /\ s.of # 0
              => s.of > level /\ migrating = i]_migrationVars

\* Every sidecar that is started gets ready in the end, whatever the state another
\* has left the schema in when it crashed.
StartersGetReady ==
  <>[](Stuck \/ \A i \in Starters : starter[i].status \in {"stopped", "done"})
===============================================================================
