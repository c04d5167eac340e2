------------------------------ MODULE KeyReads ------------------------------
(***************************************************************************)
(* Reads of many keys of a state store while other clients write it: all   *)
(* keys like a pattern, page by page with a continuation token (KeysLike), *)
(* and a list of keys at once (BulkGet).  A behaviour is one of the two on *)
(* one store.  Keys are numbers in their order, and all of them match the  *)
(* pattern.  A row has a position: its rowid, row_id or create revision.   *)
(***************************************************************************)
EXTENDS Naturals, FiniteSets, Sequences, SequencesExt

CONSTANTS
  PagedStores,   \* stores to check KeysLike of
  BulkStores,    \* stores to check BulkGet of
  RowKeys,
  PageSizes,     \* PageSize of the requests, 0 for a pointer to zero
  FetchFirst, FetchFactor, FetchCap,  \* limits of etcd's requests (1024, 4 and 8192)
  ChunkSize,     \* BulkGetChunkSize
  Parallelism,   \* of BulkGetOpts
  MaxRequest,    \* bound: keys in a BulkGet
  MaxRowWrites,  \* bound: writes by other clients
  MaxReadFaults  \* bound: requests of BulkGet that fail

ASSUME KeyReadsAssumption ==
  /\ RowKeys \subseteq Nat \ {0} /\ PageSizes \subseteq Nat
  /\ {FetchFirst, FetchFactor, FetchCap, ChunkSize, Parallelism} \subseteq Nat \ {0}
  /\ {MaxRequest, MaxRowWrites, MaxReadFaults} \subseteq Nat

VARIABLES
  keyStore,   \* the store
  table,      \* the position of each row, 0 if there is none
  pageSize,
  scan,       \* the calls of KeysLike
  bulk,       \* the call of BulkGet
  rowWrites, readFaults,
  stable,     \* history: keys that have been there all the time
  written,    \* history: keys written since the read began
  shifted,    \* history: keys have come, gone, or been repeated by Redis
  returned,   \* history: how often each key was returned (at most twice)
  tokens      \* history: continuation tokens

keyReadVars == <<keyStore, table, pageSize, scan, bulk, rowWrites, readFaults,
                 stable, written, shifted, returned, tokens>>
othersVars == <<keyStore, pageSize, table, rowWrites, stable, written>>

LiveRows(t) == {k \in RowKeys : t[k] # 0}
LivePositions == {table[k] : k \in LiveRows(table)}
ByKey(t) == SetToSortSeq(LiveRows(t), LAMBDA a, b : a < b)
ByPosition(t) ==
  SetToSortSeq(LiveRows(t), LAMBDA a, b : t[a] < t[b] \/ (t[a] = t[b] /\ a < b))

\* LIMIT, none if the page has no size.
Limited(rows) ==
  IF pageSize = 0 THEN rows ELSE SubSeq(rows, 1, Min({pageSize, Len(rows)}))
HasMore(rows) == pageSize > 0 /\ Len(rows) > pageSize

-----------------------------------------------------------------------------
(* One page: its keys, and the token for the next one, 0 for none.         *)

\* A full page is followed by another one.  (LIMIT 0 is a full page without a
\* last row.)
SqliteKeysLike(token) ==
  LET rows == SelectSeq(ByPosition(table), LAMBDA k : table[k] > token)
      page == SubSeq(rows, 1, Min({pageSize, Len(rows)}))
  IN [keys |-> page, next |-> IF Len(page) = pageSize THEN table[Last(page)] ELSE 0]

\* Slip: the token is the first row of the next page.
PostgresKeysLike_FirstOfNext(token) ==
  LET rows == SelectSeq(ByPosition(table), LAMBDA k : table[k] > token)
  IN [keys |-> Limited(rows),
      next |-> IF HasMore(rows) THEN table[rows[pageSize + 1]] ELSE 0]

\* One row more than the page is read, to see whether another page follows, which
\* begins after the last row of this one.
PostgresKeysLike(token) ==
  LET rows == SelectSeq(ByPosition(table), LAMBDA k : table[k] > token)
  IN [keys |-> Limited(rows),
      next |-> IF HasMore(rows) THEN table[rows[pageSize]] ELSE 0]
MySQLKeysLike(token) ==
  LET rows == SelectSeq(ByPosition(table), LAMBDA k : table[k] > token)
  IN [keys |-> Limited(rows),
      next |-> IF HasMore(rows) THEN table[rows[pageSize]] ELSE 0]
MongoKeysLike(token) ==
  LET rows == SelectSeq(ByKey(table), LAMBDA k : k > token)
  IN [keys |-> Limited(rows),
      next |-> IF HasMore(rows) THEN rows[pageSize] ELSE 0]

\* The token is the first key of the next page, which begins after it.
SQLServerKeysLike(token) ==
  LET rows == SelectSeq(ByKey(table), LAMBDA k : k > token)
  IN [keys |-> Limited(rows),
      next |-> IF HasMore(rows) THEN rows[pageSize + 1] ELSE 0]
OracleKeysLike(token) ==
  LET rows == SelectSeq(ByKey(table), LAMBDA k : k > token)
  IN [keys |-> Limited(rows),
      next |-> IF HasMore(rows) THEN rows[pageSize + 1] ELSE 0]

\* All keys that SCAN returns, sorted; the token is an offset.
RedisKeysLike(token, found) ==
  LET rest == SubSeq(found, token + 1, Len(found))
  IN [keys |-> Limited(rest), next |-> IF HasMore(rest) THEN token + pageSize ELSE 0]

-----------------------------------------------------------------------------
(* Paging.                                                                 *)

Counted(keys) ==
  [k \in RowKeys |->
     Min({2, returned[k] + Cardinality({i \in 1..Len(keys) : keys[i] = k})})]

FirstFetch == IF pageSize = 0 THEN FetchFirst ELSE FetchFactor * pageSize

\* KeysLike returns the page, and is called again with its token.
PageReturned(page) ==
  /\ returned' = Counted(page.keys)
  /\ tokens' = tokens \cup ({page.next} \ {0})
  /\ scan' = [scan EXCEPT !.pc = IF page.next = 0 THEN "done" ELSE "next",
                          !.token = page.next, !.after = page.next, !.got = <<>>,
                          !.fetch = FirstFetch]

KeysLike ==
  /\ scan.pc = "next" /\ keyStore \notin {"redis", "etcd"}
  /\ ~(keyStore = "sqlite" /\ pageSize = 0)
  /\ PageReturned(
       CASE keyStore = "sqlite"     -> SqliteKeysLike(scan.token)
         [] keyStore = "postgresql" -> PostgresKeysLike(scan.token)
         [] keyStore = "mysql"      -> MySQLKeysLike(scan.token)
         [] keyStore = "mongodb"    -> MongoKeysLike(scan.token)
         [] keyStore = "sqlserver"  -> SQLServerKeysLike(scan.token)
         [] keyStore = "oracle"     -> OracleKeysLike(scan.token))
  /\ UNCHANGED <<othersVars, bulk, readFaults, shifted>>

\* The index of the last row of an empty page.
SqlitePanics ==
  /\ scan.pc = "next" /\ keyStore = "sqlite" /\ pageSize = 0
  /\ scan' = [scan EXCEPT !.pc = "panicked"]
  /\ UNCHANGED <<othersVars, bulk, readFaults, shifted, returned, tokens>>

\* SCAN may return a key twice.
RedisPage ==
  /\ scan.pc = "next" /\ keyStore = "redis"
  /\ \E twice \in {{}} \cup {{k} : k \in LiveRows(table)} :
       /\ PageReturned(RedisKeysLike(scan.token,
            FoldSeq(LAMBDA k, s : (IF k \in twice THEN <<k, k>> ELSE <<k>>) \o s,
                    <<>>, ByKey(table))))
       /\ shifted' = (shifted \/ twice # {})
  /\ UNCHANGED <<othersVars, bulk, readFaults>>

\* One request of KeysLike in etcd, at the revision of the first one: the rows up to
\* a limit in the order of their create revisions, of which those up to that of the
\* token are skipped.  While the page is not full and the limit was reached the
\* request is repeated with twice the limit, up to a cap.
EtcdGet ==
  LET snap == IF scan.snap = <<>> THEN table ELSE scan.snap
      rows == ByPosition(snap)
      window == SubSeq(rows, 1, Min({scan.fetch, Len(rows)}))
      fresh == SelectSeq(window, LAMBDA k : snap[k] > scan.after)
      got == Limited(scan.got \o fresh)
  IN
  /\ scan.pc = "next" /\ keyStore = "etcd"
  /\ IF pageSize > 0 /\ Len(got) = pageSize
     THEN /\ returned' = Counted(got) /\ tokens' = tokens \cup {snap[Last(got)]}
          /\ scan' = [pc |-> "next", token |-> snap[Last(got)], after |-> snap[Last(got)],
                      got |-> <<>>, fetch |-> FirstFetch, snap |-> snap]
     ELSE IF Len(window) < scan.fetch \/ (scan.fetch >= FetchCap /\ pageSize = 0)
     THEN /\ returned' = Counted(got) /\ UNCHANGED tokens
          /\ scan' = [scan EXCEPT !.pc = "done", !.got = <<>>, !.snap = snap]
     ELSE /\ UNCHANGED <<returned, tokens>>
          /\ scan' = [scan EXCEPT !.got = got, !.snap = snap,
                !.after = Max({@, snap[Last(window)]}),
                !.fetch = IF @ < FetchCap THEN 2 * @ ELSE @,
                !.pc = IF scan.fetch >= FetchCap /\ fresh = <<>> THEN "spinning" ELSE @]
  /\ UNCHANGED <<othersVars, bulk, readFaults, shifted>>

-----------------------------------------------------------------------------
(* BulkGet: the answers are a sequence of keys with their values, without  *)
(* one, or with an error.                                                  *)

Chunked == {"oracle", "sqlserver v2"}
Parallel == {"default"}

Answer(keys, what) == [i \in 1..Len(keys) |-> [key |-> keys[i], what |-> what]]
Found(read) == Answer(SetToSortSeq(read, LAMBDA a, b : a < b), "value")
NotRead(keys, read) == SelectSeq(keys, LAMBDA k : k \notin read)
Distinct(keys) ==
  FoldLeft(LAMBDA s, k : IF k \in ToSet(s) THEN s ELSE Append(s, k), <<>>, keys)

\* The rows that were read, and nothing for the keys that are missing, also when
\* the rows have ended with an error.
PostgresBulkGet(keys, read, broken) ==
  Found(read) \o Answer(NotRead(keys, read), "nothing")
MySQLBulkGet(keys, read, broken) ==
  Found(read) \o Answer(NotRead(keys, read), "nothing")
SqliteBulkGet(keys, read, broken) ==
  Found(read) \o Answer(NotRead(keys, read), "nothing")

\* An error of the rows is the error of the call.
MongoBulkGet(keys, read, broken) ==
  IF broken THEN Answer(keys, "error")
  ELSE Found(read) \o Answer(NotRead(keys, read), "nothing")
CosmosBulkGet(keys, read, broken) ==
  IF broken THEN Answer(keys, "error")
  ELSE Found(read) \o Answer(NotRead(keys, read), "nothing")
CoherenceBulkGet(keys, read, broken) ==
  IF broken THEN Answer(keys, "error")
  ELSE Found(read) \o Answer(NotRead(keys, read), "nothing")

\* An error of the rows is that of the keys that have not been read.
OracleChunk(keys, read, broken) ==
  Found(read) \o IF broken THEN Answer(Distinct(NotRead(keys, read)), "error")
                 ELSE Answer(NotRead(keys, read), "nothing")
SQLServerChunk(keys, read, broken) ==
  [i \in 1..Len(keys) |->
     [key |-> keys[i], what |-> IF keys[i] \in read THEN "value"
                                ELSE IF broken THEN "error" ELSE "nothing"]]

BulkAnswers(keys, read, broken) ==
  CASE keyStore = "postgresql"   -> PostgresBulkGet(keys, read, broken)
    [] keyStore = "mysql"        -> MySQLBulkGet(keys, read, broken)
    [] keyStore = "sqlite"       -> SqliteBulkGet(keys, read, broken)
    [] keyStore = "mongodb"      -> MongoBulkGet(keys, read, broken)
    [] keyStore = "cosmosdb"     -> CosmosBulkGet(keys, read, broken)
    [] keyStore = "coherence"    -> CoherenceBulkGet(keys, read, broken)
    [] keyStore = "oracle"       -> OracleChunk(keys, read, broken)
    [] keyStore = "sqlserver v2" -> SQLServerChunk(keys, read, broken)

ReadFails == readFaults < MaxReadFaults /\ readFaults' = readFaults + 1

\* The keys of the next query.
Chunk ==
  LET rest == SubSeq(bulk.request, bulk.at, Len(bulk.request))
  IN IF keyStore \in Chunked THEN SubSeq(rest, 1, Min({ChunkSize, Len(rest)})) ELSE rest

Answered(answers, n) ==
  /\ bulk' = [bulk EXCEPT !.answers = @ \o answers, !.at = @ + n,
                   !.pc = IF bulk.at + n > Len(bulk.request) THEN "returned" ELSE @]
  /\ UNCHANGED <<othersVars, scan, shifted, returned, tokens>>

\* One query: all its rows are read, or some of them until the rows end with an error.
QueryChunk ==
  LET wanted == ToSet(Chunk) \cap LiveRows(table)
  IN /\ bulk.pc = "reading" /\ keyStore \notin Parallel
     /\ \/ /\ Answered(BulkAnswers(Chunk, wanted, FALSE), Len(Chunk))
           /\ UNCHANGED readFaults
        \/ \E read \in SUBSET wanted :
             ReadFails /\ Answered(BulkAnswers(Chunk, read, TRUE), Len(Chunk))

\* The query fails, or the context is done before it.
QueryFails ==
  /\ bulk.pc = "reading" /\ keyStore \notin Parallel /\ ReadFails
  /\ \E rest \in {Chunk, SubSeq(bulk.request, bulk.at, Len(bulk.request))} :
       Answered(Answer(rest, "error"), Len(rest))

\* DoBulkGet: a Get for every key, some of them at a time.
GetStarts ==
  /\ bulk.pc = "reading" /\ keyStore \in Parallel /\ bulk.at <= Len(bulk.request)
  /\ Cardinality(bulk.running) < Parallelism
  /\ bulk' = [bulk EXCEPT !.at = @ + 1, !.running = @ \cup {bulk.at}]
  /\ UNCHANGED <<othersVars, scan, readFaults, shifted, returned, tokens>>

GetEnds(i) ==
  LET k == bulk.request[i] IN
  /\ i \in bulk.running
  /\ \/ /\ UNCHANGED readFaults
        /\ bulk' = [bulk EXCEPT !.running = @ \ {i}, !.answers[i].what =
                      IF k \in LiveRows(table) THEN "value" ELSE "nothing"]
     \/ /\ ReadFails
        /\ bulk' = [bulk EXCEPT !.running = @ \ {i}, !.answers[i].what = "error"]
  /\ UNCHANGED <<othersVars, scan, shifted, returned, tokens>>

\* All places are free again.
GetsReturn ==
  /\ bulk.pc = "reading" /\ keyStore \in Parallel /\ bulk.at > Len(bulk.request)
  /\ bulk.running = {}
  /\ bulk' = [bulk EXCEPT !.pc = "returned"]
  /\ UNCHANGED <<othersVars, scan, readFaults, shifted, returned, tokens>>

-----------------------------------------------------------------------------
(* Other clients.                                                          *)

Underway == scan.pc = "next" \/ bulk.pc = "reading"
NewPosition == 1 + Max({0} \cup LivePositions \cup tokens)

\* SQLite and MySQL replace a row by a new one.
WriteRow(k) ==
  /\ Underway /\ rowWrites < MaxRowWrites
  /\ table' = [table EXCEPT ![k] =
       IF @ = 0 \/ keyStore \in {"sqlite", "mysql"} THEN NewPosition ELSE @]
  /\ shifted' = (shifted \/ table[k] = 0)
  /\ written' = written \cup {k} /\ rowWrites' = rowWrites + 1
  /\ UNCHANGED <<keyStore, pageSize, stable, scan, bulk, readFaults, returned, tokens>>

\* Deleted, or expired.
RemoveRow(k) ==
  /\ Underway /\ rowWrites < MaxRowWrites /\ table[k] # 0
  /\ table' = [table EXCEPT ![k] = 0]
  /\ stable' = stable \ {k} /\ shifted' = TRUE /\ rowWrites' = rowWrites + 1
  /\ written' = written \cup {k}
  /\ UNCHANGED <<keyStore, pageSize, scan, bulk, readFaults, returned, tokens>>

-----------------------------------------------------------------------------
\* Rows that were written in one transaction of etcd have one create revision.
Tables ==
  {t \in [RowKeys -> 0 .. Cardinality(RowKeys)] :
     keyStore # "etcd" => \A k, l \in LiveRows(t) : k # l => t[k] # t[l]}

NoRows == [k \in RowKeys |-> 0]
Requests == UNION {[1..n -> RowKeys] : n \in 1..MaxRequest}

KeyReadsInit ==
  /\ \/ /\ keyStore \in PagedStores /\ pageSize \in PageSizes
        /\ scan = [pc |-> "next", token |-> 0, after |-> 0, got |-> <<>>,
                   fetch |-> FirstFetch, snap |-> <<>>]
        /\ bulk = [pc |-> "none"]
     \/ /\ keyStore \in BulkStores /\ pageSize = 0
        /\ scan = [pc |-> "none"]
        /\ \E request \in Requests :
             bulk = [pc |-> "reading", request |-> request, at |-> 1, running |-> {},
                     answers |-> IF keyStore \in Parallel THEN Answer(request, "none")
                                 ELSE <<>>]
  /\ table \in Tables
  /\ rowWrites = 0 /\ readFaults = 0
  /\ stable = LiveRows(table) /\ written = {} /\ shifted = FALSE
  /\ returned = [k \in RowKeys |-> 0] /\ tokens = {}

KeyReadsNext ==
  \/ KeysLike \/ SqlitePanics \/ RedisPage \/ EtcdGet
  \/ QueryChunk \/ QueryFails
  \/ GetStarts \/ GetsReturn
  \/ bulk.pc = "reading" /\ \E i \in bulk.running : GetEnds(i)
  \/ \E k \in RowKeys : WriteRow(k) \/ RemoveRow(k)

KeyReadsSpec == KeyReadsInit /\ [][KeyReadsNext]_keyReadVars

-----------------------------------------------------------------------------
(* Properties.                                                             *)

\* A key may be left out: by an offset that does not point where it did, as the
\* token that the next page begins after, with the create revision of another key,
\* and beyond the cap.
MayMiss(k) ==
  CASE keyStore = "redis" -> shifted
    [] keyStore \in {"sqlserver", "oracle"} -> k \in tokens
    [] keyStore = "etcd" -> \/ \E l \in RowKeys \ {k} : scan.snap[l] = scan.snap[k]
                            \/ pageSize = 0 /\ Cardinality(LiveRows(scan.snap)) >= FetchCap
    [] OTHER -> FALSE

\* Pages that have come to an end have returned every key that was there all along.
PagesMissNothing ==
  scan.pc = "done" => \A k \in stable : returned[k] > 0 \/ MayMiss(k)

\* A key is returned again only if it has been written again.
PagesRepeatOnlyWritten ==
  \A k \in RowKeys : returned[k] > 1 => k \in written \/ (keyStore = "redis" /\ shifted)

\* etcd asks again and again for the same rows beyond its cap; SQLite has no last
\* row of a page without rows.
PagesGetOn ==
  /\ scan.pc = "spinning" => Cardinality(LiveRows(scan.snap)) >= FetchCap
  /\ scan.pc = "panicked" => keyStore = "sqlite" /\ pageSize = 0

\* The rows of these may end early without an error.
Unchecked == {"postgresql", "mysql", "sqlite"}

\* BulkGet answers every key, with nothing only if the row was not there for some
\* time during the call.
BulkAnswersAll ==
  bulk.pc = "returned" =>
    /\ ToSet(bulk.request) = {bulk.answers[i].key : i \in 1..Len(bulk.answers)}
    /\ \A i \in 1..Len(bulk.answers) :
         LET a == bulk.answers[i] IN
         /\ a.what # "none"
         /\ a.what = "nothing" =>
              a.key \notin stable \/ (keyStore \in Unchecked /\ readFaults > 0)
         /\ a.what = "value" => a.key \in stable \cup written

\* Whatever other clients write meanwhile, pages return every key that was there
\* all along and no other one twice, and bulk reads tell the truth about every key.
ReadsAreComplete ==
  PagesMissNothing /\ PagesRepeatOnlyWritten /\ PagesGetOn /\ BulkAnswersAll
=============================================================================
