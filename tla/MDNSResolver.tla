---------------------------- MODULE MDNSResolver ----------------------------
(***************************************************************************)
(* nameresolution/mdns/mdns.go: ResolveID of one app ID by several callers *)
(* at a time.  Callers that miss the cache join a pool; the first of them  *)
(* to get there browses the network and publishes what it finds to the     *)
(* pool; the others wait.  A pool is removed some time after that.  In the *)
(* background the addresses of the cache are refreshed, and expire.        *)
(*                                                                         *)
(* A channel of a subscriber holds one value and is closed after it, so a  *)
(* caller that is already in its select gets the value, and one that comes *)
(* later finds both of its channels ready.                                 *)
(***************************************************************************)
EXTENDS Naturals, FiniteSets

CONSTANTS
  Callers,
  Hosts,        \* each the set of addresses it announces
  V4,           \* the IPv4 addresses
  AddressTTL,   \* addressTTL, in refresh intervals
  RefreshCap,   \* capacity of refreshChan
  MaxCalls,     \* bound: calls of ResolveID
  MaxTicks,     \* bound: refresh intervals
  MaxFaults     \* bound: browses slower than subscriberTimeout, hosts that leave

Addresses == UNION Hosts

ASSUME MDNSAssumption ==
  /\ V4 \subseteq Addresses
  /\ {} \notin Hosts   \* browse skips an entry without an address
  /\ {AddressTTL, RefreshCap} \subseteq Nat \ {0}
  /\ {MaxCalls, MaxTicks, MaxFaults} \subseteq Nat

VARIABLES
  call,       \* ResolveID of each caller
  subs,       \* subs[appID]: the pool, its Once and its Subscribers
  browser,    \* the goroutine of browseOne
  cleanup,    \* the goroutine that removes the pool
  cache,      \* appAddresses: how long each address is still good for, 0 for none
  known,      \* the app ID has an entry in the cache, maybe an empty one
  queue,      \* len(refreshChan)
  refreshing, \* refreshApp is browsing
  running,    \* runCtx is not done
  live,       \* the hosts that announce the app ID
  calls, ticks, faults,
  answer,     \* history: what the last ResolveID that returned has returned
  slow,       \* history: a first caller has given up before its browse was over
  evicted     \* history: an address has expired

vars == <<call, subs, browser, cleanup, cache, known, queue, refreshing, running,
          live, calls, ticks, faults, answer, slow, evicted>>
world == <<running, live, ticks>>
caching == <<cache, known, refreshing, evicted>>

\* hit is history: the browse of the pool has found an address.
NoPool == [exists |-> FALSE, once |-> FALSE, members |-> {}, hit |-> FALSE]
NoCall == [pc |-> "idle", first |-> FALSE, chan |-> "none", ans |-> "none", hit |-> FALSE]
Answers == {"addr", "empty", "error", "timeout", "none"}

-----------------------------------------------------------------------------
(* The cache.                                                              *)

Cached == {a \in Addresses : cache[a] > 0}

\* nextIPv4Address, then nextIPv6Address.
Lookup == IF Cached \cap V4 # {} THEN Cached \cap V4 ELSE Cached

\* add, for all addresses of a host.
Added(h) == [a \in Addresses |-> IF a \in h THEN AddressTTL ELSE cache[a]]

-----------------------------------------------------------------------------
(* ResolveID.                                                              *)

Return(c, ans) == call' = [call EXCEPT ![c] = NoCall] /\ answer' = ans

ResolveID(c) ==
  /\ call[c].pc = "idle" /\ calls < MaxCalls
  /\ calls' = calls + 1
  /\ \/ Lookup # {} /\ Return(c, "addr")
     \/ Lookup = {} /\ call' = [call EXCEPT ![c].pc = "missed"] /\ UNCHANGED answer
  /\ UNCHANGED <<subs, browser, cleanup, caching, queue, world, faults, slow>>

Join(c) ==
  /\ call[c].pc = "missed"
  /\ subs' = [subs EXCEPT !.exists = TRUE, !.members = @ \cup {c}]
  /\ call' = [call EXCEPT ![c].pc = "joined", ![c].chan = "open", ![c].hit = subs.hit]
  /\ UNCHANGED <<browser, cleanup, caching, queue, world, calls, faults, slow, answer>>

\* Once.Do of the pool the caller has joined.
OnceDo(c) ==
  /\ call[c].pc = "joined"
  /\ LET first == c \in subs.members /\ ~subs.once
     IN  /\ call' = [call EXCEPT ![c].pc = IF first THEN "waiting" ELSE "recheck",
                                 ![c].first = first]
         /\ subs' = [subs EXCEPT !.once = @ \/ first]
         /\ browser' = IF first THEN "browsing" ELSE browser
  /\ UNCHANGED <<cleanup, caching, queue, world, calls, faults, slow, answer>>

Recheck(c) ==
  /\ call[c].pc = "recheck"
  /\ \/ Lookup # {} /\ Return(c, "addr")
     \/ Lookup = {} /\ call' = [call EXCEPT ![c].pc = "waiting"] /\ UNCHANGED answer
  /\ UNCHANGED <<subs, browser, cleanup, caching, queue, world, calls, faults, slow>>

\* The branches of the select: the other callers return ans, the first one goes
\* on, after a refresh if it read AddrChan.
Received(r, ans, from) ==
  IF ~r.first THEN NoCall
  ELSE [r EXCEPT !.ans = ans, !.chan = "read",
                 !.pc = IF from = "AddrChan" THEN "refreshing" ELSE "settling"]

\* The channel a value is sent to.
ChanOf(kind) == IF kind = "addr" THEN "AddrChan" ELSE "ErrChan"

\* The select of a caller who finds both channels ready.  A closed ErrChan gives
\* a nil error, and a closed AddrChan an empty address.
Select(c) ==
  /\ call[c].pc = "waiting" /\ call[c].chan \in {"addr", "error"}
  /\ \E from \in {"AddrChan", "ErrChan"} :
       LET ans == IF from = ChanOf(call[c].chan) THEN call[c].chan ELSE "empty"
       IN  /\ call' = [call EXCEPT ![c] = Received(@, ans, from)]
           /\ answer' = IF call[c].first THEN answer ELSE ans
  /\ UNCHANGED <<subs, browser, cleanup, caching, queue, world, calls, faults, slow>>

\* subscriberTimeout.  The browse takes less, unless it is slow to begin; a
\* caller who joined after the publication has nothing else to wait for.
TimesOut(c) ==
  /\ call[c].pc = "waiting" /\ call[c].chan = "open"
  /\ IF c \in subs.members /\ browser \in {"browsing", "found"}
     THEN faults < MaxFaults /\ faults' = faults + 1 /\ slow' = (slow \/ call[c].first)
     ELSE UNCHANGED <<faults, slow>>
  /\ Return(c, IF Lookup # {} THEN "addr" ELSE "timeout")
  /\ UNCHANGED <<subs, browser, cleanup, caching, queue, world, calls>>

\* The first caller asks for a refresh; refreshChan may be full.
PushRefresh(c) ==
  /\ call[c].pc = "refreshing" /\ queue < RefreshCap
  /\ queue' = queue + 1
  /\ call' = [call EXCEPT ![c].pc = "settling"]
  /\ UNCHANGED <<subs, browser, cleanup, caching, world, calls, faults, slow, answer>>

AwaitPublished(c) ==
  /\ call[c].pc = "settling" /\ browser = "published"
  /\ browser' = "none" /\ cleanup' = TRUE
  /\ Return(c, call[c].ans)
  /\ UNCHANGED <<subs, caching, queue, world, calls, faults, slow>>

\* After subscriberCleanupWait.
Cleanup ==
  /\ cleanup
  /\ cleanup' = FALSE /\ subs' = NoPool
  /\ UNCHANGED <<call, browser, caching, queue, world, calls, faults, slow, answer>>

\* A caller returns in this step.
Returns(c) == call[c].pc # "idle" /\ call'[c].pc = "idle"

-----------------------------------------------------------------------------
(* browseOne, pubAddrToSubs and pubErrToSubs.                              *)

\* Callers already in their select get the value as it is sent.
Published(kind) ==
  [c \in Callers |->
     IF c \notin subs.members \/ call[c].chan # "open" THEN call[c]
     ELSE IF call[c].pc = "waiting" THEN Received(call[c], kind, ChanOf(kind))
     ELSE [call[c] EXCEPT !.chan = kind, !.hit = (kind = "addr")]]

\* Slip: onEach is called before the address is in the cache.
BrowseEntry_CallbackFirst(h) ==
  /\ browser \in {"browsing", "found"} /\ h \in live
  /\ browser' = "found"
  /\ UNCHANGED <<call, subs, cleanup, caching, queue, world, calls, faults, slow, answer>>

\* An answer from the network.  There may be more before the browse ends.
BrowseEntry(h) ==
  /\ browser \in {"browsing", "found"} /\ h \in live
  /\ browser' = "found"
  /\ cache' = Added(h) /\ known' = TRUE
  /\ UNCHANGED <<call, subs, cleanup, refreshing, evicted, queue, world, calls, faults, slow, answer>>

\* Slip: a browse that fails does not signal published.
BrowseEnds_NoSignal ==
  /\ browser \in {"browsing", "found"}
  /\ LET kind == IF browser = "found" THEN "addr" ELSE "error"
     IN  /\ call' = Published(kind)
         /\ answer' = IF \E c \in Callers : Returns(c) THEN kind ELSE answer
  /\ browser' = IF browser = "found" THEN "published" ELSE "none"
  /\ subs' = [subs EXCEPT !.hit = (browser = "found")]
  /\ UNCHANGED <<cleanup, caching, queue, world, calls, faults, slow>>

\* An address was found, or the browse failed, timed out or was cancelled with
\* the first caller's context.
BrowseEnds ==
  /\ browser \in {"browsing", "found"}
  /\ LET kind == IF browser = "found" THEN "addr" ELSE "error"
     IN  /\ call' = Published(kind)
         /\ answer' = IF \E c \in Callers : Returns(c) THEN kind ELSE answer
  /\ browser' = "published" /\ subs' = [subs EXCEPT !.hit = (browser = "found")]
  /\ UNCHANGED <<cleanup, caching, queue, world, calls, faults, slow>>

-----------------------------------------------------------------------------
(* The refreshers and Close.                                               *)

\* startRefreshers: a refresh on demand.
RefreshOnDemand ==
  /\ running /\ queue > 0
  /\ queue' = queue - 1 /\ refreshing' = TRUE
  /\ UNCHANGED <<call, subs, browser, cleanup, cache, known, evicted, world, calls, faults, slow, answer>>

\* refreshAllApps, which evicts addresses that have expired first.
RefreshAllApps ==
  /\ running /\ known /\ ticks < MaxTicks
  /\ ticks' = ticks + 1
  /\ cache' = [a \in Addresses |-> IF cache[a] > 0 THEN cache[a] - 1 ELSE 0]
  /\ evicted' = (evicted \/ \E a \in Addresses : cache[a] = 1)
  /\ refreshing' = TRUE
  /\ UNCHANGED <<call, subs, browser, cleanup, known, queue, running, live, calls, faults, slow, answer>>

RefreshEntry(h) ==
  /\ refreshing /\ h \in live
  /\ cache' = Added(h) /\ known' = TRUE
  /\ UNCHANGED <<call, subs, browser, cleanup, refreshing, evicted, queue, world, calls, faults, slow, answer>>

RefreshEnds ==
  /\ refreshing
  /\ refreshing' = FALSE
  /\ UNCHANGED <<call, subs, browser, cleanup, cache, known, evicted, queue, world, calls, faults, slow, answer>>

Close ==
  /\ running
  /\ running' = FALSE /\ refreshing' = FALSE
  /\ UNCHANGED <<call, subs, browser, cleanup, cache, known, evicted, queue, live, ticks, calls, faults, slow, answer>>

HostLeaves(h) ==
  /\ h \in live /\ faults < MaxFaults
  /\ live' = live \ {h} /\ faults' = faults + 1
  /\ UNCHANGED <<call, subs, browser, cleanup, caching, queue, running, ticks, calls, slow, answer>>

-----------------------------------------------------------------------------
Init ==
  /\ call = [c \in Callers |-> NoCall]
  /\ subs = NoPool /\ browser = "none" /\ cleanup = FALSE
  /\ cache = [a \in Addresses |-> 0] /\ known = FALSE
  /\ queue = 0 /\ refreshing = FALSE /\ running = TRUE
  /\ live \in SUBSET Hosts
  /\ calls = 0 /\ ticks = 0 /\ faults = 0
  /\ answer = "none" /\ slow = FALSE /\ evicted = FALSE

CallStep(c) == \/ Join(c) \/ OnceDo(c) \/ Recheck(c) \/ Select(c)
               \/ TimesOut(c) \/ PushRefresh(c) \/ AwaitPublished(c)

Next ==
  \/ \E c \in Callers : ResolveID(c) \/ CallStep(c)
  \/ \E h \in Hosts : BrowseEntry(h) \/ RefreshEntry(h) \/ HostLeaves(h)
  \/ BrowseEnds \/ Cleanup
  \/ RefreshOnDemand \/ RefreshAllApps \/ RefreshEnds
  \/ Close

\* Goroutines go on, browses and sleeps end with their timers.
Fairness ==
  /\ \A c \in Callers : WF_vars(CallStep(c))
  /\ WF_vars(BrowseEnds) /\ WF_vars(Cleanup) /\ WF_vars(RefreshOnDemand)

Spec == Init /\ [][Next]_vars /\ Fairness

-----------------------------------------------------------------------------
(* Properties.                                                             *)

TypeOK ==
  /\ call \in [Callers -> [pc : {"idle", "missed", "joined", "recheck", "waiting",
                                 "refreshing", "settling"},
                           first : BOOLEAN, chan : {"none", "open", "addr", "error", "read"},
                           ans : Answers, hit : BOOLEAN]]
  /\ answer \in Answers
  /\ subs \in [exists : BOOLEAN, once : BOOLEAN, members : SUBSET Callers, hit : BOOLEAN]
  /\ cleanup \in BOOLEAN /\ evicted \in BOOLEAN
  /\ browser \in {"none", "browsing", "found", "published"}
  /\ cache \in [Addresses -> 0 .. AddressTTL]
  /\ queue \in 0 .. RefreshCap

(***************************************************************************)
(* What one caller finds all callers of its pool are told: nobody returns  *)
(* an error once the browse has found an address, however late it joined   *)
(* (the cache is written before the subscribers are read), unless the      *)
(* address has expired meanwhile.  It may return an empty address.         *)
(***************************************************************************)
FoundIsAnswered ==
  [][\A c \in Callers :
       Returns(c) /\ answer' \in {"error", "timeout"} =>
         ~call[c].hit \/ evicted]_vars

(***************************************************************************)
(* When no new calls come every ResolveID returns while the refreshers     *)
(* run, although it waits for a browse of another caller, for a place in   *)
(* refreshChan and for the publication; and no pool outlives its browse    *)
(* for good, which would leave the app ID without anybody to browse for    *)
(* it, unless its first caller has given up before the browse was over.    *)
(***************************************************************************)
ResolveReturns ==
  <>[](running => /\ \A c \in Callers : call[c].pc = "idle"
                  /\ ~subs.once \/ slow)
=============================================================================
