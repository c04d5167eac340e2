---------------------------- MODULE SqliteResolver ----------------------------
(***************************************************************************)
(* nameresolution/sqlite/sqlite.go, with the garbage collector of          *)
(* common/component/sql/cleanup.go: sidecars of one app that register,     *)
(* renew and look up their addresses in a table they share.                *)
(*                                                                         *)
(* A sidecar is one run of the process, with a registration id of its own; *)
(* a sidecar that is started again is another one at the same address.     *)
(* The clock counts parts of a second, because the table keeps whole       *)
(* seconds and the code's timers do not.                                   *)
(*                                                                         *)
(* An operator D_Slip before a definition D is D with a plausible slip,    *)
(* kept to show that some property fails with it.                          *)
(***************************************************************************)
EXTENDS Integers, FiniteSets

CONSTANTS
  Sidecars,
  Addresses,
  AddressOf,        \* AddressOf[h]: metadata.GetAddress() of sidecar h
  TicksPerSecond,
  UpdateInterval, Timeout, CleanupInterval,  \* in seconds
  MaxLatency,       \* bound, in ticks: how long a renewal that works may take
  Cleanups,         \* whether there is a garbage collector (CleanupInterval > 0)
  MaxNow, MaxFaults,  \* bounds: the clock; crashes and failed statements
  NoRow, Never

\* What InitWithMetadata accepts.
ASSUME ConstantsAssumption ==
  /\ AddressOf \in [Sidecars -> Addresses]
  /\ TicksPerSecond \in Nat \ {0} /\ CleanupInterval \in Nat \ {0}
  /\ UpdateInterval \in Nat /\ Timeout \in Nat /\ UpdateInterval - Timeout >= 1
  /\ MaxLatency \in 0 .. Timeout * TicksPerSecond
  /\ Cleanups \subseteq BOOLEAN
  /\ MaxNow \in Nat /\ MaxFaults \in Nat
  /\ NoRow \notin [registration : Sidecars, lastUpdate : Nat] /\ Never \notin Nat

\* More than the code asks for: a renewal is over, by its timeout at the latest, before
\* the ticker starts the next one, so a sidecar has one at a time.  It holds for the
\* defaults, 5 s and 1 s, and not for every Timeout that InitWithMetadata accepts.
ASSUME RenewalsDoNotOverlap == 2 * Timeout <= UpdateInterval

VARIABLES
  now,          \* the clock, in ticks
  rows,         \* rows[a]: the row with address a (there is a unique index)
  lastCleanup,  \* the nr-last-cleanup row of the metadata table
  sidecar,      \* sidecar[h]: pc, next tick of its ticker, start of its renewal and
                \* whether the database does not answer that renewal
  gc,           \* gc[h]: pc and next tick of its garbage collector
  cleanup,      \* whether this system has a garbage collector
  \* history
  missed,       \* sidecars with a renewal that failed, and none since that worked
  died,         \* died[h]: when h ended
  taken,        \* taken[h]: when another sidecar took over the address of h
  faults

vars == <<now, rows, lastCleanup, sidecar, gc, cleanup, missed, died, taken, faults>>

Seconds(t) == t \div TicksPerSecond

RenewInterval_NoTimeout == UpdateInterval * TicksPerSecond

\* The interval of renewRegistration: a nanosecond less than this.
RenewInterval == (UpdateInterval - Timeout) * TicksPerSecond

Row(h) == [registration |-> h, lastUpdate |-> Seconds(now)]

Owns(h) == rows[AddressOf[h]] # NoRow /\ rows[AddressOf[h]].registration = h

Fault == faults < MaxFaults /\ faults' = faults + 1

-----------------------------------------------------------------------------
\* Time does not pass a timer that is due, nor the latency of a renewal that works;
\* one that fails is given up when its timeout is over.
Tick ==
  /\ now < MaxNow
  /\ \A h \in Sidecars :
       /\ sidecar[h].pc = "up" => now < sidecar[h].next
       /\ sidecar[h].pc \in {"up", "closing"} /\ sidecar[h].renewal # Never
            => IF sidecar[h].silent THEN now < sidecar[h].renewal + Timeout * TicksPerSecond
               ELSE now < sidecar[h].renewal + MaxLatency
  /\ now' = now + 1
  /\ UNCHANGED <<rows, lastCleanup, sidecar, gc, cleanup, missed, died, taken, faults>>

\* The sidecar ends, of its own accord or not.
Ends(h) ==
  /\ sidecar' = [sidecar EXCEPT ![h] = [pc |-> "ended", next |-> 0, renewal |-> Never,
                                        silent |-> FALSE]]
  /\ gc' = [gc EXCEPT ![h] = [pc |-> "idle", next |-> 0]]
  /\ died' = [died EXCEPT ![h] = now]

\* Init: initGC, then registerHost, which takes over any registration of the address,
\* and the start of the renewals.  If the statement fails there is no sidecar.
Register(h) ==
  /\ sidecar[h].pc = "new"
  /\ \/ /\ rows' = [rows EXCEPT ![AddressOf[h]] = Row(h)]
        /\ sidecar' = [sidecar EXCEPT ![h].pc = "up", ![h].next = now + RenewInterval]
        /\ gc' = [gc EXCEPT ![h].next = now + CleanupInterval * TicksPerSecond]
        /\ taken' = [k \in Sidecars |->
             IF AddressOf[k] = AddressOf[h] /\ sidecar[k].pc = "up" /\ taken[k] = Never
             THEN now ELSE taken[k]]
        /\ UNCHANGED <<died, faults>>
     \/ Fault /\ Ends(h) /\ UNCHANGED <<rows, taken>>
  /\ UNCHANGED <<now, lastCleanup, cleanup, missed>>

\* renewRegistration, on its ticker: a goroutine runs doRenewRegistration, which may
\* meet a database that does not answer before its timeout.
RenewStarts(h) ==
  /\ sidecar[h].pc = "up"
  /\ sidecar[h].renewal = Never
  /\ now = sidecar[h].next
  /\ \E silent \in BOOLEAN :
       /\ sidecar' = [sidecar EXCEPT ![h] = [@ EXCEPT !.next = now + RenewInterval,
                                             !.renewal = now, !.silent = silent]]
       /\ IF silent THEN Fault /\ missed' = missed \cup {h}
                    ELSE UNCHANGED <<missed, faults>>
  /\ UNCHANGED <<now, rows, lastCleanup, gc, cleanup, died, taken>>

\* The UPDATE: if it finds no row the registration is lost, and the process ends
\* with a fatal error.
doRenewRegistration(h) ==
  /\ sidecar[h].pc \in {"up", "closing"}
  /\ sidecar[h].renewal # Never /\ ~sidecar[h].silent
  /\ IF Owns(h)
     THEN /\ rows' = [rows EXCEPT ![AddressOf[h]] = Row(h)]
          /\ sidecar' = [sidecar EXCEPT ![h].renewal = Never]
          /\ UNCHANGED <<gc, died>>
     ELSE Ends(h) /\ UNCHANGED rows
  /\ missed' = missed \ {h}
  /\ UNCHANGED <<now, lastCleanup, cleanup, taken, faults>>

\* The timeout of a renewal, or the end of its context when the component closes:
\* the error is logged.
RenewGivesUp(h) ==
  /\ sidecar[h].renewal # Never
  /\ \/ /\ sidecar[h].silent
        /\ now = sidecar[h].renewal + Timeout * TicksPerSecond
     \/ sidecar[h].pc = "closing"
  /\ sidecar' = [sidecar EXCEPT ![h] = [@ EXCEPT !.renewal = Never, !.silent = FALSE]]
  /\ UNCHANGED <<now, rows, lastCleanup, gc, cleanup, missed, died, taken, faults>>

-----------------------------------------------------------------------------
(* The garbage collector.                                                  *)

\* The next tick of the garbage collector of h, which goes on to pc.
CleanupTick(h, pc) ==
  gc' = [gc EXCEPT ![h] = [pc |-> pc, next |-> @.next + CleanupInterval * TicksPerSecond]]

\* updateLastCleanup: one sidecar goes on, if the table says that it is time.  Its
\* argument is in milliseconds, the query compares it with seconds.
updateLastCleanup(h) ==
  /\ cleanup
  /\ sidecar[h].pc \in {"up", "closing"}
  /\ gc[h].pc = "idle"
  /\ now >= gc[h].next
  /\ \/ /\ IF lastCleanup = Never
              \/ Seconds(now) - lastCleanup > CleanupInterval * 1000 - 100
           THEN lastCleanup' = Seconds(now) /\ CleanupTick(h, "delete")
           ELSE UNCHANGED lastCleanup /\ CleanupTick(h, "idle")
        /\ UNCHANGED faults
     \/ Fault /\ CleanupTick(h, "idle") /\ UNCHANGED lastCleanup
  /\ UNCHANGED <<now, rows, sidecar, cleanup, missed, died, taken>>

\* DeleteExpiredValuesQuery of initGC.
CleanupExpired(h) ==
  /\ gc[h].pc = "delete"
  /\ rows' = [a \in Addresses |->
       IF rows[a] # NoRow /\ Seconds(now) - rows[a].lastUpdate < UpdateInterval
       THEN NoRow ELSE rows[a]]
  /\ gc' = [gc EXCEPT ![h].pc = "idle"]
  /\ UNCHANGED <<now, lastCleanup, sidecar, cleanup, missed, died, taken, faults>>

\* The statement fails, or its context ends with gc.Close, and the error is logged.
CleanupFails(h) ==
  /\ gc[h].pc = "delete"
  /\ Fault \/ (sidecar[h].pc = "closing" /\ UNCHANGED faults)
  /\ gc' = [gc EXCEPT ![h].pc = "idle"]
  /\ UNCHANGED <<now, rows, lastCleanup, sidecar, cleanup, missed, died, taken>>

-----------------------------------------------------------------------------
(* Close, and the end without it.                                          *)

\* closeCh is closed: no more renewals.
Close(h) ==
  /\ sidecar[h].pc = "up"
  /\ sidecar' = [sidecar EXCEPT ![h].pc = "closing"]
  /\ UNCHANGED <<now, rows, lastCleanup, gc, cleanup, missed, died, taken, faults>>

deregisterHost_ByAddress(h) ==
  /\ sidecar[h].pc = "closing"
  /\ sidecar[h].renewal = Never /\ gc[h].pc = "idle"
  /\ \/ rows' = [rows EXCEPT ![AddressOf[h]] = NoRow] /\ UNCHANGED faults
     \/ Fault /\ UNCHANGED rows
  /\ Ends(h)
  /\ UNCHANGED <<now, lastCleanup, cleanup, missed, taken>>

\* Both loops have ended; the row goes if it is still this sidecar's.
deregisterHost(h) ==
  /\ sidecar[h].pc = "closing"
  /\ sidecar[h].renewal = Never /\ gc[h].pc = "idle"
  /\ \/ /\ rows' = IF Owns(h) THEN [rows EXCEPT ![AddressOf[h]] = NoRow] ELSE rows
        /\ UNCHANGED faults
     \/ Fault /\ UNCHANGED rows
  /\ Ends(h)
  /\ UNCHANGED <<now, lastCleanup, cleanup, missed, taken>>

Crash(h) ==
  /\ sidecar[h].pc \in {"up", "closing"}
  /\ Fault
  /\ Ends(h)
  /\ UNCHANGED <<now, rows, lastCleanup, cleanup, missed, taken>>

-----------------------------------------------------------------------------
\* What ResolveID can answer: the address of any row that is fresh enough.
ResolveID ==
  {a \in Addresses : rows[a] # NoRow
                       /\ Seconds(now) - rows[a].lastUpdate < UpdateInterval}

-----------------------------------------------------------------------------
Init ==
  /\ now \in 0 .. TicksPerSecond - 1
  /\ rows = [a \in Addresses |-> NoRow]
  /\ lastCleanup = Never
  /\ sidecar = [h \in Sidecars |-> [pc |-> "new", next |-> 0, renewal |-> Never,
                                    silent |-> FALSE]]
  /\ gc = [h \in Sidecars |-> [pc |-> "idle", next |-> 0]]
  /\ cleanup \in Cleanups
  /\ missed = {} /\ faults = 0
  /\ died = [h \in Sidecars |-> Never]
  /\ taken = [h \in Sidecars |-> Never]

Step(h) ==
  \/ Register(h)
  \/ RenewStarts(h)
  \/ doRenewRegistration(h)
  \/ RenewGivesUp(h)
  \/ updateLastCleanup(h)
  \/ CleanupExpired(h)
  \/ CleanupFails(h)
  \/ Close(h)
  \/ deregisterHost(h)
  \/ Crash(h)

Next == Tick \/ \E h \in Sidecars : Step(h)

Spec == Init /\ [][Next]_vars

-----------------------------------------------------------------------------
(* Properties.                                                             *)

\* The values the variables can have; a renewal is under way only in a sidecar that
\* runs, and has not outlived its timeout.
TypeOK ==
  /\ now \in 0 .. MaxNow
  /\ \A a \in Addresses : rows[a] # NoRow => rows[a].lastUpdate \in 0 .. Seconds(now)
  /\ \A h \in Sidecars :
       /\ sidecar[h].pc \in {"new", "up", "closing", "ended"}
       /\ sidecar[h].renewal # Never =>
            /\ sidecar[h].pc \in {"up", "closing"}
            /\ now - sidecar[h].renewal \in 0 .. Timeout * TicksPerSecond
       /\ gc[h].pc \in {"idle", "delete"}
  /\ missed \subseteq Sidecars /\ faults \in 0 .. MaxFaults

\* Registered and not overtaken by another sidecar with its address.
Current(h) == sidecar[h].pc = "up" /\ taken[h] = Never

\* A sidecar that runs keeps its row, and renews it before it is older than
\* UpdateInterval, although the row holds whole seconds.  A lookup wants less than
\* UpdateInterval, so it may miss the row for its last second; it finds the row at any
\* time when renewals take at least a second less than Timeout, since the interval of
\* renewRegistration keeps only a nanosecond in reserve.  All this without a garbage
\* collector: with one, which is the default, see RegistrationKept.
LiveResolvable ==
  ~cleanup => \A h \in Sidecars : Current(h) /\ h \notin missed =>
    /\ Owns(h)
    /\ Seconds(now) - rows[AddressOf[h]].lastUpdate <= UpdateInterval
    /\ MaxLatency <= (Timeout - 1) * TicksPerSecond => AddressOf[h] \in ResolveID

\* A sidecar that has ended, crashed ones included, is not found any more when
\* UpdateInterval is over.
DeadForgotten ==
  \A a \in ResolveID : LET h == rows[a].registration IN
    died[h] # Never => Seconds(now) - Seconds(died[h]) < UpdateInterval

\* A sidecar whose address was taken over notices at its next renewal that works,
\* and ends: two sidecars do not keep serving one address.
OldOwnerStops ==
  \A h \in Sidecars : sidecar[h].pc = "up" /\ h \notin missed /\ taken[h] # Never =>
    now - taken[h] <= RenewInterval + MaxLatency

\* With a garbage collector and without: lookups forget the sidecars that have ended,
\* and one whose address was taken over does not go on for long.  Without one: the row
\* of a sidecar that runs is renewed in time (ResolveID, renewRegistration,
\* doRenewRegistration, deregisterHost).
RegistryIsTrue == LiveResolvable /\ DeadForgotten /\ OldOwnerStops

\* The row of a running sidecar goes only when another one registers its address.
RowsKept ==
  \A h \in Sidecars :
    Owns(h) /\ sidecar[h].pc = "up" /\ sidecar'[h].pc # "ended"
      => LET row == rows'[AddressOf[h]] IN
           /\ row # NoRow
           /\ row.registration # h => sidecar[row.registration].pc = "new"

\* Without a garbage collector no other sidecar's Close, crash or renewal removes the
\* row of a running sidecar.
RowsKeptByOthers == [][~cleanup => RowsKept]_vars

\* What GCOptions says of the garbage collector, that it removes expired rows, and
\* renewRegistration of a lost registration, that it should never happen.
RegistrationKept == [][RowsKept]_vars
=============================================================================
