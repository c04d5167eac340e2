---------------------------- MODULE OutboundProofs ----------------------------
(***************************************************************************)
(* The safety of three parts of Outbound: the registry of the SQLite       *)
(* resolver, for any number of sidecars, addresses and faults; what every  *)
(* component does to publish or invoke, for any number of publishers,      *)
(* clients, attempts and faults; and the object stores, for any number of  *)
(* callers, objects and faults.                                            *)
(***************************************************************************)
EXTENDS SqliteResolver, Publications, ObjectStores, FiniteSetTheorems, TLAPS

-----------------------------------------------------------------------------
(* The registry of the SQLite resolver: the invariants.                    *)

Rows == [registration : Sidecars, lastUpdate : Nat]
Times == Nat \cup {Never}

RegistryTyped ==
  /\ now \in Nat
  /\ rows \in [Addresses -> Rows \cup {NoRow}]
  /\ sidecar \in [Sidecars -> [pc : {"new", "up", "closing", "ended"}, next : Nat,
                               renewal : Times, silent : BOOLEAN]]
  /\ gc \in [Sidecars -> [pc : {"idle", "delete"}, next : Nat]]
  /\ died \in [Sidecars -> Times] /\ taken \in [Sidecars -> Times]
  /\ cleanup \in BOOLEAN

\* A row is at the address of the sidecar that wrote it, and has not been written
\* after that one's end.
RowInv(a) ==
  rows[a] # NoRow =>
    LET h == rows[a].registration IN
    /\ AddressOf[h] = a /\ sidecar[h].pc # "new"
    /\ rows[a].lastUpdate <= Seconds(now)
    /\ died[h] # Never => rows[a].lastUpdate <= Seconds(died[h])

\* The times of a sidecar: it has started its last renewal an interval before the next
\* one, and the renewal under way has not outlived its bound.
ClockInv(h) ==
  LET s == sidecar[h] IN
  /\ died[h] # Never <=> s.pc = "ended"
  /\ s.pc = "new" => taken[h] = Never /\ s.renewal = Never /\ gc[h].pc = "idle"
  /\ s.renewal # Never /\ s.silent => h \in missed
  /\ s.pc = "up" =>
       /\ s.next - RenewInterval \in Nat /\ s.next - RenewInterval <= now /\ now <= s.next
       /\ s.renewal # Never => /\ s.renewal = s.next - RenewInterval
                               /\ s.renewal - RenewInterval \in Nat
                               /\ ~s.silent => now <= s.renewal + MaxLatency

\* When the last renewal before the one under way, if any, was started.
Since(h) ==
  IF sidecar[h].renewal = Never THEN sidecar[h].next - RenewInterval
  ELSE sidecar[h].renewal - RenewInterval

\* A sidecar that has lost its address to another one never has it again, and has
\* not renewed since.
TakenInv(h) ==
  sidecar[h].pc = "up" /\ taken[h] # Never =>
    ~Owns(h) /\ (h \notin missed => Since(h) <= taken[h])

\* Without a garbage collector the others keep the row, which every renewal that
\* works brings up to date.
CurrentInv(h) ==
  ~cleanup =>
    /\ gc[h].pc = "idle"
    /\ Current(h) => /\ Owns(h)
                     /\ h \notin missed =>
                          Seconds(Since(h)) <= rows[AddressOf[h]].lastUpdate

RegistryInv ==
  /\ RegistryTyped
  /\ \A a \in Addresses : RowInv(a)
  /\ \A h \in Sidecars : ClockInv(h) /\ TakenInv(h) /\ CurrentInv(h)

-----------------------------------------------------------------------------
(* The clock, in ticks and in seconds.                                     *)

LEMMA Intervals ==
  /\ RenewInterval \in Nat /\ RenewInterval >= MaxLatency
  /\ MaxLatency \in Nat /\ TicksPerSecond \in Nat \ {0} /\ UpdateInterval \in Nat
  /\ CleanupInterval * TicksPerSecond \in Nat
  /\ RenewInterval = (UpdateInterval - Timeout) * TicksPerSecond
  <1> DEFINE U == UpdateInterval  O == Timeout  T == TicksPerSecond
  <1>1. U \in Nat /\ O \in Nat /\ T \in Nat /\ T >= 1 /\ U - O >= O /\ U - O >= 1
        /\ MaxLatency \in 0 .. O * T /\ CleanupInterval \in Nat
    BY ConstantsAssumption, RenewalsDoNotOverlap
  <1> HIDE DEF U, O, T
  <1>2. ASSUME NEW a \in Nat, NEW b \in Nat, NEW c \in Nat, a >= b
        PROVE  a * c >= b * c /\ a * c \in Nat /\ b * c \in Nat
    <2>1. PICK d \in Nat : a = b + d
      <3>1. a - b \in Nat /\ a = b + (a - b)
        BY <1>2
      <3> QED BY <3>1
    <2>2. (b + d) * c = b * c + d * c /\ d * c \in Nat /\ b * c \in Nat
      OBVIOUS
    <2> QED BY <2>1, <2>2
  <1>3. (U - O) * T >= O * T /\ (U - O) * T \in Nat
    <2>1. U - O \in Nat
      BY <1>1
    <2> QED BY <1>1, <1>2, <2>1
  <1>4. MaxLatency \in Nat /\ (U - O) * T >= MaxLatency
    <2>1. O * T \in Nat
      BY <1>1
    <2> QED BY <1>1, <1>3, <2>1
  <1>5. CleanupInterval * TicksPerSecond \in Nat
    BY <1>1 DEF T
  <1> QED BY <1>1, <1>3, <1>4, <1>5 DEF RenewInterval, U, O, T

\* Later ticks are in later seconds or in the same one.
LEMMA SecondsGrow ==
  ASSUME NEW s \in Nat, NEW t \in Nat, s <= t
  PROVE  Seconds(s) \in Nat /\ Seconds(t) \in Nat /\ Seconds(s) <= Seconds(t)
  BY Intervals DEF Seconds

\* A number of whole seconds later.
LEMMA SecondsShift ==
  ASSUME NEW t \in Nat, NEW n \in Nat
  PROVE  Seconds(t + n * TicksPerSecond) = Seconds(t) + n
  BY Intervals DEF Seconds

-----------------------------------------------------------------------------
(* The registry: what the steps do to one sidecar and one row.             *)

\* Every step of a sidecar, with its parts expanded.
LEMMA RegistrySteps ==
  ASSUME [Next]_vars
  PROVE  \/ Tick \/ UNCHANGED vars
         \/ \E h \in Sidecars : \/ Register(h) \/ RenewStarts(h) \/ doRenewRegistration(h)
                                \/ RenewGivesUp(h) \/ updateLastCleanup(h)
                                \/ CleanupExpired(h) \/ CleanupFails(h) \/ Close(h)
                                \/ deregisterHost(h) \/ Crash(h)
  BY DEF Next, Step

Same(h) == sidecar'[h] = sidecar[h] /\ died'[h] = died[h]

\* What a step makes of a sidecar: nothing, its registration, a step of its renewal,
\* the beginning of its Close, or its end.
Registers(h) ==
  /\ sidecar[h].pc = "new"
  /\ sidecar'[h] = [sidecar[h] EXCEPT !.pc = "up", !.next = now + RenewInterval]
  /\ rows' = [rows EXCEPT ![AddressOf[h]] = Row(h)]
  /\ died'[h] = died[h]
Starts(h) ==
  /\ sidecar[h].pc = "up" /\ sidecar[h].renewal = Never /\ now = sidecar[h].next
  /\ \E silent \in BOOLEAN :
       /\ sidecar'[h] = [sidecar[h] EXCEPT !.next = now + RenewInterval, !.renewal = now,
                                           !.silent = silent]
       /\ silent => h \in missed'
       /\ ~silent => missed' = missed
  /\ died'[h] = died[h] /\ rows' = rows
Renews(h) ==
  /\ sidecar[h].pc \in {"up", "closing"} /\ sidecar[h].renewal # Never /\ ~sidecar[h].silent
  /\ Owns(h)
  /\ sidecar'[h] = [sidecar[h] EXCEPT !.renewal = Never]
  /\ rows' = [rows EXCEPT ![AddressOf[h]] = Row(h)]
  /\ died'[h] = died[h]
GivesUp(h) ==
  /\ sidecar[h].renewal # Never
  /\ sidecar[h].silent \/ sidecar[h].pc = "closing"
  /\ sidecar'[h] = [sidecar[h] EXCEPT !.renewal = Never, !.silent = FALSE]
  /\ died'[h] = died[h] /\ missed' = missed /\ rows' = rows
Closes(h) ==
  /\ sidecar[h].pc = "up"
  /\ sidecar'[h] = [sidecar[h] EXCEPT !.pc = "closing"]
  /\ died'[h] = died[h] /\ rows' = rows
Ended(h) ==
  /\ sidecar'[h] = [pc |-> "ended", next |-> 0, renewal |-> Never, silent |-> FALSE]
  /\ died'[h] = now

LEMMA SidecarMoves ==
  ASSUME RegistryTyped, [Next]_vars, NEW h \in Sidecars
  PROVE  Same(h) \/ Registers(h) \/ Starts(h) \/ Renews(h) \/ GivesUp(h) \/ Closes(h) \/ Ended(h)
  <1>0. /\ DOMAIN sidecar = Sidecars /\ DOMAIN died = Sidecars
    BY DEF RegistryTyped
  <1>1. CASE Tick \/ UNCHANGED vars
    BY <1>1 DEF Tick, vars, Same
  <1>2. ASSUME NEW k \in Sidecars, Register(k) \/ RenewStarts(k) \/ doRenewRegistration(k)
                                   \/ RenewGivesUp(k) \/ updateLastCleanup(k)
                                   \/ CleanupExpired(k) \/ CleanupFails(k) \/ Close(k)
                                   \/ deregisterHost(k) \/ Crash(k)
        PROVE  Same(h) \/ Registers(h) \/ Starts(h) \/ Renews(h) \/ GivesUp(h) \/ Closes(h)
               \/ Ended(h)
    <2>1. CASE Register(k)
      BY <1>0, <2>1 DEF Register, Ends, Same, Registers, Ended
    <2>2. CASE RenewStarts(k)
      <3>1. PICK silent \in BOOLEAN :
              /\ sidecar' = [sidecar EXCEPT ![k] = [@ EXCEPT !.next = now + RenewInterval,
                                             !.renewal = now, !.silent = silent]]
              /\ IF silent THEN Fault /\ missed' = missed \cup {k}
                           ELSE UNCHANGED <<missed, faults>>
        BY <2>2 DEF RenewStarts
      <3> QED BY <1>0, <2>2, <3>1 DEF RenewStarts, Same, Starts
    <2>3. CASE doRenewRegistration(k)
      BY <1>0, <2>3 DEF doRenewRegistration, Ends, Same, Renews, Ended
    <2>4. CASE RenewGivesUp(k)
      BY <1>0, <2>4 DEF RenewGivesUp, Same, GivesUp
    <2>5. CASE updateLastCleanup(k) \/ CleanupExpired(k) \/ CleanupFails(k)
      BY <2>5 DEF updateLastCleanup, CleanupExpired, CleanupFails, Same
    <2>6. CASE Close(k)
      BY <1>0, <2>6 DEF Close, Same, Closes
    <2>7. CASE deregisterHost(k) \/ Crash(k)
      BY <1>0, <2>7 DEF deregisterHost, Crash, Ends, Same, Ended
    <2> QED BY <1>2, <2>1, <2>2, <2>3, <2>4, <2>5, <2>6, <2>7
  <1> QED BY RegistrySteps, <1>1, <1>2

\* A row goes, or is written by a sidecar with its address that registers or renews.
LEMMA RowMoves ==
  ASSUME RegistryTyped, [Next]_vars, NEW a \in Addresses
  PROVE  \/ rows'[a] = rows[a]
         \/ rows'[a] = NoRow
         \/ \E h \in Sidecars : /\ AddressOf[h] = a /\ rows'[a] = Row(h)
                                /\ Registers(h) \/ Renews(h)
  <1>0. /\ DOMAIN rows = Addresses /\ DOMAIN sidecar = Sidecars /\ DOMAIN died = Sidecars
        /\ \A h \in Sidecars : AddressOf[h] \in Addresses
    BY ConstantsAssumption DEF RegistryTyped
  <1>1. CASE Tick \/ UNCHANGED vars
    BY <1>1 DEF Tick, vars
  <1>2. ASSUME NEW k \in Sidecars, Register(k) \/ RenewStarts(k) \/ doRenewRegistration(k)
                                   \/ RenewGivesUp(k) \/ updateLastCleanup(k)
                                   \/ CleanupExpired(k) \/ CleanupFails(k) \/ Close(k)
                                   \/ deregisterHost(k) \/ Crash(k)
        PROVE  \/ rows'[a] = rows[a] \/ rows'[a] = NoRow
               \/ /\ AddressOf[k] = a /\ rows'[a] = Row(k)
                  /\ Registers(k) \/ Renews(k)
    <2>1. CASE Register(k)
      BY <1>0, <2>1 DEF Register, Registers
    <2>2. CASE RenewStarts(k) \/ RenewGivesUp(k) \/ updateLastCleanup(k)
               \/ CleanupFails(k) \/ Close(k) \/ Crash(k)
      BY <2>2 DEF RenewStarts, RenewGivesUp, updateLastCleanup, CleanupFails, Close, Crash
    <2>3. CASE doRenewRegistration(k)
      BY <1>0, <2>3 DEF doRenewRegistration, Renews
    <2>4. CASE CleanupExpired(k)
      BY <2>4 DEF CleanupExpired
    <2>5. CASE deregisterHost(k)
      BY <1>0, <2>5 DEF deregisterHost
    <2> QED BY <1>2, <2>1, <2>2, <2>3, <2>4, <2>5
  <1> QED BY RegistrySteps, <1>1, <1>2

\* The clock goes on, and only when nothing else happens.
LEMMA ClockMoves ==
  ASSUME RegistryTyped, [Next]_vars
  PROVE  /\ now' \in Nat /\ now <= now'
         /\ Seconds(now) \in Nat /\ Seconds(now') \in Nat /\ Seconds(now) <= Seconds(now')
         /\ now' # now => Tick
         /\ cleanup' = cleanup
  <1>1. now \in Nat
    BY DEF RegistryTyped
  <1>2. CASE Tick
    BY <1>1, <1>2, SecondsGrow DEF Tick
  <1>3. CASE UNCHANGED <<now, cleanup>>
    BY <1>1, <1>3, SecondsGrow
  <1>4. Tick \/ UNCHANGED <<now, cleanup>>
    BY RegistrySteps DEF vars, Register, RenewStarts, doRenewRegistration, RenewGivesUp,
      updateLastCleanup, CleanupExpired, CleanupFails, Close, deregisterHost, Crash
  <1> QED BY <1>2, <1>3, <1>4 DEF Tick

\* Types.
LEMMA RegistryInit ==
  ASSUME Init
  PROVE  RegistryInv
  <1>1. now \in Nat
    BY Intervals DEF Init
  <1>2. RegistryTyped
    BY <1>1, ConstantsAssumption DEF Init, RegistryTyped, Times
  <1>3. \A a \in Addresses : RowInv(a)
    BY DEF Init, RowInv
  <1>4. \A h \in Sidecars : ClockInv(h) /\ TakenInv(h) /\ CurrentInv(h)
    BY DEF Init, ClockInv, TakenInv, CurrentInv, Current
  <1> QED BY <1>2, <1>3, <1>4 DEF RegistryInv

LEMMA SidecarTyped ==
  ASSUME RegistryTyped, [Next]_vars, NEW h \in Sidecars
  PROVE  /\ sidecar'[h] \in [pc : {"new", "up", "closing", "ended"}, next : Nat,
                             renewal : Times, silent : BOOLEAN]
         /\ died'[h] \in Times
  <1> DEFINE S == [pc : {"new", "up", "closing", "ended"}, next : Nat,
                   renewal : Times, silent : BOOLEAN]
  <1>0. sidecar[h] \in S /\ died[h] \in Times /\ now \in Nat /\ now + RenewInterval \in Nat
    BY Intervals DEF RegistryTyped
  <1>1. CASE Same(h)
    BY <1>0, <1>1 DEF Same
  <1>2. CASE Registers(h)
    BY <1>0, <1>2 DEF Registers
  <1>3. CASE Starts(h)
    BY <1>0, <1>3 DEF Starts, Times
  <1>4. CASE Renews(h) \/ GivesUp(h) \/ Closes(h)
    BY <1>0, <1>4 DEF Renews, GivesUp, Closes, Times
  <1>5. CASE Ended(h)
    BY <1>0, <1>5 DEF Ended, Times
  <1> QED BY SidecarMoves, <1>1, <1>2, <1>3, <1>4, <1>5

\* What a step makes of the time when the address of a sidecar was taken over.
LEMMA TakenMoves ==
  ASSUME RegistryTyped, [Next]_vars, NEW h \in Sidecars
  PROVE  \/ taken'[h] = taken[h]
         \/ /\ taken[h] = Never /\ taken'[h] = now /\ sidecar[h].pc = "up"
            /\ \E k \in Sidecars : k # h /\ Register(k) /\ Registers(k) /\ AddressOf[k] = AddressOf[h]
            /\ sidecar'[h] = sidecar[h] /\ missed' = missed
  <1>0. DOMAIN sidecar = Sidecars /\ DOMAIN died = Sidecars /\ DOMAIN taken = Sidecars
    BY DEF RegistryTyped
  <1>1. ASSUME NEW k \in Sidecars, Register(k), taken'[h] # taken[h]
        PROVE  /\ taken[h] = Never /\ taken'[h] = now /\ sidecar[h].pc = "up"
               /\ k # h /\ Register(k) /\ Registers(k) /\ AddressOf[k] = AddressOf[h]
               /\ sidecar'[h] = sidecar[h] /\ missed' = missed
    BY <1>0, <1>1 DEF Register, Registers
  <1>2. CASE \A k \in Sidecars : ~Register(k)
    BY <1>2, RegistrySteps DEF Tick, vars, RenewStarts, doRenewRegistration, RenewGivesUp,
      updateLastCleanup, CleanupExpired, CleanupFails, Close, deregisterHost, Crash
  <1> QED BY <1>1, <1>2

\* The collector of a sidecar.
LEMMA CollectorTyped ==
  ASSUME RegistryTyped, [Next]_vars, NEW h \in Sidecars
  PROVE  /\ gc'[h] \in [pc : {"idle", "delete"}, next : Nat]
         /\ gc'[h].pc = "delete" => gc[h].pc = "delete" \/ (cleanup /\ sidecar[h].pc # "new")
  <1> DEFINE G == [pc : {"idle", "delete"}, next : Nat]
  <1>0. /\ gc[h] \in G /\ now \in Nat /\ DOMAIN gc = Sidecars
        /\ now + CleanupInterval * TicksPerSecond \in Nat
        /\ gc[h].next + CleanupInterval * TicksPerSecond \in Nat
    BY Intervals DEF RegistryTyped
  <1>1. CASE gc'[h] = gc[h]
    BY <1>0, <1>1
  <1>2. CASE gc'[h] = [gc[h] EXCEPT !.pc = "idle"]
    BY <1>0, <1>2
  <1>3. CASE gc'[h] = [pc |-> "idle", next |-> 0]
    BY <1>3
  <1>4. CASE gc'[h] = [gc[h] EXCEPT !.next = now + CleanupInterval * TicksPerSecond]
    BY <1>0, <1>4
  <1>5. CASE gc'[h] = [pc |-> "idle", next |-> gc[h].next + CleanupInterval * TicksPerSecond]
    BY <1>0, <1>5
  <1>6. CASE /\ gc'[h] = [pc |-> "delete",
                          next |-> gc[h].next + CleanupInterval * TicksPerSecond]
             /\ cleanup /\ sidecar[h].pc # "new"
    BY <1>0, <1>6
  <1>7. CASE Tick \/ UNCHANGED vars
    BY <1>1, <1>7 DEF Tick, vars
  <1>8. ASSUME NEW k \in Sidecars, Register(k) \/ RenewStarts(k) \/ doRenewRegistration(k)
                                   \/ RenewGivesUp(k) \/ updateLastCleanup(k)
                                   \/ CleanupExpired(k) \/ CleanupFails(k) \/ Close(k)
                                   \/ deregisterHost(k) \/ Crash(k)
        PROVE  /\ gc'[h] \in G
               /\ gc'[h].pc = "delete" => gc[h].pc = "delete" \/ (cleanup /\ sidecar[h].pc # "new")
    <2>1. CASE Register(k)
      <3>1. gc' = [gc EXCEPT ![k].next = now + CleanupInterval * TicksPerSecond] \/ Ends(k)
        BY <2>1 DEF Register
      <3> QED BY <1>0, <1>1, <1>3, <1>4, <3>1 DEF Ends
    <2>2. CASE RenewStarts(k) \/ RenewGivesUp(k) \/ Close(k)
      BY <2>2, <1>1 DEF RenewStarts, RenewGivesUp, Close
    <2>3. CASE doRenewRegistration(k) \/ deregisterHost(k) \/ Crash(k)
      BY <2>3, <1>0, <1>1, <1>3 DEF doRenewRegistration, deregisterHost, Crash, Ends
    <2>4. CASE CleanupExpired(k) \/ CleanupFails(k)
      BY <2>4, <1>0, <1>1, <1>2 DEF CleanupExpired, CleanupFails
    <2>5. CASE updateLastCleanup(k)
      <3>1. /\ cleanup /\ sidecar[k].pc # "new"
            /\ CleanupTick(k, "delete") \/ CleanupTick(k, "idle")
        BY <2>5 DEF updateLastCleanup
      <3>2. CASE k = h
        BY <1>0, <1>5, <1>6, <3>1, <3>2 DEF CleanupTick
      <3>3. CASE k # h
        BY <1>0, <1>1, <3>1, <3>3 DEF CleanupTick
      <3> QED BY <3>2, <3>3
    <2> QED BY <1>8, <2>1, <2>2, <2>3, <2>4, <2>5
  <1> QED BY RegistrySteps, <1>7, <1>8

\* The variables stay functions.
LEMMA RegistryDomains ==
  ASSUME RegistryTyped, [Next]_vars
  PROVE  /\ \E f : sidecar' = [h \in Sidecars |-> f[h]]
         /\ \E f : gc' = [h \in Sidecars |-> f[h]]
         /\ \E f : died' = [h \in Sidecars |-> f[h]]
         /\ \E f : taken' = [h \in Sidecars |-> f[h]]
         /\ \E f : rows' = [a \in Addresses |-> f[a]]
  <1> DEFINE Maps(f, S) == f = [x \in S |-> f[x]]
  <1>0. /\ Maps(sidecar, Sidecars) /\ Maps(gc, Sidecars) /\ Maps(died, Sidecars)
        /\ Maps(taken, Sidecars) /\ Maps(rows, Addresses)
    BY DEF RegistryTyped
  <1>1. ASSUME NEW f, NEW S, Maps(f, S), NEW x, NEW y
        PROVE  Maps([f EXCEPT ![x] = y], S)
    BY <1>1
  <1>3. Maps(sidecar', Sidecars)
    BY <1>0, RegistrySteps DEF Tick, vars, Register, RenewStarts, doRenewRegistration,
      RenewGivesUp, updateLastCleanup, CleanupExpired, CleanupFails, Close, deregisterHost,
      Crash, Ends
  <1>4. Maps(gc', Sidecars)
    BY <1>0, RegistrySteps DEF Tick, vars, Register, RenewStarts, doRenewRegistration,
      RenewGivesUp, updateLastCleanup, CleanupExpired, CleanupFails, Close, deregisterHost,
      Crash, Ends, CleanupTick
  <1>5. Maps(died', Sidecars)
    BY <1>0, RegistrySteps DEF Tick, vars, Register, RenewStarts, doRenewRegistration,
      RenewGivesUp, updateLastCleanup, CleanupExpired, CleanupFails, Close, deregisterHost,
      Crash, Ends
  <1>6. Maps(taken', Sidecars)
    BY <1>0, RegistrySteps DEF Tick, vars, Register, RenewStarts, doRenewRegistration,
      RenewGivesUp, updateLastCleanup, CleanupExpired, CleanupFails, Close, deregisterHost,
      Crash
  <1>7. Maps(rows', Addresses)
    BY <1>0, RegistrySteps DEF Tick, vars, Register, RenewStarts, doRenewRegistration,
      RenewGivesUp, updateLastCleanup, CleanupExpired, CleanupFails, Close, deregisterHost,
      Crash
  <1> QED BY <1>3, <1>4, <1>5, <1>6, <1>7

LEMMA RegistryTypedStep ==
  ASSUME RegistryTyped, [Next]_vars
  PROVE  RegistryTyped'
  <1>1. now' \in Nat /\ cleanup' \in BOOLEAN
    BY ClockMoves DEF RegistryTyped
  <1>2. rows' \in [Addresses -> Rows \cup {NoRow}]
    <2>1. ASSUME NEW a \in Addresses PROVE rows'[a] \in Rows \cup {NoRow}
      <3>1. rows[a] \in Rows \cup {NoRow}
        BY DEF RegistryTyped
      <3>2. \A h \in Sidecars : Row(h) \in Rows
        BY ClockMoves DEF Row, Rows
      <3> QED BY <3>1, <3>2, RowMoves
    <2> QED BY <2>1, RegistryDomains
  <1>3. sidecar' \in [Sidecars -> [pc : {"new", "up", "closing", "ended"}, next : Nat,
                                   renewal : Times, silent : BOOLEAN]]
        /\ died' \in [Sidecars -> Times]
    BY SidecarTyped, RegistryDomains
  <1>4. gc' \in [Sidecars -> [pc : {"idle", "delete"}, next : Nat]]
    BY CollectorTyped, RegistryDomains
  <1>5. taken' \in [Sidecars -> Times]
    <2>1. ASSUME NEW h \in Sidecars PROVE taken'[h] \in Times
      BY TakenMoves DEF RegistryTyped, Times
    <2> QED BY <2>1, RegistryDomains
  <1> QED BY <1>1, <1>2, <1>3, <1>4, <1>5 DEF RegistryTyped

-----------------------------------------------------------------------------
(* The registry: the invariant is kept.                                    *)

LEMMA RowStep ==
  ASSUME RegistryInv, [Next]_vars, NEW a \in Addresses
  PROVE  RowInv(a)'
  <1>0. RegistryTyped /\ now \in Nat /\ rows[a] \in Rows \cup {NoRow}
    BY DEF RegistryInv, RegistryTyped
  <1>1. SUFFICES ASSUME rows'[a] # NoRow
                 PROVE  /\ AddressOf[rows'[a].registration] = a
                        /\ sidecar'[rows'[a].registration].pc # "new"
                        /\ rows'[a].lastUpdate <= Seconds(now')
                        /\ died'[rows'[a].registration] # Never =>
                             rows'[a].lastUpdate <= Seconds(died'[rows'[a].registration])
    BY DEF RowInv
  <1>2. CASE rows'[a] = rows[a]
    <2>1. PICK h \in Sidecars : h = rows[a].registration
      BY <1>0, <1>1, <1>2 DEF Rows
    <2>2. PICK n \in Nat : n = rows[a].lastUpdate
      BY <1>0, <1>1, <1>2 DEF Rows
    <2>3. /\ AddressOf[h] = a /\ sidecar[h].pc # "new" /\ n <= Seconds(now)
          /\ died[h] # Never => n <= Seconds(died[h])
      BY <1>1, <1>2, <2>1, <2>2 DEF RegistryInv, RowInv
    <2>4. n <= Seconds(now')
      BY <2>3, <1>0, ClockMoves
    <2>5. sidecar'[h].pc # "new" /\ (died'[h] = died[h] \/ died'[h] = now)
      <3>1. sidecar[h] \in [pc : {"new", "up", "closing", "ended"}, next : Nat,
                            renewal : Times, silent : BOOLEAN]
        BY <1>0 DEF RegistryTyped
      <3>2. CASE Same(h) \/ Closes(h) \/ Ended(h) \/ Registers(h)
        BY <3>1, <3>2, <2>3 DEF Same, Closes, Ended, Registers
      <3>3. CASE Renews(h) \/ GivesUp(h)
        BY <3>1, <3>3, <2>3 DEF Renews, GivesUp
      <3>4. CASE Starts(h)
        BY <3>1, <3>4 DEF Starts
      <3> QED BY <1>0, SidecarMoves, <3>2, <3>3, <3>4
    <2> QED BY <1>2, <2>1, <2>2, <2>3, <2>4, <2>5
  <1>3. ASSUME NEW h \in Sidecars, AddressOf[h] = a, rows'[a] = Row(h), Registers(h) \/ Renews(h)
        PROVE  /\ AddressOf[rows'[a].registration] = a
               /\ sidecar'[rows'[a].registration].pc # "new"
               /\ rows'[a].lastUpdate <= Seconds(now')
               /\ died'[rows'[a].registration] = Never
    <2>1. rows'[a].registration = h /\ rows'[a].lastUpdate = Seconds(now)
      BY <1>3 DEF Row
    <2>2. Seconds(now) <= Seconds(now')
      BY <1>0, ClockMoves
    <2>3. sidecar[h] \in [pc : {"new", "up", "closing", "ended"}, next : Nat,
                          renewal : Times, silent : BOOLEAN]
      BY <1>0 DEF RegistryTyped
    <2>4. died[h] = Never
      BY <1>3 DEF Registers, Renews, RegistryInv, ClockInv
    <2>5. sidecar'[h].pc # "new" /\ died'[h] = died[h]
      BY <1>3, <2>3 DEF Registers, Renews
    <2> QED BY <1>3, <2>1, <2>2, <2>4, <2>5
  <1> QED BY <1>0, <1>1, <1>2, <1>3, RowMoves

\* What the renewals have missed.
LEMMA MissedMoves ==
  ASSUME RegistryTyped, [Next]_vars, NEW h \in Sidecars, h \in missed, h \notin missed'
  PROVE  sidecar[h].renewal # Never /\ ~sidecar[h].silent /\ (Renews(h) \/ Ended(h))
  <1>0. DOMAIN sidecar = Sidecars /\ DOMAIN died = Sidecars
    BY DEF RegistryTyped
  <1>1. doRenewRegistration(h)
    BY RegistrySteps DEF Tick, vars, Register, RenewStarts, doRenewRegistration, RenewGivesUp,
      updateLastCleanup, CleanupExpired, CleanupFails, Close, deregisterHost, Crash
  <1> QED BY <1>0, <1>1 DEF doRenewRegistration, Renews, Ends, Ended

\* What Tick lets pass.
LEMMA TickWaits ==
  ASSUME RegistryTyped, Tick, NEW h \in Sidecars, sidecar[h].pc = "up"
  PROVE  /\ now' = now + 1 /\ now' <= sidecar[h].next
         /\ sidecar[h].renewal # Never /\ ~sidecar[h].silent =>
              now' <= sidecar[h].renewal + MaxLatency
         /\ sidecar' = sidecar /\ missed' = missed /\ died' = died
         /\ taken' = taken /\ rows' = rows /\ gc' = gc
  <1>1. sidecar[h].next \in Nat /\ sidecar[h].renewal \in Times /\ now \in Nat
    BY DEF RegistryTyped
  <1>2. sidecar[h].renewal # Never => sidecar[h].renewal \in Nat
    BY <1>1 DEF Times
  <1>3. now < sidecar[h].next
    BY DEF Tick
  <1>4. sidecar[h].renewal # Never /\ ~sidecar[h].silent =>
          now < sidecar[h].renewal + MaxLatency
    BY DEF Tick
  <1>5. now' = now + 1
    BY DEF Tick
  <1> QED BY <1>1, <1>2, <1>3, <1>4, <1>5, Intervals DEF Tick

\* The fields of the sidecar after its move.
LEMMA MoveFields ==
  ASSUME RegistryTyped, NEW h \in Sidecars
  PROVE  /\ Registers(h) => /\ sidecar'[h].pc = "up" /\ sidecar'[h].next = now + RenewInterval
                            /\ sidecar'[h].renewal = sidecar[h].renewal
                            /\ sidecar'[h].silent = sidecar[h].silent
         /\ Starts(h) => /\ sidecar'[h].pc = "up" /\ sidecar'[h].next = now + RenewInterval
                         /\ sidecar'[h].renewal = now
         /\ Renews(h) => /\ sidecar'[h].pc = sidecar[h].pc
                         /\ sidecar'[h].next = sidecar[h].next
                         /\ sidecar'[h].renewal = Never
         /\ GivesUp(h) => /\ sidecar'[h].pc = sidecar[h].pc
                          /\ sidecar'[h].next = sidecar[h].next
                          /\ sidecar'[h].renewal = Never
         /\ Closes(h) => sidecar'[h].pc = "closing"
         /\ Ended(h) => sidecar'[h].pc = "ended"
  <1>1. sidecar[h] \in [pc : {"new", "up", "closing", "ended"}, next : Nat,
                        renewal : Times, silent : BOOLEAN]
    BY DEF RegistryTyped
  <1>2. ASSUME Registers(h)
        PROVE  /\ sidecar'[h].pc = "up" /\ sidecar'[h].next = now + RenewInterval
               /\ sidecar'[h].renewal = sidecar[h].renewal
               /\ sidecar'[h].silent = sidecar[h].silent
    BY <1>1, <1>2 DEF Registers
  <1>3. ASSUME Starts(h)
        PROVE  /\ sidecar'[h].pc = "up" /\ sidecar'[h].next = now + RenewInterval
               /\ sidecar'[h].renewal = now
    BY <1>1, <1>3 DEF Starts
  <1>4. ASSUME Renews(h)
        PROVE  /\ sidecar'[h].pc = sidecar[h].pc /\ sidecar'[h].next = sidecar[h].next
               /\ sidecar'[h].renewal = Never
    BY <1>1, <1>4 DEF Renews
  <1>5. ASSUME GivesUp(h)
        PROVE  /\ sidecar'[h].pc = sidecar[h].pc /\ sidecar'[h].next = sidecar[h].next
               /\ sidecar'[h].renewal = Never
    BY <1>1, <1>5 DEF GivesUp
  <1>6. ASSUME Closes(h) PROVE sidecar'[h].pc = "closing"
    BY <1>1, <1>6 DEF Closes
  <1>7. ASSUME Ended(h) PROVE sidecar'[h].pc = "ended"
    BY <1>7 DEF Ended
  <1> QED BY <1>2, <1>3, <1>4, <1>5, <1>6, <1>7

LEMMA ClockStep ==
  ASSUME RegistryInv, [Next]_vars, NEW h \in Sidecars
  PROVE  ClockInv(h)'
  <1> DEFINE s == sidecar[h]
  <1>0. /\ RegistryTyped /\ ClockInv(h)
        /\ s \in [pc : {"new", "up", "closing", "ended"}, next : Nat,
                  renewal : Times, silent : BOOLEAN]
        /\ now \in Nat /\ RenewInterval \in Nat /\ MaxLatency \in Nat
        /\ RenewInterval >= MaxLatency /\ Never \notin Nat
    BY Intervals, ConstantsAssumption DEF RegistryInv, RegistryTyped
  <1>1. CASE Tick
    <2>1. sidecar' = sidecar /\ missed' = missed /\ died' = died /\ taken' = taken /\ gc' = gc
          /\ now' = now + 1
      BY <1>1 DEF Tick
    <2>2. s.pc = "up" => /\ now' <= s.next
                         /\ s.renewal # Never /\ ~s.silent => now' <= s.renewal + MaxLatency
      BY <1>0, <1>1, TickWaits
    <2>3. s.pc = "up" => s.next - RenewInterval <= now'
      BY <1>0, <2>1 DEF ClockInv
    <2> QED BY <1>0, <2>1, <2>2, <2>3 DEF ClockInv
  <1>2. CASE now' = now
    <2>1. died'[h] # Never <=> sidecar'[h].pc = "ended"
      <3>1. CASE Same(h)
        BY <1>0, <3>1 DEF Same, ClockInv
      <3>2. CASE Registers(h) \/ Renews(h) \/ GivesUp(h) \/ Closes(h)
        BY <1>0, <3>2 DEF Registers, Renews, GivesUp, Closes, ClockInv
      <3>3. CASE Starts(h)
        BY <1>0, <3>3 DEF Starts, ClockInv
      <3>4. CASE Ended(h)
        BY <1>0, <3>4 DEF Ended
      <3> QED BY <1>0, SidecarMoves, <3>1, <3>2, <3>3, <3>4
    <2>2. ASSUME sidecar'[h].pc = "new"
          PROVE  taken'[h] = Never /\ sidecar'[h].renewal = Never /\ gc'[h].pc = "idle"
      <3>1. Same(h)
        <4>1. ~Starts(h) /\ ~Ended(h) /\ ~Registers(h) /\ ~Closes(h)
          BY <1>0, <2>2, MoveFields
        <4>2. ~Renews(h)
          BY <1>0, <2>2, MoveFields DEF Renews
        <4>3. ~GivesUp(h)
          BY <1>0, <2>2, MoveFields DEF GivesUp, ClockInv
        <4> QED BY <1>0, SidecarMoves, <4>1, <4>2, <4>3
      <3>2. s.pc = "new" /\ taken[h] = Never /\ s.renewal = Never /\ gc[h].pc = "idle"
        BY <1>0, <2>2, <3>1 DEF Same, ClockInv
      <3>3. taken'[h] = Never
        BY <1>0, <3>2, TakenMoves
      <3>4. gc'[h].pc \in {"idle", "delete"} /\ gc'[h].pc # "delete"
        BY <1>0, <3>2, CollectorTyped
      <3> QED BY <3>1, <3>2, <3>3, <3>4 DEF Same
    <2>3. ASSUME sidecar'[h].renewal # Never, sidecar'[h].silent
          PROVE  h \in missed'
      <3>1. CASE Same(h) \/ Closes(h) \/ Registers(h)
        <4>1. s.renewal # Never /\ s.silent
          BY <1>0, <2>3, <3>1 DEF Same, Closes, Registers
        <4>2. h \in missed
          BY <1>0, <4>1 DEF ClockInv
        <4> QED BY <1>0, <4>1, <4>2, MissedMoves
      <3>2. CASE Renews(h) \/ GivesUp(h) \/ Ended(h)
        <4>1. ASSUME Renews(h) PROVE sidecar'[h].renewal = Never
          BY <1>0, <4>1 DEF Renews
        <4>2. ASSUME GivesUp(h) PROVE sidecar'[h].renewal = Never
          BY <1>0, <4>2 DEF GivesUp
        <4>3. ASSUME Ended(h) PROVE sidecar'[h].renewal = Never
          BY <4>3 DEF Ended
        <4> QED BY <2>3, <3>2, <4>1, <4>2, <4>3
      <3>3. CASE Starts(h)
        BY <1>0, <2>3, <3>3 DEF Starts
      <3> QED BY <1>0, SidecarMoves, <3>1, <3>2, <3>3
    <2>4. ASSUME sidecar'[h].pc = "up"
          PROVE  LET t == sidecar'[h] IN
                 /\ t.next - RenewInterval \in Nat /\ t.next - RenewInterval <= now
                 /\ now <= t.next
                 /\ t.renewal # Never => /\ t.renewal = t.next - RenewInterval
                                         /\ t.renewal - RenewInterval \in Nat
                                         /\ ~t.silent => now <= t.renewal + MaxLatency
      <3>1. CASE Same(h)
        BY <1>0, <2>4, <3>1 DEF Same, ClockInv
      <3>2. CASE Registers(h)
        <4>1. s.renewal = Never
          BY <1>0, <3>2 DEF Registers, ClockInv
        <4>2. sidecar'[h].renewal = Never /\ sidecar'[h].next = now + RenewInterval
          BY <1>0, <3>2, <4>1 DEF Registers
        <4> QED BY <1>0, <4>2
      <3>3. CASE Starts(h)
        <4>1. PICK silent \in BOOLEAN :
                sidecar'[h] = [s EXCEPT !.next = now + RenewInterval, !.renewal = now,
                                        !.silent = silent]
          BY <3>3 DEF Starts
        <4>2. sidecar'[h].renewal = now /\ sidecar'[h].next = now + RenewInterval
          BY <1>0, <4>1
        <4>3. now = s.next /\ s.pc = "up"
          BY <3>3 DEF Starts
        <4>4. now - RenewInterval \in Nat
          BY <1>0, <4>3 DEF ClockInv
        <4> QED BY <1>0, <4>2, <4>4
      <3>4. CASE Renews(h) \/ GivesUp(h)
        <4>1. /\ sidecar'[h].renewal = Never /\ sidecar'[h].next = s.next
              /\ sidecar'[h].pc = s.pc
          BY <1>0, <3>4 DEF Renews, GivesUp
        <4> QED BY <1>0, <2>4, <4>1 DEF ClockInv
      <3>5. CASE Closes(h) \/ Ended(h)
        BY <1>0, <2>4, <3>5 DEF Closes, Ended
      <3> QED BY <1>0, SidecarMoves, <3>1, <3>2, <3>3, <3>4, <3>5
    <2> QED BY <1>2, <2>1, <2>2, <2>3, <2>4 DEF ClockInv
  <1> QED BY <1>0, <1>1, <1>2, ClockMoves

LEMMA TakenStep ==
  ASSUME RegistryInv, [Next]_vars, NEW h \in Sidecars
  PROVE  TakenInv(h)'
  <1> DEFINE s == sidecar[h]
             a == AddressOf[h]
  <1>0. /\ RegistryTyped /\ ClockInv(h) /\ TakenInv(h)
        /\ s \in [pc : {"new", "up", "closing", "ended"}, next : Nat,
                  renewal : Times, silent : BOOLEAN]
        /\ now \in Nat /\ taken[h] \in Times /\ RenewInterval \in Nat /\ Never \notin Nat
        /\ a \in Addresses
    BY Intervals, ConstantsAssumption DEF RegistryInv, RegistryTyped
  <1> SUFFICES ASSUME sidecar'[h].pc = "up", taken'[h] # Never
               PROVE  ~Owns(h)' /\ (h \notin missed' => Since(h)' <= taken'[h])
    BY DEF TakenInv
  <1>1. ~Closes(h) /\ ~Ended(h)
    BY <1>0, MoveFields
  <1>2. ~Registers(h)
    BY <1>0, TakenMoves DEF Registers, ClockInv
  <1>3. ~Renews(h)
    <2> SUFFICES ASSUME Renews(h) PROVE FALSE
      OBVIOUS
    <2>1. s.pc = "up" /\ Owns(h) /\ s.renewal # Never /\ sidecar'[h].renewal = Never
      BY <1>0, MoveFields DEF Renews
    <2>2. taken[h] = Never
      BY <1>0, <2>1 DEF TakenInv
    <2> QED BY <1>0, <2>1, <2>2, TakenMoves
  <1>4. h \notin missed' => h \notin missed
    BY <1>0, <1>1, <1>3, MissedMoves
  <1>5. ~GivesUp(h) \/ h \in missed'
    <2> SUFFICES ASSUME GivesUp(h) PROVE h \in missed'
      OBVIOUS
    <2>1. s.pc = "up" /\ s.renewal # Never /\ missed' = missed
      BY <1>0, MoveFields DEF GivesUp
    <2>2. s.silent
      BY <2>1 DEF GivesUp
    <2> QED BY <1>0, <2>1, <2>2 DEF ClockInv
  <1>6. ~Owns(h)'
    <2> SUFFICES ASSUME rows'[a] # NoRow, rows'[a].registration = h PROVE FALSE
      BY DEF Owns
    <2>1. ASSUME NEW k \in Sidecars, rows'[a] = Row(k) PROVE k = h
      BY <2>1 DEF Row
    <2>2. rows'[a] = rows[a]
      BY <1>0, <1>2, <1>3, <2>1, RowMoves
    <2>3. Owns(h)
      BY <2>2 DEF Owns
    <2>4. s.pc = "up" => taken[h] = Never
      BY <1>0, <2>3 DEF TakenInv
    <2>5. s.pc = "up"
      BY <1>0, <1>1, <1>2, <1>3, SidecarMoves, MoveFields DEF Same, Starts
    <2>6. PICK k \in Sidecars : k # h /\ Registers(k) /\ AddressOf[k] = a
      BY <1>0, <2>4, <2>5, TakenMoves
    <2>7. rows'[a] = Row(k)
      BY <1>0, <2>6 DEF Registers, RegistryTyped
    <2> QED BY <2>1, <2>6, <2>7
  <1>7. ASSUME h \notin missed' PROVE Since(h)' <= taken'[h]
    <2>1. CASE Starts(h)
      <3>1. s.pc = "up" /\ s.renewal = Never /\ now = s.next /\ h \notin missed
        BY <1>4, <1>7, <2>1 DEF Starts
      <3>2. sidecar'[h].renewal = now
        BY <1>0, <2>1, MoveFields
      <3>3. taken'[h] = taken[h]
        BY <1>0, <3>1, <3>2, TakenMoves
      <3>4. Since(h) <= taken[h]
        BY <1>0, <3>1, <3>3 DEF TakenInv
      <3>5. Since(h) = now - RenewInterval /\ Since(h)' = now - RenewInterval
        BY <1>0, <3>1, <3>2 DEF Since
      <3> QED BY <3>3, <3>4, <3>5
    <2>2. CASE Same(h)
      <3>1. s.pc = "up" /\ Since(h)' = Since(h) /\ h \notin missed
        BY <1>4, <1>7, <2>2 DEF Same, Since
      <3>2. CASE taken'[h] = taken[h]
        BY <1>0, <3>1, <3>2 DEF TakenInv
      <3>3. CASE taken'[h] = now
        <4>1. s.next - RenewInterval <= now /\ s.next - RenewInterval \in Nat
          BY <1>0, <3>1 DEF ClockInv
        <4>2. s.renewal # Never => s.renewal = s.next - RenewInterval
          BY <1>0, <3>1 DEF ClockInv
        <4> QED BY <1>0, <3>1, <3>3, <4>1, <4>2 DEF Since
      <3> QED BY <1>0, <3>2, <3>3, TakenMoves
    <2> QED BY <1>0, <1>1, <1>2, <1>3, <1>5, <1>7, <2>1, <2>2, SidecarMoves
  <1> QED BY <1>6, <1>7

\* Without a garbage collector nobody takes the row of a running sidecar away but one
\* that registers its address.
LEMMA RowKept ==
  ASSUME RegistryInv, [Next]_vars, NEW h \in Sidecars, ~cleanup, Owns(h), sidecar[h].pc = "up",
         sidecar'[h].pc # "ended"
  PROVE  LET a == AddressOf[h] IN
         \/ rows'[a] = rows[a]
         \/ rows'[a] = Row(h) /\ Renews(h)
         \/ \E k \in Sidecars : /\ k # h /\ AddressOf[k] = a /\ rows'[a] = Row(k) /\ Registers(k)
                                /\ taken[h] = Never => taken'[h] # Never
  <1> DEFINE a == AddressOf[h]
  <1>0. /\ RegistryTyped /\ a \in Addresses /\ DOMAIN rows = Addresses /\ now \in Nat
        /\ DOMAIN sidecar = Sidecars /\ Never \notin Nat
        /\ \A k \in Sidecars : gc[k].pc = "idle"
        /\ \A k \in Sidecars : AddressOf[k] \in Addresses
    BY ConstantsAssumption DEF RegistryInv, RegistryTyped, CurrentInv
  <1>1. CASE Tick \/ UNCHANGED vars
    BY <1>1 DEF Tick, vars
  <1>2. ASSUME NEW k \in Sidecars, Register(k) \/ RenewStarts(k) \/ doRenewRegistration(k)
                                   \/ RenewGivesUp(k) \/ updateLastCleanup(k)
                                   \/ CleanupExpired(k) \/ CleanupFails(k) \/ Close(k)
                                   \/ deregisterHost(k) \/ Crash(k)
        PROVE  \/ rows'[a] = rows[a]
               \/ rows'[a] = Row(h) /\ Renews(h)
               \/ /\ k # h /\ AddressOf[k] = a /\ rows'[a] = Row(k) /\ Registers(k)
                  /\ taken[h] = Never => taken'[h] # Never
    <2>1. CASE Register(k)
      <3>1. CASE AddressOf[k] = a /\ rows' # rows
        <4>1. k # h /\ sidecar[k].pc = "new"
          BY <2>1 DEF Register
        <4>2. /\ rows' = [rows EXCEPT ![a] = Row(k)]
              /\ sidecar' = [sidecar EXCEPT ![k].pc = "up", ![k].next = now + RenewInterval]
              /\ taken' = [j \in Sidecars |->
                   IF AddressOf[j] = AddressOf[k] /\ sidecar[j].pc = "up" /\ taken[j] = Never
                   THEN now ELSE taken[j]]
              /\ died' = died
          BY <2>1, <3>1 DEF Register
        <4>3. rows'[a] = Row(k) /\ Registers(k)
          BY <1>0, <3>1, <4>1, <4>2 DEF Registers
        <4>4. taken[h] = Never => taken'[h] # Never
          BY <1>0, <3>1, <4>2
        <4> QED BY <3>1, <4>1, <4>3, <4>4
      <3>2. CASE rows' = rows \/ AddressOf[k] # a
        BY <1>0, <2>1, <3>2 DEF Register
      <3> QED BY <2>1, <3>1, <3>2 DEF Register
    <2>2. CASE RenewStarts(k) \/ RenewGivesUp(k) \/ updateLastCleanup(k)
               \/ CleanupFails(k) \/ Close(k) \/ Crash(k)
      BY <2>2 DEF RenewStarts, RenewGivesUp, updateLastCleanup, CleanupFails, Close, Crash
    <2>3. CASE doRenewRegistration(k)
      <3>1. CASE Owns(k) /\ AddressOf[k] = a
        <4>1. k = h
          BY <3>1 DEF Owns
        <4> QED BY <1>0, <2>3, <3>1, <4>1 DEF doRenewRegistration, Renews, RegistryTyped
      <3>2. CASE ~Owns(k) \/ AddressOf[k] # a
        BY <1>0, <2>3, <3>2 DEF doRenewRegistration
      <3> QED BY <3>1, <3>2
    <2>4. CASE CleanupExpired(k)
      BY <1>0, <2>4 DEF CleanupExpired
    <2>5. CASE deregisterHost(k)
      <3>1. CASE Owns(k) /\ AddressOf[k] = a
        BY <2>5, <3>1 DEF deregisterHost, Owns
      <3>2. CASE ~Owns(k) \/ AddressOf[k] # a
        BY <1>0, <2>5, <3>2 DEF deregisterHost
      <3> QED BY <3>1, <3>2
    <2> QED BY <1>2, <2>1, <2>2, <2>3, <2>4, <2>5
  <1> QED BY RegistrySteps, <1>1, <1>2

LEMMA CurrentStep ==
  ASSUME RegistryInv, [Next]_vars, NEW h \in Sidecars
  PROVE  CurrentInv(h)'
  <1> DEFINE s == sidecar[h]
             a == AddressOf[h]
  <1>0. /\ RegistryTyped /\ ClockInv(h) /\ CurrentInv(h) /\ cleanup' = cleanup
        /\ s \in [pc : {"new", "up", "closing", "ended"}, next : Nat,
                  renewal : Times, silent : BOOLEAN]
        /\ now \in Nat /\ RenewInterval \in Nat /\ Never \notin Nat /\ a \in Addresses
        /\ \A k \in Sidecars : Row(k) # NoRow /\ Row(k).registration = k
                               /\ Row(k).lastUpdate = Seconds(now)
    <2>1. \A k \in Sidecars : Row(k) \in [registration : Sidecars, lastUpdate : Nat]
      BY ClockMoves DEF Row, RegistryInv
    <2> QED BY <2>1, Intervals, ConstantsAssumption, ClockMoves
        DEF RegistryInv, RegistryTyped, Row
  <1> SUFFICES ASSUME ~cleanup
               PROVE  /\ gc'[h].pc = "idle"
                      /\ Current(h)' => /\ Owns(h)'
                                        /\ h \notin missed' =>
                                             Seconds(Since(h)') <= rows'[a].lastUpdate
    BY <1>0 DEF CurrentInv, Seconds
  <1>1. gc'[h].pc = "idle"
    BY <1>0, CollectorTyped DEF CurrentInv
  <1>2. ASSUME sidecar'[h].pc = "up", taken'[h] = Never
        PROVE  Owns(h)' /\ (h \notin missed' => Seconds(Since(h)') <= rows'[a].lastUpdate)
    <2>0. taken[h] = Never /\ ~Closes(h) /\ ~Ended(h)
      BY <1>0, <1>2, TakenMoves, MoveFields
    <2>1. ASSUME rows'[a] = Row(h), Since(h)' \in Nat, Since(h)' <= now
          PROVE  Owns(h)' /\ Seconds(Since(h)') <= rows'[a].lastUpdate
      BY <1>0, <2>1, SecondsGrow DEF Owns
    <2>2. CASE Registers(h)
      <3>1. rows'[a] = Row(h)
        BY <1>0, <2>2 DEF Registers, RegistryTyped
      <3>2. sidecar'[h].renewal = Never /\ sidecar'[h].next = now + RenewInterval
        BY <1>0, <2>2, MoveFields DEF Registers, ClockInv
      <3>3. Since(h)' = now
        BY <1>0, <3>2 DEF Since, RenewInterval
      <3> QED BY <1>0, <2>1, <3>1, <3>3
    <2>3. CASE Renews(h)
      <3>1. rows'[a] = Row(h)
        BY <1>0, <2>3 DEF Renews, RegistryTyped
      <3>2. sidecar'[h].renewal = Never /\ sidecar'[h].next = s.next /\ s.pc = "up"
        BY <1>0, <1>2, <2>3, MoveFields DEF Renews
      <3>3. Since(h)' = s.next - RenewInterval
        BY <1>0, <3>2 DEF Since, RenewInterval
      <3> QED BY <1>0, <2>1, <3>1, <3>2, <3>3 DEF ClockInv
    <2>4. CASE ~Registers(h) /\ ~Renews(h)
      <3>1. Same(h) \/ Starts(h) \/ GivesUp(h)
        BY <1>0, <2>0, <2>4, SidecarMoves
      <3>2. s.pc = "up"
        BY <1>0, <1>2, <3>1, MoveFields DEF Same, Starts
      <3>3. Owns(h) /\ (h \notin missed => Seconds(Since(h)) <= rows[a].lastUpdate)
        BY <1>0, <2>0, <3>2 DEF CurrentInv, Current
      <3>4. rows'[a] = rows[a]
        <4>1. sidecar'[h].pc # "ended"
          BY <1>2
        <4>2. \/ rows'[a] = rows[a]
              \/ rows'[a] = Row(h) /\ Renews(h)
              \/ taken[h] = Never => taken'[h] # Never
          BY <3>2, <3>3, <4>1, RowKept
        <4> QED BY <1>2, <2>0, <2>4, <4>2
      <3>5. Owns(h)'
        BY <3>3, <3>4 DEF Owns
      <3>6. ASSUME h \notin missed' PROVE Since(h)' = Since(h) /\ h \notin missed
        <4>1. h \notin missed
          BY <1>0, <2>0, <2>4, <3>6, MissedMoves
        <4>2. ~GivesUp(h)
          <5> SUFFICES ASSUME GivesUp(h) PROVE FALSE
            OBVIOUS
          <5>1. s.renewal # Never /\ s.silent
            BY <3>2 DEF GivesUp
          <5> QED BY <1>0, <4>1, <5>1 DEF ClockInv
        <4>3. CASE Same(h)
          BY <4>1, <4>3 DEF Same, Since, RenewInterval
        <4>4. CASE Starts(h)
          <5>1. s.renewal = Never /\ now = s.next /\ sidecar'[h].renewal = now
            BY <1>0, <4>4, MoveFields DEF Starts
          <5> QED BY <1>0, <4>1, <5>1 DEF Since, RenewInterval
        <4> QED BY <3>1, <4>2, <4>3, <4>4
      <3> QED BY <3>3, <3>4, <3>5, <3>6
    <2> QED BY <2>2, <2>3, <2>4
  <1> QED BY <1>1, <1>2 DEF Current

LEMMA RegistryStep ==
  ASSUME RegistryInv, [Next]_vars
  PROVE  RegistryInv'
  <1>1. RegistryTyped'
    BY RegistryTypedStep DEF RegistryInv
  <1>2. \A a \in Addresses : RowInv(a)'
    BY RowStep
  <1>3. \A h \in Sidecars : ClockInv(h)' /\ TakenInv(h)' /\ CurrentInv(h)'
    BY ClockStep, TakenStep, CurrentStep
  <1> QED BY <1>1, <1>2, <1>3 DEF RegistryInv

-----------------------------------------------------------------------------
(* The registry: the theorems.                                             *)

\* How old the row of a running sidecar gets when renewals take at most n seconds.
LEMMA LiveAge ==
  ASSUME RegistryInv, ~cleanup, NEW h \in Sidecars, Current(h), h \notin missed,
         NEW n \in Nat, MaxLatency <= n * TicksPerSecond
  PROVE  /\ Owns(h) /\ AddressOf[h] \in Addresses /\ rows[AddressOf[h]] # NoRow
         /\ Seconds(now) - rows[AddressOf[h]].lastUpdate <= (UpdateInterval - Timeout) + n
  <1> DEFINE s == sidecar[h]
             a == AddressOf[h]
  <1>1. /\ ClockInv(h) /\ CurrentInv(h) /\ s.pc = "up" /\ a \in Addresses
        /\ now \in Nat /\ rows[a] \in Rows \cup {NoRow}
        /\ RenewInterval \in Nat /\ s.next \in Nat /\ Seconds(now) \in Nat
    BY Intervals, ConstantsAssumption, SecondsGrow DEF RegistryInv, RegistryTyped, Current
  <1>2. /\ Owns(h) /\ Seconds(Since(h)) <= rows[a].lastUpdate /\ rows[a].lastUpdate \in Nat
    BY <1>1 DEF CurrentInv, Owns, Rows
  <1> DEFINE T == TicksPerSecond
             D == UpdateInterval - Timeout
  <1>3. /\ T \in Nat /\ T >= 1 /\ MaxLatency \in Nat /\ MaxLatency <= n * T
        /\ D \in Nat /\ RenewInterval = D * T
    BY Intervals, ConstantsAssumption
  <1> HIDE DEF T, D
  <1>4. D * T + n * T = (D + n) * T /\ (D + n) * T \in Nat /\ n * T \in Nat /\ D + n \in Nat
    BY <1>3
  <1>5. Since(h) \in Nat /\ now <= Since(h) + (D + n) * T
    <2>1. CASE s.renewal = Never
      <3>1. Since(h) = s.next - RenewInterval /\ Since(h) \in Nat /\ now <= s.next
        BY <1>1, <2>1 DEF Since, ClockInv
      <3> QED BY <1>1, <1>3, <1>4, <3>1
    <2>2. CASE s.renewal # Never
      <3>1. /\ Since(h) = s.renewal - RenewInterval /\ Since(h) \in Nat
            /\ now <= s.renewal + MaxLatency /\ s.renewal = s.next - RenewInterval
        BY <1>1, <2>2 DEF Since, ClockInv
      <3> QED BY <1>1, <1>3, <1>4, <3>1
    <2> QED BY <2>1, <2>2
  <1>6. Seconds(now) <= Seconds(Since(h)) + (D + n)
    <2>1. Seconds(Since(h) + (D + n) * T) = Seconds(Since(h)) + (D + n)
      BY <1>4, <1>5, SecondsShift DEF T
    <2>2. Since(h) + (D + n) * T \in Nat
      BY <1>4, <1>5
    <2>3. Seconds(now) <= Seconds(Since(h) + (D + n) * T)
      BY <1>1, <1>5, <2>2, SecondsGrow
    <2> QED BY <2>1, <2>3
  <1>7. Seconds(now) - rows[a].lastUpdate <= D + n
    <2>1. Seconds(Since(h)) \in Nat
      BY <1>5, SecondsGrow
    <2> QED BY <1>1, <1>2, <1>4, <1>6, <2>1
  <1> QED BY <1>1, <1>2, <1>7 DEF Owns, D

LEMMA LiveFound ==
  ASSUME RegistryInv PROVE LiveResolvable
  <1> SUFFICES ASSUME ~cleanup, NEW h \in Sidecars, Current(h), h \notin missed
               PROVE  /\ Owns(h)
                      /\ Seconds(now) - rows[AddressOf[h]].lastUpdate <= UpdateInterval
                      /\ MaxLatency <= (Timeout - 1) * TicksPerSecond
                           => AddressOf[h] \in ResolveID
    BY DEF LiveResolvable
  <1> DEFINE age == Seconds(now) - rows[AddressOf[h]].lastUpdate
             U == UpdateInterval  O == Timeout  T == TicksPerSecond
  <1>1. /\ U \in Nat /\ O \in Nat /\ U - O >= 1 /\ T \in Nat /\ T >= 1
        /\ MaxLatency \in Nat /\ MaxLatency <= O * T
    BY Intervals, ConstantsAssumption
  <1>2. Owns(h) /\ AddressOf[h] \in Addresses /\ rows[AddressOf[h]] # NoRow
    BY <1>1, LiveAge
  <1>3. age \in Int
    <2>1. rows[AddressOf[h]].lastUpdate \in Nat /\ now \in Nat
      BY <1>2 DEF RegistryInv, RegistryTyped, Rows
    <2> QED BY <2>1, SecondsGrow
  <1>4. age <= (U - O) + O
    BY <1>1, LiveAge
  <1>5. ASSUME MaxLatency <= (O - 1) * T PROVE age < U
    <2>1. O - 1 \in Nat
      <3> SUFFICES ASSUME O = 0 PROVE FALSE
        BY <1>1
      <3>1. (O - 1) * T = - T
        BY <1>1
      <3> QED BY <1>1, <1>5, <3>1
    <2>2. age <= (U - O) + (O - 1)
      BY <1>5, <2>1, LiveAge
    <2> HIDE DEF age, U, O
    <2> QED BY <1>1, <1>3, <2>2
  <1>6. age <= U
    <2> HIDE DEF age, U, O
    <2> QED BY <1>1, <1>3, <1>4
  <1> QED BY <1>2, <1>5, <1>6 DEF ResolveID

LEMMA DeadForgets ==
  ASSUME RegistryInv PROVE DeadForgotten
  <1> SUFFICES ASSUME NEW a \in ResolveID, died[rows[a].registration] # Never
               PROVE  Seconds(now) - Seconds(died[rows[a].registration]) < UpdateInterval
    BY DEF DeadForgotten
  <1>1. /\ a \in Addresses /\ rows[a] # NoRow
        /\ Seconds(now) - rows[a].lastUpdate < UpdateInterval
    BY DEF ResolveID
  <1>2. PICK h \in Sidecars, n \in Nat : rows[a] = [registration |-> h, lastUpdate |-> n]
    BY <1>1 DEF RegistryInv, RegistryTyped, Rows
  <1>3. rows[a].registration = h /\ rows[a].lastUpdate = n
    BY <1>2
  <1>4. n <= Seconds(died[h])
    BY <1>1, <1>3 DEF RegistryInv, RowInv
  <1>5. died[h] \in Nat /\ now \in Nat
    BY <1>3 DEF RegistryInv, RegistryTyped, Times
  <1>6. Seconds(died[h]) \in Nat /\ Seconds(now) \in Nat
    BY <1>5, SecondsGrow
  <1> QED BY <1>1, <1>3, <1>4, <1>6, Intervals

LEMMA OldOwnerEnds ==
  ASSUME RegistryInv PROVE OldOwnerStops
  <1> SUFFICES ASSUME NEW h \in Sidecars, sidecar[h].pc = "up", h \notin missed,
                      taken[h] # Never
               PROVE  now - taken[h] <= RenewInterval + MaxLatency
    BY DEF OldOwnerStops
  <1> DEFINE s == sidecar[h]
  <1>1. /\ ClockInv(h) /\ TakenInv(h) /\ taken[h] \in Nat /\ now \in Nat
        /\ RenewInterval \in Nat /\ MaxLatency \in Nat /\ s.next \in Nat
    BY Intervals DEF RegistryInv, RegistryTyped, Times
  <1>2. Since(h) <= taken[h]
    BY <1>1 DEF TakenInv
  <1>3. CASE s.renewal = Never
    <2>1. Since(h) = s.next - RenewInterval /\ now <= s.next
      BY <1>1, <1>3 DEF Since, ClockInv
    <2> QED BY <1>1, <1>2, <2>1
  <1>4. CASE s.renewal # Never
    <2>1. /\ Since(h) = s.renewal - RenewInterval /\ s.renewal = s.next - RenewInterval
          /\ now <= s.renewal + MaxLatency
      BY <1>1, <1>4 DEF Since, ClockInv
    <2> QED BY <1>1, <1>2, <2>1
  <1> QED BY <1>3, <1>4

LEMMA RowsKeptStep ==
  ASSUME RegistryInv, [Next]_vars, ~cleanup
  PROVE  RowsKept
  <1> SUFFICES ASSUME NEW h \in Sidecars, Owns(h), sidecar[h].pc = "up",
                      sidecar'[h].pc # "ended"
               PROVE  LET row == rows'[AddressOf[h]] IN
                      /\ row # NoRow
                      /\ row.registration # h => sidecar[row.registration].pc = "new"
    BY DEF RowsKept
  <1> DEFINE a == AddressOf[h]
  <1>1. \A k \in Sidecars : Row(k) # NoRow /\ Row(k).registration = k
    <2>1. \A k \in Sidecars : Row(k) \in [registration : Sidecars, lastUpdate : Nat]
      BY ClockMoves DEF Row, RegistryInv
    <2> QED BY <2>1, ConstantsAssumption DEF Row
  <1>2. \/ rows'[a] = rows[a]
        \/ rows'[a] = Row(h)
        \/ \E k \in Sidecars : rows'[a] = Row(k) /\ sidecar[k].pc = "new"
    BY RowKept DEF Registers
  <1> QED BY <1>1, <1>2 DEF Owns

LEMMA RegistryHolds == Spec => []RegistryInv
  <1>1. Init => RegistryInv
    BY RegistryInit
  <1>2. RegistryInv /\ [Next]_vars => RegistryInv'
    BY RegistryStep
  <1> QED BY <1>1, <1>2, PTL DEF Spec

\* With a garbage collector and without, a lookup does not find a sidecar that ended
\* UpdateInterval ago, and a sidecar whose address was taken over ends at its next
\* renewal that works.  Without a garbage collector, which is not the default, a running
\* sidecar that nobody took over, and whose last renewal did not fail, has its row, never
\* older than UpdateInterval; that lookups find it at any time is said only for renewals
\* that take at least a second less than Timeout.  All this for timeouts that keep
\* renewals from overlapping (RenewalsDoNotOverlap, which the code does not check)
\* (ResolveID, renewRegistration, doRenewRegistration, deregisterHost).
THEOREM RegistryTrue == Spec => []RegistryIsTrue
  <1>1. RegistryInv => RegistryIsTrue
    BY LiveFound, DeadForgets, OldOwnerEnds DEF RegistryIsTrue
  <1> QED BY <1>1, RegistryHolds, PTL

\* Without a garbage collector no other sidecar's Close, crash or renewal removes the
\* row of a running sidecar (registerHost, doRenewRegistration, deregisterHost).
THEOREM OthersKeepRows == Spec => RowsKeptByOthers
  <1>1. RegistryInv /\ [Next]_vars => [~cleanup => RowsKept]_vars
    BY RowsKeptStep
  <1> QED BY <1>1, RegistryHolds, PTL DEF Spec, RowsKeptByOthers

-----------------------------------------------------------------------------
(* Publications: the programs of the calls.                                *)

StepNames ==
  {"producer", "channel", "closed", "lookup", "lock", "init", "ensure", "create", "url",
   "token", "connect", "stream", "store", "send", "await"}

\* Senders that make their client under a lock, and that keep what they have made.
Locked == EventHubs \cup ServiceBuses \cup {"mqtt3Binding", "rocketMQ"}
Keepers == OnDemand \cup Remembers \cup KubeMQs

\* The program goes on after step k with one of these.
Follow(k, next) == k + 1 \in 1..Len(Steps) /\ Steps[k + 1] \in next

BeginsWell ==
  /\ Len(Steps) \in Nat /\ 1 \in 1..Len(Steps)
  /\ Steps[1] \in {"producer", "channel", "closed", "lookup", "init", "url", "token", "send"}
  /\ Steps[1] = "lookup" => sender \in EventHubs \cup KubeMQs \cup {"serviceBusBinding", "mqtt3Binding"}
  /\ Steps[1] = "send" => sender \in {"kinesis", "sns", "gcpBinding", "storageQueues",
                                     "rocketMQBinding", "kubeMQBinding"}

ReadsInOrder ==
  \A k \in 1..Len(Steps) :
    /\ Steps[k] = "producer" => sender \in Kafkas /\ Follow(k, {"send"})
    /\ Steps[k] = "channel" => sender = "rabbitBinding" /\ Follow(k, {"send"})
    /\ Steps[k] = "url" => sender = "sqs" /\ Follow(k, {"send"})
    /\ Steps[k] = "token" => sender = "cfQueues" /\ Follow(k, {"send"})
    /\ Steps[k] = "closed" =>
         /\ sender \in {"snssqs", "gcp", "jetStream", "mqtt3", "pulsar", "solace", "rocketMQ",
                        "serviceBus", "serviceBusBulk"}
         /\ Follow(k, CASE sender = "solace" -> {"connect"}
                        [] sender \in {"jetStream", "mqtt3"} -> {"send"}
                        [] OTHER -> {"lookup"})
    /\ Steps[k] = "lookup" =>
         /\ sender \in Keepers
         /\ Follow(k, CASE sender \in Locked -> {"lock"}
                        [] sender \in KubeMQs -> {"init"}
                        [] sender = "gcp" -> {"ensure"}
                        [] sender = "snssqs" -> {"create"}
                        [] OTHER -> {"connect"})
    /\ Steps[k] = "lock" => sender \in Locked /\ Follow(k, {"ensure", "connect"})
    /\ Steps[k] = "init" =>
         /\ sender \in KubeMQs \cup {"solace"}
         /\ Follow(k, IF sender = "solace" THEN {"closed"} ELSE {"connect"})

MakesInOrder ==
  \A k \in 1..Len(Steps) :
    /\ Steps[k] = "ensure" =>
         /\ sender \in EventHubs \cup {"gcp", "serviceBus", "serviceBusBulk"}
         /\ Follow(k, {"create"})
         /\ k + 2 \in 1..Len(Steps)
         /\ Steps[k + 2] = IF sender = "gcp" THEN "store" ELSE "connect"
    /\ Steps[k] = "create" =>
         /\ sender \in EventHubs \cup Remembers \cup {"serviceBus", "serviceBusBulk"}
         /\ Follow(k, IF sender \in Remembers THEN {"store"} ELSE {"connect"})
    /\ Steps[k] = "connect" =>
         /\ sender \in OnDemand \cup KubeMQs \cup {"solace"}
         /\ Follow(k, CASE sender = "solace" -> {"send"}
                        [] sender \in KubeMQs -> {"stream"}
                        [] OTHER -> {"store"})
    /\ Steps[k] = "stream" => sender \in KubeMQs /\ Follow(k, {"store"})
    /\ Steps[k] = "store" => sender \in Keepers /\ Follow(k, {"send"})
    /\ Steps[k] = "send" =>
         CASE sender = "kubeMQStore" -> Follow(k, {"await"})
           [] sender = "rocketMQBinding" -> Len(Steps) = 2
           [] OTHER -> k = Len(Steps)
    /\ Steps[k] = "await" => sender = "kubeMQStore" /\ k = Len(Steps)
    /\ sender = "rocketMQBinding" => Steps[k] = "send"

HasSteps ==
  /\ \A k \in 1..Len(Steps) : Steps[k] \in StepNames
  /\ sender \in Keepers => \E k \in 1..Len(Steps) : Steps[k] = "store"
  /\ sender \in {"serviceBus", "serviceBusBinding"} =>
       \E k \in 1..Len(Steps) : Steps[k] = "lookup"

Shape == BeginsWell /\ ReadsInOrder /\ MakesInOrder /\ HasSteps

\* Every program has this shape.
LEMMA ProgramShapes ==
  ASSUME sender \in DOMAIN PublishPrograms
  PROVE  Shape
  <1> USE DEF Shape, BeginsWell, ReadsInOrder, MakesInOrder, HasSteps, StepNames, Follow, Kafkas,
              KubeMQs, EventHubs, ServiceBuses, OnDemand, Remembers, Keepers, Locked
  <1>1. CASE sender = "kafka"
    <2>1. Steps = <<"producer", "send">>
      BY <1>1 DEF Steps, PublishPrograms, KafkaPublish
    <2> QED BY <1>1, <2>1, SMT
  <1>2. CASE sender = "kafkaBulk"
    <2>1. Steps = <<"producer", "send">>
      BY <1>2 DEF Steps, PublishPrograms, KafkaBulkPublish
    <2> QED BY <1>2, <2>1, SMT
  <1>3. CASE sender \in {"eventHubs", "eventHubsBulk"}
    <2>1. Steps = <<"lookup", "lock", "ensure", "create", "connect", "store", "send">>
      BY <1>3 DEF Steps, PublishPrograms, EventHubsPublish
    <2> QED BY <1>3, <2>1, SMT
  <1>4. CASE sender = "snssqs"
    <2>1. Steps = <<"closed", "lookup", "create", "store", "send">>
      BY <1>4 DEF Steps, PublishPrograms, SnsSqsPublish
    <2> QED BY <1>4, <2>1, SMT
  <1>5. CASE sender = "gcp"
    <2>1. Steps = <<"closed", "lookup", "ensure", "create", "store", "send">>
      BY <1>5 DEF Steps, PublishPrograms, GCPPublish
    <2> QED BY <1>5, <2>1, SMT
  <1>6. CASE sender = "jetStream"
    <2>1. Steps = <<"closed", "send">>
      BY <1>6 DEF Steps, PublishPrograms, JetStreamPublish
    <2> QED BY <1>6, <2>1, SMT
  <1>7. CASE sender = "kubeMQ"
    <2>1. Steps = <<"lookup", "init", "connect", "stream", "store", "send">>
      BY <1>7 DEF Steps, PublishPrograms, KubeMQEventsPublish
    <2> QED BY <1>7, <2>1, SMT
  <1>8. CASE sender = "kubeMQStore"
    <2>1. Steps = <<"lookup", "init", "connect", "stream", "store", "send", "await">>
      BY <1>8 DEF Steps, PublishPrograms, KubeMQStorePublish
    <2> QED BY <1>8, <2>1, SMT
  <1>9. CASE sender = "mqtt3"
    <2>1. Steps = <<"closed", "send">>
      BY <1>9 DEF Steps, PublishPrograms, MQTTPublish
    <2> QED BY <1>9, <2>1, SMT
  <1>10. CASE sender = "pulsar"
    <2>1. Steps = <<"closed", "lookup", "connect", "store", "send">>
      BY <1>10 DEF Steps, PublishPrograms, PulsarPublish
    <2> QED BY <1>10, <2>1, SMT
  <1>11. CASE sender = "solace"
    <2>1. Steps = <<"init", "closed", "connect", "send">>
      BY <1>11 DEF Steps, PublishPrograms, SolacePublish
    <2> QED BY <1>11, <2>1, SMT
  <1>12. CASE sender = "rocketMQ"
    <2>1. Steps = <<"closed", "lookup", "lock", "connect", "store", "send">>
      BY <1>12 DEF Steps, PublishPrograms, RocketMQPublish
    <2> QED BY <1>12, <2>1, SMT
  <1>13. CASE sender = "serviceBus"
    <2>1. Steps = <<"closed", "lookup", "lock", "ensure", "create", "connect", "store", "send">>
      BY <1>13 DEF Steps, PublishPrograms, ServiceBusPublish
    <2> QED BY <1>13, <2>1, SMT
  <1>14. CASE sender = "serviceBusBulk"
    <2>1. Steps = <<"closed", "lookup", "lock", "ensure", "create", "connect", "store", "send">>
      BY <1>14 DEF Steps, PublishPrograms, ServiceBusBulkPublish
    <2> QED BY <1>14, <2>1, SMT
  <1>15. CASE sender = "serviceBusBinding"
    <2>1. Steps = <<"lookup", "lock", "connect", "store", "send">>
      BY <1>15 DEF Steps, PublishPrograms, ServiceBusInvoke
    <2> QED BY <1>15, <2>1, SMT
  <1>16. CASE sender = "rabbitBinding"
    <2>1. Steps = <<"channel", "send">>
      BY <1>16 DEF Steps, PublishPrograms, RabbitInvoke
    <2> QED BY <1>16, <2>1, SMT
  <1>17. CASE sender = "kinesis"
    <2>1. Steps = <<"send">>
      BY <1>17 DEF Steps, PublishPrograms, KinesisInvoke
    <2> QED BY <1>17, <2>1, SMT
  <1>18. CASE sender = "sqs"
    <2>1. Steps = <<"url", "send">>
      BY <1>18 DEF Steps, PublishPrograms, SQSInvoke
    <2> QED BY <1>18, <2>1, SMT
  <1>19. CASE sender = "sns"
    <2>1. Steps = <<"send">>
      BY <1>19 DEF Steps, PublishPrograms, SNSInvoke
    <2> QED BY <1>19, <2>1, SMT
  <1>20. CASE sender = "gcpBinding"
    <2>1. Steps = <<"send">>
      BY <1>20 DEF Steps, PublishPrograms, GCPInvoke
    <2> QED BY <1>20, <2>1, SMT
  <1>21. CASE sender = "storageQueues"
    <2>1. Steps = <<"send">>
      BY <1>21 DEF Steps, PublishPrograms, StorageQueuesInvoke
    <2> QED BY <1>21, <2>1, SMT
  <1>22. CASE sender = "mqtt3Binding"
    <2>1. Steps = <<"lookup", "lock", "connect", "store", "send">>
      BY <1>22 DEF Steps, PublishPrograms, MQTTInvoke
    <2> QED BY <1>22, <2>1, SMT
  <1>23. CASE sender = "rocketMQBinding"
    <2>1. Steps = <<"send", "send">>
      BY <1>23 DEF Steps, PublishPrograms, RocketMQInvoke
    <2> QED BY <1>23, <2>1, SMT
  <1>24. CASE sender = "kubeMQBinding"
    <2>1. Steps = <<"send">>
      BY <1>24 DEF Steps, PublishPrograms, KubeMQInvoke
    <2> QED BY <1>24, <2>1, SMT
  <1>25. CASE sender = "cfQueues"
    <2>1. Steps = <<"token", "send">>
      BY <1>25 DEF Steps, PublishPrograms, CFQueuesInvoke
    <2> QED BY <1>25, <2>1, SMT
  <1> QED BY <1>1, <1>2, <1>3, <1>4, <1>5, <1>6, <1>7, <1>8, <1>9, <1>10, <1>11, <1>12, <1>13, <1>14,
           <1>15, <1>16, <1>17, <1>18, <1>19, <1>20, <1>21, <1>22, <1>23, <1>24, <1>25 DEF PublishPrograms

-----------------------------------------------------------------------------
(* Publications: the invariants.                                           *)

Outcomes == {"idle", "running", "drop", "dropped", "ok", "error", "panicked"}
Clients == 1..MaxClients
Made(k) == k \in Clients /\ connection[k] # "none"

Publication ==
  [at : Nat, pc : Outcomes, client : Clients \cup {0, NilFunc}, tries : Nat, confirmed : Nat,
   failed : SUBSET {1, 2}, bad : Clients \cup {0}, dropped : Clients \cup {0, NilFunc},
   streamed : BOOLEAN, hit : BOOLEAN, late : BOOLEAN]

PublicationsTyped ==
  /\ sender \in DOMAIN PublishPrograms
  /\ cache \in Clients \cup {0, NilFunc}
  /\ connection \in [Clients -> {"none", "up", "broken", "closed"}]
  /\ mutex \in Publishers \cup {0}
  /\ publication \in [Publishers -> Publication]
  /\ stored \in [Publishers -> [1..2 -> Nat]]
  /\ resultChan \in {<<>>, <<"stored">>, <<"refused">>, <<"nil">>}
  /\ reconnecting \in Clients \cup {0}
  /\ shut \in BOOLEAN /\ sendFaults \in Nat /\ topicThere \in BOOLEAN

\* Senders that drop a client that is broken.
Droppers == {"serviceBus", "serviceBusBinding", "rocketMQ"}

\* A call under way is at a step of its program; only some senders drop clients.
PlaceInv(p) ==
  LET c == publication[p] IN
  /\ c.pc = "running" => c.at \in 1..Len(Steps)
  /\ c.pc \in {"drop", "dropped"} => sender \in Droppers
  /\ c.pc = "idle" => c = NoPublication

\* How often the call has sent, and what has come of it.
CountInv(p) ==
  LET c == publication[p] IN
  /\ c.tries <= MaxAttempts
  /\ c.pc \in {"idle", "running"} => c.tries < MaxAttempts
  /\ sender = "kafkaBulk" /\ c.pc = "running" => c.tries = 0
  /\ sender # "solace" =>
       /\ c.confirmed <= (IF sender = "rocketMQBinding" THEN 2 ELSE 1)
       /\ c.pc \in {"idle", "running", "drop", "dropped"} =>
            c.confirmed <= (IF sender = "rocketMQBinding" /\ c.pc = "running" THEN c.at - 1 ELSE 0)

\* Every copy but one is of a send that has failed; the RocketMQ binding has sent to
\* the topics before the one it is at.
CopiesInv(p) ==
  LET c == publication[p] IN
  \A e \in 1..2 :
    /\ stored[p][e] <= c.tries + 1
    /\ /\ c.pc \in {"idle", "running", "drop", "dropped"} /\ sender # "kubeMQStore"
       /\ ~(sender = "rocketMQBinding" /\ c.at > e)
       => stored[p][e] <= c.tries
    /\ sender = "rocketMQBinding" /\ c.pc = "running" /\ c.at > e => stored[p][e] > 0

\* KubeMQ event store: a message is on its way only while its call waits or is over,
\* and is not stored before.
StreamInv(p) ==
  LET c == publication[p]
      waiting == c.pc = "idle" \/ (c.pc = "running" /\ StepAt(p) # "await")
  IN  /\ c.streamed => sender = "kubeMQStore" /\ ~waiting
      /\ sender = "kubeMQStore" /\ (c.streamed \/ waiting) => \A e \in 1..2 : stored[p][e] = 0

\* What is reported as published is stored.
StoredInv(p) ==
  sender \notin Unconfirmed /\ publication[p].pc \in {"ok", "error"} =>
    \A e \in Entries \ publication[p].failed : stored[p][e] > 0

LocalInv(p) == PlaceInv(p) /\ CountInv(p) /\ CopiesInv(p) /\ StreamInv(p) /\ StoredInv(p)

\* The clients that the shared variables name have been made; which ones there are.
CacheInv ==
  /\ cache \in Clients => Made(cache)
  /\ cache = NilFunc => sender \in KubeMQs /\ sendFaults > 0
  /\ reconnecting # 0 => sender = "rabbitBinding" /\ Made(reconnecting)
  /\ sender \notin OnDemand \cup KubeMQs \cup Remembers \cup Kafkas \cup {"rabbitBinding"} => cache = 1
  /\ sender \in Remembers => Made(1) /\ cache \in {0, 1} /\ \A k \in Clients \ {1} : ~Made(k)
  /\ sender \in Kafkas => cache = IF shut THEN 0 ELSE 1
  /\ \A k \in Clients : connection[k] = "closed" =>
       shut \/ sender \in {"serviceBus", "serviceBusBinding", "rabbitBinding"}
  /\ shut /\ sender \in {"gcpBinding", "kubeMQBinding"} =>
       \A k \in Clients : connection[k] \in {"closed", "none"}

\* A call has the client it sends with.
ClientInv(p) ==
  LET c == publication[p] IN
  /\ sender \in OnDemand \cup {"solace", "rabbitBinding"} /\ StepAt(p) = "send" => Made(c.client)
  /\ StepAt(p) \in {"store", "stream"} /\ sender \notin Remembers => Made(c.client)
  /\ c.bad # 0 => Made(c.bad)
  /\ c.pc = "dropped" => c.dropped = 0 \/ Made(c.dropped)
  /\ sender \in KubeMQs /\ StepAt(p) \in {"send", "await"} => cache # 0
  /\ sender = "snssqs" /\ StepAt(p) = "send" => cache = 1 \/ c.hit

\* The lock is held from the second look at the cache to the store.
UnderLock == {"ensure", "create", "connect", "store"}
SenderLockInv ==
  sender \in Locked =>
    /\ \A p \in Publishers : StepAt(p) \in UnderLock <=> mutex = p
    /\ mutex # 0 => cache = 0
    /\ sender \in ServiceBuses /\ shut => cache = 0 /\ \A p \in Publishers : StepAt(p) # "store"

\* An open client, or one that may come back, is in the cache or somebody has it.
OpenInv ==
  sender \notin LeaksClients =>
    \A k \in Clients : connection[k] \in {"up", "broken"} =>
      \/ k \in {cache, reconnecting}
      \/ k = 1 /\ sender \in Remembers
      \/ \E p \in Publishers : \/ StepAt(p) = "store" /\ publication[p].client = k
                               \/ publication[p].pc = "dropped" /\ publication[p].dropped = k

\* A call that comes after Close does not get far.
LateInv(p) ==
  LET c == publication[p] IN
  c.late /\ sender \notin ServesAfterClose =>
    /\ shut
    /\ c.pc \in {"running", "error", "panicked"}
    /\ c.pc = "running" =>
         \/ StepAt(p) \in {"producer", "init", "closed"}
         \/ sender = "serviceBusBinding" /\ StepAt(p) \in {"lookup", "lock", "connect"}
         \/ sender \in {"gcpBinding", "kubeMQBinding"}

\* Why a call fails.
ReasonInv(p) ==
  LET c == publication[p] IN
  /\ c.pc \in {"error", "drop", "dropped"} =>
       \/ c.hit \/ shut
       \/ sender \in {"serviceBus", "serviceBusBinding", "rabbitBinding", "kubeMQStore"}
  /\ c.pc = "panicked" => \/ shut /\ sender \in Kafkas \cup ServiceBuses
                          \/ sendFaults > 0 /\ sender \in KubeMQs

\* A client that has failed does not come back into the cache.
BadInv(p) ==
  LET c == publication[p] IN
  sender \in Droppers /\ c.pc # "drop" /\ c.bad # 0 =>
    /\ cache # c.bad
    /\ \A q \in Publishers : StepAt(q) = "store" => publication[q].client # c.bad

\* As long as nothing fails there is a message at the broker for every success.
Succeeded == {p \in Publishers : publication[p].pc = "ok"}
AtTheBroker == {p \in Publishers : stored[p][1] > 0}
SharedInv ==
  sender = "kubeMQStore" /\ sendFaults = 0 =>
    /\ resultChan # <<"nil">>
    /\ Cardinality(Succeeded) + (IF resultChan = <<"stored">> THEN 1 ELSE 0)
         <= Cardinality(AtTheBroker)

PublicationsInv ==
  /\ PublicationsTyped /\ CacheInv /\ SenderLockInv /\ OpenInv /\ SharedInv
  /\ \A p \in Publishers :
       /\ LocalInv(p) /\ ClientInv(p) /\ LateInv(p) /\ ReasonInv(p) /\ BadInv(p)

-----------------------------------------------------------------------------
(* Publications: the effect of a step on its call.                         *)

Others(p) == \A q \in Publishers \ {p} : publication'[q] = publication[q] /\ stored'[q] = stored[q]

Pc(p) == publication[p].at
Uses(p) == publication[p].client

\* What nearly all steps leave alone.
Kept(p) ==
  LET c == publication[p]
      d == publication'[p]
  IN  /\ d.confirmed = c.confirmed /\ d.bad = c.bad /\ d.dropped = c.dropped
      /\ d.streamed = c.streamed /\ d.late = c.late

\* The call goes on at step k, with client m.
Walks(p, k, m) ==
  LET c == publication[p]
      d == publication'[p]
  IN  /\ d.pc = c.pc /\ d.at = k /\ d.client = m
      /\ d.tries = c.tries /\ d.failed = c.failed /\ d.hit = c.hit /\ Kept(p)

Over(p, how) ==
  LET c == publication[p]
      d == publication'[p]
  IN  /\ d.pc = how /\ d.at = c.at /\ d.client = c.client
      /\ d.tries = c.tries /\ d.hit = c.hit /\ Kept(p)
      /\ d.failed = IF how = "error" THEN Entries ELSE c.failed

\* A step before the send has failed.
Again(p) ==
  sender \in {"serviceBus", "serviceBusBinding"} /\ publication[p].tries + 1 < MaxAttempts

Faults(p) ==
  LET c == publication[p]
      d == publication'[p]
  IN  /\ d.tries = c.tries + 1 /\ d.hit /\ d.client = c.client /\ Kept(p)
      /\ IF Again(p) THEN d.pc = c.pc /\ d.at = Position("lookup") /\ d.failed = c.failed
         ELSE d.pc = "error" /\ d.at = c.at /\ d.failed = Entries

\* publication changes at p only, into another call.
Changes(p) ==
  /\ publication' \in [Publishers -> Publication]
  /\ \A q \in Publishers \ {p} : publication'[q] = publication[q]

\* A request has one entry or two.
LEMMA EntriesTyped == Entries \in SUBSET {1, 2} /\ IsFiniteSet(Entries) /\ Cardinality(Entries) \in 1..2
  <1>1. 1..1 = {1} /\ 1..2 = {1, 2}
    BY SMT
  <1>2. IsFiniteSet({1}) /\ Cardinality({1}) = 1
    BY FS_Singleton
  <1>3. IsFiniteSet({1, 2}) /\ Cardinality({1, 2}) = 2
    <2>1. {1, 2} = {1} \cup {2} /\ 2 \notin {1}
      BY SMT
    <2>2. IsFiniteSet({1} \cup {2}) /\ Cardinality({1} \cup {2}) = 1 + 1
      BY <1>2, <2>1, FS_AddElement
    <2> QED BY <2>1, <2>2
  <1> QED BY <1>1, <1>2, <1>3 DEF Entries

\* A step that puts a call in the place of another changes that call only.
LEMMA Replaces ==
  ASSUME PublicationsTyped, NEW p \in Publishers, NEW r \in Publication,
         publication' = [publication EXCEPT ![p] = r]
  PROVE  publication'[p] = r /\ Changes(p)
  BY DEF PublicationsTyped, Changes

\* What is known of a call is one of the records above.
LEMMA CallTyped ==
  ASSUME PublicationsTyped, NEW p \in Publishers
  PROVE  publication[p] \in Publication
  BY DEF PublicationsTyped

\* What With and Goes change of a call.
LEMMA WalkFields ==
  ASSUME PublicationsTyped, NEW p \in Publishers, NEW k \in Nat,
         NEW m \in Clients \cup {0, NilFunc}
  PROVE  /\ With(p, k, m) => Walks(p, k, m) /\ Changes(p)
         /\ Goes(p, k) => Walks(p, k, Uses(p)) /\ Changes(p)
  <1> DEFINE c == publication[p]
             r == [c EXCEPT !.at = k, !.client = m]
             s == [c EXCEPT !.at = k]
  <1>1. c \in Publication
    BY CallTyped
  <1>2. r \in Publication /\ s \in Publication
    BY <1>1 DEF Publication
  <1>3. ASSUME With(p, k, m)
        PROVE  Walks(p, k, m) /\ Changes(p)
    <2>1. publication' = [publication EXCEPT ![p] = r]
      BY <1>3 DEF PublicationsTyped, With
    <2>2. publication'[p] = r /\ Changes(p)
      BY <1>2, <2>1, Replaces
    <2> QED BY <1>1, <2>2 DEF Publication, Walks, Kept
  <1>4. ASSUME Goes(p, k)
        PROVE  Walks(p, k, Uses(p)) /\ Changes(p)
    <2>1. publication' = [publication EXCEPT ![p] = s]
      BY <1>4 DEF PublicationsTyped, Goes
    <2>2. publication'[p] = s /\ Changes(p)
      BY <1>2, <2>1, Replaces
    <2> QED BY <1>1, <2>2 DEF Publication, Walks, Kept, Uses
  <1> QED BY <1>3, <1>4

\* Goes leaves the client of the call alone.
LEMMA GoesFields ==
  ASSUME PublicationsTyped, NEW p \in Publishers, NEW k \in Nat, Goes(p, k)
  PROVE  Walks(p, k, Uses(p)) /\ Changes(p)
  <1>1. Uses(p) \in Clients \cup {0, NilFunc}
    BY CallTyped DEF Publication, Uses
  <1> QED BY <1>1, WalkFields

\* What CallEnds changes of a call.
LEMMA EndFields ==
  ASSUME PublicationsTyped, NEW p \in Publishers, NEW how \in Outcomes, CallEnds(p, how)
  PROVE  Over(p, how) /\ Changes(p) /\ mutex' = Unlocked(p)
  <1> DEFINE c == publication[p]
             over == IF how = "error" THEN Entries ELSE c.failed
             r == [c EXCEPT !.pc = how, !.failed = over]
  <1>1. c \in Publication /\ Entries \in SUBSET {1, 2}
    BY CallTyped, EntriesTyped
  <1> HIDE DEF Entries
  <1>2. over \in SUBSET {1, 2}
    BY <1>1 DEF Publication
  <1>3. r \in Publication
    BY <1>1, <1>2 DEF Publication
  <1>4. publication' = [publication EXCEPT ![p] = r]
    BY DEF PublicationsTyped, CallEnds
  <1>5. publication'[p] = r /\ Changes(p)
    BY <1>3, <1>4, Replaces
  <1>6. mutex' = Unlocked(p)
    BY DEF CallEnds
  <1> QED BY <1>1, <1>5, <1>6 DEF Publication, Over, Kept

\* A call whose step has failed is a call.
LEMMA FaultForms ==
  ASSUME NEW c \in Publication, NEW n \in Nat, NEW k \in Nat, NEW e \in SUBSET {1, 2}
  PROVE  /\ [c EXCEPT !.tries = n, !.hit = TRUE, !.at = k] \in Publication
         /\ [c EXCEPT !.tries = n, !.hit = TRUE, !.pc = "error", !.failed = e] \in Publication
  <1>1. [c EXCEPT !.tries = n, !.hit = TRUE, !.at = k] \in Publication
    BY DEF Publication
  <1>2. "error" \in Outcomes
    BY DEF Outcomes
  <1>3. [c EXCEPT !.tries = n, !.hit = TRUE, !.pc = "error", !.failed = e] \in Publication
    BY <1>2 DEF Publication
  <1> QED BY <1>1, <1>3

\* What EndsByFault changes of a call.
LEMMA FaultFields ==
  ASSUME PublicationsTyped, NEW p \in Publishers, EndsByFault(p), Again(p) => Position("lookup") \in Nat
  PROVE  Faults(p) /\ Changes(p) /\ mutex' = Unlocked(p)
  <1> DEFINE c == publication[p]
             again == [c EXCEPT !.tries = @ + 1, !.hit = TRUE, !.at = Position("lookup")]
             over == [c EXCEPT !.tries = @ + 1, !.hit = TRUE, !.pc = "error", !.failed = Entries]
  <1>1. c \in Publication /\ Entries \in SUBSET {1, 2}
    BY CallTyped, EntriesTyped
  <1> HIDE DEF Position, Entries
  <1>7. c.tries + 1 \in Nat
    BY <1>1 DEF Publication
  <1>2. Again(p) => again \in Publication
    BY <1>1, <1>7, FaultForms
  <1>5. over \in Publication
    BY <1>1, <1>7, FaultForms
  <1>6. mutex' = Unlocked(p)
    BY DEF EndsByFault
  <1>3. CASE Again(p)
    <2>1. publication' = [publication EXCEPT ![p] = again]
      BY <1>1, <1>3 DEF EndsByFault, Again, Publication
    <2>2. publication'[p] = again /\ Changes(p)
      BY <1>2, <1>3, <2>1, Replaces
    <2> QED BY <1>1, <1>3, <1>6, <2>2 DEF Publication, Faults, Kept
  <1>4. CASE ~Again(p)
    <2>1. publication' = [publication EXCEPT ![p] = over]
      BY <1>1, <1>4 DEF EndsByFault, Again, Publication
    <2>2. publication'[p] = over /\ Changes(p)
      BY <1>5, <2>1, Replaces
    <2> QED BY <1>1, <1>4, <1>6, <2>2 DEF Publication, Faults, Kept
  <1> QED BY <1>3, <1>4

\* A call that is running is at a step of its program, the others are not.
LEMMA StepFacts ==
  ASSUME PublicationsTyped, Shape, NEW p \in Publishers, PlaceInv(p)
  PROVE  /\ publication[p].pc = "running" =>
              /\ publication[p].at \in 1..Len(Steps) /\ publication[p].at \in Nat
              /\ Steps[publication[p].at] = StepAt(p) /\ StepAt(p) \in StepNames
         /\ publication[p].pc # "running" => StepAt(p) = publication[p].pc /\ StepAt(p) \notin StepNames
  <1> HIDE DEF Steps
  <1>1. publication[p].pc \in Outcomes /\ publication[p].at \in Nat
    BY CallTyped DEF Publication
  <1>2. CASE publication[p].pc = "running"
    BY <1>1, <1>2 DEF PlaceInv, Shape, HasSteps, StepAt
  <1>3. CASE publication[p].pc # "running"
    BY <1>1, <1>3 DEF StepAt, Outcomes, StepNames
  <1> QED BY <1>2, <1>3

\* A call is at a step of its program exactly when it is running.
LEMMA RunsAt ==
  ASSUME PublicationsTyped, Shape, NEW p \in Publishers, PlaceInv(p), StepAt(p) \in StepNames
  PROVE  /\ publication[p].pc = "running"
         /\ publication[p].at \in 1..Len(Steps) /\ publication[p].at \in Nat
         /\ Steps[publication[p].at] = StepAt(p)
  BY StepFacts

\* A send comes after the store, and GetSender of Service Bus begins at the lookup.
LEMMA Positions ==
  ASSUME Shape
  PROVE  /\ sender \in Keepers =>
              AfterStore \in 1..Len(Steps) /\ AfterStore \in Nat /\ Steps[AfterStore] = "send"
         /\ sender \in {"serviceBus", "serviceBusBinding"} =>
              /\ Position("lookup") \in 1..Len(Steps) /\ Position("lookup") \in Nat
              /\ Steps[Position("lookup")] = "lookup"
  <1> HIDE DEF Steps
  <1>1. ASSUME sender \in Keepers
        PROVE  AfterStore \in 1..Len(Steps) /\ AfterStore \in Nat /\ Steps[AfterStore] = "send"
    <2>1. \E k \in 1..Len(Steps) : Steps[k] = "store"
      BY <1>1 DEF Shape, HasSteps
    <2>2. Position("store") \in 1..Len(Steps) /\ Steps[Position("store")] = "store"
      BY <2>1, Zenon DEF Position
    <2>3. Follow(Position("store"), {"send"})
      BY <2>2 DEF Shape, MakesInOrder
    <2> HIDE DEF Position
    <2> QED BY <2>2, <2>3 DEF Follow, AfterStore
  <1>2. ASSUME sender \in {"serviceBus", "serviceBusBinding"}
        PROVE  /\ Position("lookup") \in 1..Len(Steps) /\ Position("lookup") \in Nat
               /\ Steps[Position("lookup")] = "lookup"
    <2>1. \E k \in 1..Len(Steps) : Steps[k] = "lookup"
      BY <1>2 DEF Shape, HasSteps
    <2>2. Position("lookup") \in 1..Len(Steps) /\ Steps[Position("lookup")] = "lookup"
      BY <2>1, Zenon DEF Position
    <2> QED BY <2>2
  <1> QED BY <1>1, <1>2

\* Where a call under way comes to.
LEMMA Arrives ==
  ASSUME NEW p \in Publishers, publication[p].pc = "running", NEW k, NEW m, Walks(p, k, m),
         sender' = sender
  PROVE  StepAt(p)' = Steps[k]
  BY DEF StepAt, Steps, Walks

-----------------------------------------------------------------------------
(* Publications: what the steps before the send do to their call.          *)

\* The look at closed ends the call or lets it go on.
LEMMA CheckClosedMoves ==
  ASSUME PublicationsTyped, Shape, NEW p \in Publishers, PlaceInv(p), CheckClosed(p)
  PROVE  /\ Changes(p)
         /\ shut => Over(p, "error") /\ mutex' = Unlocked(p)
         /\ ~shut => Walks(p, Pc(p) + 1, Uses(p)) /\ mutex' = mutex
  <1>1. publication[p].pc = "running" /\ Pc(p) \in Nat
    BY RunsAt DEF CheckClosed, StepNames, Pc
  <1>2. CASE shut
    <2>1. CallEnds(p, "error")
      BY <1>2 DEF CheckClosed
    <2> QED BY <1>2, <2>1, EndFields DEF Outcomes
  <1>3. CASE ~shut
    <2>1. Goes(p, Pc(p) + 1) /\ mutex' = mutex
      BY <1>3 DEF CheckClosed, GoesOn, Pc
    <2> QED BY <1>1, <1>3, <2>1, GoesFields
  <1> QED BY <1>2, <1>3

\* Publish of Kafka and Invoke of the RabbitMQ binding read their client.
LEMMA ReadClientMoves ==
  ASSUME PublicationsTyped, Shape, NEW p \in Publishers, PlaceInv(p), ReadClient(p)
  PROVE  /\ Changes(p)
         /\ cache = 0 => Over(p, "error") /\ mutex' = Unlocked(p)
         /\ cache # 0 => Walks(p, Pc(p) + 1, cache) /\ mutex' = mutex
  <1>1. publication[p].pc = "running" /\ Pc(p) \in Nat /\ cache \in Clients \cup {0, NilFunc}
    BY RunsAt DEF ReadClient, StepNames, Pc, PublicationsTyped
  <1>2. CASE cache = 0
    <2>1. CallEnds(p, "error")
      BY <1>2 DEF ReadClient
    <2> QED BY <1>2, <2>1, EndFields DEF Outcomes
  <1>3. CASE cache # 0
    <2>1. With(p, Pc(p) + 1, cache) /\ mutex' = mutex
      BY <1>3 DEF ReadClient, Pc
    <2> QED BY <1>1, <1>3, <2>1, WalkFields
  <1> QED BY <1>2, <1>3

\* Lookup and Lock find the client, or they do not.
LEMMA LookupMoves ==
  ASSUME PublicationsTyped, Shape, NEW p \in Publishers, PlaceInv(p), Lookup(p) \/ Lock(p)
  PROVE  /\ Changes(p) /\ sender \in Keepers
         /\ cache # 0 => Walks(p, AfterStore, cache) /\ mutex' = mutex
         /\ cache = 0 => /\ Walks(p, Pc(p) + 1, Uses(p))
                         /\ mutex' = IF StepAt(p) = "lock" THEN p ELSE mutex
  <1> HIDE DEF AfterStore, Steps
  <1>1. /\ publication[p].pc = "running" /\ Pc(p) \in Nat /\ cache \in Clients \cup {0, NilFunc}
        /\ Pc(p) \in 1..Len(Steps) /\ Steps[Pc(p)] \in {"lookup", "lock"} /\ Steps[Pc(p)] = StepAt(p)
    BY RunsAt DEF Lookup, Lock, StepNames, Pc, PublicationsTyped
  <1>2. sender \in Keepers
    BY <1>1 DEF Shape, ReadsInOrder, Locked, Keepers, OnDemand, EventHubs, ServiceBuses
  <1>3. CASE cache # 0
    <2>1. With(p, AfterStore, cache) /\ mutex' = mutex
      BY <1>3 DEF Lookup, Lock
    <2> QED BY <1>1, <1>2, <1>3, <2>1, WalkFields, Positions
  <1>4. CASE cache = 0
    <2>1. Goes(p, Pc(p) + 1)
      BY <1>4 DEF Lookup, Lock, GoesOn, Pc
    <2>2. mutex' = IF StepAt(p) = "lock" THEN p ELSE mutex
      BY <1>4 DEF Lookup, Lock
    <2> QED BY <1>1, <1>2, <1>4, <2>1, <2>2, GoesFields
  <1> QED BY <1>3, <1>4

\* init of KubeMQ and Publish of Solace take the lock.
LEMMA InitLockMoves ==
  ASSUME PublicationsTyped, Shape, NEW p \in Publishers, PlaceInv(p), InitLock(p)
  PROVE  Changes(p) /\ Walks(p, Pc(p) + 1, Uses(p)) /\ mutex' = p
  <1>1. publication[p].pc = "running" /\ Pc(p) \in Nat
    BY RunsAt DEF InitLock, StepNames, Pc
  <1>2. Goes(p, Pc(p) + 1) /\ mutex' = p
    BY DEF InitLock, GoesOn, Pc
  <1> QED BY <1>1, <1>2, GoesFields

\* A request moves the call on, past the creation of a topic that is there.
LEMMA AskMoves ==
  ASSUME PublicationsTyped, Shape, NEW p \in Publishers, PlaceInv(p), Ask(p)
  PROVE  /\ Changes(p) /\ mutex' = mutex
         /\ \/ Walks(p, Pc(p) + 1, Uses(p))
            \/ StepAt(p) = "ensure" /\ topicThere /\ Walks(p, Pc(p) + 2, Uses(p))
  <1>1. publication[p].pc = "running" /\ Pc(p) \in Nat
    BY RunsAt DEF Ask, StepNames, Pc
  <1>2. CASE StepAt(p) = "ensure" /\ topicThere
    <2>1. Goes(p, Pc(p) + 2) /\ mutex' = mutex
      BY <1>2 DEF Ask, Pc
    <2> QED BY <1>1, <1>2, <2>1, GoesFields
  <1>3. CASE ~(StepAt(p) = "ensure" /\ topicThere)
    <2>1. Goes(p, Pc(p) + 1) /\ mutex' = mutex
      BY <1>3 DEF Ask, Pc
    <2> QED BY <1>1, <1>3, <2>1, GoesFields
  <1> QED BY <1>2, <1>3

\* A step before the send that fails ends the call or begins it again.
LEMMA FaultMoves ==
  ASSUME PublicationsTyped, Shape, NEW p \in Publishers, EndsByFault(p)
  PROVE  Faults(p) /\ Changes(p) /\ mutex' = Unlocked(p)
  <1>1. Again(p) => Position("lookup") \in Nat
    BY Positions DEF Again
  <1> QED BY <1>1, FaultFields

\* Service Bus begins again when the topic is there by now.
LEMMA CreateMoves ==
  ASSUME PublicationsTyped, Shape, NEW p \in Publishers, PlaceInv(p), Create(p)
  PROVE  /\ Changes(p)
         /\ \/ Faults(p) /\ mutex' = Unlocked(p)
            \/ Walks(p, Pc(p) + 1, Uses(p)) /\ mutex' = mutex
  <1>1. publication[p].pc = "running" /\ Pc(p) \in Nat
    BY RunsAt DEF Create, StepNames, Pc
  <1>2. CASE topicThere /\ sender \in MindsExisting
    BY <1>2, FaultMoves DEF Create
  <1>3. CASE ~(topicThere /\ sender \in MindsExisting)
    <2>1. Goes(p, Pc(p) + 1) /\ mutex' = mutex
      BY <1>3 DEF Create, GoesOn, Pc
    <2> QED BY <1>1, <1>3, <2>1, GoesFields
  <1> QED BY <1>2, <1>3

\* Publish of snssqs goes on without a topic ARN.
Jumps(p) ==
  LET c == publication[p]
      d == publication'[p]
  IN  /\ sender = "snssqs" /\ d.pc = c.pc /\ d.at = AfterStore /\ d.client = c.client
      /\ d.tries = c.tries /\ d.failed = c.failed /\ d.hit /\ Kept(p)

\* A request that fails ends the call, begins it again, or is passed over by snssqs.
LEMMA RequestFailsMoves ==
  ASSUME PublicationsTyped, Shape, NEW p \in Publishers, PlaceInv(p), RequestFails(p)
  PROVE  /\ Changes(p) /\ sendFaults' = sendFaults + 1
         /\ \/ Jumps(p) /\ mutex' = mutex
            \/ sender # "snssqs" /\ Faults(p) /\ mutex' = Unlocked(p)
  <1> HIDE DEF AfterStore
  <1>1. sendFaults' = sendFaults + 1
    BY DEF RequestFails, SendFault
  <1>2. CASE sender # "snssqs"
    <2>1. EndsByFault(p)
      BY <1>2 DEF RequestFails
    <2> QED BY <1>1, <1>2, <2>1, FaultMoves
  <1>3. CASE sender = "snssqs"
    <2> DEFINE c == publication[p]
               r == [c EXCEPT !.at = AfterStore, !.hit = TRUE]
    <2>1. c \in Publication /\ AfterStore \in Nat
      BY <1>3, CallTyped, Positions DEF Keepers, Remembers
    <2>2. r \in Publication
      BY <2>1 DEF Publication
    <2>3. publication' = [publication EXCEPT ![p] = r] /\ mutex' = mutex
      BY <1>3 DEF RequestFails, PublicationsTyped
    <2>4. publication'[p] = r /\ Changes(p)
      BY <2>2, <2>3, Replaces
    <2>5. Jumps(p)
      BY <1>3, <2>1, <2>4 DEF Publication, Jumps, Kept
    <2> QED BY <1>1, <1>3, <2>3, <2>4, <2>5
  <1> QED BY <1>2, <1>3

\* A set of numbers that is not empty has a least one.
LEMMA LeastClient ==
  ASSUME NEW T \in SUBSET Nat, T # {}
  PROVE  \E n \in T : \A k \in T : n <= k
  <1>1. PICK n \in T : \A k \in T : ~ (<<k, n>> \in OpToRel(<, Nat))
    BY WFMin, NatLessThanWellFounded, Zenon
  <1>2. \A k \in T : ~ (k < n)
    BY <1>1 DEF OpToRel
  <1>3. ASSUME NEW k \in T PROVE n <= k
    <2>1. n \in Nat /\ k \in Nat /\ ~ (k < n)
      BY <1>2
    <2> QED BY <2>1
  <1> QED BY <1>3

\* There is a first client that has not been made, when there is one at all.
LEMMA NewClientIsNew ==
  ASSUME PublicationsTyped, \E k \in Clients : connection[k] = "none"
  PROVE  NewClient \in Clients /\ NewClient \in Nat \ {0} /\ connection[NewClient] = "none"
  <1> DEFINE T == {k \in Clients : connection[k] = "none"}
             N(k) == connection[k] = "none" /\ \A l \in 1..k-1 : connection[l] # "none"
  <1>1. Clients \subseteq Nat \ {0}
    BY PublicationsAssumption DEF Clients
  <1>2. PICK n \in T : \A k \in T : n <= k
    <2>1. T \in SUBSET Nat /\ T # {}
      BY <1>1
    <2> QED BY <2>1, LeastClient, Zenon
  <1>3. N(n)
    <2>1. ASSUME NEW l \in 1..n-1, connection[l] = "none" PROVE FALSE
      <3>1. n \in Nat /\ n <= MaxClients /\ l \in Clients /\ l < n
        BY <1>1, <1>2, PublicationsAssumption DEF Clients
      <3>2. l \in T
        BY <2>1, <3>1
      <3> QED BY <1>2, <3>1, <3>2
    <2> QED BY <1>2, <2>1
  <1>4. NewClient \in 1..MaxClients /\ N(NewClient)
    BY <1>2, <1>3, Zenon DEF NewClient, Clients
  <1> QED BY <1>1, <1>4 DEF Clients

\* A call makes its client, or it is refused because of Close or a broken session.
LEMMA ConnectMoves ==
  ASSUME PublicationsTyped, Shape, NEW p \in Publishers, PlaceInv(p), Connect(p)
  PROVE  /\ Changes(p)
         /\ \/ /\ Over(p, "panicked") /\ sender \in ServiceBuses /\ shut
               /\ mutex' = Unlocked(p) /\ connection' = connection
            \/ /\ Over(p, "error") /\ sender \in {"pulsar", "solace"} /\ shut
               /\ mutex' = Unlocked(p) /\ connection' = connection
            \/ /\ Faults(p) /\ sender = "solace"
               /\ mutex' = Unlocked(p) /\ connection' = connection
            \/ /\ Walks(p, Pc(p) + 1, NewClient) /\ ~(sender \in ServiceBuses /\ shut)
               /\ ~(sender \in {"pulsar", "solace"} /\ shut)
               /\ mutex' = mutex
               /\ NewClient \in Clients /\ NewClient \in Nat \ {0} /\ connection[NewClient] = "none"
               /\ connection' = [connection EXCEPT ![NewClient] = "up"]
  <1> HIDE DEF NewClient
  <1>1. publication[p].pc = "running" /\ Pc(p) \in Nat
    BY RunsAt DEF Connect, StepNames, Pc
  <1>2. NewClient \in Clients /\ NewClient \in Nat \ {0} /\ connection[NewClient] = "none"
    BY NewClientIsNew DEF Connect, Clients
  <1>3. CASE sender \in ServiceBuses /\ shut
    <2>1. CallEnds(p, "panicked") /\ connection' = connection
      BY <1>3 DEF Connect, ServiceBuses
    <2> QED BY <1>3, <2>1, EndFields DEF Outcomes
  <1>4. CASE sender \in {"pulsar", "solace"} /\ shut
    <2>1. CallEnds(p, "error") /\ connection' = connection
      BY <1>4 DEF Connect, ServiceBuses
    <2> QED BY <1>4, <2>1, EndFields DEF Outcomes
  <1>5. CASE sender = "solace" /\ connection[1] = "broken" /\ ~shut
    <2>1. EndsByFault(p) /\ connection' = connection
      BY <1>5 DEF Connect, ServiceBuses
    <2> QED BY <1>5, <2>1, FaultMoves
  <1>6. CASE ~(\/ sender \in ServiceBuses /\ shut
               \/ sender \in {"pulsar", "solace"} /\ shut
               \/ sender = "solace" /\ connection[1] = "broken" /\ ~shut)
    <2>1. /\ connection' = [connection EXCEPT ![NewClient] = "up"]
          /\ With(p, Pc(p) + 1, NewClient) /\ mutex' = mutex
      BY <1>6 DEF Connect, ServiceBuses, Pc
    <2> QED BY <1>1, <1>2, <1>6, <2>1, WalkFields
  <1> QED BY <1>3, <1>4, <1>5, <1>6

\* init of KubeMQ gets its stream, or it fails and leaves what publishFunc was.
LEMMA StreamMoves ==
  ASSUME PublicationsTyped, Shape, NEW p \in Publishers, PlaceInv(p), Stream(p)
  PROVE  /\ Changes(p)
         /\ \/ Walks(p, Pc(p) + 1, Uses(p)) /\ cache' = cache /\ mutex' = mutex /\ sendFaults' = sendFaults
            \/ /\ Faults(p) /\ mutex' = Unlocked(p) /\ sendFaults' = sendFaults + 1
               /\ cache' = IF cache = 0 THEN 0 ELSE NilFunc
  <1>1. publication[p].pc = "running" /\ Pc(p) \in Nat
    BY RunsAt DEF Stream, StepNames, Pc
  <1>2. CASE GoesOn(p) /\ UNCHANGED <<cache, mutex, sendFaults>>
    <2>1. Goes(p, Pc(p) + 1)
      BY <1>2 DEF GoesOn, Pc
    <2> QED BY <1>1, <1>2, <2>1, GoesFields
  <1>3. CASE SendFault /\ cache' = (IF cache = 0 THEN 0 ELSE NilFunc) /\ EndsByFault(p)
    BY <1>3, FaultMoves DEF SendFault
  <1> QED BY <1>2, <1>3 DEF Stream

\* A call stores its client and gives the lock back.
LEMMA StoreMoves ==
  ASSUME PublicationsTyped, Shape, NEW p \in Publishers, PlaceInv(p), Store(p)
  PROVE  /\ Changes(p) /\ sender \in Keepers
         /\ Walks(p, AfterStore, cache') /\ mutex' = Unlocked(p)
         /\ cache' = IF sender \in Remembers THEN 1 ELSE Uses(p)
         /\ cache' \in Clients \cup {0, NilFunc}
  <1> HIDE DEF AfterStore, Steps
  <1>1. /\ publication[p].pc = "running" /\ Pc(p) \in Nat
        /\ Pc(p) \in 1..Len(Steps) /\ Steps[Pc(p)] = "store"
    BY RunsAt DEF Store, StepNames, Pc
  <1>2. sender \in Keepers
    BY <1>1 DEF Shape, MakesInOrder
  <1>3. AfterStore \in Nat
    BY <1>2, Positions
  <1>4. Uses(p) \in Clients \cup {0, NilFunc} /\ 1 \in Clients
    BY CallTyped, PublicationsAssumption DEF Publication, Uses, Clients
  <1>5. cache' = IF sender \in Remembers THEN 1 ELSE Uses(p)
    BY DEF Store, Uses
  <1>6. cache' \in Clients \cup {0, NilFunc}
    BY <1>4, <1>5
  <1>7. With(p, AfterStore, cache') /\ mutex' = Unlocked(p)
    BY DEF Store
  <1> QED BY <1>2, <1>3, <1>5, <1>6, <1>7, WalkFields

-----------------------------------------------------------------------------
(* Publications: what the send and what comes after it do to the call.     *)

\* The rest of a call, besides its place, its tries and what it has sent.
Rest(c, d) ==
  d.client = c.client /\ d.dropped = c.dropped /\ d.streamed = c.streamed /\ d.late = c.late

Delivers(p) ==
  LET c == publication[p]
      d == publication'[p]
  IN  /\ Rest(c, d) /\ d.failed = c.failed /\ d.bad = c.bad /\ d.hit = c.hit
      /\ d.confirmed = c.confirmed + 1
      /\ IF sender = "solace" /\ c.tries > 0
           THEN /\ d.tries = c.tries + 1 /\ d.at = c.at
                /\ d.pc = IF c.tries + 1 < MaxAttempts THEN c.pc ELSE "ok"
           ELSE /\ d.tries = c.tries
                /\ IF c.at < Len(Steps) THEN d.at = c.at + 1 /\ d.pc = c.pc
                   ELSE d.at = c.at /\ d.pc = "ok"

Resends == {"serviceBus", "serviceBusBinding", "mqtt3Binding", "solace"}

\* The send of call c has failed, which goes on as d.
FailsAs(p, d) ==
  LET c == publication[p]
  IN  /\ Rest(c, d) /\ d.confirmed = c.confirmed /\ d.tries = c.tries + 1
      /\ d.bad \in {c.bad, ClientOf(p)}
      /\ sender \in Droppers /\ d.bad # c.bad => d.pc = "drop"
      /\ \/ d.pc = "drop" /\ sender \in Droppers /\ d.at = c.at /\ d.failed = c.failed
         \/ /\ d.pc = c.pc /\ sender \in Resends /\ c.tries + 1 < MaxAttempts
            /\ d.failed = c.failed
            /\ d.at = IF sender \in {"serviceBus", "serviceBusBinding"} THEN Position("lookup") ELSE c.at
         \/ d.pc = "error" /\ sender # "rocketMQ" /\ d.at = c.at /\ d.failed = Entries

\* A call that has sent is a call.
LEMMA SendForms ==
  ASSUME NEW c \in Publication, NEW n \in Nat, NEW m \in Nat
  PROVE  /\ [c EXCEPT !.confirmed = n, !.at = m] \in Publication
         /\ [c EXCEPT !.confirmed = n, !.pc = "ok"] \in Publication
         /\ [c EXCEPT !.tries = m, !.confirmed = n] \in Publication
         /\ [c EXCEPT !.tries = m, !.confirmed = n, !.pc = "ok"] \in Publication
  <1>1. "ok" \in Outcomes
    BY DEF Outcomes
  <1>2. /\ [c EXCEPT !.confirmed = n, !.at = m] \in Publication
        /\ [c EXCEPT !.tries = m, !.confirmed = n] \in Publication
    BY DEF Publication
  <1>3. [c EXCEPT !.confirmed = n, !.pc = "ok"] \in Publication
    BY <1>1 DEF Publication
  <1>4. [c EXCEPT !.tries = m, !.confirmed = n, !.pc = "ok"] \in Publication
    BY <1>1 DEF Publication
  <1> QED BY <1>2, <1>3, <1>4

\* A send that has worked moves the call on or ends it.
LEMMA SendMoves ==
  ASSUME PublicationsTyped, Shape, NEW p \in Publishers, PlaceInv(p), Send(p)
  PROVE  Changes(p) /\ Delivers(p)
  <1> HIDE DEF Steps
  <1> DEFINE c == publication[p]
             r1 == [c EXCEPT !.tries = c.tries + 1, !.confirmed = c.confirmed + 1]
             r2 == [c EXCEPT !.tries = c.tries + 1, !.confirmed = c.confirmed + 1, !.pc = "ok"]
             r3 == [c EXCEPT !.confirmed = c.confirmed + 1, !.at = c.at + 1]
             r4 == [c EXCEPT !.confirmed = c.confirmed + 1, !.pc = "ok"]
  <1>1. c \in Publication
    BY CallTyped
  <1>2. c.tries + 1 \in Nat /\ c.confirmed + 1 \in Nat /\ c.at + 1 \in Nat
    BY <1>1 DEF Publication
  <1>3. r1 \in Publication /\ r2 \in Publication /\ r3 \in Publication /\ r4 \in Publication
    BY <1>1, <1>2, SendForms
  <1>4. publication' = [publication EXCEPT ![p] = Sends(p)]
    BY DEF Send
  <1>5. CASE sender = "solace" /\ c.tries > 0 /\ c.tries + 1 < MaxAttempts
    <2>1. Sends(p) = r1
      BY <1>1, <1>5 DEF Sends, Publication
    <2>2. publication'[p] = r1 /\ Changes(p)
      BY <1>3, <1>4, <2>1, Replaces
    <2> QED BY <1>1, <1>5, <2>2 DEF Publication, Delivers, Rest
  <1>6. CASE sender = "solace" /\ c.tries > 0 /\ ~(c.tries + 1 < MaxAttempts)
    <2>1. Sends(p) = r2
      BY <1>1, <1>6 DEF Sends, Publication
    <2>2. publication'[p] = r2 /\ Changes(p)
      BY <1>3, <1>4, <2>1, Replaces
    <2> QED BY <1>1, <1>6, <2>2 DEF Publication, Delivers, Rest
  <1>7. CASE ~(sender = "solace" /\ c.tries > 0) /\ c.at < Len(Steps)
    <2>1. Sends(p) = r3
      BY <1>1, <1>7 DEF Sends, AfterSend, Publication
    <2>2. publication'[p] = r3 /\ Changes(p)
      BY <1>3, <1>4, <2>1, Replaces
    <2> QED BY <1>1, <1>7, <2>2 DEF Publication, Delivers, Rest
  <1>8. CASE ~(sender = "solace" /\ c.tries > 0) /\ ~(c.at < Len(Steps))
    <2>1. Sends(p) = r4
      BY <1>1, <1>8 DEF Sends, AfterSend, Publication
    <2>2. publication'[p] = r4 /\ Changes(p)
      BY <1>3, <1>4, <2>1, Replaces
    <2> QED BY <1>1, <1>8, <2>2 DEF Publication, Delivers, Rest
  <1> QED BY <1>5, <1>6, <1>7, <1>8

\* A call whose send has failed is a call.
LEMMA FailureForms ==
  ASSUME NEW c \in Publication, NEW n \in Nat, NEW b \in Clients \cup {0}, NEW k \in Nat,
         NEW e \in SUBSET {1, 2}, NEW h \in BOOLEAN
  PROVE  /\ [c EXCEPT !.tries = n, !.bad = b] \in Publication
         /\ [c EXCEPT !.tries = n, !.bad = b, !.pc = "drop"] \in Publication
         /\ [c EXCEPT !.tries = n, !.bad = b, !.at = k] \in Publication
         /\ [c EXCEPT !.tries = n, !.bad = b, !.pc = "error", !.failed = e] \in Publication
         /\ [c EXCEPT !.hit = h] \in Publication
  <1>1. "drop" \in Outcomes /\ "error" \in Outcomes
    BY DEF Outcomes
  <1>2. /\ [c EXCEPT !.tries = n, !.bad = b] \in Publication
        /\ [c EXCEPT !.tries = n, !.bad = b, !.at = k] \in Publication
    BY DEF Publication
  <1>3. [c EXCEPT !.tries = n, !.bad = b, !.pc = "drop"] \in Publication
    BY <1>1 DEF Publication
  <1>4. [c EXCEPT !.tries = n, !.bad = b, !.pc = "error", !.failed = e] \in Publication
    BY <1>1 DEF Publication
  <1>5. [c EXCEPT !.hit = h] \in Publication
    BY DEF Publication
  <1> QED BY <1>2, <1>3, <1>4, <1>5

\* What AfterFailure makes of a call.
LEMMA FailureFields ==
  ASSUME PublicationsTyped, Shape, NEW p \in Publishers, ClientOf(p) \in Clients,
         NEW kind \in {"network", "retriable", "other"}
  PROVE  /\ AfterFailure(p, kind) \in Publication
         /\ FailsAs(p, AfterFailure(p, kind)) /\ AfterFailure(p, kind).hit = publication[p].hit
  <1> HIDE DEF Entries, ClientOf, Position
  <1> DEFINE c == publication[p]
             n == c.tries + 1
             b == IF kind = "network" THEN ClientOf(p) ELSE c.bad
             r1 == [c EXCEPT !.tries = n, !.bad = b, !.pc = "drop"]
             r2 == [c EXCEPT !.tries = n, !.bad = b, !.at = Position("lookup")]
             r3 == [c EXCEPT !.tries = n, !.bad = b]
             r4 == [c EXCEPT !.tries = n, !.bad = b, !.pc = "error", !.failed = Entries]
  <1>1. c \in Publication /\ Entries \in SUBSET {1, 2}
    BY CallTyped, EntriesTyped
  <1>2. n \in Nat /\ b \in Clients \cup {0} /\ c.bad \in Clients \cup {0} /\ c.at \in Nat
    BY <1>1 DEF Publication
  <1>4. b \in {c.bad, ClientOf(p)} /\ (kind # "network" => b = c.bad) /\ n = c.tries + 1
    OBVIOUS
  <1> HIDE DEF n, b
  <1>3. r1 \in Publication /\ r3 \in Publication /\ r4 \in Publication
    <2> HIDE DEF c
    <2> QED BY <1>1, <1>2, FailureForms
  <1> DEFINE call == [c EXCEPT !.tries = n, !.bad = b]
             over == [call EXCEPT !.pc = "error", !.failed = Entries]
  <1>5. over = r4 /\ [call EXCEPT !.pc = "drop"] = r1 /\ [call EXCEPT !.at = Position("lookup")] = r2
    BY <1>1 DEF Publication
  <1>6. CASE \/ sender = "rocketMQ"
             \/ sender \in {"serviceBus", "serviceBusBinding"} /\ kind = "network"
    <2>1. AfterFailure(p, kind) = [call EXCEPT !.pc = "drop"]
      BY <1>6 DEF AfterFailure, n, b
    <2>2. AfterFailure(p, kind) = r1
      BY <1>5, <2>1
    <2>6. LET x == AfterFailure(p, kind) IN
          /\ Rest(c, x) /\ x.confirmed = c.confirmed /\ x.tries = n /\ x.bad = b /\ x.hit = c.hit
          /\ x.pc = "drop" /\ x.at = c.at /\ x.failed = c.failed
      BY <1>1, <2>2 DEF Publication, Rest
    <2> HIDE DEF c
    <2> QED BY <1>3, <1>4, <1>6, <2>2, <2>6 DEF FailsAs, Droppers, c
  <1>7. CASE /\ sender \in {"serviceBus", "serviceBusBinding"} /\ kind = "retriable"
             /\ n < MaxAttempts
    <2>1. AfterFailure(p, kind) = [call EXCEPT !.at = Position("lookup")]
      BY <1>7 DEF AfterFailure, n, b
    <2>2. AfterFailure(p, kind) = r2
      BY <1>5, <2>1
    <2>3. b = c.bad
      BY <1>4, <1>7
    <2>4. Position("lookup") \in Nat
      BY <1>7, Positions
    <2>5. r2 \in Publication
      <3> HIDE DEF c
      <3> QED BY <1>1, <1>2, <2>4, FailureForms
    <2>6. LET x == AfterFailure(p, kind) IN
          /\ Rest(c, x) /\ x.confirmed = c.confirmed /\ x.tries = n /\ x.bad = b /\ x.hit = c.hit
          /\ x.pc = c.pc /\ x.at = Position("lookup") /\ x.failed = c.failed
      BY <1>1, <2>2 DEF Publication, Rest
    <2> HIDE DEF c
    <2> QED BY <1>4, <1>7, <2>2, <2>3, <2>5, <2>6 DEF FailsAs, Droppers, Resends, c
  <1>8. CASE sender \in {"mqtt3Binding", "solace"} /\ n < MaxAttempts
    <2>1. AfterFailure(p, kind) = r3
      BY <1>8 DEF AfterFailure, n, b
    <2>6. LET x == AfterFailure(p, kind) IN
          /\ Rest(c, x) /\ x.confirmed = c.confirmed /\ x.tries = n /\ x.bad = b /\ x.hit = c.hit
          /\ x.pc = c.pc /\ x.at = c.at /\ x.failed = c.failed
      BY <1>1, <2>1 DEF Publication, Rest
    <2> HIDE DEF c
    <2> QED BY <1>3, <1>4, <1>8, <2>1, <2>6 DEF FailsAs, Droppers, Resends, c
  <1>9. CASE ~(\/ sender = "rocketMQ"
               \/ sender \in {"serviceBus", "serviceBusBinding"} /\ kind = "network"
               \/ /\ sender \in {"serviceBus", "serviceBusBinding"} /\ kind = "retriable"
                  /\ n < MaxAttempts
               \/ sender \in {"mqtt3Binding", "solace"} /\ n < MaxAttempts)
    <2>1. AfterFailure(p, kind) = over
      <3>1. CASE sender \in {"serviceBus", "serviceBusBinding"} /\ kind = "retriable"
        BY <1>9, <3>1 DEF AfterFailure, n, b
      <3>2. CASE sender \in {"mqtt3Binding", "solace"}
        BY <1>9, <3>2 DEF AfterFailure, n, b
      <3>3. CASE ~(\/ sender \in {"serviceBus", "serviceBusBinding"} /\ kind = "retriable"
                   \/ sender \in {"mqtt3Binding", "solace"})
        BY <1>9, <3>3 DEF AfterFailure, n, b
      <3> QED BY <3>1, <3>2, <3>3
    <2>2. AfterFailure(p, kind) = r4
      BY <1>5, <2>1
    <2>3. sender \in Droppers => b = c.bad
      BY <1>4, <1>9 DEF Droppers
    <2>6. LET x == AfterFailure(p, kind) IN
          /\ Rest(c, x) /\ x.confirmed = c.confirmed /\ x.tries = n /\ x.bad = b /\ x.hit = c.hit
          /\ x.pc = "error" /\ x.at = c.at /\ x.failed = Entries
      BY <1>1, <2>2 DEF Publication, Rest
    <2>4. sender # "rocketMQ" /\ AfterFailure(p, kind) \in Publication
      BY <1>3, <1>9, <2>2
    <2> HIDE DEF c
    <2> QED BY <1>4, <2>3, <2>4, <2>6 DEF FailsAs, Droppers, c
  <1> QED BY <1>6, <1>7, <1>8, <1>9

\* What Fails makes of a call.
LEMMA FailMoves ==
  ASSUME PublicationsTyped, Shape, NEW p \in Publishers, PlaceInv(p), ClientOf(p) \in Clients,
         NEW kind \in {"network", "retriable", "other"}, NEW h \in BOOLEAN,
         publication[p].hit => h, Fails(p, [AfterFailure(p, kind) EXCEPT !.hit = h])
  PROVE  /\ Changes(p) /\ FailsAs(p, publication'[p]) /\ publication'[p].hit = h
         /\ mutex' = IF publication'[p].pc = "error" THEN Unlocked(p) ELSE mutex
  <1> HIDE DEF AfterFailure, FailsAs
  <1> DEFINE r == AfterFailure(p, kind)
             s == [r EXCEPT !.hit = h]
  <1>1. r \in Publication /\ FailsAs(p, r)
    BY FailureFields
  <1> HIDE DEF r
  <1>2. s \in Publication
    BY <1>1, FailureForms, CallTyped DEF Publication
  <1>3. publication' = [publication EXCEPT ![p] = s]
        /\ mutex' = IF s.pc = "error" THEN Unlocked(p) ELSE mutex
    BY DEF Fails, r
  <1>4. publication'[p] = s /\ Changes(p)
    BY <1>2, <1>3, Replaces
  <1>5. FailsAs(p, s)
    BY <1>1 DEF FailsAs, Rest, Publication
  <1> QED BY <1>1, <1>3, <1>4, <1>5 DEF Publication

\* Whoever can send is at a send and has the number of a client.
LEMMA ClientOfCall ==
  ASSUME PublicationsTyped, NEW p \in Publishers, Live(p) \/ CanSend(p)
  PROVE  StepAt(p) = "send" /\ ClientOf(p) \in Clients /\ CanSend(p)
  BY DEF Live, CanSend, Clients

\* A send that fails may have stored its entries.
LEMMA SendFailsMoves ==
  ASSUME PublicationsTyped, Shape, NEW p \in Publishers, PlaceInv(p), SendFails(p)
  PROVE  /\ Changes(p) /\ FailsAs(p, publication'[p]) /\ publication'[p].hit
         /\ mutex' = IF publication'[p].pc = "error" THEN Unlocked(p) ELSE mutex
         /\ stored' \in {stored, Copies(p, Sent(p))}
  <1> HIDE DEF AfterFailure, FailsAs, Copies
  <1>1. PICK kind \in {"network", "retriable", "other"} :
          /\ Fails(p, [AfterFailure(p, kind) EXCEPT !.hit = TRUE])
          /\ stored' \in {stored} \cup (IF kind = "network" THEN {Copies(p, Sent(p))} ELSE {})
    BY DEF SendFails
  <1>2. ClientOf(p) \in Clients
    BY ClientOfCall DEF SendFails
  <1>3. /\ Changes(p) /\ FailsAs(p, publication'[p]) /\ publication'[p].hit = TRUE
        /\ mutex' = IF publication'[p].pc = "error" THEN Unlocked(p) ELSE mutex
    BY <1>1, <1>2, FailMoves
  <1> QED BY <1>1, <1>3

\* A send that is refused stores nothing; without a client it is a panic.
LEMMA SendRefusedMoves ==
  ASSUME PublicationsTyped, Shape, NEW p \in Publishers, PlaceInv(p), SendRefused(p)
  PROVE  /\ Changes(p)
         /\ ~CanSend(p) => Over(p, "panicked") /\ mutex' = Unlocked(p)
         /\ CanSend(p) =>
              /\ FailsAs(p, publication'[p])
              /\ publication'[p].hit = (publication[p].hit \/ connection[ClientOf(p)] = "broken")
              /\ mutex' = IF publication'[p].pc = "error" THEN Unlocked(p) ELSE mutex
  <1> HIDE DEF AfterFailure, FailsAs
  <1>1. CASE ~CanSend(p)
    <2>1. CallEnds(p, "panicked")
      BY <1>1 DEF SendRefused
    <2> QED BY <1>1, <2>1, EndFields DEF Outcomes
  <1>2. CASE CanSend(p)
    <2> DEFINE broken == connection[ClientOf(p)] = "broken"
               kind == IF broken THEN "network" ELSE "other"
               h == publication[p].hit \/ broken
    <2>1. Fails(p, [AfterFailure(p, kind) EXCEPT !.hit = @ \/ broken])
      BY <1>2 DEF SendRefused
    <2>2. ClientOf(p) \in Clients
      BY <1>2, ClientOfCall
    <2>3. kind \in {"network", "retriable", "other"} /\ h \in BOOLEAN
      OBVIOUS
    <2>4. AfterFailure(p, kind) \in Publication /\ AfterFailure(p, kind).hit = publication[p].hit
      BY <2>2, <2>3, FailureFields
    <2> HIDE DEF broken, kind
    <2>5. [AfterFailure(p, kind) EXCEPT !.hit = @ \/ broken] = [AfterFailure(p, kind) EXCEPT !.hit = h]
      BY <2>4
    <2>6. Fails(p, [AfterFailure(p, kind) EXCEPT !.hit = h])
      BY <2>1, <2>5
    <2> HIDE DEF h
    <2>7. /\ Changes(p) /\ FailsAs(p, publication'[p]) /\ publication'[p].hit = h
          /\ mutex' = IF publication'[p].pc = "error" THEN Unlocked(p) ELSE mutex
      BY <2>2, <2>3, <2>6, FailMoves DEF h
    <2> QED BY <1>2, <2>7 DEF h, broken
  <1> QED BY <1>1, <1>2

\* BulkPublish of Kafka stores all but some of the entries it reports.
LEMMA BulkSendFailsMoves ==
  ASSUME PublicationsTyped, NEW p \in Publishers, BulkSendFails(p)
  PROVE  /\ Changes(p) /\ StepAt(p) = "send"
         /\ LET c == publication[p]
                d == publication'[p]
            IN  /\ Rest(c, d) /\ d.bad = c.bad /\ d.confirmed = c.confirmed /\ d.at = c.at
                /\ d.pc = "error" /\ d.hit /\ d.tries = 1
                /\ \E lost \in SUBSET Entries :
                     lost \subseteq d.failed /\ stored' = Copies(p, Entries \ lost)
  <1> HIDE DEF Copies, Entries
  <1>1. PICK lost \in SUBSET Entries, blamed \in (SUBSET Entries) \ {{}} :
          /\ lost \subseteq blamed
          /\ stored' = Copies(p, Entries \ lost)
          /\ publication' = [publication EXCEPT ![p] =
               [@ EXCEPT !.pc = "error", !.failed = blamed, !.hit = TRUE, !.tries = 1]]
    BY DEF BulkSendFails
  <1> DEFINE c == publication[p]
             r == [c EXCEPT !.pc = "error", !.failed = blamed, !.hit = TRUE, !.tries = 1]
  <1>2. c \in Publication /\ blamed \in SUBSET {1, 2} /\ "error" \in Outcomes
    BY <1>1, CallTyped, EntriesTyped DEF Outcomes
  <1>3. r \in Publication
    BY <1>2 DEF Publication
  <1>4. publication' = [publication EXCEPT ![p] = r]
    BY <1>1
  <1>5. publication'[p] = r /\ Changes(p)
    BY <1>3, <1>4, Replaces
  <1>6. StepAt(p) = "send"
    BY ClientOfCall DEF BulkSendFails
  <1>7. LET d == publication'[p] IN
          /\ Rest(c, d) /\ d.bad = c.bad /\ d.confirmed = c.confirmed /\ d.at = c.at
          /\ d.pc = "error" /\ d.hit /\ d.tries = 1 /\ d.failed = blamed
    BY <1>2, <1>5 DEF Publication, Rest
  <1>8. \E l \in SUBSET Entries : l \subseteq publication'[p].failed /\ stored' = Copies(p, Entries \ l)
    BY <1>1, <1>7
  <1> QED BY <1>5, <1>6, <1>7, <1>8

\* CloseSender and resetProducer take what is in the cache.
LEMMA DropMoves ==
  ASSUME PublicationsTyped, NEW p \in Publishers, Drop(p)
  PROVE  /\ Changes(p)
         /\ LET c == publication[p]
                d == publication'[p]
            IN  /\ d.pc = "dropped" /\ d.dropped = cache
                /\ d.at = c.at /\ d.client = c.client /\ d.tries = c.tries
                /\ d.confirmed = c.confirmed /\ d.failed = c.failed /\ d.bad = c.bad
                /\ d.streamed = c.streamed /\ d.hit = c.hit /\ d.late = c.late
  <1> DEFINE c == publication[p]
             r == [c EXCEPT !.pc = "dropped", !.dropped = cache]
  <1>1. c \in Publication /\ cache \in Clients \cup {0, NilFunc} /\ "dropped" \in Outcomes
    BY CallTyped DEF PublicationsTyped, Outcomes
  <1>2. r \in Publication
    BY <1>1 DEF Publication
  <1>3. publication' = [publication EXCEPT ![p] = r]
    BY DEF Drop, PublicationsTyped
  <1>4. publication'[p] = r /\ Changes(p)
    BY <1>2, <1>3, Replaces
  <1> QED BY <1>1, <1>4 DEF Publication

\* The sender that was dropped is closed, and the call tries again or is over.
LEMMA DroppedMoves ==
  ASSUME PublicationsTyped, Shape, NEW p \in Publishers, PlaceInv(p), Dropped(p)
  PROVE  /\ Changes(p) /\ publication[p].pc = "dropped"
         /\ LET c == publication[p]
                d == publication'[p]
                again == sender # "rocketMQ" /\ c.tries < MaxAttempts
            IN  /\ d.dropped = 0 /\ d.client = c.client /\ d.tries = c.tries
                /\ d.confirmed = c.confirmed /\ d.bad = c.bad
                /\ d.streamed = c.streamed /\ d.hit = c.hit /\ d.late = c.late
                /\ again => d.pc = "running" /\ d.at = Position("lookup") /\ d.failed = c.failed
                /\ ~again => d.pc = "error" /\ d.at = c.at /\ d.failed = Entries
                /\ connection' = IF sender = "rocketMQ" \/ c.dropped = 0 THEN connection
                                 ELSE [connection EXCEPT ![c.dropped] = "closed"]
  <1> HIDE DEF Entries, Position
  <1> DEFINE c == publication[p]
             again == sender # "rocketMQ" /\ c.tries < MaxAttempts
             r == [c EXCEPT !.pc = "running", !.at = Position("lookup"), !.dropped = 0]
             s == [c EXCEPT !.pc = "error", !.dropped = 0, !.failed = Entries]
  <1>1. /\ c \in Publication /\ Entries \in SUBSET {1, 2}
        /\ "running" \in Outcomes /\ "error" \in Outcomes
    BY CallTyped, EntriesTyped DEF Outcomes
  <1>2. c.pc = "dropped"
    BY StepFacts DEF Dropped, StepNames
  <1>3. again => Position("lookup") \in Nat
    BY <1>2, Positions DEF PlaceInv, Droppers
  <1>4. connection' = IF sender = "rocketMQ" \/ c.dropped = 0 THEN connection
                      ELSE [connection EXCEPT ![c.dropped] = "closed"]
    BY DEF Dropped
  <1>5. CASE again
    <2>1. r \in Publication
      BY <1>1, <1>3, <1>5 DEF Publication
    <2>2. publication' = [publication EXCEPT ![p] = r]
      BY <1>5 DEF Dropped
    <2>3. publication'[p] = r /\ Changes(p)
      BY <2>1, <2>2, Replaces
    <2> QED BY <1>1, <1>2, <1>4, <1>5, <2>3 DEF Publication
  <1>6. CASE ~again
    <2>1. s \in Publication
      BY <1>1 DEF Publication
    <2>2. publication' = [publication EXCEPT ![p] = s]
      BY <1>6 DEF Dropped
    <2>3. publication'[p] = s /\ Changes(p)
      BY <2>1, <2>2, Replaces
    <2> QED BY <1>1, <1>2, <1>4, <1>6, <2>3 DEF Publication
  <1> QED BY <1>5, <1>6

\* The message is on its way to KubeMQ, and its call awaits an answer.
LEMMA StreamSendMoves ==
  ASSUME PublicationsTyped, NEW p \in Publishers, StreamSend(p)
  PROVE  /\ Changes(p) /\ StepAt(p) = "send"
         /\ LET c == publication[p]
                d == publication'[p]
            IN  /\ d.pc = c.pc /\ d.at = c.at + 1 /\ d.streamed
                /\ d.client = c.client /\ d.tries = c.tries /\ d.confirmed = c.confirmed
                /\ d.failed = c.failed /\ d.bad = c.bad /\ d.dropped = c.dropped
                /\ d.hit = c.hit /\ d.late = c.late
  <1> DEFINE c == publication[p]
             k == c.at + 1
             r == [c EXCEPT !.at = k, !.streamed = TRUE]
  <1>1. c \in Publication
    BY CallTyped
  <1>2. r \in Publication
    <2>1. k \in Nat
      BY <1>1 DEF Publication
    <2> HIDE DEF k
    <2> QED BY <1>1, <2>1 DEF Publication
  <1>3. publication' = [publication EXCEPT ![p] = r]
    BY DEF StreamSend, PublicationsTyped
  <1>4. publication'[p] = r /\ Changes(p)
    BY <1>2, <1>3, Replaces
  <1>5. StepAt(p) = "send"
    BY ClientOfCall DEF StreamSend
  <1> QED BY <1>1, <1>4, <1>5 DEF Publication

\* The answer of KubeMQ does not concern the call but through the channel.
LEMMA ResultMoves ==
  ASSUME PublicationsTyped, NEW p \in Publishers, Result(p)
  PROVE  /\ Changes(p)
         /\ LET c == publication[p]
                d == publication'[p]
            IN  /\ c.streamed /\ d.streamed = FALSE
                /\ d.pc = c.pc /\ d.at = c.at
                /\ d.client = c.client /\ d.tries = c.tries /\ d.confirmed = c.confirmed
                /\ d.failed = c.failed /\ d.bad = c.bad /\ d.dropped = c.dropped
                /\ d.hit = c.hit /\ d.late = c.late
  <1> DEFINE c == publication[p]
             r == [c EXCEPT !.streamed = FALSE]
  <1>1. c \in Publication
    BY CallTyped
  <1>2. r \in Publication
    BY <1>1 DEF Publication
  <1>3. publication' = [publication EXCEPT ![p] = r] /\ c.streamed
    BY DEF Result, PublicationsTyped
  <1>4. publication'[p] = r /\ Changes(p)
    BY <1>2, <1>3, Replaces
  <1> QED BY <1>1, <1>3, <1>4 DEF Publication

\* A call takes the answer in the channel, or its time is up.
LEMMA AwaitMoves ==
  ASSUME PublicationsTyped, Shape, NEW p \in Publishers, Await(p)
  PROVE  /\ Changes(p) /\ mutex' = Unlocked(p)
         /\ \/ /\ resultChan # <<>> /\ resultChan' = <<>> /\ sendFaults' = sendFaults
               /\ Over(p, IF Head(resultChan) = "refused" THEN "error" ELSE "ok")
            \/ Faults(p) /\ resultChan' = resultChan /\ sendFaults' = sendFaults + 1
  <1>1. CASE /\ resultChan # <<>> /\ resultChan' = <<>> /\ sendFaults' = sendFaults
             /\ CallEnds(p, IF Head(resultChan) = "refused" THEN "error" ELSE "ok")
    <2> DEFINE how == IF Head(resultChan) = "refused" THEN "error" ELSE "ok"
    <2>1. how \in Outcomes
      BY DEF Outcomes
    <2>2. CallEnds(p, how)
      BY <1>1
    <2> HIDE DEF how
    <2>3. Over(p, how) /\ Changes(p) /\ mutex' = Unlocked(p)
      BY <2>1, <2>2, EndFields
    <2> QED BY <1>1, <2>3 DEF how
  <1>2. CASE SendFault /\ EndsByFault(p) /\ resultChan' = resultChan
    BY <1>2, FaultMoves DEF SendFault
  <1> QED BY <1>1, <1>2 DEF Await

\* The call at the beginning.
CallMoves(p) ==
  LET c == publication[p]
      d == publication'[p]
  IN  /\ c.pc = "idle" /\ d.pc = "running" /\ d.at = 1 /\ d.late = shut
      /\ d.client = c.client /\ d.tries = c.tries /\ d.confirmed = c.confirmed
      /\ d.failed = c.failed /\ d.bad = c.bad /\ d.dropped = c.dropped
      /\ d.hit = c.hit /\ d.streamed = c.streamed

\* What Call changes of a call.
LEMMA CallBegins ==
  ASSUME PublicationsTyped, NEW p \in Publishers, Call(p)
  PROVE  Changes(p) /\ CallMoves(p)
  <1> DEFINE c == publication[p]
             r == [c EXCEPT !.pc = "running", !.at = 1, !.late = shut]
  <1>1. c \in Publication /\ shut \in BOOLEAN /\ "running" \in Outcomes
    BY CallTyped DEF PublicationsTyped, Outcomes
  <1>2. r \in Publication
    BY <1>1 DEF Publication
  <1>3. publication' = [publication EXCEPT ![p] = r] /\ c.pc = "idle"
    BY DEF Call, PublicationsTyped
  <1>4. publication'[p] = r /\ Changes(p)
    BY <1>2, <1>3, Replaces
  <1>5. LET d == publication'[p] IN
          /\ d.pc = "running" /\ d.at = 1 /\ d.late = shut
          /\ d.client = c.client /\ d.tries = c.tries /\ d.confirmed = c.confirmed
          /\ d.failed = c.failed /\ d.bad = c.bad /\ d.dropped = c.dropped
          /\ d.hit = c.hit /\ d.streamed = c.streamed
    BY <1>1, <1>4 DEF Publication
  <1> QED BY <1>3, <1>4, <1>5 DEF CallMoves

-----------------------------------------------------------------------------
(* Publications: the kinds of steps of a call.                             *)

CallStep(p) ==
  \/ Call(p) \/ CheckClosed(p) \/ ReadClient(p) \/ Lookup(p) \/ Lock(p) \/ InitLock(p)
  \/ Ask(p) \/ Create(p) \/ RequestFails(p) \/ Connect(p) \/ Stream(p) \/ Store(p)
  \/ Send(p) \/ SendFails(p) \/ BulkSendFails(p) \/ SendRefused(p)
  \/ Drop(p) \/ Dropped(p) \/ StreamSend(p) \/ Result(p) \/ Await(p)

BeforeSend(p) == StepAt(p) \in StepNames \ {"send", "await"}

\* It goes on, it ends, or something fails before the send.
Proceeds(p) ==
  /\ BeforeSend(p) /\ stored' = stored
  /\ \E k \in 1..Len(Steps), m \in Clients \cup {0, NilFunc} : Walks(p, k, m)
Stops(p) ==
  /\ StepAt(p) \in StepNames /\ stored' = stored
  /\ \E how \in {"ok", "error", "panicked"} :
       Over(p, how) /\ (how = "ok" => StepAt(p) = "await")
BreaksOff(p) == StepAt(p) \in StepNames \ {"send"} /\ stored' = stored /\ Faults(p)
SkipsOn(p) == BeforeSend(p) /\ stored' = stored /\ Jumps(p)
FailsOn(p) ==
  /\ StepAt(p) = "send" /\ ClientOf(p) \in Clients /\ FailsAs(p, publication'[p])
  /\ stored' \in {stored, Copies(p, Sent(p))}

Kinds(p) ==
  \/ CallMoves(p) /\ stored' = stored
  \/ Proceeds(p) \/ Stops(p) \/ BreaksOff(p) \/ SkipsOn(p) \/ FailsOn(p)
  \/ Send(p) \/ BulkSendFails(p) \/ Drop(p) \/ Dropped(p) \/ StreamSend(p) \/ Result(p)

\* Every step of a call is of one of the kinds.
LEMMA CallStepKinds ==
  ASSUME PublicationsTyped, Shape, NEW p \in Publishers, PlaceInv(p), CallStep(p)
  PROVE  Changes(p) /\ Kinds(p)
  <1> HIDE DEF Steps, AfterStore, NewClient
  <1> DEFINE k == Pc(p) + 1
  <1>1. Uses(p) \in Clients \cup {0, NilFunc} /\ cache \in Clients \cup {0, NilFunc}
    BY CallTyped DEF Publication, Uses, PublicationsTyped
  <1>2. CASE Call(p)
    BY <1>2, CallBegins DEF Call, Kinds
  <1>3. CASE CheckClosed(p)
    <2>1. BeforeSend(p) /\ stored' = stored /\ k \in 1..Len(Steps)
      BY <1>3, RunsAt DEF CheckClosed, BeforeSend, StepNames, Shape, ReadsInOrder, Follow, Pc
    <2> QED BY <1>1, <1>3, <2>1, CheckClosedMoves DEF Kinds, Proceeds, Stops, BeforeSend
  <1>4. CASE ReadClient(p)
    <2>1. BeforeSend(p) /\ stored' = stored /\ k \in 1..Len(Steps)
      BY <1>4, RunsAt DEF ReadClient, BeforeSend, StepNames, Shape, ReadsInOrder, Follow, Pc
    <2> QED BY <1>1, <1>4, <2>1, ReadClientMoves DEF Kinds, Proceeds, Stops, BeforeSend
  <1>5. CASE Lookup(p) \/ Lock(p)
    <2>1. BeforeSend(p) /\ stored' = stored /\ k \in 1..Len(Steps)
      BY <1>5, RunsAt DEF Lookup, Lock, BeforeSend, StepNames, Shape, ReadsInOrder, Follow, Pc
    <2> QED BY <1>1, <1>5, <2>1, LookupMoves, Positions DEF Kinds, Proceeds
  <1>6. CASE InitLock(p)
    <2>1. BeforeSend(p) /\ stored' = stored /\ k \in 1..Len(Steps)
      BY <1>6, RunsAt DEF InitLock, BeforeSend, StepNames, Shape, ReadsInOrder, Follow, Pc
    <2> QED BY <1>1, <1>6, <2>1, InitLockMoves DEF Kinds, Proceeds
  <1>7. CASE Ask(p)
    <2>1. /\ BeforeSend(p) /\ stored' = stored /\ k \in 1..Len(Steps)
          /\ StepAt(p) = "ensure" => Pc(p) + 2 \in 1..Len(Steps)
      BY <1>7, RunsAt DEF Ask, BeforeSend, StepNames, Shape, ReadsInOrder, MakesInOrder, Follow, Pc
    <2> QED BY <1>1, <1>7, <2>1, AskMoves DEF Kinds, Proceeds
  <1>8. CASE Create(p)
    <2>1. BeforeSend(p) /\ stored' = stored /\ k \in 1..Len(Steps)
      BY <1>8, RunsAt DEF Create, BeforeSend, StepNames, Shape, MakesInOrder, Follow, Pc
    <2> QED BY <1>1, <1>8, <2>1, CreateMoves DEF Kinds, Proceeds, BreaksOff, BeforeSend
  <1>9. CASE RequestFails(p)
    <2>1. BeforeSend(p) /\ stored' = stored
      BY <1>9, RunsAt DEF RequestFails, BeforeSend, StepNames
    <2> QED BY <1>9, <2>1, RequestFailsMoves DEF Kinds, SkipsOn, BreaksOff, BeforeSend
  <1>10. CASE Connect(p)
    <2>1. BeforeSend(p) /\ stored' = stored /\ k \in 1..Len(Steps)
      BY <1>10, RunsAt DEF Connect, BeforeSend, StepNames, Shape, MakesInOrder, Follow, Pc
    <2> QED BY <1>10, <2>1, ConnectMoves DEF Kinds, Proceeds, Stops, BreaksOff, BeforeSend
  <1>11. CASE Stream(p)
    <2>1. BeforeSend(p) /\ stored' = stored /\ k \in 1..Len(Steps)
      BY <1>11, RunsAt DEF Stream, BeforeSend, StepNames, Shape, MakesInOrder, Follow, Pc
    <2> QED BY <1>1, <1>11, <2>1, StreamMoves DEF Kinds, Proceeds, BreaksOff, BeforeSend
  <1>12. CASE Store(p)
    <2>1. BeforeSend(p) /\ stored' = stored
      BY <1>12, RunsAt DEF Store, BeforeSend, StepNames
    <2> QED BY <1>12, <2>1, StoreMoves, Positions DEF Kinds, Proceeds
  <1>13. CASE Send(p)
    BY <1>13, SendMoves DEF Kinds
  <1>14. CASE SendFails(p)
    <2>1. StepAt(p) = "send" /\ ClientOf(p) \in Clients
      BY <1>14, ClientOfCall DEF SendFails
    <2> QED BY <1>14, <2>1, SendFailsMoves DEF Kinds, FailsOn
  <1>15. CASE BulkSendFails(p)
    BY <1>15, BulkSendFailsMoves DEF Kinds
  <1>16. CASE SendRefused(p)
    <2>1. StepAt(p) = "send" /\ stored' = stored /\ StepAt(p) \in StepNames
      BY <1>16 DEF SendRefused, StepNames
    <2>2. CASE CanSend(p)
      BY <1>16, <2>1, <2>2, SendRefusedMoves, ClientOfCall DEF Kinds, FailsOn
    <2>3. CASE ~CanSend(p)
      BY <1>16, <2>1, <2>3, SendRefusedMoves DEF Kinds, Stops
    <2> QED BY <2>2, <2>3
  <1>17. CASE Drop(p)
    BY <1>17, DropMoves DEF Kinds
  <1>18. CASE Dropped(p)
    BY <1>18, DroppedMoves DEF Kinds
  <1>19. CASE StreamSend(p)
    BY <1>19, StreamSendMoves DEF Kinds
  <1>20. CASE Result(p)
    BY <1>20, ResultMoves DEF Kinds
  <1>21. CASE Await(p)
    <2>1. StepAt(p) = "await" /\ stored' = stored /\ StepAt(p) \in StepNames \ {"send"}
      BY <1>21 DEF Await, StepNames
    <2> QED BY <1>21, <2>1, AwaitMoves DEF Kinds, Stops, BreaksOff
  <1> QED BY <1>2, <1>3, <1>4, <1>5, <1>6, <1>7, <1>8, <1>9, <1>10, <1>11, <1>12, <1>13,
             <1>14, <1>15, <1>16, <1>17, <1>18, <1>19, <1>20, <1>21 DEF CallStep

-----------------------------------------------------------------------------
(* Publications: what a step does to the counts of its call.               *)

\* Copies adds to the entries of one caller only.
LEMMA CopiesFields ==
  ASSUME PublicationsTyped, NEW p \in Publishers, NEW es, stored' = Copies(p, es)
  PROVE  /\ stored' \in [Publishers -> [1..2 -> Nat]]
         /\ \A q \in Publishers \ {p} : stored'[q] = stored[q]
         /\ \A e \in 1..2 : stored'[p][e] = IF e \in es THEN stored[p][e] + 1 ELSE stored[p][e]
  BY DEF PublicationsTyped, Copies

\* A step keeps its call at a step of the program.
LEMMA PlaceKept ==
  ASSUME PublicationsTyped, Shape, NEW p \in Publishers, PlaceInv(p), Kinds(p), Changes(p),
         sender' = sender
  PROVE  PlaceInv(p)'
  <1> HIDE DEF Steps, AfterStore, Position
  <1>1. Steps' = Steps
    BY DEF Steps
  <1>2. CASE CallMoves(p)
    BY <1>1, <1>2 DEF PlaceInv, CallMoves, Shape, BeginsWell
  <1>3. CASE Proceeds(p)
    BY <1>1, <1>3, RunsAt DEF PlaceInv, Proceeds, BeforeSend, Walks
  <1>4. CASE Stops(p)
    BY <1>1, <1>4 DEF PlaceInv, Stops, Over
  <1>5. CASE BreaksOff(p)
    BY <1>1, <1>5, RunsAt, Positions DEF PlaceInv, BreaksOff, Faults, Again
  <1>6. CASE SkipsOn(p)
    BY <1>1, <1>6, RunsAt, Positions DEF PlaceInv, SkipsOn, BeforeSend, Jumps, Keepers, Remembers
  <1>7. CASE FailsOn(p)
    <2>1. publication[p].pc = "running" /\ publication[p].at \in 1..Len(Steps)
      BY <1>7, RunsAt DEF FailsOn, StepNames
    <2> QED BY <1>1, <1>7, <2>1, Positions DEF PlaceInv, FailsOn, FailsAs
  <1>8. CASE Send(p)
    <2>1. publication[p].pc = "running" /\ publication[p].at \in 1..Len(Steps)
      BY <1>8, RunsAt, ClientOfCall DEF Send, StepNames
    <2>2. Len(Steps) \in Nat
      BY DEF Shape, BeginsWell
    <2> QED BY <1>1, <1>8, <2>1, <2>2, SendMoves DEF PlaceInv, Delivers
  <1>9. CASE BulkSendFails(p)
    BY <1>1, <1>9, BulkSendFailsMoves DEF PlaceInv
  <1>10. CASE Drop(p)
    <2>1. publication[p].pc = "drop"
      BY <1>10, StepFacts DEF Drop, StepNames
    <2> QED BY <1>1, <1>10, <2>1, DropMoves DEF PlaceInv
  <1>11. CASE Dropped(p)
    BY <1>1, <1>11, DroppedMoves, Positions DEF PlaceInv, Droppers
  <1>12. CASE StreamSend(p)
    <2>1. /\ publication[p].pc = "running" /\ publication[p].at \in 1..Len(Steps)
          /\ Steps[publication[p].at] = "send"
      BY <1>12, RunsAt, StreamSendMoves DEF StepNames
    <2>2. publication[p].at + 1 \in 1..Len(Steps)
      BY <1>12, <2>1 DEF StreamSend, Shape, MakesInOrder, Follow
    <2> QED BY <1>1, <1>12, <2>1, <2>2, StreamSendMoves DEF PlaceInv
  <1>13. CASE Result(p)
    <2>1. publication[p].pc # "idle"
      <3>1. NoPublication.streamed = FALSE
        BY DEF NoPublication
      <3> QED BY <1>13, <3>1, ResultMoves DEF PlaceInv
    <2> QED BY <1>1, <1>13, <2>1, ResultMoves DEF PlaceInv
  <1> QED BY <1>2, <1>3, <1>4, <1>5, <1>6, <1>7, <1>8, <1>9, <1>10, <1>11, <1>12, <1>13 DEF Kinds

\* A step keeps the bounds on what its call has sent.
LEMMA CountKept ==
  ASSUME PublicationsTyped, Shape, NEW p \in Publishers, PlaceInv(p), CountInv(p), Kinds(p),
         Changes(p), sender' = sender
  PROVE  CountInv(p)'
  <1> HIDE DEF Steps, AfterStore, Position
  <1>1. /\ MaxAttempts \in Nat \ {0} /\ publication[p] \in Publication /\ publication'[p] \in Publication
        /\ publication[p].tries \in Nat /\ publication[p].confirmed \in Nat /\ publication[p].at \in Nat
    BY PublicationsAssumption, CallTyped DEF Changes, Publication
  <1>2. CASE CallMoves(p)
    BY <1>1, <1>2 DEF CountInv, CallMoves, PlaceInv, NoPublication
  <1>3. CASE Proceeds(p)
    <2>1. sender # "rocketMQBinding"
      BY <1>3, RunsAt DEF Proceeds, BeforeSend, Shape, MakesInOrder
    <2> QED BY <1>1, <1>3, <2>1 DEF CountInv, Proceeds, Walks, Kept
  <1>4. CASE Stops(p)
    <2>1. /\ publication[p].pc = "running" /\ publication[p].at \in 1..Len(Steps)
          /\ sender = "rocketMQBinding" => Len(Steps) = 2
      BY <1>4, RunsAt DEF Stops, StepNames, Shape, MakesInOrder
    <2> QED BY <1>1, <1>4, <2>1 DEF CountInv, Stops, Over, Kept
  <1>5. CASE BreaksOff(p)
    <2>1. /\ publication[p].pc = "running" /\ sender # "rocketMQBinding"
          /\ sender # "solace" => publication[p].confirmed <= 0
      BY <1>1, <1>5, RunsAt DEF BreaksOff, Shape, MakesInOrder, CountInv
    <2> QED BY <1>1, <1>5, <2>1 DEF CountInv, BreaksOff, Faults, Kept, Again
  <1>6. CASE SkipsOn(p)
    BY <1>1, <1>6 DEF CountInv, SkipsOn, Jumps, Kept
  <1>7. CASE FailsOn(p)
    <2>1. /\ publication[p].pc = "running" /\ publication[p].at \in 1..Len(Steps)
          /\ sender = "rocketMQBinding" => Len(Steps) = 2
      BY <1>7, RunsAt DEF FailsOn, StepNames, Shape, MakesInOrder
    <2> QED BY <1>1, <1>7, <2>1 DEF CountInv, FailsOn, FailsAs, Droppers, Resends
  <1>8. CASE Send(p)
    <2>1. /\ publication[p].pc = "running" /\ publication[p].at \in 1..Len(Steps)
          /\ Len(Steps) \in Nat
          /\ IF sender = "rocketMQBinding" THEN Len(Steps) = 2 ELSE publication[p].at = Len(Steps)
      BY <1>8, RunsAt, ClientOfCall DEF Send, StepNames, Shape, BeginsWell, MakesInOrder
    <2>2. Delivers(p)
      BY <1>8, SendMoves
    <2>3. CASE sender = "solace" /\ publication[p].tries > 0
      BY <1>1, <2>1, <2>2, <2>3 DEF CountInv, Delivers
    <2>4. CASE sender = "rocketMQBinding"
      <3>4. Len(Steps) = 2
        BY <2>1, <2>4
      <3>5. publication[p].at \in {1, 2}
        BY <2>1, <3>4, SMT
      <3>6. publication[p].confirmed <= publication[p].at - 1 /\ publication[p].tries < MaxAttempts
        BY <2>1, <2>4 DEF CountInv
      <3>1. /\ publication[p].at \in {1, 2} /\ Len(Steps) = 2
            /\ publication[p].confirmed <= publication[p].at - 1
            /\ publication[p].tries < MaxAttempts
        BY <3>4, <3>5, <3>6
      <3>2. CASE publication[p].at = 1
        BY <1>1, <2>1, <2>2, <2>4, <3>1, <3>2 DEF CountInv, Delivers
      <3>3. CASE publication[p].at = 2
        BY <1>1, <2>1, <2>2, <2>4, <3>1, <3>3 DEF CountInv, Delivers
      <3> QED BY <3>1, <3>2, <3>3
    <2>5. CASE ~(sender = "solace" /\ publication[p].tries > 0) /\ sender # "rocketMQBinding"
      <3>1. ~(publication[p].at < Len(Steps))
        BY <2>1, <2>5
      <3> QED BY <1>1, <2>1, <2>2, <2>5, <3>1 DEF CountInv, Delivers
    <2> QED BY <2>3, <2>4, <2>5
  <1>9. CASE BulkSendFails(p)
    <2>1. publication[p].pc = "running"
      BY <1>9, RunsAt, BulkSendFailsMoves DEF StepNames
    <2>2. sender = "kafkaBulk"
      BY <1>9 DEF BulkSendFails
    <2>3. LET d == publication'[p] IN
            d.confirmed = publication[p].confirmed /\ d.pc = "error" /\ d.tries = 1
      BY <1>9, BulkSendFailsMoves
    <2> QED BY <1>1, <2>1, <2>2, <2>3 DEF CountInv
  <1>10. CASE Drop(p)
    <2>1. publication[p].pc = "drop"
      BY <1>10, StepFacts DEF Drop, StepNames
    <2> QED BY <1>1, <1>10, <2>1, DropMoves DEF CountInv
  <1>11. CASE Dropped(p)
    BY <1>1, <1>11, DroppedMoves DEF CountInv, PlaceInv, Droppers
  <1>12. CASE StreamSend(p)
    <2>1. publication[p].pc = "running" /\ sender = "kubeMQStore"
      BY <1>12, RunsAt, StreamSendMoves DEF StepNames, StreamSend
    <2> QED BY <1>1, <1>12, <2>1, StreamSendMoves DEF CountInv
  <1>13. CASE Result(p)
    BY <1>1, <1>13, ResultMoves DEF CountInv
  <1> QED BY <1>2, <1>3, <1>4, <1>5, <1>6, <1>7, <1>8, <1>9, <1>10, <1>11, <1>12, <1>13 DEF Kinds

\* A step keeps the bounds on the copies of its call.
LEMMA CopiesKept ==
  ASSUME PublicationsTyped, Shape, NEW p \in Publishers, PlaceInv(p), CountInv(p), CopiesInv(p),
         StreamInv(p), Kinds(p), Changes(p), sender' = sender
  PROVE  CopiesInv(p)'
  <1> HIDE DEF Steps, AfterStore, Position, Copies, Sent
  <1> SUFFICES ASSUME NEW e \in 1..2
               PROVE  LET c == publication'[p] IN
                      /\ stored'[p][e] <= c.tries + 1
                      /\ /\ c.pc \in {"idle", "running", "drop", "dropped"} /\ sender # "kubeMQStore"
                         /\ ~(sender = "rocketMQBinding" /\ c.at > e)
                         => stored'[p][e] <= c.tries
                      /\ sender = "rocketMQBinding" /\ c.pc = "running" /\ c.at > e => stored'[p][e] > 0
    BY DEF CopiesInv
  <1> DEFINE c == publication[p]
             d == publication'[p]
             s == stored[p][e]
             t == stored'[p][e]
  <1>1. c.tries \in Nat /\ c.at \in Nat /\ s \in Nat /\ e \in {1, 2}
    BY CallTyped DEF Publication, PublicationsTyped
  <1>2. /\ s <= c.tries + 1
        /\ /\ c.pc \in {"idle", "running", "drop", "dropped"} /\ sender # "kubeMQStore"
           /\ ~(sender = "rocketMQBinding" /\ c.at > e)
           => s <= c.tries
        /\ sender = "rocketMQBinding" /\ c.pc = "running" /\ c.at > e => s > 0
    BY DEF CopiesInv
  <1>3. CASE CallMoves(p) /\ stored' = stored
    <2>1. t = s /\ c.at = 0
      BY <1>3 DEF CallMoves, PlaceInv, NoPublication
    <2> QED BY <1>1, <1>2, <1>3, <2>1 DEF CallMoves
  <1>4. CASE Proceeds(p)
    <2>1. t = s /\ c.pc = "running" /\ sender # "rocketMQBinding"
      BY <1>4, RunsAt DEF Proceeds, BeforeSend, Shape, MakesInOrder
    <2> QED BY <1>1, <1>2, <1>4, <2>1 DEF Proceeds, Walks
  <1>5. CASE Stops(p)
    <2>1. t = s
      BY <1>5 DEF Stops
    <2> QED BY <1>1, <1>2, <1>5, <2>1 DEF Stops, Over
  <1>6. CASE BreaksOff(p)
    <2>1. t = s /\ c.pc = "running" /\ sender # "rocketMQBinding"
      BY <1>6, RunsAt DEF BreaksOff, Shape, MakesInOrder
    <2> QED BY <1>1, <1>2, <1>6, <2>1 DEF BreaksOff, Faults
  <1>7. CASE SkipsOn(p)
    <2>1. t = s /\ c.pc = "running" /\ sender = "snssqs"
      BY <1>7, RunsAt DEF SkipsOn, BeforeSend, Jumps
    <2> QED BY <1>1, <1>2, <1>7, <2>1 DEF SkipsOn, Jumps
  <1>8. CASE FailsOn(p)
    <2>1. t \in {s, s + 1} /\ c.pc = "running"
      BY <1>8, RunsAt, CopiesFields DEF FailsOn, StepNames
    <2>2. d.tries = c.tries + 1 /\ d.pc \in {"drop", "running", "error"}
      BY <1>8, <2>1 DEF FailsOn, FailsAs
    <2>3. CASE sender = "rocketMQBinding"
      <3>1. d.pc = "error" /\ s <= c.tries + 1 /\ (t # s => e = c.at)
        BY <1>2, <1>8, <2>1, <2>3, CopiesFields DEF FailsOn, FailsAs, Droppers, Resends, Sent
      <3>2. e = c.at => s <= c.tries
        BY <1>1, <1>2, <2>1, <2>3
      <3> QED BY <1>1, <2>1, <2>2, <2>3, <3>1, <3>2
    <2>4. CASE sender = "kubeMQStore"
      <3>1. s = 0
        <4>1. StepAt(p) # "await"
          BY <1>8 DEF FailsOn
        <4> QED BY <2>1, <2>4, <4>1 DEF StreamInv
      <3> QED BY <1>1, <2>1, <2>2, <2>4, <3>1
    <2>5. CASE sender \notin {"rocketMQBinding", "kubeMQStore"}
      BY <1>1, <1>2, <2>1, <2>2, <2>5
    <2> QED BY <2>3, <2>4, <2>5
  <1>9. CASE Send(p)
    <2>1. /\ c.pc = "running" /\ c.at \in 1..Len(Steps) /\ sender # "kubeMQStore"
          /\ Len(Steps) \in Nat
          /\ IF sender = "rocketMQBinding" THEN Len(Steps) = 2 ELSE c.at = Len(Steps)
      BY <1>9, RunsAt, ClientOfCall DEF Send, StepNames, Shape, BeginsWell, MakesInOrder
    <2>2. t = s \/ (t = s + 1 /\ e \in Sent(p))
      BY <1>1, <1>9, CopiesFields DEF Send
    <2>3. Delivers(p)
      BY <1>9, SendMoves
    <2>4. CASE sender # "rocketMQBinding"
      <3>1. s <= c.tries /\ ~(c.at < Len(Steps))
        BY <1>2, <2>1, <2>4
      <3> QED BY <1>1, <2>1, <2>2, <2>3, <2>4, <3>1 DEF Delivers
    <2>5. CASE sender = "rocketMQBinding"
      <3>1. Len(Steps) = 2
        BY <2>1, <2>5
      <3>2. c.at \in {1, 2} /\ (c.at < Len(Steps) <=> c.at = 1)
        BY <2>1, <3>1, SMT
      <3>3. IF e = c.at THEN t = s + 1 /\ s <= c.tries ELSE t = s
        <4>1. e = c.at => s <= c.tries
          BY <1>1, <1>2, <2>1, <2>5
        <4>2. stored' = Copies(p, Sent(p))
          BY <1>9, <2>5 DEF Send
        <4>3. t = IF e \in Sent(p) THEN s + 1 ELSE s
          BY <4>2, CopiesFields
        <4>4. Sent(p) = {c.at}
          BY <2>5 DEF Sent
        <4> QED BY <4>1, <4>3, <4>4
      <3>4. d.tries = c.tries /\ (c.at = 1 => d.at = 2) /\ (c.at = 2 => d.pc = "ok")
        BY <2>3, <2>5, <3>2 DEF Delivers
      <3>5. CASE c.at = 1
        BY <1>1, <1>2, <2>1, <2>5, <3>3, <3>4, <3>5
      <3>6. CASE c.at = 2
        BY <1>1, <1>2, <2>1, <2>5, <3>3, <3>4, <3>6
      <3> QED BY <3>2, <3>5, <3>6
    <2> QED BY <2>4, <2>5
  <1>10. CASE BulkSendFails(p)
    <2>1. c.pc = "running" /\ sender = "kafkaBulk"
      BY <1>10, RunsAt, BulkSendFailsMoves DEF StepNames, BulkSendFails
    <2>2. d.pc = "error" /\ d.tries = 1 /\ t \in {s, s + 1}
      <3>1. d.pc = "error" /\ d.tries = 1 /\ \E es : stored' = Copies(p, es)
        BY <1>10, BulkSendFailsMoves
      <3>2. PICK es : stored' = Copies(p, es)
        BY <3>1
      <3>3. t = IF e \in es THEN s + 1 ELSE s
        BY <3>2, CopiesFields
      <3> QED BY <3>1, <3>3
    <2>3. c.tries = 0 /\ s <= c.tries
      BY <1>2, <2>1 DEF CountInv
    <2> QED BY <1>1, <2>1, <2>2, <2>3
  <1>11. CASE Drop(p)
    <2>1. c.pc = "drop" /\ t = s /\ sender \in Droppers
      BY <1>11, StepFacts DEF Drop, StepNames, PlaceInv
    <2> QED BY <1>1, <1>2, <1>11, <2>1, DropMoves DEF Droppers
  <1>12. CASE Dropped(p)
    <2>1. c.pc = "dropped" /\ t = s /\ sender \in Droppers
      BY <1>12, DroppedMoves DEF Dropped, PlaceInv
    <2> QED BY <1>1, <1>2, <1>12, <2>1, DroppedMoves DEF Droppers
  <1>13. CASE StreamSend(p)
    <2>1. t = s /\ sender = "kubeMQStore"
      BY <1>13 DEF StreamSend
    <2> QED BY <1>1, <1>2, <1>13, <2>1, StreamSendMoves
  <1>14. CASE Result(p)
    <2>1. s = 0 /\ sender = "kubeMQStore"
      BY <1>14, ResultMoves DEF StreamInv
    <2>2. t \in {s, s + 1}
      BY <1>14, CopiesFields DEF Result
    <2>3. d.tries = c.tries
      BY <1>14, ResultMoves
    <2> QED BY <1>1, <2>1, <2>2, <2>3
  <1> QED BY <1>3, <1>4, <1>5, <1>6, <1>7, <1>8, <1>9, <1>10, <1>11, <1>12, <1>13, <1>14 DEF Kinds

\* A step keeps what is reported as published stored.
LEMMA StoredKept ==
  ASSUME PublicationsTyped, Shape, NEW p \in Publishers, PlaceInv(p), CopiesInv(p), StreamInv(p),
         StoredInv(p), Kinds(p), Changes(p), sender' = sender
  PROVE  StoredInv(p)'
  <1> HIDE DEF Steps, AfterStore, Position, Copies, Sent
  <1> DEFINE c == publication[p]
             d == publication'[p]
  <1>1. /\ Entries' = Entries /\ Unconfirmed' = Unconfirmed /\ Entries \subseteq 1..2
        /\ \A e \in 1..2 : stored[p][e] \in Nat
    BY EntriesTyped DEF Entries, Unconfirmed, KubeMQs, PublicationsTyped
  <1> HIDE DEF Entries, Unconfirmed
  <1>2. SUFFICES ASSUME sender \notin Unconfirmed, d.pc \in {"ok", "error"},
                        NEW e \in Entries \ d.failed
                 PROVE  stored'[p][e] > 0
    BY <1>1 DEF StoredInv
  <1>3. CASE CallMoves(p) \/ Proceeds(p) \/ SkipsOn(p)
    <2>1. d.pc = "running"
      BY <1>3, RunsAt DEF CallMoves, Proceeds, SkipsOn, BeforeSend, Walks, Jumps
    <2> QED BY <1>2, <2>1
  <1>4. CASE Stops(p)
    <2>1. d.pc = "ok" => sender = "kubeMQStore"
      BY <1>4, RunsAt DEF Stops, Over, Shape, MakesInOrder
    <2>2. d.pc = "error" => d.failed = Entries
      BY <1>4 DEF Stops, Over
    <2> QED BY <1>2, <2>1, <2>2 DEF Unconfirmed, KubeMQs
  <1>5. CASE BreaksOff(p)
    BY <1>2, <1>5, RunsAt DEF BreaksOff, Faults
  <1>6. CASE FailsOn(p)
    <2>1. c.pc = "running"
      BY <1>6, RunsAt DEF FailsOn, StepNames
    <2> QED BY <1>2, <1>6, <2>1 DEF FailsOn, FailsAs
  <1>7. CASE Send(p)
    <2>1. /\ c.pc = "running" /\ c.at \in 1..Len(Steps) /\ c.at \in Nat /\ Len(Steps) \in Nat
          /\ sender = "rocketMQBinding" => Len(Steps) = 2
      BY <1>7, RunsAt, ClientOfCall DEF Send, StepNames, Shape, BeginsWell, MakesInOrder
    <2>2. stored' = Copies(p, Sent(p)) /\ Delivers(p)
      BY <1>2, <1>7, SendMoves DEF Send, Unconfirmed, KubeMQs
    <2>3. CASE sender # "rocketMQBinding"
      <3>1. Sent(p) = Entries
        BY <2>3 DEF Sent
      <3>2. stored'[p][e] = stored[p][e] + 1
        BY <1>1, <1>2, <2>2, <3>1, CopiesFields
      <3>3. stored[p][e] \in Nat
        BY <1>1, <1>2
      <3> QED BY <3>2, <3>3
    <2>4. CASE sender = "rocketMQBinding"
      <3>1. c.at = 2
        <4>1. ~(c.at < Len(Steps))
          BY <1>2, <2>1, <2>2, <2>4 DEF Delivers
        <4>2. Len(Steps) = 2
          BY <2>1, <2>4
        <4> QED BY <2>1, <4>1, <4>2, SMT
      <3>2. Sent(p) = {2} /\ e \in {1, 2}
        BY <1>1, <1>2, <2>4, <3>1 DEF Sent
      <3>3. e = 1 => stored[p][e] > 0
        BY <2>1, <2>4, <3>1 DEF CopiesInv
      <3>4. stored'[p][e] = IF e = 2 THEN stored[p][e] + 1 ELSE stored[p][e]
        BY <2>2, <3>2, CopiesFields
      <3>5. stored[p][e] \in Nat
        BY <1>1, <1>2
      <3> QED BY <3>2, <3>3, <3>4, <3>5
    <2> QED BY <2>3, <2>4
  <1>8. CASE BulkSendFails(p)
    <2>1. PICK lost \in SUBSET Entries : lost \subseteq d.failed /\ stored' = Copies(p, Entries \ lost)
      BY <1>8, BulkSendFailsMoves
    <2>2. stored'[p][e] = stored[p][e] + 1
      <3>1. e \in Entries \ lost /\ e \in 1..2
        BY <1>1, <1>2, <2>1
      <3> QED BY <2>1, <3>1, CopiesFields
    <2>3. stored[p][e] \in Nat
      BY <1>1, <1>2
    <2> QED BY <2>2, <2>3
  <1>9. CASE Drop(p)
    BY <1>2, <1>9, DropMoves
  <1>10. CASE Dropped(p)
    BY <1>2, <1>10, DroppedMoves
  <1>11. CASE StreamSend(p)
    BY <1>2, <1>11 DEF StreamSend, Unconfirmed, KubeMQs
  <1>12. CASE Result(p)
    <2>1. sender = "kubeMQStore"
      BY <1>12, ResultMoves DEF StreamInv
    <2> QED BY <1>2, <2>1 DEF Unconfirmed, KubeMQs
  <1> QED BY <1>3, <1>4, <1>5, <1>6, <1>7, <1>8, <1>9, <1>10, <1>11, <1>12 DEF Kinds

\* A step keeps what is known of a message on its way to KubeMQ.
LEMMA StreamKept ==
  ASSUME PublicationsTyped, Shape, NEW p \in Publishers, PlaceInv(p), StreamInv(p), Kinds(p),
         Changes(p), sender' = sender
  PROVE  StreamInv(p)'
  <1> HIDE DEF Steps, AfterStore, Position, Copies, Sent
  <1> DEFINE c == publication[p]
             d == publication'[p]
             waits == c.pc = "idle" \/ (c.pc = "running" /\ StepAt(p) # "await")
             waits2 == d.pc = "idle" \/ (d.pc = "running" /\ StepAt(p)' # "await")
             Empty == \A e \in 1..2 : stored[p][e] = 0
             Empty2 == \A e \in 1..2 : stored'[p][e] = 0
  <1>1. /\ c.streamed => sender = "kubeMQStore" /\ ~waits
        /\ sender = "kubeMQStore" /\ (c.streamed \/ waits) => Empty
    BY DEF StreamInv
  <1>2. ASSUME d.streamed => sender = "kubeMQStore" /\ ~waits2,
               sender = "kubeMQStore" /\ (d.streamed \/ waits2) => Empty2
        PROVE  StreamInv(p)'
    BY <1>2 DEF StreamInv
  <1>3. c.streamed \in BOOLEAN /\ d.streamed \in BOOLEAN
    BY CallTyped DEF Publication, Changes
  \* The call does not come to wait, and nothing is stored.
  <1>4. ASSUME waits, stored' = stored, d.streamed = c.streamed PROVE StreamInv(p)'
    <2>1. ~d.streamed /\ (sender = "kubeMQStore" => Empty2)
      BY <1>1, <1>3, <1>4
    <2> QED BY <2>1 DEF StreamInv
  \* The call is over.
  <1>5. ASSUME c.pc = "running", d.pc \notin {"idle", "running"}, stored' = stored,
               d.streamed = c.streamed
        PROVE  StreamInv(p)'
    BY <1>1, <1>5 DEF StreamInv
  <1>6. CASE CallMoves(p) /\ stored' = stored
    BY <1>4, <1>6 DEF CallMoves
  <1>7. CASE Proceeds(p)
    BY <1>4, <1>7, RunsAt DEF Proceeds, BeforeSend, Walks, Kept
  <1>8. CASE Stops(p)
    BY <1>5, <1>8, RunsAt DEF Stops, Over, Kept
  <1>9. CASE BreaksOff(p)
    <2>1. c.pc = "running" /\ stored' = stored /\ d.streamed = c.streamed
      BY <1>9, RunsAt DEF BreaksOff, Faults, Kept
    <2>2. CASE Again(p)
      <3>1. StepAt(p) # "await"
        BY <2>1, <2>2, RunsAt, <1>9 DEF Again, BreaksOff, Shape, MakesInOrder
      <3> QED BY <1>4, <2>1, <3>1
    <2>3. CASE ~Again(p)
      BY <1>5, <1>9, <2>1, <2>3 DEF BreaksOff, Faults
    <2> QED BY <2>2, <2>3
  <1>10. CASE SkipsOn(p)
    BY <1>4, <1>10, RunsAt DEF SkipsOn, BeforeSend, Jumps, Kept
  <1>11. CASE FailsOn(p)
    <2>1. c.pc = "running" /\ waits /\ ~c.streamed /\ d.streamed = c.streamed
      BY <1>1, <1>3, <1>11, RunsAt DEF FailsOn, StepNames, FailsAs, Rest
    <2>2. sender = "kubeMQStore" => d.pc = "error"
      BY <1>11 DEF FailsOn, FailsAs, Droppers, Resends
    <2> QED BY <1>2, <2>1, <2>2
  <1>12. CASE Send(p)
    <2>1. c.pc = "running" /\ waits /\ ~c.streamed /\ d.streamed = c.streamed /\ sender # "kubeMQStore"
      BY <1>1, <1>3, <1>12, RunsAt, ClientOfCall, SendMoves DEF Send, StepNames, Delivers, Rest
    <2> QED BY <1>2, <2>1
  <1>13. CASE BulkSendFails(p)
    <2>1. c.pc = "running" /\ waits /\ ~c.streamed /\ d.streamed = c.streamed
      BY <1>1, <1>3, <1>13, RunsAt, BulkSendFailsMoves DEF StepNames, Rest
    <2>2. sender = "kafkaBulk"
      BY <1>13 DEF BulkSendFails
    <2> QED BY <1>2, <2>1, <2>2
  <1>14. CASE Drop(p)
    <2>1. sender # "kubeMQStore" /\ d.streamed = c.streamed
      BY <1>14, StepFacts, DropMoves DEF Drop, StepNames, PlaceInv, Droppers
    <2> QED BY <1>1, <1>2, <2>1
  <1>15. CASE Dropped(p)
    <2>1. sender # "kubeMQStore" /\ d.streamed = c.streamed
      BY <1>15, DroppedMoves DEF PlaceInv, Droppers
    <2> QED BY <1>1, <1>2, <2>1
  <1>16. CASE StreamSend(p)
    <2>1. /\ c.pc = "running" /\ c.at \in 1..Len(Steps) /\ Steps[c.at] = "send" /\ waits
          /\ sender = "kubeMQStore" /\ stored' = stored
      BY <1>16, RunsAt, StreamSendMoves DEF StepNames, StreamSend
    <2>2. d.pc = "running" /\ d.at = c.at + 1 /\ Steps' = Steps
      BY <1>16, <2>1, StreamSendMoves DEF Steps
    <2>3. Steps[c.at + 1] = "await"
      BY <2>1 DEF Shape, MakesInOrder, Follow
    <2>4. StepAt(p)' = "await"
      BY <2>2, <2>3 DEF StepAt
    <2> QED BY <1>1, <1>2, <2>1, <2>2, <2>4
  <1>17. CASE Result(p)
    <2>1. c.streamed /\ ~d.streamed /\ d.pc = c.pc /\ d.at = c.at /\ Steps' = Steps
      BY <1>17, ResultMoves DEF Steps
    <2>2. StepAt(p)' = StepAt(p)
      BY <2>1 DEF StepAt
    <2> QED BY <1>1, <1>2, <2>1, <2>2
  <1> QED BY <1>6, <1>7, <1>8, <1>9, <1>10, <1>11, <1>12, <1>13, <1>14, <1>15, <1>16, <1>17 DEF Kinds

\* A step of a call keeps what concerns that call alone.
LEMMA LocalKept ==
  ASSUME PublicationsTyped, Shape, NEW p \in Publishers, LocalInv(p), CallStep(p), sender' = sender
  PROVE  LocalInv(p)'
  <1>1. Changes(p) /\ Kinds(p)
    BY CallStepKinds DEF LocalInv
  <1>2. PlaceInv(p)'
    BY <1>1, PlaceKept DEF LocalInv
  <1>3. CountInv(p)'
    BY <1>1, CountKept DEF LocalInv
  <1>4. CopiesInv(p)'
    BY <1>1, CopiesKept DEF LocalInv
  <1>5. StreamInv(p)'
    BY <1>1, StreamKept DEF LocalInv
  <1>6. StoredInv(p)'
    BY <1>1, StoredKept DEF LocalInv
  <1> QED BY <1>2, <1>3, <1>4, <1>5, <1>6 DEF LocalInv

-----------------------------------------------------------------------------
(* Publications: where a step takes its call.                              *)

\* A call that is not running is where its pc says.
LEMMA ComesToRest ==
  ASSUME NEW p, publication'[p].pc # "running"
  PROVE  StepAt(p)' = publication'[p].pc
  BY DEF StepAt

\* Where a call is after a step that has failed.
LEMMA FaultComesTo ==
  ASSUME PublicationsTyped, Shape, NEW p \in Publishers, publication[p].pc = "running",
         Faults(p), sender' = sender
  PROVE  \/ StepAt(p)' = "error" /\ publication'[p].pc = "error"
         \/ /\ StepAt(p)' = "lookup" /\ publication'[p].pc = "running"
            /\ sender \in {"serviceBus", "serviceBusBinding"}
  <1> HIDE DEF Position, Steps
  <1>1. CASE Again(p)
    <2>1. /\ publication'[p].pc = "running" /\ publication'[p].at = Position("lookup")
          /\ sender \in {"serviceBus", "serviceBusBinding"} /\ Steps' = Steps
      BY <1>1 DEF Faults, Again, Steps
    <2>2. StepAt(p)' = Steps[Position("lookup")]
      BY <2>1 DEF StepAt
    <2> QED BY <2>1, <2>2, Positions
  <1>2. CASE ~Again(p)
    BY <1>2, ComesToRest DEF Faults
  <1> QED BY <1>1, <1>2

\* Where a call is after it has looked for its client.
LEMMA ReadsComeTo ==
  ASSUME PublicationsTyped, Shape, NEW p \in Publishers, PlaceInv(p), sender' = sender
  PROVE  /\ CheckClosed(p) =>
              IF shut THEN StepAt(p)' = "error"
              ELSE \/ sender = "solace" /\ StepAt(p)' = "connect"
                   \/ sender \in {"jetStream", "mqtt3"} /\ StepAt(p)' = "send"
                   \/ sender \notin {"solace", "jetStream", "mqtt3"} /\ StepAt(p)' = "lookup"
         /\ ReadClient(p) =>
              /\ sender \in Kafkas \cup {"rabbitBinding"}
              /\ StepAt(p)' = IF cache = 0 THEN "error" ELSE "send"
         /\ (Lookup(p) \/ Lock(p)) /\ cache # 0 => StepAt(p)' = "send"
         /\ Lookup(p) /\ cache = 0 =>
              CASE sender \in Locked -> StepAt(p)' = "lock"
                [] sender \in KubeMQs -> StepAt(p)' = "init"
                [] sender = "gcp" -> StepAt(p)' = "ensure"
                [] sender = "snssqs" -> StepAt(p)' = "create"
                [] OTHER -> StepAt(p)' = "connect"
         /\ Lock(p) => sender \in Locked
         /\ Lock(p) /\ cache = 0 => StepAt(p)' \in {"ensure", "connect"}
         /\ InitLock(p) => /\ sender \in KubeMQs \cup {"solace"}
                           /\ StepAt(p)' = IF sender = "solace" THEN "closed" ELSE "connect"
  <1> HIDE DEF Steps, AfterStore
  <1> DEFINE k == publication[p].at
  <1>1. StepAt(p) \in StepNames => /\ publication[p].pc = "running" /\ k \in 1..Len(Steps)
                                   /\ Steps[k] = StepAt(p)
    BY RunsAt
  <1>2. ASSUME CheckClosed(p)
        PROVE  IF shut THEN StepAt(p)' = "error"
               ELSE \/ sender = "solace" /\ StepAt(p)' = "connect"
                    \/ sender \in {"jetStream", "mqtt3"} /\ StepAt(p)' = "send"
                    \/ sender \notin {"solace", "jetStream", "mqtt3"} /\ StepAt(p)' = "lookup"
    <2>1. publication[p].pc = "running" /\ k \in 1..Len(Steps) /\ Steps[k] = "closed"
      BY <1>1, <1>2 DEF CheckClosed, StepNames
    <2>2. CASE shut
      BY <1>2, <2>2, CheckClosedMoves, ComesToRest DEF Over
    <2>3. CASE ~shut
      <3>1. StepAt(p)' = Steps[k + 1]
        BY <1>2, <2>1, <2>3, CheckClosedMoves, Arrives DEF Pc
      <3> QED BY <2>1, <2>3, <3>1 DEF Shape, ReadsInOrder, Follow
    <2> QED BY <2>2, <2>3
  <1>3. ASSUME ReadClient(p)
        PROVE  /\ sender \in Kafkas \cup {"rabbitBinding"}
               /\ StepAt(p)' = IF cache = 0 THEN "error" ELSE "send"
    <2>1. publication[p].pc = "running" /\ k \in 1..Len(Steps) /\ Steps[k] \in {"producer", "channel"}
      BY <1>1, <1>3 DEF ReadClient, StepNames
    <2>2. sender \in Kafkas \cup {"rabbitBinding"} /\ Steps[k + 1] = "send"
      BY <2>1 DEF Shape, ReadsInOrder, Follow
    <2>3. CASE cache = 0
      BY <1>3, <2>2, <2>3, ReadClientMoves, ComesToRest DEF Over
    <2>4. CASE cache # 0
      <3>1. StepAt(p)' = Steps[k + 1]
        BY <1>3, <2>1, <2>4, ReadClientMoves, Arrives DEF Pc
      <3> QED BY <2>2, <2>4, <3>1
    <2> QED BY <2>3, <2>4
  <1>4. ASSUME Lookup(p) \/ Lock(p), cache # 0 PROVE StepAt(p)' = "send"
    <2>1. publication[p].pc = "running"
      BY <1>1, <1>4 DEF Lookup, Lock, StepNames
    <2>2. sender \in Keepers /\ Walks(p, AfterStore, cache)
      BY <1>4, LookupMoves
    <2> QED BY <2>1, <2>2, Arrives, Positions
  <1>5. ASSUME Lookup(p), cache = 0
        PROVE  CASE sender \in Locked -> StepAt(p)' = "lock"
                 [] sender \in KubeMQs -> StepAt(p)' = "init"
                 [] sender = "gcp" -> StepAt(p)' = "ensure"
                 [] sender = "snssqs" -> StepAt(p)' = "create"
                 [] OTHER -> StepAt(p)' = "connect"
    <2>1. publication[p].pc = "running" /\ k \in 1..Len(Steps) /\ Steps[k] = "lookup"
      BY <1>1, <1>5 DEF Lookup, StepNames
    <2>2. StepAt(p)' = Steps[k + 1]
      BY <1>5, <2>1, LookupMoves, Arrives DEF Pc
    <2> QED BY <2>1, <2>2 DEF Shape, ReadsInOrder, Follow
  <1>6. ASSUME Lock(p)
        PROVE  sender \in Locked /\ (cache = 0 => StepAt(p)' \in {"ensure", "connect"})
    <2>1. publication[p].pc = "running" /\ k \in 1..Len(Steps) /\ Steps[k] = "lock"
      BY <1>1, <1>6 DEF Lock, StepNames
    <2>2. cache = 0 => StepAt(p)' = Steps[k + 1]
      BY <1>6, <2>1, LookupMoves, Arrives DEF Pc
    <2> QED BY <2>1, <2>2 DEF Shape, ReadsInOrder, Follow
  <1>7. ASSUME InitLock(p)
        PROVE  /\ sender \in KubeMQs \cup {"solace"}
               /\ StepAt(p)' = IF sender = "solace" THEN "closed" ELSE "connect"
    <2>1. publication[p].pc = "running" /\ k \in 1..Len(Steps) /\ Steps[k] = "init"
      BY <1>1, <1>7 DEF InitLock, StepNames
    <2>2. StepAt(p)' = Steps[k + 1]
      BY <1>7, <2>1, InitLockMoves, Arrives DEF Pc
    <2> QED BY <2>1, <2>2 DEF Shape, ReadsInOrder, Follow
  <1> QED BY <1>2, <1>3, <1>4, <1>5, <1>6, <1>7

\* Where a call is after it has made its topic, its client or its stream.
LEMMA MakesComeTo ==
  ASSUME PublicationsTyped, Shape, NEW p \in Publishers, PlaceInv(p), sender' = sender
  PROVE  /\ Ask(p) =>
              \/ StepAt(p) = "ensure" /\ StepAt(p)' = "create"
              \/ StepAt(p) = "ensure" /\ sender # "gcp" /\ StepAt(p)' = "connect"
              \/ StepAt(p) = "ensure" /\ sender = "gcp" /\ StepAt(p)' = "store"
              \/ sender \in {"sqs", "cfQueues"} /\ StepAt(p)' = "send"
         /\ Create(p) =>
              /\ sender \in EventHubs \cup Remembers \cup {"serviceBus", "serviceBusBulk"}
              /\ ~Faults(p) => StepAt(p)' = IF sender \in Remembers THEN "store" ELSE "connect"
         /\ Connect(p) =>
              /\ sender \in OnDemand \cup KubeMQs \cup {"solace"}
              /\ Walks(p, Pc(p) + 1, NewClient) =>
                   CASE sender = "solace" -> StepAt(p)' = "send"
                     [] sender \in KubeMQs -> StepAt(p)' = "stream"
                     [] OTHER -> StepAt(p)' = "store"
         /\ Stream(p) => sender \in KubeMQs /\ (~Faults(p) => StepAt(p)' = "store")
         /\ Store(p) => StepAt(p)' = "send"
  <1> HIDE DEF Steps, AfterStore, NewClient
  <1> DEFINE k == publication[p].at
  <1>1. StepAt(p) \in StepNames => /\ publication[p].pc = "running" /\ k \in 1..Len(Steps)
                                   /\ Steps[k] = StepAt(p)
    BY RunsAt
  <1>2. ASSUME Ask(p)
        PROVE  \/ StepAt(p) = "ensure" /\ StepAt(p)' = "create"
               \/ StepAt(p) = "ensure" /\ sender # "gcp" /\ StepAt(p)' = "connect"
               \/ StepAt(p) = "ensure" /\ sender = "gcp" /\ StepAt(p)' = "store"
               \/ sender \in {"sqs", "cfQueues"} /\ StepAt(p)' = "send"
    <2>1. /\ publication[p].pc = "running" /\ k \in 1..Len(Steps) /\ Steps[k] = StepAt(p)
          /\ StepAt(p) \in {"ensure", "url", "token"}
      BY <1>1, <1>2 DEF Ask, StepNames
    <2>2. CASE StepAt(p) = "ensure" /\ Walks(p, Pc(p) + 2, Uses(p))
      <3>1. StepAt(p)' = Steps[k + 2]
        BY <2>1, <2>2, Arrives DEF Pc
      <3> QED BY <2>1, <2>2, <3>1 DEF Shape, MakesInOrder
    <2>3. CASE Walks(p, Pc(p) + 1, Uses(p))
      <3>1. StepAt(p)' = Steps[k + 1]
        BY <2>1, <2>3, Arrives DEF Pc
      <3> QED BY <2>1, <3>1 DEF Shape, ReadsInOrder, MakesInOrder, Follow
    <2> QED BY <1>2, <2>2, <2>3, AskMoves
  <1>3. ASSUME Create(p)
        PROVE  /\ sender \in EventHubs \cup Remembers \cup {"serviceBus", "serviceBusBulk"}
               /\ ~Faults(p) => StepAt(p)' = IF sender \in Remembers THEN "store" ELSE "connect"
    <2>1. publication[p].pc = "running" /\ k \in 1..Len(Steps) /\ Steps[k] = "create"
      BY <1>1, <1>3 DEF Create, StepNames
    <2>2. ~Faults(p) => StepAt(p)' = Steps[k + 1]
      BY <1>3, <2>1, CreateMoves, Arrives DEF Pc
    <2> QED BY <2>1, <2>2 DEF Shape, MakesInOrder, Follow
  <1>4. ASSUME Connect(p)
        PROVE  /\ sender \in OnDemand \cup KubeMQs \cup {"solace"}
               /\ Walks(p, Pc(p) + 1, NewClient) =>
                    CASE sender = "solace" -> StepAt(p)' = "send"
                      [] sender \in KubeMQs -> StepAt(p)' = "stream"
                      [] OTHER -> StepAt(p)' = "store"
    <2>1. publication[p].pc = "running" /\ k \in 1..Len(Steps) /\ Steps[k] = "connect"
      BY <1>1, <1>4 DEF Connect, StepNames
    <2>2. Walks(p, Pc(p) + 1, NewClient) => StepAt(p)' = Steps[k + 1]
      BY <2>1, Arrives DEF Pc
    <2> QED BY <2>1, <2>2 DEF Shape, MakesInOrder, Follow
  <1>5. ASSUME Stream(p)
        PROVE  sender \in KubeMQs /\ (~Faults(p) => StepAt(p)' = "store")
    <2>1. publication[p].pc = "running" /\ k \in 1..Len(Steps) /\ Steps[k] = "stream"
      BY <1>1, <1>5 DEF Stream, StepNames
    <2>2. ~Faults(p) => StepAt(p)' = Steps[k + 1]
      BY <1>5, <2>1, StreamMoves, Arrives DEF Pc
    <2> QED BY <2>1, <2>2 DEF Shape, MakesInOrder, Follow
  <1>6. ASSUME Store(p) PROVE StepAt(p)' = "send"
    <2>1. publication[p].pc = "running"
      BY <1>1, <1>6 DEF Store, StepNames
    <2> QED BY <1>6, <2>1, StoreMoves, Arrives, Positions
  <1> QED BY <1>2, <1>3, <1>4, <1>5, <1>6

\* Where a call is after a send, and after what follows one.
LEMMA SendsComeTo ==
  ASSUME PublicationsTyped, Shape, NEW p \in Publishers, PlaceInv(p), sender' = sender
  PROVE  /\ RequestFails(p) /\ ~Faults(p) => sender = "snssqs" /\ StepAt(p)' = "send"
         /\ Send(p) => /\ StepAt(p) = "send"
                       /\ \/ StepAt(p)' = "ok"
                          \/ sender \in {"solace", "rocketMQBinding"} /\ StepAt(p)' = "send"
         /\ StepAt(p) = "send" /\ FailsAs(p, publication'[p]) =>
              \/ StepAt(p)' = "error"
              \/ StepAt(p)' = "drop" /\ sender \in Droppers
              \/ StepAt(p)' = "lookup" /\ sender \in {"serviceBus", "serviceBusBinding"}
              \/ StepAt(p)' = "send" /\ sender \in {"mqtt3Binding", "solace"}
         /\ BulkSendFails(p) => StepAt(p)' = "error" /\ sender = "kafkaBulk"
         /\ Drop(p) => StepAt(p)' = "dropped" /\ sender \in Droppers
         /\ Dropped(p) =>
              /\ sender \in Droppers
              /\ \/ StepAt(p)' = "error"
                 \/ StepAt(p)' = "lookup" /\ sender # "rocketMQ"
         /\ StreamSend(p) => sender = "kubeMQStore" /\ StepAt(p) = "send" /\ StepAt(p)' = "await"
         /\ Result(p) => StepAt(p)' = StepAt(p)
         /\ Await(p) => sender = "kubeMQStore" /\ StepAt(p)' \in {"ok", "error"}
  <1> HIDE DEF Steps, AfterStore, Position
  <1> DEFINE c == publication[p]
             d == publication'[p]
             k == c.at
  <1>1. /\ Steps' = Steps /\ (d.pc # "running" => StepAt(p)' = d.pc)
        /\ d.pc = "running" => StepAt(p)' = Steps[d.at]
    BY DEF Steps, StepAt
  <1>2. StepAt(p) \in StepNames => c.pc = "running" /\ k \in 1..Len(Steps) /\ Steps[k] = StepAt(p)
    BY RunsAt
  <1>3. ASSUME RequestFails(p), ~Faults(p) PROVE sender = "snssqs" /\ StepAt(p)' = "send"
    <2>1. Jumps(p) /\ c.pc = "running"
      BY <1>2, <1>3, RequestFailsMoves DEF RequestFails, StepNames
    <2> QED BY <1>1, <2>1, Positions DEF Jumps, Keepers, Remembers
  <1>4. ASSUME Send(p)
        PROVE  /\ StepAt(p) = "send"
               /\ \/ StepAt(p)' = "ok"
                  \/ sender \in {"solace", "rocketMQBinding"} /\ StepAt(p)' = "send"
    <2>1. /\ StepAt(p) = "send" /\ c.pc = "running" /\ k \in 1..Len(Steps) /\ Steps[k] = "send"
          /\ sender # "kubeMQStore" /\ Delivers(p)
      BY <1>2, <1>4, ClientOfCall, SendMoves DEF Send, StepNames
    <2>2. CASE sender = "solace" /\ c.tries > 0
      BY <1>1, <2>1, <2>2 DEF Delivers
    <2>3. CASE sender = "rocketMQBinding"
      <3>1. d.pc = "ok" \/ (d.pc = "running" /\ k < Len(Steps) /\ d.at = k + 1)
        BY <2>1, <2>3 DEF Delivers
      <3>2. k \in Nat /\ Len(Steps) \in Nat
        BY <2>1 DEF Shape, BeginsWell
      <3>3. k < Len(Steps) => k + 1 \in 1..Len(Steps)
        BY <2>1, <3>2
      <3> QED BY <1>1, <2>1, <2>3, <3>1, <3>3 DEF Shape, MakesInOrder
    <2>4. CASE ~(sender = "solace" /\ c.tries > 0) /\ sender # "rocketMQBinding"
      <3>1. k = Len(Steps)
        BY <2>1, <2>4 DEF Shape, MakesInOrder
      <3>2. ~(k < Len(Steps))
        BY <2>1, <3>1 DEF Shape, BeginsWell
      <3> QED BY <1>1, <2>1, <2>4, <3>2 DEF Delivers
    <2> QED BY <2>2, <2>3, <2>4
  <1>5. ASSUME StepAt(p) = "send", FailsAs(p, d)
        PROVE  \/ StepAt(p)' = "error"
               \/ StepAt(p)' = "drop" /\ sender \in Droppers
               \/ StepAt(p)' = "lookup" /\ sender \in {"serviceBus", "serviceBusBinding"}
               \/ StepAt(p)' = "send" /\ sender \in {"mqtt3Binding", "solace"}
    <2>1. c.pc = "running" /\ k \in 1..Len(Steps) /\ Steps[k] = "send"
      BY <1>2, <1>5 DEF StepNames
    <2>2. CASE d.pc # "running"
      BY <1>1, <1>5, <2>1, <2>2 DEF FailsAs
    <2>3. CASE d.pc = "running"
      BY <1>1, <1>5, <2>1, <2>3, Positions DEF FailsAs, Resends
    <2> QED BY <2>2, <2>3
  <1>6. ASSUME BulkSendFails(p) PROVE StepAt(p)' = "error" /\ sender = "kafkaBulk"
    BY <1>1, <1>6, BulkSendFailsMoves DEF BulkSendFails
  <1>7. ASSUME Drop(p) PROVE StepAt(p)' = "dropped" /\ sender \in Droppers
    <2>1. c.pc = "drop"
      BY <1>7, StepFacts DEF Drop, StepNames
    <2> QED BY <1>1, <1>7, <2>1, DropMoves DEF PlaceInv
  <1>8. ASSUME Dropped(p)
        PROVE  /\ sender \in Droppers
               /\ \/ StepAt(p)' = "error"
                  \/ StepAt(p)' = "lookup" /\ sender # "rocketMQ"
    <2>1. sender \in Droppers
      BY <1>8, DroppedMoves DEF PlaceInv
    <2>2. \/ d.pc = "error"
          \/ d.pc = "running" /\ d.at = Position("lookup") /\ sender # "rocketMQ"
      BY <1>8, DroppedMoves
    <2> QED BY <1>1, <2>1, <2>2, Positions DEF Droppers
  <1>9. ASSUME StreamSend(p)
        PROVE  sender = "kubeMQStore" /\ StepAt(p) = "send" /\ StepAt(p)' = "await"
    <2>1. StepAt(p) = "send" /\ sender = "kubeMQStore"
      BY <1>9, StreamSendMoves DEF StreamSend
    <2>2. c.pc = "running" /\ k \in 1..Len(Steps) /\ Steps[k] = "send"
      BY <1>2, <2>1 DEF StepNames
    <2>3. d.pc = "running" /\ d.at = k + 1
      BY <1>9, <2>2, StreamSendMoves
    <2> QED BY <1>1, <2>1, <2>2, <2>3 DEF Shape, MakesInOrder, Follow
  <1>10. ASSUME Result(p) PROVE StepAt(p)' = StepAt(p)
    <2>1. d.pc = c.pc /\ d.at = c.at
      BY <1>10, ResultMoves
    <2> QED BY <1>1, <2>1 DEF StepAt
  <1>11. ASSUME Await(p) PROVE sender = "kubeMQStore" /\ StepAt(p)' \in {"ok", "error"}
    <2>1. c.pc = "running" /\ k \in 1..Len(Steps) /\ Steps[k] = "await"
      BY <1>2, <1>11 DEF Await, StepNames
    <2>2. sender = "kubeMQStore"
      BY <2>1 DEF Shape, MakesInOrder
    <2>3. d.pc \in {"ok", "error"}
      BY <1>11, <2>2, AwaitMoves DEF Over, Faults, Again
    <2> QED BY <1>1, <2>2, <2>3
  <1> QED BY <1>3, <1>4, <1>5, <1>6, <1>7, <1>8, <1>9, <1>10, <1>11

-----------------------------------------------------------------------------
(* Publications: what a step leaves alone.                                 *)

Surroundings ==
  \/ OtherCreates \/ CacheRefresh \/ Redial \/ Redialled \/ Shut
  \/ \E k \in 1..MaxClients : Breaks(k) \/ Recover(k)

\* A step is one of a call or of its surroundings.
LEMMA StepsSplit ==
  ASSUME PublicationNext
  PROVE  Surroundings \/ \E p \in Publishers : CallStep(p)
  BY DEF PublicationNext, Surroundings, CallStep

\* What the surroundings leave alone.
LEMMA SurroundingsFrame ==
  ASSUME PublicationsTyped, Surroundings
  PROVE  /\ publication' = publication /\ stored' = stored /\ mutex' = mutex
         /\ sender' = sender /\ resultChan' = resultChan
         /\ sendFaults' \in {sendFaults, sendFaults + 1}
         /\ shut => shut'
  BY DEF Surroundings, OtherCreates, CacheRefresh, Redial, Redialled, Shut, Breaks, Recover, SendFault

\* What a step of a call leaves alone.
LEMMA CallFrame ==
  ASSUME PublicationsTyped, Shape, NEW p \in Publishers, PlaceInv(p), CallStep(p)
  PROVE  /\ sender' = sender /\ shut' = shut /\ reconnecting' = reconnecting
         /\ sendFaults' \in {sendFaults, sendFaults + 1}
         /\ Changes(p) /\ stored' \in [Publishers -> [1..2 -> Nat]]
         /\ \A q \in Publishers \ {p} : stored'[q] = stored[q]
  <1> HIDE DEF Copies, Sent, AfterFailure
  <1>1. sender' = sender /\ shut' = shut /\ reconnecting' = reconnecting
    BY DEF CallStep, Call, CheckClosed, ReadClient, Lookup, Lock, InitLock, Ask, Create, RequestFails,
           Connect, Stream, Store, Send, SendFails, BulkSendFails, SendRefused, Drop, Dropped,
           StreamSend, Result, Await
  <1>2. sendFaults' \in {sendFaults, sendFaults + 1}
    BY DEF CallStep, Call, CheckClosed, ReadClient, Lookup, Lock, InitLock, Ask, Create, RequestFails,
           Connect, Stream, Store, Send, SendFails, BulkSendFails, SendRefused, Drop, Dropped,
           StreamSend, Result, Await, SendFault
  <1>3. stored' = stored \/ \E es : stored' = Copies(p, es)
    <2>1. CASE SendFails(p)
      BY <2>1, SendFailsMoves
    <2>2. CASE BulkSendFails(p)
      BY <2>2, BulkSendFailsMoves
    <2>3. CASE ~SendFails(p) /\ ~BulkSendFails(p)
      BY <2>3 DEF CallStep, Call, CheckClosed, ReadClient, Lookup, Lock, InitLock, Ask, Create,
           RequestFails, Connect, Stream, Store, Send, SendRefused, Drop, Dropped, StreamSend, Result, Await
    <2> QED BY <2>1, <2>2, <2>3
  <1>4. /\ stored' \in [Publishers -> [1..2 -> Nat]]
        /\ \A q \in Publishers \ {p} : stored'[q] = stored[q]
    BY <1>3, CopiesFields DEF PublicationsTyped
  <1>5. Changes(p)
    BY CallStepKinds
  <1> QED BY <1>1, <1>2, <1>4, <1>5

\* How the clients change.
LEMMA ConnectionMoves ==
  ASSUME PublicationsTyped, Shape, NEW p \in Publishers, PlaceInv(p), CallStep(p)
  PROVE  \/ connection' = connection
         \/ /\ Connect(p) /\ NewClient \in Clients /\ connection[NewClient] = "none"
            /\ connection' = [connection EXCEPT ![NewClient] = "up"]
         \/ /\ Dropped(p) /\ sender \in {"serviceBus", "serviceBusBinding"}
            /\ publication[p].dropped # 0
            /\ connection' = [connection EXCEPT ![publication[p].dropped] = "closed"]
  <1> HIDE DEF NewClient
  <1>1. CASE Connect(p)
    BY <1>1, ConnectMoves
  <1>2. CASE Dropped(p)
    BY <1>2, DroppedMoves DEF PlaceInv, Droppers
  <1>3. CASE ~Connect(p) /\ ~Dropped(p)
    BY <1>3 DEF CallStep, Call, CheckClosed, ReadClient, Lookup, Lock, InitLock, Ask, Create,
         RequestFails, Stream, Store, Send, SendFails, BulkSendFails, SendRefused, Drop, StreamSend, Result, Await
  <1> QED BY <1>1, <1>2, <1>3

\* How the cache changes.
LEMMA CacheMoves ==
  ASSUME PublicationsTyped, Shape, NEW p \in Publishers, PlaceInv(p), CallStep(p)
  PROVE  \/ cache' = cache
         \/ /\ Store(p) /\ sender \in Keepers
            /\ cache' = IF sender \in Remembers THEN 1 ELSE publication[p].client
         \/ /\ Stream(p) /\ sender \in KubeMQs /\ cache # 0 /\ cache' = NilFunc
            /\ sendFaults' = sendFaults + 1
         \/ Drop(p) /\ sender \in Droppers /\ cache' = 0 /\ mutex = 0
  <1>1. CASE Store(p)
    BY <1>1, StoreMoves DEF Uses
  <1>2. CASE Stream(p)
    <2>1. StepAt(p) = "stream" /\ publication[p].pc = "running" /\ sender \in KubeMQs
      BY <1>2, RunsAt DEF Stream, StepNames, Shape, MakesInOrder
    <2> QED BY <1>2, <2>1, StreamMoves
  <1>3. CASE Drop(p)
    BY <1>3, StepFacts DEF Drop, PlaceInv, StepNames
  <1>4. CASE ~Store(p) /\ ~Stream(p) /\ ~Drop(p)
    BY <1>4 DEF CallStep, Call, CheckClosed, ReadClient, Lookup, Lock, InitLock, Ask, Create,
         RequestFails, Connect, Send, SendFails, BulkSendFails, SendRefused, Dropped, StreamSend, Result, Await
  <1> QED BY <1>1, <1>2, <1>3, <1>4

\* The lock is taken when nobody has it, and given back by who has it.
LEMMA MutexMoves ==
  ASSUME PublicationsTyped, Shape, NEW p \in Publishers, PlaceInv(p), CallStep(p)
  PROVE  \/ mutex' = mutex
         \/ mutex' = Unlocked(p)
         \/ (Lock(p) \/ InitLock(p)) /\ mutex = 0 /\ mutex' = p
  <1> HIDE DEF Unlocked
  <1>1. CASE SendFails(p)
    BY <1>1, SendFailsMoves
  <1>2. CASE SendRefused(p)
    BY <1>2, SendRefusedMoves
  <1>3. CASE Create(p) \/ Connect(p) \/ Stream(p) \/ RequestFails(p) \/ Await(p)
    BY <1>3, CreateMoves, ConnectMoves, StreamMoves, RequestFailsMoves, AwaitMoves
  <1>4. CASE CheckClosed(p) \/ ReadClient(p)
    BY <1>4, CheckClosedMoves, ReadClientMoves
  <1>5. CASE Lock(p) \/ InitLock(p)
    BY <1>5 DEF Lock, InitLock
  <1>6. CASE Call(p) \/ Lookup(p) \/ Ask(p) \/ Store(p)
    BY <1>6 DEF Call, Lookup, Ask, Store
  <1>7. CASE Send(p) \/ BulkSendFails(p) \/ Drop(p) \/ Dropped(p) \/ StreamSend(p) \/ Result(p)
    BY <1>7 DEF Send, BulkSendFails, Drop, Dropped, StreamSend, Result
  <1> QED BY <1>1, <1>2, <1>3, <1>4, <1>5, <1>6, <1>7 DEF CallStep

\* The steps of the calls keep the types.
LEMMA CallTypeKept ==
  ASSUME PublicationsTyped, Shape, NEW p \in Publishers, PlaceInv(p), CallStep(p)
  PROVE  PublicationsTyped'
  <1> HIDE DEF Copies, Sent, NewClient
  <1>1. /\ sender' = sender /\ shut' = shut /\ reconnecting' = reconnecting
        /\ sendFaults' \in Nat /\ publication' \in [Publishers -> Publication]
        /\ stored' \in [Publishers -> [1..2 -> Nat]]
    <2>1. sendFaults \in Nat
      BY DEF PublicationsTyped
    <2>2. sendFaults' \in Nat
      BY <2>1, CallFrame
    <2> QED BY <2>2, CallFrame DEF Changes
  <1>2. connection' \in [Clients -> {"none", "up", "broken", "closed"}]
    <2>1. connection \in [Clients -> {"none", "up", "broken", "closed"}]
      BY DEF PublicationsTyped
    <2> QED BY <2>1, ConnectionMoves
  <1>3. cache' \in Clients \cup {0, NilFunc}
    <2>1. publication[p].client \in Clients \cup {0, NilFunc} /\ 1 \in Clients
      BY CallTyped, PublicationsAssumption DEF Publication, Clients
    <2> QED BY <2>1, CacheMoves DEF PublicationsTyped
  <1>4. mutex' \in Publishers \cup {0}
    BY MutexMoves DEF PublicationsTyped, Unlocked
  <1>5. resultChan' \in {<<>>, <<"stored">>, <<"refused">>, <<"nil">>}
    <2>1. CASE Result(p)
      <3>1. PICK answer \in {"stored", "refused", "nil"} :
              resultChan' = IF resultChan = <<>> THEN <<answer>> ELSE resultChan
        BY <2>1 DEF Result
      <3> QED BY <3>1 DEF PublicationsTyped
    <2>2. CASE Await(p)
      BY <2>2, AwaitMoves DEF PublicationsTyped
    <2>3. CASE ~Result(p) /\ ~Await(p)
      <3>1. resultChan' = resultChan
        BY <2>3 DEF CallStep, Call, CheckClosed, ReadClient, Lookup, Lock, InitLock, Ask, Create,
             RequestFails, Connect, Stream, Store, Send, SendFails, BulkSendFails, SendRefused, Drop,
             Dropped, StreamSend
      <3> QED BY <3>1 DEF PublicationsTyped
    <2> QED BY <2>1, <2>2, <2>3
  <1>6. topicThere' \in BOOLEAN
    <2>1. topicThere' \in {topicThere, TRUE}
      BY DEF CallStep, Call, CheckClosed, ReadClient, Lookup, Lock, InitLock, Ask, Create, RequestFails,
           Connect, Stream, Store, Send, SendFails, BulkSendFails, SendRefused, Drop, Dropped,
           StreamSend, Result, Await
    <2> QED BY <2>1 DEF PublicationsTyped
  <1> QED BY <1>1, <1>2, <1>3, <1>4, <1>5, <1>6 DEF PublicationsTyped

\* The surroundings keep the types.
LEMMA SurroundingsTypeKept ==
  ASSUME PublicationsTyped, Surroundings
  PROVE  PublicationsTyped'
  <1> HIDE DEF NewClient
  <1>1. /\ sender' = sender /\ publication' = publication /\ stored' = stored /\ mutex' = mutex
        /\ resultChan' = resultChan /\ sendFaults' \in Nat
    BY SurroundingsFrame DEF PublicationsTyped
  <1>2. /\ connection \in [Clients -> {"none", "up", "broken", "closed"}]
        /\ cache \in Clients \cup {0, NilFunc} /\ reconnecting \in Clients \cup {0}
        /\ shut \in BOOLEAN /\ topicThere \in BOOLEAN
    BY DEF PublicationsTyped
  <1>3. CASE OtherCreates \/ CacheRefresh
    BY <1>1, <1>2, <1>3 DEF OtherCreates, CacheRefresh, PublicationsTyped
  <1>4. CASE Redial
    <2>1. NewClient \in Clients
      BY <1>4, NewClientIsNew DEF Redial, Clients
    <2> QED BY <1>1, <1>2, <1>4, <2>1 DEF Redial, PublicationsTyped
  <1>5. CASE Redialled
    BY <1>1, <1>2, <1>5 DEF Redialled, PublicationsTyped
  <1>6. CASE Shut
    <2>1. connection' \in [Clients -> {"none", "up", "broken", "closed"}]
      BY <1>2, <1>6 DEF Shut, Clients
    <2> QED BY <1>1, <1>2, <1>6, <2>1 DEF Shut, PublicationsTyped
  <1>7. ASSUME NEW k \in 1..MaxClients, Breaks(k) \/ Recover(k) PROVE PublicationsTyped'
    <2>1. connection' \in [Clients -> {"none", "up", "broken", "closed"}]
      BY <1>2, <1>7 DEF Breaks, Recover, Clients
    <2> QED BY <1>1, <1>2, <1>7, <2>1 DEF Breaks, Recover, PublicationsTyped
  <1> QED BY <1>3, <1>4, <1>5, <1>6, <1>7 DEF Surroundings

\* A client that has been made stays one, whatever becomes of it.
Stays == \A k \in Clients : connection[k] # "none" => connection'[k] # "none"

\* No step unmakes a client.
LEMMA MadeStays ==
  ASSUME PublicationsTyped, Shape, \A p \in Publishers : PlaceInv(p), PublicationNext
  PROVE  Stays
  <1> HIDE DEF NewClient
  <1> SUFFICES ASSUME NEW k \in Clients, connection[k] # "none" PROVE connection'[k] # "none"
    BY DEF Stays
  <1>2. connection \in [Clients -> {"none", "up", "broken", "closed"}]
    BY DEF PublicationsTyped
  <1>3. ASSUME NEW p \in Publishers, CallStep(p) PROVE connection'[k] # "none"
    BY <1>2, <1>3, ConnectionMoves
  <1>4. ASSUME Surroundings PROVE connection'[k] # "none"
    <2>1. CASE OtherCreates \/ CacheRefresh
      BY <2>1 DEF OtherCreates, CacheRefresh
    <2>2. CASE Redial
      BY <1>2, <2>2 DEF Redial
    <2>3. CASE Redialled
      BY <1>2, <2>3 DEF Redialled
    <2>4. CASE Shut
      BY <1>2, <2>4 DEF Shut, Clients
    <2>5. ASSUME NEW l \in 1..MaxClients, Breaks(l) \/ Recover(l) PROVE connection'[k] # "none"
      BY <1>2, <2>5 DEF Breaks, Recover, Clients
    <2> QED BY <1>4, <2>1, <2>2, <2>3, <2>4, <2>5 DEF Surroundings
  <1> QED BY <1>3, <1>4, StepsSplit

-----------------------------------------------------------------------------
(* Publications: the clients.                                              *)

\* The numbers of clients are neither 0 nor that of the nil function.
LEMMA SmallNumbers ==
  /\ 0 \notin Clients /\ NilFunc \notin Clients /\ NilFunc # 0 /\ NilFunc # 1 /\ 1 \in Clients
  /\ Clients' = Clients
  BY PublicationsAssumption DEF Clients, NilFunc

\* Whoever can send sends with a client that has been made.
LEMMA ClientOfMade ==
  ASSUME PublicationsTyped, CacheInv, NEW p \in Publishers, ClientInv(p), CanSend(p)
  PROVE  Made(ClientOf(p))
  <1> HIDE DEF Steps
  <1>1. StepAt(p) = "send" /\ ClientOf(p) \in Clients
    BY DEF CanSend, Clients
  <1>2. CASE sender \in Kafkas \cup KubeMQs
    <2>1. ClientOf(p) = cache
      BY <1>2 DEF ClientOf, Kafkas, KubeMQs, OnDemand, EventHubs, ServiceBuses
    <2> QED BY <1>1, <2>1 DEF CacheInv
  <1>3. CASE sender \in OnDemand \cup {"solace", "rabbitBinding"}
    <2>1. sender \notin Kafkas \cup KubeMQs
      BY <1>3 DEF Kafkas, KubeMQs, OnDemand, EventHubs, ServiceBuses
    <2>2. ClientOf(p) = publication[p].client
      BY <1>3, <2>1 DEF ClientOf
    <2> QED BY <1>1, <1>3, <2>2 DEF ClientInv
  <1>4. CASE sender \notin Kafkas \cup KubeMQs /\ sender \notin OnDemand \cup {"solace", "rabbitBinding"}
    <2>1. ClientOf(p) = 1
      BY <1>4 DEF ClientOf
    <2>2. CASE sender \in Remembers
      BY <2>1, <2>2 DEF CacheInv
    <2>3. CASE sender \notin Remembers
      <3>1. cache = 1
        BY <1>4, <2>3 DEF CacheInv
      <3> QED BY <1>1, <2>1, <3>1 DEF CacheInv
    <2> QED BY <2>2, <2>3
  <1> QED BY <1>2, <1>3, <1>4

\* The steps of the calls keep what is known of the cache.
LEMMA CacheKeptByCalls ==
  ASSUME PublicationsTyped, Shape, CacheInv, NEW p \in Publishers, PlaceInv(p), ClientInv(p),
         CallStep(p), Stays
  PROVE  CacheInv'
  <1> HIDE DEF NewClient, Steps
  <1>1. /\ sender' = sender /\ shut' = shut /\ reconnecting' = reconnecting
        /\ sendFaults' \in {sendFaults, sendFaults + 1} /\ sendFaults \in Nat
    BY CallFrame DEF PublicationsTyped
  <1>2. /\ connection \in [Clients -> {"none", "up", "broken", "closed"}]
        /\ cache \in Clients \cup {0, NilFunc} /\ reconnecting \in Clients \cup {0}
    BY DEF PublicationsTyped
  <1>14. ASSUME Store(p)
         PROVE  /\ cache' = IF sender \in Remembers THEN 1 ELSE publication[p].client
                /\ Made(cache') /\ sender \in Keepers
    <2>1. /\ StepAt(p) = "store" /\ cache' = IF sender \in Remembers THEN 1 ELSE publication[p].client
          /\ sender \in Keepers
      BY <1>14, StoreMoves DEF Store, Uses
    <2> QED BY <2>1 DEF CacheInv, ClientInv
  <1>3. cache' \in Clients => connection'[cache'] # "none"
    <2>1. CASE cache' = cache
      BY <2>1 DEF CacheInv, Made, Stays
    <2>2. CASE Store(p)
      BY <1>14, <2>2 DEF Made, Stays
    <2> QED BY <2>1, <2>2, CacheMoves, SmallNumbers
  <1>4. cache' = NilFunc => sender \in KubeMQs /\ sendFaults' > 0
    <2>1. CASE cache' = cache
      BY <1>1, <2>1 DEF CacheInv
    <2>2. CASE Store(p)
      BY <1>14, <2>2, SmallNumbers DEF Made
    <2> QED BY <1>1, <2>1, <2>2, CacheMoves, SmallNumbers
  <1>5. sender \notin OnDemand \cup KubeMQs \cup Remembers \cup Kafkas \cup {"rabbitBinding"} => cache' = 1
    BY CacheMoves DEF CacheInv, Keepers, Droppers, OnDemand, ServiceBuses
  <1>6. ASSUME sender \in Remembers
        PROVE  /\ connection'[1] # "none" /\ cache' \in {0, 1}
               /\ \A k \in Clients \ {1} : connection'[k] = "none"
    <2>1. connection[1] # "none" /\ cache \in {0, 1} /\ \A k \in Clients \ {1} : connection[k] = "none"
      BY <1>6 DEF CacheInv, Made
    <2>2. connection' = connection
      <3>1. ~Connect(p)
        BY <1>1, <1>6, MakesComeTo DEF Remembers, OnDemand, EventHubs, ServiceBuses, KubeMQs
      <3> QED BY <1>6, <3>1, ConnectionMoves DEF Remembers
    <2>3. cache' \in {0, 1}
      BY <1>6, <2>1, CacheMoves DEF Remembers, KubeMQs, Droppers
    <2> QED BY <2>1, <2>2, <2>3
  <1>7. ASSUME sender \in Kafkas PROVE cache' = IF shut THEN 0 ELSE 1
    <2>1. cache' = cache
      BY <1>7, CacheMoves DEF Kafkas, Keepers, OnDemand, EventHubs, ServiceBuses, Remembers, KubeMQs, Droppers
    <2> QED BY <1>7, <2>1 DEF CacheInv
  <1>8. \A k \in Clients : connection'[k] = "closed" =>
          shut \/ sender \in {"serviceBus", "serviceBusBinding", "rabbitBinding"}
    BY <1>2, ConnectionMoves DEF CacheInv
  <1>9. shut /\ sender \in {"gcpBinding", "kubeMQBinding"} =>
          \A k \in Clients : connection'[k] \in {"closed", "none"}
    <2>1. sender \in {"gcpBinding", "kubeMQBinding"} => ~Connect(p)
      BY <1>1, MakesComeTo DEF OnDemand, EventHubs, ServiceBuses, KubeMQs
    <2> QED BY <2>1, ConnectionMoves DEF CacheInv
  <1>10. reconnecting # 0 => sender = "rabbitBinding" /\ connection'[reconnecting] # "none"
    BY <1>2 DEF CacheInv, Made, Stays
  <1> QED BY <1>1, <1>2, <1>3, <1>4, <1>5, <1>6, <1>7, <1>8, <1>9, <1>10, SmallNumbers
       DEF CacheInv, Made, OnDemand, KubeMQs, Remembers, Kafkas, EventHubs, ServiceBuses

\* The surroundings keep what is known of the cache.
LEMMA CacheKeptOutside ==
  ASSUME PublicationsTyped, CacheInv, Surroundings, Stays
  PROVE  CacheInv'
  <1> HIDE DEF NewClient
  <1>1. /\ sender' = sender /\ sendFaults' \in {sendFaults, sendFaults + 1} /\ sendFaults \in Nat
        /\ connection \in [Clients -> {"none", "up", "broken", "closed"}]
        /\ shut \in BOOLEAN /\ reconnecting \in Clients \cup {0} /\ cache \in Clients \cup {0, NilFunc}
    BY SurroundingsFrame DEF PublicationsTyped
  <1>8. OnDemand' = OnDemand /\ KubeMQs' = KubeMQs /\ Remembers' = Remembers /\ Kafkas' = Kafkas
    BY DEF OnDemand, KubeMQs, Remembers, Kafkas, EventHubs, ServiceBuses
  <1>9. ASSUME cache' = cache, reconnecting' = reconnecting, shut' = shut,
               \A k \in Clients : /\ connection'[k] = "closed" <=> connection[k] = "closed"
                                  /\ connection'[k] = "none" <=> connection[k] = "none"
        PROVE  CacheInv'
    <2>1. \A k \in Clients : connection'[k] \in {"closed", "none"} <=> connection[k] \in {"closed", "none"}
      BY <1>9
    <2>2. 0 < sendFaults => 0 < sendFaults'
      BY <1>1
    <2> QED BY <1>1, <1>8, <1>9, <2>1, <2>2, SmallNumbers DEF CacheInv, Made
  <1>2. CASE OtherCreates
    BY <1>2, <1>9 DEF OtherCreates
  <1>3. CASE CacheRefresh
    <2>1. sender = "gcp" /\ cache' = 0 /\ connection' = connection /\ shut' = shut /\ reconnecting' = reconnecting
      BY <1>3 DEF CacheRefresh
    <2> QED BY <1>1, <2>1, SmallNumbers DEF CacheInv, Made, Remembers, Kafkas, KubeMQs, OnDemand, EventHubs, ServiceBuses
  <1>4. CASE Redial
    <2>1. /\ NewClient \in Clients /\ sender = "rabbitBinding" /\ connection[NewClient] = "none" /\ ~shut
          /\ shut' = shut /\ cache' = cache /\ reconnecting' = NewClient
          /\ connection' = [connection EXCEPT ![NewClient] = "up"]
      BY <1>4, NewClientIsNew DEF Redial, Clients
    <2>3. connection'[NewClient] # "none" /\ \A k \in Clients : connection[k] # "none" => connection'[k] # "none"
      BY <1>1, <2>1
    <2> QED BY <1>1, <2>1, <2>3, SmallNumbers DEF CacheInv, Remembers, Kafkas, KubeMQs, Made
  <1>5. CASE Redialled
    <2>1. sender = "rabbitBinding" /\ reconnecting \in Clients /\ connection'[reconnecting] # "none"
      BY <1>1, <1>5 DEF Redialled, CacheInv, Made, Stays
    <2>2. cache' = reconnecting /\ reconnecting' = 0
      BY <1>5 DEF Redialled
    <2> QED BY <1>1, <2>1, <2>2, SmallNumbers DEF CacheInv, Remembers, Kafkas, KubeMQs, Made
  <1>6. CASE Shut
    <2>1. cache' = (IF sender \in ForgetsClient THEN 0 ELSE cache) /\ cache' \in {0, cache}
      BY <1>6 DEF Shut
    <2>2. shut' /\ reconnecting' = reconnecting
      BY <1>6 DEF Shut
    <2>3. \A k \in Clients : connection'[k] \in {"closed", connection[k]} /\ (connection[k] = "none" => connection'[k] \in {"none", "closed"})
      BY <1>1, <1>6 DEF Shut, Clients
    <2>8. sender \in Remembers => \A k \in Clients \ {1} : connection'[k] = "none"
      BY <1>1, <1>6 DEF Shut, Clients, CacheInv, Made, ClosedByClose, Remembers, KubeMQs, EventHubs
    <2>4. sender \in {"gcpBinding", "kubeMQBinding"} => \A k \in Clients : connection'[k] \in {"closed", "none"}
      BY <1>1, <1>6 DEF Shut, Clients, ClosedByClose, KubeMQs, EventHubs
    <2>5. sender \in Kafkas => cache' = 0
      BY <2>1 DEF ForgetsClient
    <2>6. sender \notin OnDemand \cup KubeMQs \cup Remembers \cup Kafkas \cup {"rabbitBinding"} => cache' = cache
      BY <2>1 DEF ForgetsClient, OnDemand
    <2>7. /\ cache' \in Clients => connection'[cache'] # "none"
          /\ reconnecting # 0 => sender = "rabbitBinding" /\ connection'[reconnecting] # "none"
      BY <1>1, <2>1, SmallNumbers DEF CacheInv, Made, Stays
    <2>9. cache' = NilFunc => sender \in KubeMQs /\ sendFaults' > 0
      BY <1>1, <2>1, SmallNumbers DEF CacheInv
    <2>10. sender \in Remembers => connection'[1] # "none" /\ cache' \in {0, 1}
      BY <2>1, SmallNumbers DEF CacheInv, Made, Stays
    <2> QED BY <1>1, <1>8, <2>2, <2>4, <2>5, <2>6, <2>7, <2>8, <2>9, <2>10, SmallNumbers DEF CacheInv, Made
  <1>7. ASSUME NEW l \in 1..MaxClients, Breaks(l) \/ Recover(l) PROVE CacheInv'
    <2>1. cache' = cache /\ shut' = shut /\ reconnecting' = reconnecting
      BY <1>7 DEF Breaks, Recover
    <2>3. \A k \in Clients : /\ connection'[k] = "closed" <=> connection[k] = "closed"
                             /\ connection'[k] = "none" <=> connection[k] = "none"
      BY <1>1, <1>7 DEF Breaks, Recover, Clients
    <2> QED BY <1>9, <2>1, <2>3
  <1> QED BY <1>2, <1>3, <1>4, <1>5, <1>6, <1>7 DEF Surroundings

\* What a call remembers of a client that has failed, and the one it has dropped.
LEMMA BadMoves ==
  ASSUME PublicationsTyped, Shape, NEW p \in Publishers, PlaceInv(p), CallStep(p)
  PROVE  LET c == publication[p]
             d == publication'[p]
         IN  /\ \/ d.bad = c.bad
                \/ /\ CanSend(p) /\ d.bad = ClientOf(p)
                   /\ sender \in Droppers => d.pc = "drop"
             /\ d.pc = "dropped" => \/ c.pc = "dropped" /\ d.dropped = c.dropped
                                    \/ Drop(p) /\ d.dropped = cache /\ c.pc = "drop"
  <1> DEFINE c == publication[p]
             d == publication'[p]
  <1>1. Kinds(p)
    BY CallStepKinds
  <1>2. CASE CallMoves(p)
    BY <1>2 DEF CallMoves
  <1>3. CASE Proceeds(p)
    BY <1>3, RunsAt DEF Proceeds, BeforeSend, Walks, Kept
  <1>4. CASE Stops(p)
    BY <1>4 DEF Stops, Over, Kept
  <1>5. CASE BreaksOff(p)
    BY <1>5, RunsAt DEF BreaksOff, Faults, Kept
  <1>6. CASE SkipsOn(p)
    BY <1>6, RunsAt DEF SkipsOn, BeforeSend, Jumps, Kept
  <1>7. CASE FailsOn(p)
    <2>1. c.pc = "running" /\ CanSend(p)
      BY <1>7, RunsAt DEF FailsOn, StepNames, CanSend, Clients
    <2> QED BY <1>7, <2>1 DEF FailsOn, FailsAs
  <1>8. CASE Send(p)
    <2>1. c.pc = "running" /\ Delivers(p)
      BY <1>8, RunsAt, ClientOfCall, SendMoves DEF Send, StepNames
    <2> QED BY <2>1 DEF Delivers
  <1>9. CASE BulkSendFails(p)
    BY <1>9, BulkSendFailsMoves
  <1>10. CASE Drop(p)
    BY <1>10, DropMoves, StepFacts DEF Drop, StepNames
  <1>11. CASE Dropped(p)
    BY <1>11, DroppedMoves
  <1>12. CASE StreamSend(p)
    <2>1. c.pc = "running"
      BY <1>12, RunsAt, StreamSendMoves DEF StepNames
    <2> QED BY <1>12, <2>1, StreamSendMoves
  <1>13. CASE Result(p)
    BY <1>13, ResultMoves
  <1> QED BY <1>1, <1>2, <1>3, <1>4, <1>5, <1>6, <1>7, <1>8, <1>9, <1>10, <1>11, <1>12, <1>13 DEF Kinds

\* The cache of those that only ever fill it.
Fills ==
  /\ sender \in KubeMQs /\ cache # 0 => cache' # 0
  /\ sender = "snssqs" /\ cache = 1 => cache' = 1

\* No call empties the cache of KubeMQ or of snssqs.
LEMMA CallsFill ==
  ASSUME PublicationsTyped, Shape, NEW p \in Publishers, PlaceInv(p), ClientInv(p), CallStep(p)
  PROVE  Fills
  <1>1. CASE cache' = cache
    BY <1>1 DEF Fills
  <1>2. CASE Store(p)
    <2>1. StepAt(p) = "store" /\ cache' = IF sender \in Remembers THEN 1 ELSE publication[p].client
      BY <1>2, StoreMoves DEF Store, Uses
    <2>2. sender \notin Remembers => publication[p].client \in Clients
      BY <2>1 DEF ClientInv, Made
    <2> QED BY <2>1, <2>2, SmallNumbers DEF Fills, Remembers
  <1>3. CASE cache' = NilFunc /\ sender \in KubeMQs
    BY <1>3, SmallNumbers DEF Fills, KubeMQs
  <1>4. CASE sender \in Droppers
    BY <1>4 DEF Fills, Droppers, KubeMQs
  <1> QED BY <1>1, <1>2, <1>3, <1>4, CacheMoves

\* Nor do the surroundings.
LEMMA FillsOutside ==
  ASSUME CacheInv, Surroundings
  PROVE  Fills
  <1>1. CASE OtherCreates \/ CacheRefresh \/ Redial
    BY <1>1 DEF OtherCreates, CacheRefresh, Redial, Fills, KubeMQs
  <1>2. CASE Redialled
    BY <1>2 DEF Redialled, CacheInv, Fills, KubeMQs
  <1>3. CASE Shut
    <2>1. sender \in KubeMQs \cup {"snssqs"} => sender \notin ForgetsClient
      BY DEF KubeMQs, ForgetsClient, Kafkas, EventHubs, ServiceBuses
    <2>2. cache' = IF sender \in ForgetsClient THEN 0 ELSE cache
      BY <1>3 DEF Shut
    <2> QED BY <2>1, <2>2 DEF Fills
  <1>4. ASSUME NEW k \in 1..MaxClients, Breaks(k) \/ Recover(k) PROVE Fills
    BY <1>4 DEF Breaks, Recover, Fills
  <1> QED BY <1>1, <1>2, <1>3, <1>4 DEF Surroundings

\* A step of anybody else leaves a call its client.
LEMMA ClientFrame ==
  ASSUME PublicationsTyped, NEW q \in Publishers, ClientInv(q), publication'[q] = publication[q],
         sender' = sender, Stays, Fills
  PROVE  ClientInv(q)'
  <1> HIDE DEF Steps
  <1>1. Steps' = Steps /\ OnDemand' = OnDemand /\ Remembers' = Remembers /\ KubeMQs' = KubeMQs
    BY DEF Steps, OnDemand, Remembers, KubeMQs, EventHubs, ServiceBuses
  <1>2. StepAt(q)' = StepAt(q)
    BY <1>1 DEF StepAt
  <1>3. publication[q] \in Publication
    BY CallTyped
  <1>4. \A k : k \in Clients /\ connection[k] # "none" => connection'[k] # "none"
    BY DEF Stays
  <1> QED BY <1>1, <1>2, <1>3, <1>4, SmallNumbers DEF ClientInv, Made, Fills

\* A step of a call leaves it the client that it goes on with.
LEMMA ClientKept ==
  ASSUME PublicationsTyped, Shape, CacheInv, NEW p \in Publishers, PlaceInv(p), ClientInv(p),
         CallStep(p), sender' = sender, Stays
  PROVE  ClientInv(p)'
  <1> HIDE DEF Steps, AfterStore, NewClient
  <1> DEFINE c == publication[p]
             d == publication'[p]
             T == StepAt(p)'
             Has(k) == k \in Clients /\ connection'[k] # "none"
             Owners == OnDemand \cup {"solace", "rabbitBinding"}
  <1>1. /\ OnDemand' = OnDemand /\ Remembers' = Remembers /\ KubeMQs' = KubeMQs
        /\ \A k : Made(k) => Has(k)
    BY DEF OnDemand, Remembers, KubeMQs, EventHubs, ServiceBuses, Made, Stays
  <1>2. /\ d.bad # 0 => Has(d.bad)
        /\ d.pc = "dropped" => d.dropped = 0 \/ Has(d.dropped)
    <2>1. d.bad # 0 => Has(d.bad)
      <3>1. CASE d.bad = c.bad
        BY <1>1, <3>1 DEF ClientInv
      <3>2. CASE CanSend(p) /\ d.bad = ClientOf(p)
        BY <1>1, <3>2, ClientOfMade
      <3> QED BY <3>1, <3>2, BadMoves
    <2>2. d.pc = "dropped" => d.dropped = 0 \/ Has(d.dropped)
      <3>1. CASE c.pc = "dropped" /\ d.dropped = c.dropped
        BY <1>1, <3>1 DEF ClientInv
      <3>2. CASE Drop(p) /\ d.dropped = cache /\ c.pc = "drop"
        <4>1. sender \in Droppers
          BY <3>2 DEF PlaceInv
        <4>2. cache \in Clients \cup {0}
          BY <4>1 DEF PublicationsTyped, CacheInv, Droppers, KubeMQs
        <4> QED BY <1>1, <3>2, <4>2 DEF CacheInv
      <3> QED BY <3>1, <3>2, BadMoves
    <2> QED BY <2>1, <2>2
  <1>3. ASSUME T = "send" /\ sender \in Owners => Has(d.client),
               T \in {"store", "stream"} /\ sender \notin Remembers => Has(d.client),
               sender \in KubeMQs /\ T \in {"send", "await"} => cache' # 0,
               sender = "snssqs" /\ T = "send" => cache' = 1 \/ d.hit
        PROVE  ClientInv(p)'
    BY <1>1, <1>2, <1>3, SmallNumbers DEF ClientInv, Made
  <1>4. ASSUME T \notin {"send", "store", "stream", "await"} PROVE ClientInv(p)'
    BY <1>3, <1>4
  \* The client of the cache.
  <1>5. ASSUME cache # 0, T = "send", d.client = cache, cache' = cache PROVE ClientInv(p)'
    <2>1. sender \in Owners => Has(cache)
      BY <1>1, <1>5 DEF CacheInv, PublicationsTyped, OnDemand, EventHubs, ServiceBuses, KubeMQs
    <2>2. sender = "snssqs" => cache = 1
      BY <1>5 DEF CacheInv, Remembers
    <2> QED BY <1>3, <1>5, <2>1, <2>2
  <1>6. CASE Call(p)
    <2>1. T = Steps[1] /\ d.client = c.client
      BY <1>6, CallBegins DEF CallMoves, StepAt, Steps
    <2>2. T \notin {"store", "stream", "await"}
      BY <2>1 DEF Shape, BeginsWell
    <2>3. T = "send" => sender \notin Owners \cup KubeMQs \cup {"snssqs"}
      BY <2>1 DEF Shape, BeginsWell, OnDemand, KubeMQs, EventHubs, ServiceBuses
    <2> QED BY <1>3, <2>2, <2>3
  <1>7. CASE CheckClosed(p)
    <2>1. T \in {"error", "connect", "lookup"} \/ (T = "send" /\ sender \in {"jetStream", "mqtt3"})
      BY <1>7, ReadsComeTo
    <2>2. sender \in {"jetStream", "mqtt3"} => sender \notin Owners \cup KubeMQs \cup {"snssqs"}
      BY DEF OnDemand, KubeMQs, EventHubs, ServiceBuses
    <2> QED BY <1>3, <2>1, <2>2
  <1>8. CASE ReadClient(p)
    <2>1. CASE cache = 0
      BY <1>4, <1>8, <2>1, ReadsComeTo
    <2>2. CASE cache # 0
      <3>1. T = "send" /\ d.client = cache
        BY <1>8, <2>2, ReadsComeTo, ReadClientMoves DEF Walks
      <3>2. cache' = cache
        BY <1>8 DEF ReadClient
      <3> QED BY <1>5, <2>2, <3>1, <3>2
    <2> QED BY <2>1, <2>2
  <1>9. CASE Lookup(p) \/ Lock(p)
    <2>1. CASE cache = 0
      <3>1. T \in {"lock", "init", "ensure", "create", "connect"}
        BY <1>9, <2>1, ReadsComeTo
      <3> QED BY <1>4, <3>1
    <2>2. CASE cache # 0
      <3>1. T = "send" /\ d.client = cache
        BY <1>9, <2>2, ReadsComeTo, LookupMoves DEF Walks
      <3>2. cache' = cache
        BY <1>9 DEF Lookup, Lock
      <3> QED BY <1>5, <2>2, <3>1, <3>2
    <2> QED BY <2>1, <2>2
  <1>10. CASE InitLock(p)
    BY <1>4, <1>10, ReadsComeTo
  <1>11. CASE Ask(p)
    <2>1. /\ sender \in {"sqs", "cfQueues"} => sender \notin Owners \cup KubeMQs \cup {"snssqs"}
          /\ "gcp" \in Remembers
      BY DEF OnDemand, KubeMQs, EventHubs, ServiceBuses, Remembers
    <2>2. \/ T \in {"create", "connect"}
          \/ T = "store" /\ sender = "gcp"
          \/ T = "send" /\ sender \in {"sqs", "cfQueues"}
      BY <1>11, MakesComeTo
    <2> QED BY <1>3, <2>1, <2>2
  <1>12. CASE Create(p)
    <2>1. T \in {"error", "lookup", "connect"} \/ (T = "store" /\ sender \in Remembers)
      <3>1. c.pc = "running"
        BY <1>12, RunsAt DEF Create, StepNames
      <3> QED BY <1>12, <3>1, MakesComeTo, FaultComesTo
    <2> QED BY <1>3, <2>1
  <1>13. CASE RequestFails(p)
    <2>1. c.pc = "running"
      BY <1>13, RunsAt DEF RequestFails, StepNames
    <2>2. CASE Jumps(p)
      <3>1. T = "send" /\ sender = "snssqs" /\ d.hit
        BY <2>1, <2>2, Positions DEF Jumps, Keepers, Remembers, StepAt, Steps
      <3>2. sender \notin Owners \cup KubeMQs
        BY <3>1 DEF OnDemand, KubeMQs, EventHubs, ServiceBuses
      <3> QED BY <1>3, <3>1, <3>2
    <2>3. CASE Faults(p)
      <3>1. T \in {"error", "lookup"}
        BY <2>1, <2>3, FaultComesTo
      <3> QED BY <1>4, <3>1
    <2> QED BY <1>13, <2>2, <2>3, RequestFailsMoves
  <1>14. CASE Connect(p)
    <2>1. c.pc = "running"
      BY <1>14, RunsAt DEF Connect, StepNames
    <2>2. CASE \E how \in {"error", "panicked"} : Over(p, how)
      <3>1. T \in {"error", "panicked"}
        BY <2>2, ComesToRest DEF Over
      <3> QED BY <1>4, <3>1
    <2>3. CASE Faults(p)
      <3>1. T \in {"error", "lookup"}
        BY <2>1, <2>3, FaultComesTo
      <3> QED BY <1>4, <3>1
    <2>4. CASE /\ Walks(p, Pc(p) + 1, NewClient) /\ NewClient \in Clients
               /\ connection' = [connection EXCEPT ![NewClient] = "up"]
      <3>1. d.client = NewClient /\ Has(NewClient)
        BY <2>4 DEF Walks, PublicationsTyped
      <3>2. T \in {"send", "stream", "store"} /\ (T = "send" => sender = "solace")
        BY <1>14, <2>4, MakesComeTo
      <3>3. "solace" \notin KubeMQs
        BY DEF KubeMQs
      <3> QED BY <1>3, <3>1, <3>2, <3>3
    <2> QED BY <1>14, <2>2, <2>3, <2>4, ConnectMoves
  <1>15. CASE Stream(p)
    <2>1. StepAt(p) = "stream" /\ c.pc = "running" /\ sender \in KubeMQs
      BY <1>15, RunsAt, MakesComeTo DEF Stream, StepNames
    <2>2. CASE Faults(p)
      <3>1. T \in {"error", "lookup"}
        BY <2>1, <2>2, FaultComesTo
      <3> QED BY <1>4, <3>1
    <2>3. CASE Walks(p, Pc(p) + 1, Uses(p)) /\ ~Faults(p)
      <3>1. T = "store" /\ d.client = c.client
        BY <1>15, <2>3, MakesComeTo DEF Walks, Uses
      <3>2. Made(c.client)
        BY <2>1 DEF ClientInv, KubeMQs, Remembers
      <3> QED BY <1>1, <1>3, <3>1, <3>2
    <2> QED BY <1>15, <2>2, <2>3, StreamMoves
  <1>16. CASE Store(p)
    <2>1. /\ StepAt(p) = "store" /\ T = "send" /\ d.client = cache'
          /\ cache' = IF sender \in Remembers THEN 1 ELSE c.client
      BY <1>16, StoreMoves, MakesComeTo DEF Store, Walks, Uses
    <2>2. sender \in Owners \cup KubeMQs => sender \notin Remembers
      BY DEF Remembers, OnDemand, KubeMQs, EventHubs, ServiceBuses
    <2>3. sender \notin Remembers => Has(c.client)
      BY <1>1, <2>1 DEF ClientInv
    <2> QED BY <1>3, <2>1, <2>2, <2>3, SmallNumbers DEF Remembers
  <1>17. CASE Send(p)
    <2>1. /\ StepAt(p) = "send" /\ d.client = c.client
          /\ T = "ok" \/ (T = "send" /\ sender \in {"solace", "rocketMQBinding"})
      BY <1>17, SendMoves, SendsComeTo DEF Delivers, Rest
    <2>2. sender \in {"solace", "rocketMQBinding"} => sender \notin KubeMQs
      BY DEF KubeMQs
    <2>3. sender \in Owners => Has(c.client)
      BY <1>1, <2>1 DEF ClientInv
    <2> QED BY <1>3, <2>1, <2>2, <2>3
  <1>18. ASSUME StepAt(p) = "send", FailsAs(p, d) PROVE ClientInv(p)'
    <2>1. /\ d.client = c.client
          /\ T \in {"error", "drop", "lookup"} \/ (T = "send" /\ sender \in {"mqtt3Binding", "solace"})
      BY <1>18, SendsComeTo DEF FailsAs, Rest
    <2>2. sender \in {"mqtt3Binding", "solace"} => sender \notin KubeMQs
      BY DEF KubeMQs
    <2>3. sender \in Owners => Has(c.client)
      BY <1>1, <1>18 DEF ClientInv
    <2> QED BY <1>3, <2>1, <2>2, <2>3
  <1>19. CASE SendFails(p)
    BY <1>18, <1>19, SendFailsMoves, ClientOfCall DEF SendFails
  <1>20. CASE SendRefused(p)
    <2>1. CASE CanSend(p)
      BY <1>18, <1>20, <2>1, SendRefusedMoves DEF SendRefused
    <2>2. CASE ~CanSend(p)
      <3>1. T = "panicked"
        BY <1>20, <2>2, SendRefusedMoves, ComesToRest DEF Over
      <3> QED BY <1>4, <3>1
    <2> QED BY <2>1, <2>2
  <1>21. CASE BulkSendFails(p) \/ Drop(p) \/ Dropped(p)
    <2>1. T \in {"error", "dropped", "lookup"}
      BY <1>21, SendsComeTo
    <2> QED BY <1>4, <2>1
  <1>22. CASE StreamSend(p)
    <2>1. sender = "kubeMQStore" /\ StepAt(p) = "send" /\ T = "await" /\ cache' = cache
      BY <1>22, SendsComeTo DEF StreamSend
    <2>2. cache # 0
      BY <2>1 DEF ClientInv, KubeMQs
    <2> QED BY <1>3, <2>1, <2>2
  <1>23. CASE Result(p)
    <2>1. T = StepAt(p) /\ d.client = c.client /\ d.hit = c.hit /\ cache' = cache
      BY <1>23, SendsComeTo, ResultMoves DEF Result
    <2> QED BY <1>1, <1>3, <2>1 DEF ClientInv
  <1>24. CASE Await(p)
    BY <1>4, <1>24, SendsComeTo
  <1> QED BY <1>6, <1>7, <1>8, <1>9, <1>10, <1>11, <1>12, <1>13, <1>14, <1>15, <1>16, <1>17,
             <1>19, <1>20, <1>21, <1>22, <1>23, <1>24 DEF CallStep

-----------------------------------------------------------------------------
(* Publications: the lock.                                                 *)

\* A call enters under the lock, stays there or leaves it.
LEMMA LockedMoves ==
  ASSUME PublicationsTyped, Shape, NEW p \in Publishers, PlaceInv(p), StreamInv(p), CallStep(p),
         sender \in Locked, sender' = sender
  PROVE  \/ /\ StepAt(p) \notin UnderLock /\ StepAt(p)' \notin UnderLock
            /\ mutex' \in {mutex, Unlocked(p)}
         \/ /\ Lock(p) /\ cache = 0 /\ StepAt(p) \notin UnderLock
            /\ StepAt(p)' \in UnderLock \ {"store"} /\ mutex = 0 /\ mutex' = p
         \/ /\ StepAt(p) \in UnderLock /\ StepAt(p)' \in UnderLock /\ mutex' = mutex
            /\ ~Store(p) /\ ~Drop(p)
            /\ StepAt(p)' = "store" => Connect(p) /\ Walks(p, Pc(p) + 1, NewClient)
         \/ StepAt(p) \in UnderLock /\ StepAt(p)' \notin UnderLock /\ mutex' = Unlocked(p)
  <1> HIDE DEF Steps, AfterStore, NewClient, Unlocked
  <1> DEFINE c == publication[p]
             d == publication'[p]
             T == StepAt(p)'
  <1>1. /\ sender \notin KubeMQs \cup Remembers \cup Kafkas
        /\ sender \notin {"solace", "rabbitBinding", "sqs", "cfQueues", "jetStream", "mqtt3", "pulsar", "kubeMQStore"}
    BY DEF Locked, KubeMQs, Remembers, Kafkas, EventHubs, ServiceBuses
  <1>2. ASSUME StepAt(p) \notin UnderLock, T \notin UnderLock, ~Lock(p)
        PROVE  mutex' \in {mutex, Unlocked(p)}
    <2>1. ~InitLock(p)
      BY <1>1, ReadsComeTo
    <2> QED BY <1>2, <2>1, MutexMoves
  <1>3. CASE Call(p)
    <2>1. StepAt(p) = "idle" /\ T = Steps[1] /\ mutex' = mutex
      BY <1>3, CallBegins DEF Call, CallMoves, StepAt, Steps
    <2> QED BY <2>1 DEF Shape, BeginsWell, UnderLock
  <1>4. CASE CheckClosed(p)
    <2>1. StepAt(p) = "closed" /\ T \in {"error", "lookup"}
      BY <1>1, <1>4, ReadsComeTo DEF CheckClosed
    <2>2. mutex' \in {mutex, Unlocked(p)}
      BY <1>4, CheckClosedMoves
    <2> QED BY <2>1, <2>2 DEF UnderLock
  <1>5. CASE ReadClient(p) \/ InitLock(p) \/ Stream(p) \/ StreamSend(p) \/ Await(p)
    BY <1>1, <1>5, ReadsComeTo, MakesComeTo, SendsComeTo
  <1>6. CASE Lookup(p)
    <2>1. StepAt(p) = "lookup" /\ mutex' = mutex
      BY <1>6 DEF Lookup
    <2>2. CASE cache = 0
      <3>1. T = "lock"
        BY <1>1, <1>6, <2>2, ReadsComeTo DEF Remembers
      <3> QED BY <2>1, <3>1 DEF UnderLock
    <2>3. CASE cache # 0
      <3>1. T = "send"
        BY <1>6, <2>3, ReadsComeTo
      <3> QED BY <2>1, <3>1 DEF UnderLock
    <2> QED BY <2>2, <2>3
  <1>7. CASE Lock(p)
    <2>1. StepAt(p) = "lock" /\ mutex = 0
      BY <1>7 DEF Lock
    <2>2. CASE cache = 0
      <3>1. T \in {"ensure", "connect"} /\ mutex' = p
        BY <1>7, <2>2, ReadsComeTo DEF Lock
      <3> QED BY <1>7, <2>1, <2>2, <3>1 DEF UnderLock
    <2>3. CASE cache # 0
      <3>1. T = "send" /\ mutex' = mutex
        BY <1>7, <2>3, ReadsComeTo DEF Lock
      <3> QED BY <2>1, <3>1 DEF UnderLock
    <2> QED BY <2>2, <2>3
  <1>8. CASE Ask(p)
    <2>1. StepAt(p) = "ensure" /\ T \in {"create", "connect"} /\ mutex' = mutex
      BY <1>1, <1>8, MakesComeTo DEF Ask, Remembers
    <2>2. ~Store(p) /\ ~Drop(p)
      BY <2>1 DEF Store, Drop
    <2> QED BY <2>1, <2>2 DEF UnderLock
  <1>9. ASSUME Faults(p), c.pc = "running", mutex' = Unlocked(p)
        PROVE  T \notin UnderLock
    BY <1>9, FaultComesTo DEF UnderLock
  <1>10. CASE Create(p)
    <2>1. StepAt(p) = "create" /\ c.pc = "running" /\ StepAt(p) \in UnderLock /\ ~Store(p) /\ ~Drop(p)
      BY <1>10, RunsAt DEF Create, StepNames, UnderLock, Store, Drop
    <2>2. CASE Faults(p) /\ mutex' = Unlocked(p)
      BY <1>9, <2>1, <2>2
    <2>3. CASE Walks(p, Pc(p) + 1, Uses(p)) /\ mutex' = mutex
      <3>1. c.tries \in Nat
        BY CallTyped DEF Publication
      <3>2. ~Faults(p)
        BY <2>3, <3>1 DEF Faults, Walks
      <3>3. T = "connect"
        BY <1>1, <1>10, <3>2, MakesComeTo
      <3> QED BY <2>1, <2>3, <3>3 DEF UnderLock
    <2> QED BY <1>10, <2>2, <2>3, CreateMoves
  <1>11. CASE RequestFails(p)
    <2>1. /\ StepAt(p) \in {"ensure", "create", "url", "token", "connect"} /\ c.pc = "running"
          /\ sender # "snssqs"
      BY <1>1, <1>11, RunsAt DEF RequestFails, StepNames, Remembers
    <2>2. Faults(p) /\ mutex' = Unlocked(p)
      BY <1>11, <2>1, RequestFailsMoves DEF Jumps
    <2> QED BY <1>9, <2>1, <2>2
  <1>12. CASE Connect(p)
    <2>1. StepAt(p) = "connect" /\ StepAt(p) \in UnderLock /\ c.pc = "running" /\ ~Store(p) /\ ~Drop(p)
      BY <1>12, RunsAt DEF Connect, StepNames, UnderLock, Store, Drop
    <2>2. CASE Over(p, "panicked") /\ mutex' = Unlocked(p)
      <3>1. T = "panicked"
        BY <2>2, ComesToRest DEF Over
      <3> QED BY <2>1, <2>2, <3>1 DEF UnderLock
    <2>3. CASE Walks(p, Pc(p) + 1, NewClient) /\ mutex' = mutex
      <3>1. T = "store"
        BY <1>1, <1>12, <2>3, MakesComeTo
      <3> QED BY <1>12, <2>1, <2>3, <3>1 DEF UnderLock
    <2> QED BY <1>1, <1>12, <2>2, <2>3, ConnectMoves
  <1>13. CASE Store(p)
    <2>1. StepAt(p) = "store" /\ T = "send" /\ mutex' = Unlocked(p)
      BY <1>13, MakesComeTo, StoreMoves DEF Store
    <2> QED BY <2>1 DEF UnderLock
  <1>14. CASE Send(p) \/ SendFails(p) \/ SendRefused(p)
    <2>1. StepAt(p) = "send"
      BY <1>14, ClientOfCall DEF Send, SendFails, SendRefused
    <2>2. T \in {"ok", "send", "error", "drop", "lookup", "panicked"}
      <3>1. CASE Send(p)
        BY <3>1, SendsComeTo
      <3>2. CASE FailsAs(p, d)
        BY <2>1, <3>2, SendsComeTo
      <3>3. CASE Over(p, "panicked")
        BY <3>3, ComesToRest DEF Over
      <3> QED BY <1>14, <3>1, <3>2, <3>3, SendFailsMoves, SendRefusedMoves
    <2>3. ~Lock(p)
      BY <2>1 DEF Lock
    <2> QED BY <1>2, <2>1, <2>2, <2>3 DEF UnderLock
  <1>15. CASE BulkSendFails(p) \/ Drop(p) \/ Dropped(p)
    <2>1. StepAt(p) \in {"send", "drop", "dropped"} /\ T \in {"error", "dropped", "lookup"}
      BY <1>15, SendsComeTo, BulkSendFailsMoves DEF Drop, Dropped
    <2>2. mutex' = mutex
      BY <1>15 DEF BulkSendFails, Drop, Dropped
    <2> QED BY <2>1, <2>2 DEF UnderLock
  <1>16. CASE Result(p)
    <2>1. sender = "kubeMQStore"
      BY <1>16 DEF Result, StreamInv
    <2> QED BY <1>1, <2>1
  <1> QED BY <1>3, <1>4, <1>5, <1>6, <1>7, <1>8, <1>10, <1>11, <1>12, <1>13, <1>14, <1>15, <1>16 DEF CallStep

\* A step leaves the others where they are.
LEMMA OthersStay ==
  ASSUME NEW p \in Publishers, Changes(p), sender' = sender, NEW q \in Publishers \ {p}
  PROVE  StepAt(q)' = StepAt(q) /\ publication'[q] = publication[q]
  <1>1. publication'[q] = publication[q]
    BY DEF Changes
  <1> QED BY <1>1 DEF StepAt, Steps

\* The steps of the calls keep what the lock guards.
LEMMA LockKeptByCalls ==
  ASSUME PublicationsTyped, Shape, SenderLockInv, NEW p \in Publishers, PlaceInv(p), StreamInv(p),
         CallStep(p)
  PROVE  SenderLockInv'
  <1> HIDE DEF Steps, AfterStore, NewClient
  <1>1. sender' = sender /\ shut' = shut /\ Changes(p)
    BY CallFrame
  <1>2. UnderLock' = UnderLock /\ Locked' = Locked /\ ServiceBuses' = ServiceBuses
    BY DEF UnderLock, Locked, EventHubs, ServiceBuses
  <1> SUFFICES ASSUME sender \in Locked
               PROVE  /\ \A q \in Publishers : StepAt(q)' \in UnderLock <=> mutex' = q
                      /\ mutex' # 0 => cache' = 0
                      /\ sender \in ServiceBuses /\ shut =>
                           cache' = 0 /\ \A q \in Publishers : StepAt(q)' # "store"
    BY <1>1, <1>2, Zenon DEF SenderLockInv
  <1>3. /\ \A q \in Publishers : StepAt(q) \in UnderLock <=> mutex = q
        /\ mutex # 0 => cache = 0
        /\ sender \in ServiceBuses /\ shut => cache = 0 /\ \A q \in Publishers : StepAt(q) # "store"
    BY DEF SenderLockInv
  <1>4. 0 \notin Publishers /\ mutex \in Publishers \cup {0}
    BY PublicationsAssumption DEF PublicationsTyped
  <1>5. "store" \in UnderLock /\ sender \notin KubeMQs \cup Remembers
    BY DEF UnderLock, Locked, EventHubs, ServiceBuses, KubeMQs, Remembers
  <1>6. StepAt(p)' \in UnderLock <=> mutex' = p
    BY <1>1, <1>3, <1>4, LockedMoves DEF Unlocked
  <1>7. \A q \in Publishers \ {p} : mutex' = q <=> mutex = q
    BY <1>4, MutexMoves DEF Unlocked
  <1>8. \A q \in Publishers : StepAt(q)' \in UnderLock <=> mutex' = q
    <2>1. \A q \in Publishers \ {p} : StepAt(q)' = StepAt(q)
      BY <1>1, OthersStay
    <2> QED BY <1>3, <1>6, <1>7, <2>1
  <1>9. Store(p) => mutex = p /\ mutex' = 0
    BY <1>3, <1>5, StoreMoves DEF Store, Unlocked
  <1>10. mutex' # 0 => cache' = 0
    <2>1. CASE cache' = cache
      <3>1. mutex' # 0 => mutex # 0 \/ Lock(p)
        BY <1>1, <1>3, <1>4, LockedMoves DEF Unlocked
      <3>2. Lock(p) /\ mutex' # 0 => mutex # 0 \/ cache = 0
        BY DEF Lock
      <3> QED BY <1>3, <2>1, <3>1, <3>2
    <2> QED BY <1>5, <1>9, <2>1, CacheMoves
  <1>11. ASSUME sender \in ServiceBuses, shut
         PROVE  cache' = 0 /\ \A q \in Publishers : StepAt(q)' # "store"
    <2>1. ~Store(p)
      BY <1>3, <1>11 DEF Store
    <2>2. cache' = 0
      BY <1>3, <1>5, <1>11, <2>1, CacheMoves
    <2>3. ASSUME Connect(p) PROVE ~Walks(p, Pc(p) + 1, NewClient)
      <3>1. publication[p].pc = "running" /\ sender \notin {"pulsar", "solace"}
        BY <1>11, <2>3, RunsAt DEF Connect, StepNames, ServiceBuses
      <3>2. Over(p, "panicked")
        BY <1>11, <2>3, <3>1, ConnectMoves
      <3> QED BY <3>1, <3>2 DEF Over, Walks
    <2>4. StepAt(p)' # "store"
      BY <1>1, <1>3, <1>5, <1>11, <2>3, LockedMoves
    <2>5. \A q \in Publishers \ {p} : StepAt(q)' # "store"
      BY <1>1, <1>3, <1>11, OthersStay
    <2> QED BY <2>2, <2>4, <2>5
  <1> QED BY <1>8, <1>10, <1>11

\* Close keeps what the lock guards: it waits for it.
LEMMA LockKeptOutside ==
  ASSUME PublicationsTyped, CacheInv, SenderLockInv, Surroundings
  PROVE  SenderLockInv'
  <1> HIDE DEF Steps
  <1>1. sender' = sender /\ publication' = publication /\ mutex' = mutex
    BY SurroundingsFrame
  <1>2. /\ UnderLock' = UnderLock /\ Locked' = Locked /\ ServiceBuses' = ServiceBuses
        /\ \A q : StepAt(q)' = StepAt(q)
    BY <1>1 DEF UnderLock, Locked, EventHubs, ServiceBuses, StepAt, Steps
  <1> SUFFICES ASSUME sender \in Locked
               PROVE  /\ mutex # 0 => cache' = 0
                      /\ sender \in ServiceBuses /\ shut' =>
                           cache' = 0 /\ \A q \in Publishers : StepAt(q) # "store"
    BY <1>1, <1>2 DEF SenderLockInv
  <1>3. /\ \A q \in Publishers : StepAt(q) \in UnderLock <=> mutex = q
        /\ mutex # 0 => cache = 0
        /\ sender \in ServiceBuses /\ shut => cache = 0 /\ \A q \in Publishers : StepAt(q) # "store"
    BY DEF SenderLockInv
  <1>4. /\ sender \notin {"gcp", "rabbitBinding"} /\ "store" \in UnderLock /\ 0 \notin Publishers
        /\ ServiceBuses \subseteq ForgetsClient
    BY PublicationsAssumption DEF Locked, EventHubs, ServiceBuses, UnderLock, ForgetsClient
  <1>5. CASE cache' = cache /\ shut' = shut
    BY <1>3, <1>5
  <1>6. CASE Shut
    <2>1. cache' \in {0, cache} /\ (sender \in ServiceBuses => mutex = 0 /\ cache' = 0)
      BY <1>4, <1>6 DEF Shut
    <2> QED BY <1>3, <1>4, <2>1
  <1>7. CASE OtherCreates \/ CacheRefresh \/ Redial \/ Redialled
    BY <1>4, <1>5, <1>7 DEF OtherCreates, CacheRefresh, Redial, Redialled, CacheInv
  <1>8. ASSUME NEW k \in 1..MaxClients, Breaks(k) \/ Recover(k)
        PROVE  cache' = cache /\ shut' = shut
    BY <1>8 DEF Breaks, Recover
  <1> QED BY <1>5, <1>6, <1>7, <1>8 DEF Surroundings

-----------------------------------------------------------------------------
(* Publications: clients that are open.                                    *)

\* Whoever is about to store a client stores it, and whoever has taken one from the
\* cache goes on to close it.
LEMMA AtTheStore ==
  ASSUME PublicationsTyped, Shape, NEW p \in Publishers, PlaceInv(p), StreamInv(p), CallStep(p),
         sender \notin KubeMQs
  PROVE  /\ StepAt(p) = "store" => Store(p)
         /\ publication[p].pc = "dropped" => Dropped(p)
         /\ StepAt(p)' = "store" /\ sender' = sender =>
              \/ sender \in Remembers
              \/ Connect(p) /\ Walks(p, Pc(p) + 1, NewClient)
  <1> HIDE DEF Steps, NewClient, AfterStore
  <1>1. ~Result(p)
    BY DEF Result, StreamInv, KubeMQs
  <1>2. StepAt(p) = "store" => Store(p)
    <2>1. publication[p].pc = "idle" => StepAt(p) = "idle"
      BY DEF StepAt
    <2> QED BY <1>1, <2>1, ClientOfCall DEF CallStep, Call, CheckClosed, ReadClient, Lookup, Lock, InitLock, Ask, Create,
         RequestFails, Connect, Stream, Send, SendFails, BulkSendFails, SendRefused, Drop, Dropped, StreamSend, Await
  <1>3. publication[p].pc = "dropped" => Dropped(p)
    <2>1. publication[p].pc = "dropped" => StepAt(p) = "dropped"
      BY DEF StepAt
    <2> QED BY <1>1, <2>1, ClientOfCall DEF CallStep, Call, CheckClosed, ReadClient, Lookup, Lock, InitLock, Ask, Create,
         RequestFails, Connect, Stream, Store, Send, SendFails, BulkSendFails, SendRefused, Drop, StreamSend, Await
  <1>4. ASSUME StepAt(p)' = "store", sender' = sender, sender \notin Remembers
        PROVE  Connect(p) /\ Walks(p, Pc(p) + 1, NewClient)
    <2> DEFINE T == StepAt(p)'
    <2>1. ~Call(p)
      <3>1. Call(p) => T = Steps[1]
        BY <1>4, CallBegins DEF CallMoves, StepAt, Steps
      <3> QED BY <1>4, <3>1 DEF Shape, BeginsWell
    <2>2. ~CheckClosed(p) /\ ~ReadClient(p) /\ ~InitLock(p) /\ ~Store(p)
      BY <1>4, ReadsComeTo, MakesComeTo
    <2>3. ~Lookup(p) /\ ~Lock(p)
      <3>1. Lookup(p) /\ cache = 0 => T # "store"
        BY <1>4, ReadsComeTo
      <3> QED BY <1>4, <3>1, ReadsComeTo
    <2>4. ~Ask(p)
      BY <1>4, MakesComeTo DEF Remembers
    <2>5. Faults(p) /\ publication[p].pc = "running" => T # "store"
      BY <1>4, FaultComesTo
    <2>6. ~Create(p)
      <3>1. Create(p) => publication[p].pc = "running"
        BY RunsAt DEF Create, StepNames
      <3> QED BY <1>4, <2>5, <3>1, MakesComeTo
    <2>7. ~RequestFails(p)
      <3>1. RequestFails(p) => publication[p].pc = "running"
        BY RunsAt DEF RequestFails, StepNames
      <3> QED BY <1>4, <2>5, <3>1, SendsComeTo
    <2>8. ~Stream(p) /\ ~StreamSend(p) /\ ~Await(p)
      BY <1>4, MakesComeTo, SendsComeTo
    <2>9. ~Send(p) /\ ~BulkSendFails(p) /\ ~Drop(p) /\ ~Dropped(p)
      BY <1>4, SendsComeTo
    <2>10. StepAt(p) = "send" => ~FailsAs(p, publication'[p])
      BY <1>4, SendsComeTo DEF Droppers
    <2>11. ASSUME NEW how \in {"error", "panicked"} PROVE ~Over(p, how)
      BY <1>4, ComesToRest DEF Over
    <2>12. ~SendFails(p)
      BY <2>10, SendFailsMoves, ClientOfCall DEF SendFails
    <2>13. ~SendRefused(p)
      BY <2>10, <2>11, SendRefusedMoves DEF SendRefused
    <2>14. Connect(p)
      BY <1>1, <2>1, <2>2, <2>3, <2>4, <2>6, <2>7, <2>8, <2>9, <2>12, <2>13 DEF CallStep
    <2>15. publication[p].pc = "running"
      BY <2>14, RunsAt DEF Connect, StepNames
    <2> QED BY <1>4, <2>5, <2>11, <2>14, <2>15, ConnectMoves
  <1> QED BY <1>2, <1>3, <1>4

\* The steps of the calls leave no client open that nobody has.
LEMMA OpenKeptByCalls ==
  ASSUME PublicationsTyped, Shape, CacheInv, SenderLockInv, OpenInv, NEW p \in Publishers,
         PlaceInv(p), StreamInv(p), CallStep(p)
  PROVE  OpenInv'
  <1> HIDE DEF Steps, NewClient, AfterStore
  <1> DEFINE Held(q, k) == \/ StepAt(q) = "store" /\ publication[q].client = k
                           \/ publication[q].pc = "dropped" /\ publication[q].dropped = k
             HeldNow(q, k) == \/ StepAt(q)' = "store" /\ publication'[q].client = k
                              \/ publication'[q].pc = "dropped" /\ publication'[q].dropped = k
  <1>1. /\ sender' = sender /\ reconnecting' = reconnecting /\ Changes(p)
        /\ LeaksClients' = LeaksClients /\ Remembers' = Remembers
    BY CallFrame DEF LeaksClients, KubeMQs, Remembers
  <1> SUFFICES ASSUME sender \notin LeaksClients, NEW k \in Clients, connection'[k] \in {"up", "broken"}
               PROVE  \/ k \in {cache', reconnecting}
                      \/ k = 1 /\ sender \in Remembers
                      \/ \E q \in Publishers : HeldNow(q, k)
    BY <1>1, SmallNumbers, Zenon DEF OpenInv
  <1>2. sender \notin KubeMQs \cup {"pulsar", "solace", "rocketMQ"} /\ k # 0
    BY SmallNumbers DEF LeaksClients
  <1>3. connection \in [Clients -> {"none", "up", "broken", "closed"}]
    BY DEF PublicationsTyped
  <1>4. CASE sender \in Remembers
    <2>1. ~Connect(p)
      BY <1>1, <1>4, MakesComeTo DEF Remembers, OnDemand, EventHubs, ServiceBuses, KubeMQs
    <2>2. connection' = connection
      BY <1>4, <2>1, ConnectionMoves DEF Remembers
    <2> QED BY <1>4, <2>2 DEF CacheInv, Made
  <1>5. CASE sender \notin Remembers /\ connection[k] \notin {"up", "broken"}
    <2>1. Connect(p) /\ k = NewClient
      BY <1>3, <1>5, ConnectionMoves
    <2>2. sender \in OnDemand
      BY <1>1, <1>2, <2>1, MakesComeTo
    <2>3. Walks(p, Pc(p) + 1, NewClient)
      <3>1. connection' # connection
        BY <1>5
      <3> QED BY <2>1, <3>1, ConnectMoves
    <2>4. StepAt(p)' = "store" /\ publication'[p].client = k
      BY <1>1, <1>2, <2>1, <2>2, <2>3, MakesComeTo DEF Walks
    <2> QED BY <2>4
  <1>6. CASE sender \notin Remembers /\ connection[k] \in {"up", "broken"}
    <2>1. \/ k \in {cache, reconnecting}
          \/ \E q \in Publishers : Held(q, k)
      BY <1>6 DEF OpenInv
    <2>2. CASE k = reconnecting
      BY <2>2
    <2>3. CASE k = cache
      <3>1. CASE cache' = cache
        BY <2>3, <3>1
      <3>2. CASE Store(p) /\ sender \in Keepers
        <4>1. sender \in Locked /\ mutex = p
          BY <1>2, <1>6, <3>2 DEF Keepers, OnDemand, Locked, Store, SenderLockInv, UnderLock
        <4> QED BY <1>2, <2>3, <4>1, PublicationsAssumption DEF SenderLockInv
      <3>3. CASE Drop(p)
        <4>1. publication'[p].pc = "dropped" /\ publication'[p].dropped = k
          BY <2>3, <3>3, DropMoves
        <4> QED BY <4>1
      <3> QED BY <1>2, <3>1, <3>2, <3>3, CacheMoves
    <2>4. ASSUME NEW q \in Publishers, Held(q, k)
          PROVE  k = cache' \/ \E r \in Publishers : HeldNow(r, k)
      <3>1. CASE q # p
        <4>1. HeldNow(q, k)
          BY <1>1, <2>4, <3>1, OthersStay
        <4> QED BY <4>1
      <3>2. CASE q = p /\ StepAt(p) = "store" /\ publication[p].client = k
        <4>1. Store(p)
          BY <1>2, <3>2, AtTheStore
        <4> QED BY <1>6, <3>2, <4>1, StoreMoves DEF Uses
      <3>3. CASE q = p /\ publication[p].pc = "dropped" /\ publication[p].dropped = k
        <4>1. Dropped(p)
          BY <1>2, <3>3, AtTheStore
        <4>2. connection'[k] = "closed"
          BY <1>2, <1>3, <3>3, <4>1, DroppedMoves
        <4> QED BY <4>2
      <3> QED BY <2>4, <3>1, <3>2, <3>3
    <2> QED BY <2>1, <2>2, <2>3, <2>4
  <1> QED BY <1>4, <1>5, <1>6

\* Nor do Close, reconnectWhenNecessary and the connections.
LEMMA OpenKeptOutside ==
  ASSUME PublicationsTyped, CacheInv, OpenInv, Surroundings
  PROVE  OpenInv'
  <1> HIDE DEF Steps, NewClient
  <1> DEFINE Held(q, k) == \/ StepAt(q) = "store" /\ publication[q].client = k
                           \/ publication[q].pc = "dropped" /\ publication[q].dropped = k
  <1>1. /\ sender' = sender /\ publication' = publication
        /\ LeaksClients' = LeaksClients /\ Remembers' = Remembers
        /\ \A q : StepAt(q)' = StepAt(q)
    BY SurroundingsFrame DEF LeaksClients, KubeMQs, Remembers, StepAt, Steps
  <1> SUFFICES ASSUME sender \notin LeaksClients, NEW k \in Clients, connection'[k] \in {"up", "broken"}
               PROVE  \/ k \in {cache', reconnecting'}
                      \/ k = 1 /\ sender \in Remembers
                      \/ \E q \in Publishers : Held(q, k)
    BY <1>1, SmallNumbers, Zenon DEF OpenInv
  <1>2. sender \notin KubeMQs \cup {"pulsar", "solace", "rocketMQ"} /\ k # 0
    BY SmallNumbers DEF LeaksClients
  <1>3. connection \in [Clients -> {"none", "up", "broken", "closed"}]
    BY DEF PublicationsTyped
  <1>4. connection[k] \in {"up", "broken"} =>
          \/ k \in {cache, reconnecting}
          \/ k = 1 /\ sender \in Remembers
          \/ \E q \in Publishers : Held(q, k)
    BY DEF OpenInv
  <1>5. CASE OtherCreates \/ CacheRefresh
    <2>1. /\ connection' = connection /\ reconnecting' = reconnecting
          /\ cache' = cache \/ sender = "gcp"
      BY <1>5 DEF OtherCreates, CacheRefresh
    <2> QED BY <1>4, <2>1 DEF CacheInv, Made, Remembers
  <1>6. CASE Redial
    <2>1. /\ cache' = cache /\ reconnecting = 0 /\ reconnecting' = NewClient
          /\ k # NewClient => connection'[k] = connection[k]
      BY <1>3, <1>6 DEF Redial
    <2> QED BY <1>2, <1>4, <2>1
  <1>7. CASE Redialled
    <2>1. cache' = reconnecting
      BY <1>7 DEF Redialled
    <2>2. connection'[k] = connection[k] /\ k # cache
      BY <1>2, <1>3, <1>7 DEF Redialled
    <2> QED BY <1>4, <2>1, <2>2
  <1>8. CASE Shut
    <2>1. /\ connection'[k] = (IF k \in ClosedByClose THEN "closed" ELSE connection[k])
          /\ reconnecting' = reconnecting
          /\ cache' = IF sender \in ForgetsClient THEN 0 ELSE cache
      BY <1>8 DEF Shut, Clients
    <2>2. k \notin ClosedByClose /\ connection[k] \in {"up", "broken"}
      BY <2>1
    <2>3. CASE sender \notin ForgetsClient
      BY <1>4, <2>1, <2>2, <2>3
    <2>4. CASE sender \in EventHubs \cup {"mqtt3Binding", "rabbitBinding"}
      <3>1. k # cache
        BY <1>2, <2>2, <2>4 DEF ClosedByClose, EventHubs, KubeMQs
      <3> QED BY <1>4, <2>1, <2>2, <3>1
    <2>5. CASE sender \in Kafkas \cup ServiceBuses
      <3>1. k \in ClosedByClose
        BY <2>2, <2>5 DEF ClosedByClose, EventHubs, KubeMQs, Kafkas, ServiceBuses, Clients
      <3> QED BY <2>2, <3>1
    <2> QED BY <1>2, <2>3, <2>4, <2>5 DEF ForgetsClient
  <1>9. ASSUME NEW l \in 1..MaxClients, Breaks(l) \/ Recover(l)
        PROVE  /\ connection[k] \in {"up", "broken"}
               /\ cache' = cache /\ reconnecting' = reconnecting
    BY <1>3, <1>9 DEF Breaks, Recover, Clients
  <1> QED BY <1>4, <1>5, <1>6, <1>7, <1>8, <1>9 DEF Surroundings

-----------------------------------------------------------------------------
(* Publications: calls after Close, and the reasons for which calls fail.  *)

\* The actions of a call by the step that it is at.
LEMMA ActsAt ==
  ASSUME PublicationsTyped, Shape, NEW p \in Publishers, PlaceInv(p), CallStep(p), ~Result(p)
  PROVE  /\ StepAt(p) = "idle" => Call(p)
         /\ StepAt(p) = "closed" => CheckClosed(p)
         /\ StepAt(p) \in {"producer", "channel"} => ReadClient(p)
         /\ StepAt(p) = "lookup" => Lookup(p)
         /\ StepAt(p) = "lock" => Lock(p)
         /\ StepAt(p) = "init" => InitLock(p)
         /\ StepAt(p) = "connect" => Connect(p) \/ RequestFails(p)
         /\ StepAt(p) = "send" => \/ Send(p) \/ SendFails(p) \/ BulkSendFails(p)
                                  \/ SendRefused(p) \/ StreamSend(p)
         /\ StepAt(p) = "await" => Await(p)
         /\ StepAt(p) = "drop" => Drop(p)
         /\ StepAt(p) \notin {"ok", "error", "panicked"}
  <1>1. publication[p].pc = "idle" => StepAt(p) = "idle"
    BY DEF StepAt
  <1> QED BY <1>1, ClientOfCall DEF CallStep, Call, CheckClosed, ReadClient, Lookup, Lock, InitLock, Ask, Create,
         RequestFails, Connect, Stream, Store, Send, SendFails, BulkSendFails, SendRefused, Drop, Dropped, StreamSend, Await

\* Only the beginning of a call looks at whether Close has been called before it.
LEMMA LateMoves ==
  ASSUME PublicationsTyped, Shape, NEW p \in Publishers, PlaceInv(p), CallStep(p), ~Call(p)
  PROVE  publication'[p].late = publication[p].late
  <1>1. Kinds(p)
    BY CallStepKinds
  <1>2. CASE CallMoves(p)
    <2>1. StepAt(p) = "idle" /\ ~Result(p)
      <3>1. StepAt(p) = "idle" /\ NoPublication.streamed = FALSE
        BY <1>2 DEF CallMoves, StepAt, NoPublication
      <3> QED BY <1>2, <3>1, ResultMoves DEF CallMoves, PlaceInv
    <2> QED BY <2>1, ActsAt
  <1>3. CASE Proceeds(p) \/ Stops(p) \/ BreaksOff(p) \/ SkipsOn(p) \/ FailsOn(p)
    BY <1>3 DEF Proceeds, Stops, BreaksOff, SkipsOn, FailsOn, Walks, Over, Faults, Jumps, FailsAs, Kept, Rest
  <1>4. CASE Send(p) \/ BulkSendFails(p) \/ Drop(p) \/ Dropped(p) \/ StreamSend(p) \/ Result(p)
    BY <1>4, SendMoves, BulkSendFailsMoves, DropMoves, DroppedMoves, StreamSendMoves, ResultMoves
       DEF Delivers, Rest
  <1> QED BY <1>1, <1>2, <1>3, <1>4 DEF Kinds

\* A call that comes after Close does not get past the look at closed, or past a client
\* that is gone.
LEMMA LateKept ==
  ASSUME PublicationsTyped, Shape, CacheInv, SenderLockInv, NEW p \in Publishers, PlaceInv(p),
         StreamInv(p), LateInv(p), ClientInv(p), CallStep(p)
  PROVE  LateInv(p)'
  <1> HIDE DEF Steps, NewClient, AfterStore
  <1> DEFINE c == publication[p]
             d == publication'[p]
             T == StepAt(p)'
             Invokers == {"gcpBinding", "kubeMQBinding"}
  <1>1. /\ sender' = sender /\ shut' = shut /\ ServesAfterClose' = ServesAfterClose
    BY CallFrame DEF ServesAfterClose, EventHubs, KubeMQs
  <1> SUFFICES ASSUME d.late, sender \notin ServesAfterClose
               PROVE  /\ shut
                      /\ d.pc \in {"running", "error", "panicked"}
                      /\ d.pc = "running" =>
                           \/ T \in {"producer", "init", "closed"}
                           \/ sender = "serviceBusBinding" /\ T \in {"lookup", "lock", "connect"}
                           \/ sender \in Invokers
    BY <1>1, Zenon DEF LateInv
  <1>2. /\ sender \notin KubeMQs \cup EventHubs /\ "kubeMQStore" \in KubeMQs /\ ~Result(p)
        /\ sender \notin {"rabbitBinding", "sqs", "cfQueues"}
    BY DEF ServesAfterClose, KubeMQs, Result, StreamInv
  <1>3. d.pc \notin {"running"} => T = d.pc
    BY ComesToRest
  <1>4. CASE Call(p)
    <2>1. d.pc = "running" /\ shut /\ T = Steps[1]
      BY <1>1, <1>4, CallBegins DEF CallMoves, StepAt, Steps
    <2>2. /\ 1 \in 1..Len(Steps)
          /\ Steps[1] \in {"producer", "channel", "closed", "lookup", "init", "url", "token", "send"}
          /\ Steps[1] = "lookup" => sender \in EventHubs \cup KubeMQs \cup {"serviceBusBinding", "mqtt3Binding"}
          /\ Steps[1] = "send" => sender \in {"kinesis", "sns", "gcpBinding", "storageQueues",
                                             "rocketMQBinding", "kubeMQBinding"}
      BY DEF Shape, BeginsWell
    <2>3. Steps[1] \notin {"channel", "url", "token"}
      BY <1>2, <2>2 DEF Shape, ReadsInOrder
    <2>4. sender \notin {"kinesis", "sns", "storageQueues", "rocketMQBinding", "mqtt3Binding"}
      BY DEF ServesAfterClose
    <2> QED BY <1>2, <2>1, <2>2, <2>3, <2>4
  <1>5. CASE ~Call(p)
    <2>1. /\ shut /\ c.pc \in {"running", "error", "panicked"}
          /\ c.pc = "running" =>
               \/ StepAt(p) \in {"producer", "init", "closed"}
               \/ sender = "serviceBusBinding" /\ StepAt(p) \in {"lookup", "lock", "connect"}
               \/ sender \in Invokers
      BY <1>5, LateMoves DEF LateInv
    <2>2. c.pc = "running"
      BY <1>2, <2>1, ActsAt DEF StepAt
    <2>3. CASE StepAt(p) = "producer"
      <3>1. ReadClient(p)
        BY <1>2, <2>3, ActsAt
      <3>2. cache = 0
        BY <1>1, <1>2, <2>1, <3>1, ReadsComeTo DEF CacheInv
      <3>3. d.pc = "error"
        BY <3>1, <3>2, ReadClientMoves DEF Over
      <3> QED BY <2>1, <3>3
    <2>4. CASE StepAt(p) = "init"
      <3>1. InitLock(p)
        BY <1>2, <2>4, ActsAt
      <3>2. T = "closed" /\ d.pc = "running"
        BY <1>1, <1>2, <2>2, <3>1, ReadsComeTo, InitLockMoves DEF Walks
      <3> QED BY <2>1, <3>2
    <2>5. CASE StepAt(p) = "closed"
      <3>1. CheckClosed(p)
        BY <1>2, <2>5, ActsAt
      <3>2. d.pc = "error"
        BY <2>1, <3>1, CheckClosedMoves DEF Over
      <3> QED BY <2>1, <3>2
    <2>6. CASE sender = "serviceBusBinding" /\ StepAt(p) \in {"lookup", "lock", "connect"}
      <3>1. cache = 0 /\ sender \in Locked /\ sender \in ServiceBuses /\ sender \notin Remembers
        BY <2>1, <2>6 DEF SenderLockInv, Locked, ServiceBuses, Remembers
      <3>2. CASE StepAt(p) = "lookup"
        <4>1. Lookup(p)
          BY <1>2, <3>2, ActsAt
        <4>2. T = "lock"
          BY <1>1, <1>2, <3>1, <4>1, ReadsComeTo DEF Remembers
        <4>3. d.pc = "running"
          BY <2>2, <3>1, <4>1, LookupMoves DEF Walks
        <4> QED BY <2>1, <2>6, <4>2, <4>3
      <3>3. CASE StepAt(p) = "lock"
        <4>1. Lock(p)
          BY <1>2, <3>3, ActsAt
        <4>2. T \in {"ensure", "connect"}
          BY <1>1, <3>1, <4>1, ReadsComeTo
        <4>3. d.pc = "running" /\ PlaceInv(p)'
          BY <2>2, <3>1, <4>1, LookupMoves, CallStepKinds, PlaceKept, <1>1 DEF Walks
        <4>4. d.at \in 1..Len(Steps) /\ Steps[d.at] = T
          BY <1>1, <4>3 DEF PlaceInv, StepAt, Steps
        <4>5. T # "ensure"
          BY <2>6, <4>4 DEF Shape, MakesInOrder, EventHubs
        <4> QED BY <2>1, <2>6, <4>2, <4>3, <4>5
      <3>4. CASE StepAt(p) = "connect"
        <4>1. Connect(p) \/ RequestFails(p)
          BY <1>2, <3>4, ActsAt
        <4>2. CASE Connect(p)
          <5>1. d.pc = "panicked"
            BY <2>1, <2>6, <3>1, <4>2, ConnectMoves DEF Over
          <5> QED BY <2>1, <5>1
        <4>3. CASE RequestFails(p)
          <5>1. Faults(p)
            BY <2>6, <4>3, RequestFailsMoves DEF Jumps
          <5>2. \/ d.pc = "error"
                \/ T = "lookup"
            BY <1>1, <2>2, <5>1, FaultComesTo
          <5>3. d.pc \in {"running", "error"}
            BY <2>2, <5>1 DEF Faults
          <5> QED BY <2>1, <2>6, <5>2, <5>3
        <4> QED BY <4>1, <4>2, <4>3
      <3> QED BY <2>6, <3>2, <3>3, <3>4
    <2>7. CASE sender \in Invokers
      <3>1. sender \notin Droppers \cup Resends \cup Kafkas \cup Keepers \cup Locked \cup Remembers
        BY <2>7 DEF Droppers, Resends, Kafkas, Keepers, Locked, Remembers, OnDemand, EventHubs, ServiceBuses, KubeMQs
      <3>2. ~Live(p)
        <4>1. CanSend(p) => connection[ClientOf(p)] \in {"closed", "none"}
          BY <2>1, <2>7, ClientOfCall DEF CacheInv
        <4> QED BY <4>1 DEF Live
      <3>3. ~Send(p)
        BY <3>2 DEF Send
      <3>4. Kinds(p)
        BY CallStepKinds
      <3>5. d.pc \in {"running", "error", "panicked"}
        <4>1. CASE CallMoves(p) \/ Proceeds(p) \/ SkipsOn(p)
          BY <2>2, <4>1 DEF CallMoves, Proceeds, Walks, SkipsOn, Jumps
        <4>2. CASE Stops(p)
          <5>1. StepAt(p) = "await" => Await(p)
            BY <1>2, ActsAt
          <5>2. StepAt(p) # "await"
            BY <1>1, <2>7, <5>1, SendsComeTo
          <5> QED BY <4>2, <5>2 DEF Stops, Over
        <4>3. CASE BreaksOff(p)
          BY <2>2, <4>3 DEF BreaksOff, Faults
        <4>4. CASE FailsOn(p)
          BY <2>2, <3>1, <4>4 DEF FailsOn, FailsAs
        <4>5. CASE BulkSendFails(p) \/ Drop(p) \/ Dropped(p) \/ StreamSend(p)
          BY <1>1, <2>7, <3>1, <4>5, SendsComeTo
        <4> QED BY <1>2, <3>3, <3>4, <4>1, <4>2, <4>3, <4>4, <4>5 DEF Kinds
      <3> QED BY <2>1, <2>7, <3>5
    <2> QED BY <2>1, <2>2, <2>3, <2>4, <2>5, <2>6, <2>7
  <1> QED BY <1>4, <1>5

\* Whoever cannot send has lost the client to Close, or never had one.
LEMMA CannotSend ==
  ASSUME PublicationsTyped, CacheInv, NEW p \in Publishers, ClientInv(p), StepAt(p) = "send", ~CanSend(p)
  PROVE  \/ shut /\ sender \in Kafkas \cup ServiceBuses
         \/ sendFaults > 0 /\ sender \in KubeMQs
  <1>1. ClientOf(p) \notin Clients
    BY DEF CanSend, Clients
  <1>2. CASE sender \in Kafkas
    <2>1. ClientOf(p) = cache
      BY <1>2 DEF ClientOf, Kafkas, KubeMQs, OnDemand, EventHubs, ServiceBuses
    <2> QED BY <1>1, <1>2, <2>1, SmallNumbers DEF CacheInv
  <1>3. CASE sender \in KubeMQs
    <2>1. ClientOf(p) = cache
      BY <1>3 DEF ClientOf, Kafkas, KubeMQs, OnDemand, EventHubs, ServiceBuses
    <2>2. cache = NilFunc
      BY <1>1, <1>3, <2>1 DEF ClientInv, PublicationsTyped
    <2> QED BY <1>3, <2>2 DEF CacheInv
  <1>4. CASE sender \in OnDemand \cup {"solace", "rabbitBinding"}
    <2>1. sender \notin Kafkas \cup KubeMQs
      BY <1>4 DEF Kafkas, KubeMQs, OnDemand, EventHubs, ServiceBuses
    <2>2. ClientOf(p) = publication[p].client
      BY <1>4, <2>1 DEF ClientOf
    <2> QED BY <1>1, <1>4, <2>2 DEF ClientInv, Made
  <1>5. CASE sender \notin Kafkas \cup KubeMQs /\ sender \notin OnDemand \cup {"solace", "rabbitBinding"}
    <2>1. ClientOf(p) = 1
      BY <1>5 DEF ClientOf
    <2> QED BY <1>1, <2>1, SmallNumbers
  <1> QED BY <1>2, <1>3, <1>4, <1>5

Excused(hit) ==
  hit \/ shut \/ sender \in {"serviceBus", "serviceBusBinding", "rabbitBinding", "kubeMQStore"}

\* A step of a call ends it with an error or a panic only for a reason.
LEMMA ReasonKept ==
  ASSUME PublicationsTyped, Shape, CacheInv, NEW p \in Publishers, PlaceInv(p), StreamInv(p),
         ClientInv(p), ReasonInv(p), CallStep(p)
  PROVE  ReasonInv(p)'
  <1> HIDE DEF Steps, NewClient, AfterStore
  <1> DEFINE c == publication[p]
             d == publication'[p]
             Excuse == Excused(d.hit)
             Panic == \/ shut /\ sender \in Kafkas \cup ServiceBuses
                      \/ sendFaults > 0 /\ sender \in KubeMQs
  <1>1. /\ sender' = sender /\ shut' = shut /\ sendFaults \in Nat
        /\ sendFaults' \in {sendFaults, sendFaults + 1}
    BY CallFrame DEF PublicationsTyped
  <1>2. ASSUME d.pc \in {"error", "drop", "dropped"} => Excuse, d.pc = "panicked" => Panic
        PROVE  ReasonInv(p)'
    <2>1. sendFaults > 0 => sendFaults' > 0
      BY <1>1
    <2>2. /\ Kafkas' = Kafkas /\ ServiceBuses' = ServiceBuses /\ KubeMQs' = KubeMQs
      BY DEF Kafkas, ServiceBuses, KubeMQs
    <2> QED BY <1>1, <1>2, <2>1, <2>2 DEF ReasonInv, Excused
  <1>3. ASSUME d.pc \in {"running", "ok"} PROVE ReasonInv(p)'
    BY <1>2, <1>3
  <1>4. ASSUME d.hit, d.pc # "panicked" PROVE ReasonInv(p)'
    BY <1>2, <1>4 DEF Excused
  <1>5. CASE CallMoves(p)
    BY <1>3, <1>5 DEF CallMoves
  <1>9. CASE Send(p)
    <2>1. c.pc = "running" /\ Delivers(p)
      BY <1>9, RunsAt, ClientOfCall, SendMoves DEF Send, StepNames
    <2> QED BY <1>3, <2>1 DEF Delivers
  <1>10. CASE SendFails(p)
    <2>1. d.pc # "panicked" /\ d.hit
      BY <1>10, SendFailsMoves, RunsAt, ClientOfCall DEF SendFails, FailsAs, StepNames
    <2> QED BY <1>4, <2>1
  <1>11. CASE BulkSendFails(p)
    BY <1>4, <1>11, BulkSendFailsMoves
  <1>12. CASE Drop(p)
    <2>1. StepAt(p) = "drop" /\ d.pc = "dropped" /\ d.hit = c.hit
      BY <1>12, DropMoves DEF Drop
    <2>2. c.pc = "drop"
      BY <2>1, StepFacts DEF StepNames
    <2> QED BY <1>2, <2>1, <2>2 DEF ReasonInv, Excused
  <1>13. CASE Dropped(p)
    <2>1. c.pc = "dropped" /\ d.pc \in {"running", "error"} /\ d.hit = c.hit
      BY <1>13, DroppedMoves
    <2> QED BY <1>2, <2>1 DEF ReasonInv, Excused
  <1>14. CASE StreamSend(p)
    <2>1. c.pc = "running"
      BY <1>14, RunsAt, StreamSendMoves DEF StepNames
    <2> QED BY <1>3, <1>14, <2>1, StreamSendMoves
  <1>15. CASE Result(p) \/ Await(p)
    <2>1. sender = "kubeMQStore"
      BY <1>1, <1>15, SendsComeTo DEF Result, StreamInv
    <2>2. d.pc = "panicked" => c.pc = "panicked"
      <3>1. CASE Result(p)
        BY <3>1, ResultMoves
      <3>2. CASE Await(p)
        <4>1. StepAt(p)' \in {"ok", "error"}
          BY <1>1, <3>2, SendsComeTo
        <4> QED BY <4>1, ComesToRest
      <3> QED BY <1>15, <3>1, <3>2
    <2> QED BY <1>2, <2>1, <2>2 DEF ReasonInv, Excused
  <1>16. CASE SendRefused(p)
    <2>1. StepAt(p) = "send"
      BY <1>16 DEF SendRefused
    <2>2. CASE ~CanSend(p)
      <3>1. d.pc = "panicked"
        BY <1>16, <2>2, SendRefusedMoves DEF Over
      <3>2. Panic
        BY <2>1, <2>2, CannotSend
      <3> QED BY <1>2, <3>1, <3>2
    <2>3. CASE CanSend(p)
      <3>1. /\ FailsAs(p, d) /\ c.pc = "running"
            /\ d.hit = (c.hit \/ connection[ClientOf(p)] = "broken")
        BY <1>16, <2>1, <2>3, SendRefusedMoves, RunsAt DEF StepNames
      <3>2. d.pc # "panicked"
        BY <3>1 DEF FailsAs
      <3>3. ClientOf(p) \in Clients /\ connection[ClientOf(p)] \in {"up", "broken", "closed"}
        BY <2>3, ClientOfMade DEF Made, PublicationsTyped
      <3>4. CASE connection[ClientOf(p)] = "broken"
        BY <1>4, <3>1, <3>2, <3>4
      <3>5. CASE connection[ClientOf(p)] = "closed"
        BY <1>2, <3>2, <3>3, <3>5 DEF CacheInv, Excused
      <3>6. CASE connection[ClientOf(p)] = "up"
        <4>1. sender = "snssqs" /\ cache = 0
          BY <1>16, <2>3, <3>6 DEF SendRefused, Live, NoTopic
        <4>2. c.hit
          BY <2>1, <4>1 DEF ClientInv
        <4> QED BY <1>4, <3>1, <3>2, <4>2
      <3> QED BY <3>3, <3>4, <3>5, <3>6
    <2> QED BY <2>2, <2>3
  <1>17. CASE CheckClosed(p)
    <2>1. c.pc = "running"
      BY <1>17, RunsAt DEF CheckClosed, StepNames
    <2> QED BY <1>2, <1>3, <1>17, <2>1, CheckClosedMoves DEF Over, Walks, Excused
  <1>18. CASE ReadClient(p)
    <2>1. c.pc = "running" /\ sender \in Kafkas \cup {"rabbitBinding"}
      BY <1>1, <1>18, RunsAt, ReadsComeTo DEF ReadClient, StepNames
    <2>2. CASE cache = 0
      <3>1. d.pc = "error"
        BY <1>18, <2>2, ReadClientMoves DEF Over
      <3>2. shut \/ sender = "rabbitBinding"
        BY <2>1, <2>2 DEF CacheInv
      <3> QED BY <1>2, <3>1, <3>2 DEF Excused
    <2>3. CASE cache # 0
      BY <1>3, <1>18, <2>1, <2>3, ReadClientMoves DEF Walks
    <2> QED BY <2>2, <2>3
  <1>19. CASE Connect(p)
    <2>1. c.pc = "running"
      BY <1>19, RunsAt DEF Connect, StepNames
    <2>2. CASE Over(p, "panicked") /\ sender \in ServiceBuses /\ shut
      BY <1>2, <2>2 DEF Over
    <2>3. CASE Over(p, "error") /\ shut
      BY <1>2, <2>3 DEF Over, Excused
    <2>4. CASE Faults(p)
      BY <1>4, <2>1, <2>4 DEF Faults
    <2>5. CASE Walks(p, Pc(p) + 1, NewClient)
      BY <1>3, <2>1, <2>5 DEF Walks
    <2> QED BY <1>19, <2>2, <2>3, <2>4, <2>5, ConnectMoves
  <1>20. CASE Call(p)
    BY <1>5, <1>20, CallBegins
  <1>21. CASE Lookup(p) \/ Lock(p) \/ InitLock(p) \/ Ask(p) \/ Create(p) \/ RequestFails(p) \/ Stream(p) \/ Store(p)
    <2>1. c.pc = "running"
      BY <1>21, RunsAt DEF Lookup, Lock, InitLock, Ask, Create, RequestFails, Stream, Store, StepNames
    <2>2. CASE \E k, m : Walks(p, k, m)
      BY <1>3, <2>1, <2>2 DEF Walks
    <2>3. CASE Faults(p)
      BY <1>4, <2>1, <2>3 DEF Faults
    <2>4. CASE Jumps(p)
      BY <1>3, <2>1, <2>4 DEF Jumps
    <2> QED BY <1>21, <2>2, <2>3, <2>4, LookupMoves, InitLockMoves, AskMoves, CreateMoves,
               RequestFailsMoves, StreamMoves, StoreMoves
  <1> QED BY <1>9, <1>10, <1>11, <1>12, <1>13, <1>14, <1>15, <1>16, <1>17, <1>18, <1>19, <1>20, <1>21 DEF CallStep

-----------------------------------------------------------------------------
(* Publications: clients that have failed, and the answers of KubeMQ.      *)

\* A client that has failed does not come back by the step of any call p.
LEMMA BadKeptByCalls ==
  ASSUME PublicationsTyped, Shape, CacheInv, SenderLockInv, NEW p \in Publishers, PlaceInv(p),
         StreamInv(p), ClientInv(p), CallStep(p), NEW q \in Publishers, BadInv(q), ClientInv(q)
  PROVE  BadInv(q)'
  <1> HIDE DEF Steps, NewClient, AfterStore
  <1> DEFINE c == publication[q]
             d == publication'[q]
  <1>1. sender' = sender /\ Changes(p) /\ Droppers' = Droppers
    BY CallFrame DEF Droppers
  <1> SUFFICES ASSUME sender \in Droppers, d.pc # "drop", d.bad # 0
               PROVE  /\ cache' # d.bad
                      /\ \A r \in Publishers : StepAt(r)' = "store" => publication'[r].client # d.bad
    BY <1>1 DEF BadInv
  <1>2. sender \in Locked /\ sender \notin Remembers \cup KubeMQs /\ "store" \in UnderLock
    BY DEF Droppers, Locked, ServiceBuses, Remembers, KubeMQs, UnderLock
  <1>3. d.bad = c.bad
    <2>1. CASE q = p
      BY <2>1, BadMoves
    <2>2. CASE q # p
      BY <1>1, <2>2, OthersStay
    <2> QED BY <2>1, <2>2
  <1>4. Made(c.bad)
    BY <1>3 DEF ClientInv
  \* Nobody who comes to store a client has the one that has failed.
  <1>5. StepAt(p)' = "store" => publication'[p].client # c.bad
    <2> SUFFICES ASSUME StepAt(p)' = "store" PROVE publication'[p].client # c.bad
      OBVIOUS
    <2>1. Connect(p) /\ Walks(p, Pc(p) + 1, NewClient)
      BY <1>1, <1>2, AtTheStore
    <2>2. \E k \in Clients : connection[k] = "none"
      BY <2>1 DEF Connect, Clients
    <2>3. connection[NewClient] = "none"
      BY <2>2, NewClientIsNew
    <2> QED BY <1>4, <2>1, <2>3 DEF Walks, Made
  <1>6. CASE c.pc # "drop"
    <2>1. cache # c.bad /\ \A r \in Publishers : StepAt(r) = "store" => publication[r].client # c.bad
      BY <1>3, <1>6 DEF BadInv
    <2>2. cache' # c.bad
      <3>1. Store(p) => StepAt(p) = "store"
        BY DEF Store
      <3> QED BY <1>2, <1>3, <2>1, <3>1, CacheMoves
    <2>3. \A r \in Publishers \ {p} : StepAt(r)' = "store" => publication'[r].client # c.bad
      BY <1>1, <2>1, OthersStay
    <2> QED BY <1>3, <1>5, <2>2, <2>3
  <1>7. CASE c.pc = "drop"
    <2>1. q = p
      BY <1>1, <1>7, OthersStay
    <2>2. Drop(p)
      <3>1. StepAt(p) = "drop" /\ ~Result(p)
        BY <1>2, <1>7, <2>1 DEF StepAt, Result, StreamInv, KubeMQs
      <3> QED BY <3>1, ActsAt
    <2>3. cache' = 0 /\ mutex = 0
      BY <2>2 DEF Drop
    <2>4. \A r \in Publishers : StepAt(r) # "store"
      BY <1>2, <2>3, PublicationsAssumption DEF SenderLockInv
    <2>5. \A r \in Publishers \ {p} : StepAt(r)' # "store"
      BY <1>1, <2>4, OthersStay
    <2> QED BY <1>3, <1>5, <2>3, <2>5
  <1> QED BY <1>6, <1>7

\* Nor does it by a step of the surroundings.
LEMMA BadKeptOutside ==
  ASSUME PublicationsTyped, CacheInv, Surroundings, NEW q \in Publishers, BadInv(q)
  PROVE  BadInv(q)'
  <1> HIDE DEF Steps, NewClient
  <1>1. /\ sender' = sender /\ publication' = publication /\ Droppers' = Droppers
        /\ \A r : StepAt(r)' = StepAt(r)
    BY SurroundingsFrame DEF Droppers, StepAt, Steps
  <1>2. CASE Redialled
    BY <1>1, <1>2 DEF BadInv, CacheInv, Redialled, Droppers
  <1>3. CASE cache' \in {0, cache}
    BY <1>1, <1>3 DEF BadInv
  <1>4. CASE OtherCreates \/ CacheRefresh \/ Redial \/ Shut
    BY <1>3, <1>4 DEF OtherCreates, CacheRefresh, Redial, Shut
  <1>5. ASSUME NEW k \in 1..MaxClients, Breaks(k) \/ Recover(k) PROVE cache' \in {0, cache}
    BY <1>5 DEF Breaks, Recover
  <1> QED BY <1>2, <1>3, <1>4, <1>5 DEF Surroundings

\* Only Await ends a call of the KubeMQ event store with success, and only Result
\* stores its message.
LEMMA SuccessMoves ==
  ASSUME PublicationsTyped, Shape, NEW p \in Publishers, PlaceInv(p), StreamInv(p), CallStep(p),
         sender = "kubeMQStore"
  PROVE  /\ ~Await(p) => (publication'[p].pc = "ok" <=> publication[p].pc = "ok")
         /\ Await(p) => publication[p].pc = "running"
         /\ ~Result(p) /\ sendFaults' = sendFaults => stored' = stored
         /\ ~Result(p) /\ ~Await(p) => resultChan' = resultChan
  <1> HIDE DEF Steps, NewClient, AfterStore
  <1> DEFINE c == publication[p]
             d == publication'[p]
  <1>1. Kinds(p)
    BY CallStepKinds
  <1>2. Await(p) => c.pc = "running"
    BY RunsAt DEF Await, StepNames
  <1>3. ASSUME ~Await(p) PROVE d.pc = "ok" <=> c.pc = "ok"
    <2>1. CASE Result(p)
      BY <2>1, ResultMoves
    <2>2. CASE ~Result(p)
      <3>1. c.pc # "ok"
        BY <2>2, ActsAt DEF StepAt
      <3>2. StepAt(p) # "await"
        BY <1>3, <2>2, ActsAt
      <3>3. CASE CallMoves(p) \/ Proceeds(p) \/ BreaksOff(p) \/ SkipsOn(p)
        BY <3>1, <3>3 DEF CallMoves, Proceeds, BreaksOff, SkipsOn, Walks, Faults, Jumps
      <3>4. CASE Stops(p)
        BY <3>1, <3>2, <3>4 DEF Stops, Over
      <3>5. CASE FailsOn(p)
        BY <3>1, <3>5 DEF FailsOn, FailsAs
      <3>6. CASE Send(p) \/ BulkSendFails(p)
        BY <3>6 DEF Send, BulkSendFails
      <3>7. CASE Drop(p) \/ Dropped(p) \/ StreamSend(p)
        BY <3>1, <3>7, DropMoves, DroppedMoves, StreamSendMoves
      <3> QED BY <1>1, <2>2, <3>1, <3>3, <3>4, <3>5, <3>6, <3>7 DEF Kinds
    <2> QED BY <2>1, <2>2
  <1>4. ASSUME ~Result(p), sendFaults' = sendFaults PROVE stored' = stored
    <2>1. ~SendFails(p) /\ ~BulkSendFails(p) /\ ~Send(p)
      BY <1>4 DEF SendFails, BulkSendFails, Send, SendFault, PublicationsTyped
    <2> QED BY <1>4, <2>1 DEF CallStep, Call, CheckClosed, ReadClient, Lookup, Lock, InitLock, Ask, Create,
         RequestFails, Connect, Stream, Store, SendRefused, Drop, Dropped, StreamSend, Await
  <1>5. ASSUME ~Result(p), ~Await(p) PROVE resultChan' = resultChan
    BY <1>5 DEF CallStep, Call, CheckClosed, ReadClient, Lookup, Lock, InitLock, Ask, Create,
         RequestFails, Connect, Stream, Store, Send, SendFails, BulkSendFails, SendRefused, Drop, Dropped, StreamSend
  <1> QED BY <1>2, <1>3, <1>4, <1>5

\* As long as nothing fails every answer that somebody takes stands for a message
\* stored.
LEMMA SharedKeptByCalls ==
  ASSUME PublicationsTyped, Shape, SharedInv, NEW p \in Publishers, PlaceInv(p), StreamInv(p), CallStep(p)
  PROVE  SharedInv'
  <1> HIDE DEF Steps, NewClient, AfterStore
  <1>1. /\ sender' = sender /\ Changes(p) /\ sendFaults \in Nat /\ sendFaults' \in {sendFaults, sendFaults + 1}
        /\ \A q \in Publishers \ {p} : publication'[q] = publication[q] /\ stored'[q] = stored[q]
    BY CallFrame DEF PublicationsTyped, Changes
  <1> DEFINE S2 == {q \in Publishers : publication'[q].pc = "ok"}
             B2 == {q \in Publishers : stored'[q][1] > 0}
             answered == IF resultChan = <<"stored">> THEN 1 ELSE 0
             answered2 == IF resultChan' = <<"stored">> THEN 1 ELSE 0
  <1> SUFFICES ASSUME sender = "kubeMQStore", sendFaults' = 0
               PROVE  resultChan' # <<"nil">> /\ Cardinality(S2) + answered2 <= Cardinality(B2)
    BY <1>1 DEF SharedInv, Succeeded, AtTheBroker
  <1>2. sendFaults = 0 /\ sendFaults' = sendFaults
    BY <1>1
  <1>3. resultChan # <<"nil">> /\ Cardinality(Succeeded) + answered <= Cardinality(AtTheBroker)
    BY <1>2 DEF SharedInv
  <1>4. /\ IsFiniteSet(Succeeded) /\ IsFiniteSet(AtTheBroker)
        /\ Cardinality(Succeeded) \in Nat /\ Cardinality(AtTheBroker) \in Nat
    <2>1. IsFiniteSet(Publishers) /\ Succeeded \in SUBSET Publishers /\ AtTheBroker \in SUBSET Publishers
      BY PublicationsAssumption DEF Succeeded, AtTheBroker
    <2>2. IsFiniteSet(Succeeded) /\ IsFiniteSet(AtTheBroker)
      BY <2>1, FS_Subset
    <2> QED BY <2>2, FS_CardinalityType
  <1>5. ASSUME ~Await(p) PROVE S2 = Succeeded
    BY <1>1, <1>5, SuccessMoves DEF Succeeded
  <1>6. ASSUME stored' = stored PROVE B2 = AtTheBroker
    BY <1>6 DEF AtTheBroker
  <1>7. CASE ~Result(p) /\ ~Await(p)
    BY <1>2, <1>3, <1>5, <1>6, <1>7, SuccessMoves
  <1>8. CASE Result(p)
    <2>1. publication[p].streamed /\ ~Await(p)
      <3>1. StepAt(p)' = StepAt(p)
        BY <1>1, <1>8, SendsComeTo
      <3>2. Await(p) => StepAt(p) = "await" /\ StepAt(p)' \in {"ok", "error"}
        BY <1>1, SendsComeTo DEF Await
      <3> QED BY <1>8, <3>1, <3>2 DEF Result
    <2>2. PICK answer \in {"stored", "refused", "nil"} :
            /\ IF answer = "nil" THEN SendFault ELSE UNCHANGED sendFaults
            /\ stored' = IF answer = "stored" THEN Copies(p, Entries) ELSE stored
            /\ resultChan' = IF resultChan = <<>> THEN <<answer>> ELSE resultChan
      BY <1>8 DEF Result
    <2>3. answer # "nil"
      BY <1>1, <1>2, <2>2 DEF SendFault
    <2>4. CASE answer = "refused"
      <3>1. answered2 = answered /\ resultChan' # <<"nil">>
        BY <1>3, <2>2, <2>4
      <3> QED BY <1>3, <1>5, <1>6, <2>1, <2>2, <2>4, <3>1
    <2>5. CASE answer = "stored"
      <3>1. stored[p][1] = 0 /\ 1 \in Entries
        BY <2>1 DEF StreamInv, Entries
      <3>2. stored'[p][1] = 1
        BY <2>2, <2>5, <3>1, CopiesFields
      <3>3. B2 = AtTheBroker \cup {p} /\ p \notin AtTheBroker
        BY <1>1, <3>1, <3>2 DEF AtTheBroker
      <3>4. Cardinality(B2) = Cardinality(AtTheBroker) + 1
        BY <1>4, <3>3, FS_AddElement
      <3>5. answered2 <= answered + 1 /\ answered \in Nat /\ answered2 \in Nat /\ resultChan' # <<"nil">>
        BY <1>3, <2>2, <2>5
      <3>6. S2 = Succeeded
        BY <1>5, <2>1
      <3> HIDE DEF S2, B2, answered, answered2
      <3> QED BY <1>3, <1>4, <3>4, <3>5, <3>6
    <2> QED BY <2>3, <2>4, <2>5
  <1>9. CASE Await(p)
    <2>1. /\ ~Result(p) /\ publication[p].pc = "running"
      <3>1. Result(p) => StepAt(p)' = StepAt(p)
        BY <1>1, SendsComeTo
      <3>2. StepAt(p) = "await" /\ StepAt(p)' \in {"ok", "error"}
        BY <1>1, <1>9, SendsComeTo DEF Await
      <3> QED BY <1>9, <3>1, <3>2, SuccessMoves
    <2>2. B2 = AtTheBroker
      BY <1>2, <1>6, <2>1, SuccessMoves
    <2>3. /\ resultChan # <<>> /\ resultChan' = <<>>
          /\ Over(p, IF Head(resultChan) = "refused" THEN "error" ELSE "ok")
      BY <1>1, <1>2, <1>9, AwaitMoves
    <2>4. resultChan \in {<<"stored">>, <<"refused">>}
      BY <1>3, <2>3 DEF PublicationsTyped
    <2>5. CASE resultChan = <<"refused">>
      <3>1. publication'[p].pc = "error"
        BY <2>3, <2>5 DEF Over
      <3>2. S2 = Succeeded
        BY <1>1, <2>1, <3>1 DEF Succeeded
      <3> QED BY <1>3, <1>4, <2>2, <2>3, <2>5, <3>2
    <2>6. CASE resultChan = <<"stored">>
      <3>1. publication'[p].pc = "ok"
        BY <2>3, <2>6 DEF Over
      <3>2. S2 = Succeeded \cup {p} /\ p \notin Succeeded
        BY <1>1, <2>1, <3>1 DEF Succeeded
      <3>3. Cardinality(S2) = Cardinality(Succeeded) + 1
        BY <1>4, <3>2, FS_AddElement
      <3>4. answered = 1 /\ answered2 = 0 /\ resultChan' # <<"nil">>
        BY <2>3, <2>6
      <3> HIDE DEF S2, B2, answered, answered2
      <3> QED BY <1>3, <1>4, <2>2, <3>3, <3>4
    <2> QED BY <2>4, <2>5, <2>6
  <1> QED BY <1>7, <1>8, <1>9

-----------------------------------------------------------------------------
(* Publications: the invariant.                                            *)

\* A step of anybody else leaves a call what concerns it alone.
LEMMA LocalFrame ==
  ASSUME NEW q \in Publishers, LocalInv(q), publication'[q] = publication[q],
         stored'[q] = stored[q], sender' = sender
  PROVE  LocalInv(q)'
  <1> HIDE DEF Steps
  <1>1. /\ Steps' = Steps /\ Entries' = Entries /\ Droppers' = Droppers /\ Unconfirmed' = Unconfirmed
        /\ StepAt(q)' = StepAt(q)
    BY DEF Steps, Entries, Droppers, Unconfirmed, KubeMQs, StepAt
  <1>2. PlaceInv(q)'
    BY <1>1 DEF LocalInv, PlaceInv
  <1>3. CountInv(q)'
    BY <1>1 DEF LocalInv, CountInv
  <1>4. CopiesInv(q)'
    BY <1>1 DEF LocalInv, CopiesInv
  <1>5. StreamInv(q)'
    BY <1>1 DEF LocalInv, StreamInv
  <1>6. StoredInv(q)'
    BY <1>1 DEF LocalInv, StoredInv
  <1> QED BY <1>2, <1>3, <1>4, <1>5, <1>6 DEF LocalInv

\* A step of anybody else does not change why a call is refused or fails.
LEMMA FateFrame ==
  ASSUME PublicationsTyped, NEW q \in Publishers, LateInv(q), ReasonInv(q), publication'[q] = publication[q],
         sender' = sender, shut => shut', sendFaults' \in {sendFaults, sendFaults + 1}
  PROVE  LateInv(q)' /\ ReasonInv(q)'
  <1> HIDE DEF Steps
  <1>1. /\ ServesAfterClose' = ServesAfterClose /\ Kafkas' = Kafkas /\ ServiceBuses' = ServiceBuses
        /\ KubeMQs' = KubeMQs /\ StepAt(q)' = StepAt(q)
    BY DEF ServesAfterClose, Kafkas, ServiceBuses, KubeMQs, EventHubs, StepAt, Steps
  <1>2. sendFaults > 0 => sendFaults' > 0
    BY DEF PublicationsTyped
  <1>3. LateInv(q)'
    BY <1>1 DEF LateInv
  <1>4. ReasonInv(q)'
    BY <1>1, <1>2 DEF ReasonInv
  <1> QED BY <1>3, <1>4

\* The surroundings do not touch the answers.
LEMMA SharedFrame ==
  ASSUME PublicationsTyped, SharedInv, publication' = publication, stored' = stored, sender' = sender,
         resultChan' = resultChan, sendFaults' \in {sendFaults, sendFaults + 1}
  PROVE  SharedInv'
  <1>1. sendFaults' = 0 => sendFaults = 0
    BY DEF PublicationsTyped
  <1>2. Succeeded' = Succeeded /\ AtTheBroker' = AtTheBroker
    BY DEF Succeeded, AtTheBroker
  <1> QED BY <1>1, <1>2 DEF SharedInv

\* The steps of the calls keep the invariant.
LEMMA InvKeptByCalls ==
  ASSUME PublicationsInv, PublicationNext, NEW p \in Publishers, CallStep(p)
  PROVE  PublicationsInv'
  <1>1. /\ PublicationsTyped /\ Shape /\ CacheInv /\ SenderLockInv /\ OpenInv /\ SharedInv
        /\ \A q \in Publishers : /\ LocalInv(q) /\ PlaceInv(q) /\ StreamInv(q)
                                 /\ ClientInv(q) /\ LateInv(q) /\ ReasonInv(q) /\ BadInv(q)
    BY ProgramShapes DEF PublicationsInv, PublicationsTyped, LocalInv
  <1>2. /\ sender' = sender /\ shut' = shut /\ Changes(p)
        /\ sendFaults' \in {sendFaults, sendFaults + 1}
        /\ \A q \in Publishers \ {p} : stored'[q] = stored[q] /\ publication'[q] = publication[q]
    BY <1>1, CallFrame DEF Changes
  <1>3. Stays /\ Fills
    BY <1>1, MadeStays, CallsFill
  <1>4. PublicationsTyped'
    BY <1>1, CallTypeKept
  <1>5. CacheInv'
    BY <1>1, <1>3, CacheKeptByCalls
  <1>6. SenderLockInv'
    BY <1>1, LockKeptByCalls
  <1>7. OpenInv'
    BY <1>1, OpenKeptByCalls
  <1>8. SharedInv'
    BY <1>1, SharedKeptByCalls
  <1>9. LocalInv(p)' /\ ClientInv(p)' /\ LateInv(p)' /\ ReasonInv(p)'
    BY <1>1, <1>2, <1>3, LocalKept, ClientKept, LateKept, ReasonKept
  <1>10. ASSUME NEW q \in Publishers \ {p}
         PROVE  LocalInv(q)' /\ ClientInv(q)' /\ LateInv(q)' /\ ReasonInv(q)'
    <2>1. LocalInv(q)'
      BY <1>1, <1>2, LocalFrame
    <2>2. ClientInv(q)'
      BY <1>1, <1>2, <1>3, ClientFrame
    <2> QED BY <1>1, <1>2, <2>1, <2>2, FateFrame
  <1>11. \A q \in Publishers : BadInv(q)'
    BY <1>1, BadKeptByCalls
  <1>12. \A q \in Publishers : LocalInv(q)' /\ ClientInv(q)' /\ LateInv(q)' /\ ReasonInv(q)' /\ BadInv(q)'
    BY <1>9, <1>10, <1>11
  <1> QED BY <1>4, <1>5, <1>6, <1>7, <1>8, <1>12 DEF PublicationsInv

\* The surroundings keep the invariant.
LEMMA InvKeptOutside ==
  ASSUME PublicationsInv, PublicationNext, Surroundings
  PROVE  PublicationsInv'
  <1>1. /\ PublicationsTyped /\ Shape /\ CacheInv /\ SenderLockInv /\ OpenInv /\ SharedInv
        /\ \A q \in Publishers : /\ LocalInv(q) /\ PlaceInv(q)
                                 /\ ClientInv(q) /\ LateInv(q) /\ ReasonInv(q) /\ BadInv(q)
    BY ProgramShapes DEF PublicationsInv, PublicationsTyped, LocalInv
  <1>2. /\ publication' = publication /\ stored' = stored /\ sender' = sender /\ resultChan' = resultChan
        /\ sendFaults' \in {sendFaults, sendFaults + 1} /\ (shut => shut')
    BY <1>1, SurroundingsFrame
  <1>3. Stays /\ Fills
    BY <1>1, MadeStays, FillsOutside
  <1>4. PublicationsTyped' /\ CacheInv' /\ SenderLockInv' /\ OpenInv'
    BY <1>1, <1>3, SurroundingsTypeKept, CacheKeptOutside, LockKeptOutside, OpenKeptOutside
  <1>5. SharedInv'
    BY <1>1, <1>2, SharedFrame
  <1>6. ASSUME NEW q \in Publishers
        PROVE  LocalInv(q)' /\ ClientInv(q)' /\ LateInv(q)' /\ ReasonInv(q)' /\ BadInv(q)'
    <2>1. LocalInv(q)'
      BY <1>1, <1>2, LocalFrame
    <2>2. ClientInv(q)'
      BY <1>1, <1>2, <1>3, ClientFrame
    <2>3. BadInv(q)'
      BY <1>1, BadKeptOutside
    <2> QED BY <1>1, <1>2, <2>1, <2>2, <2>3, FateFrame
  <1> QED BY <1>4, <1>5, <1>6 DEF PublicationsInv

\* The invariant holds at the beginning.
LEMMA PublicationsInitially ==
  ASSUME PublicationInit
  PROVE  PublicationsInv
  <1>1. /\ sender \in DOMAIN PublishPrograms /\ cache \in {0, 1} /\ mutex = 0 /\ reconnecting = 0
        /\ resultChan = <<>> /\ shut = FALSE /\ sendFaults = 0 /\ topicThere \in BOOLEAN
        /\ publication = [p \in Publishers |-> NoPublication]
        /\ stored = [p \in Publishers |-> [e \in 1..2 |-> 0]]
        /\ connection = [k \in Clients |->
              IF k = 1 /\ (cache = 1 \/ sender \in Remembers) THEN "up" ELSE "none"]
    BY SendersAssumption DEF PublicationInit, Clients
  <1>2. /\ sender \in OnDemand \cup Remembers => cache = 0
        /\ sender \notin OnDemand \cup Remembers \cup KubeMQs => cache = 1
    BY DEF PublicationInit, OnDemand, Remembers, KubeMQs, EventHubs, ServiceBuses
  <1>3. /\ MaxAttempts \in Nat \ {0} /\ 0 \notin Publishers
    BY PublicationsAssumption
  <1>4. NoPublication \in Publication
    BY SmallNumbers DEF NoPublication, Publication, Outcomes
  <1>5. \A p \in Publishers : publication[p] = NoPublication /\ StepAt(p) = "idle"
    BY <1>1 DEF StepAt, NoPublication
  <1>6. /\ NoPublication.pc = "idle" /\ NoPublication.tries = 0 /\ NoPublication.confirmed = 0
        /\ NoPublication.bad = 0 /\ NoPublication.streamed = FALSE /\ NoPublication.late = FALSE
    BY DEF NoPublication
  <1>7. PublicationsTyped
    BY <1>1, <1>4, SmallNumbers DEF PublicationsTyped
  <1>8. CacheInv
    BY <1>1, <1>2, SmallNumbers DEF CacheInv, Made, Kafkas, KubeMQs, OnDemand, Remembers, EventHubs, ServiceBuses
  <1>9. SenderLockInv
    BY <1>1, <1>3, <1>5 DEF SenderLockInv, UnderLock
  <1>10. OpenInv
    BY <1>1 DEF OpenInv
  <1>11. SharedInv
    <2>1. Succeeded = {} /\ AtTheBroker = {}
      BY <1>1, <1>5, <1>6 DEF Succeeded, AtTheBroker
    <2>2. Cardinality(Succeeded) = 0 /\ Cardinality(AtTheBroker) = 0
      BY <2>1, FS_EmptySet
    <2> QED BY <1>1, <2>2 DEF SharedInv
  <1>12. ASSUME NEW p \in Publishers
         PROVE  LocalInv(p) /\ ClientInv(p) /\ LateInv(p) /\ ReasonInv(p) /\ BadInv(p)
    <2>1. /\ publication[p] = NoPublication /\ StepAt(p) = "idle"
          /\ \A e \in 1..2 : stored[p][e] = 0
      BY <1>1, <1>5
    <2>2. PlaceInv(p) /\ CountInv(p) /\ StoredInv(p)
      BY <1>3, <1>6, <2>1 DEF PlaceInv, CountInv, StoredInv
    <2>3. CopiesInv(p) /\ StreamInv(p)
      BY <1>6, <2>1 DEF CopiesInv, StreamInv
    <2>4. ClientInv(p) /\ LateInv(p) /\ ReasonInv(p) /\ BadInv(p)
      BY <1>6, <2>1 DEF ClientInv, LateInv, ReasonInv, BadInv
    <2> QED BY <2>2, <2>3, <2>4 DEF LocalInv
  <1> QED BY <1>7, <1>8, <1>9, <1>10, <1>11, <1>12 DEF PublicationsInv

-----------------------------------------------------------------------------
(* Publications: what the invariant says of the calls and their clients.   *)

\* The invariant has all that the calls promise.
LEMMA PublicationsInvImplies ==
  ASSUME PublicationsInv
  PROVE  PublicationsAreTrue
  <1>1. /\ PublicationsTyped /\ OpenInv /\ SharedInv
        /\ \A q \in Publishers : LocalInv(q) /\ LateInv(q) /\ ReasonInv(q) /\ BadInv(q)
    BY DEF PublicationsInv
  <1>2. AcknowledgedIsStored
    BY <1>1 DEF AcknowledgedIsStored, LocalInv, StoredInv
  <1>3. AnswersAreShared
    <2> SUFFICES ASSUME sender = "kubeMQStore", sendFaults = 0
                 PROVE  Cardinality(Succeeded) <= Cardinality(AtTheBroker)
      BY DEF AnswersAreShared, Succeeded, AtTheBroker
    <2>1. IsFiniteSet(Publishers) /\ Succeeded \in SUBSET Publishers /\ AtTheBroker \in SUBSET Publishers
      BY PublicationsAssumption DEF Succeeded, AtTheBroker
    <2>2. Cardinality(Succeeded) \in Nat /\ Cardinality(AtTheBroker) \in Nat
      BY <2>1, FS_Subset, FS_CardinalityType
    <2> QED BY <1>1, <2>2 DEF SharedInv
  <1>4. NoNeedlessCopies
    <2> SUFFICES ASSUME NEW p \in Publishers
                 PROVE  /\ publication[p].tries <= MaxAttempts
                        /\ \A e \in Entries : stored[p][e] <= publication[p].tries + 1
                        /\ sender # "solace" => publication[p].confirmed <= Cardinality(Entries)
      BY DEF NoNeedlessCopies
    <2>1. CountInv(p) /\ CopiesInv(p) /\ Entries \subseteq 1..2
      BY <1>1, EntriesTyped DEF LocalInv
    <2>2. Cardinality(Entries) = IF sender \in {"kafkaBulk", "eventHubsBulk", "serviceBusBulk", "rocketMQBinding"}
                                   THEN 2 ELSE 1
      <3>1. 1 \in Int /\ 2 \in Int /\ ~(1 > 1) /\ ~(1 > 2) /\ 1 - 1 + 1 = 1 /\ 2 - 1 + 1 = 2
        BY SMT
      <3>2. Cardinality(1..1) = 1 - 1 + 1 /\ Cardinality(1..2) = 2 - 1 + 1
        BY <3>1, FS_Interval, Zenon
      <3>3. Cardinality(1..1) = 1 /\ Cardinality(1..2) = 2
        BY <3>1, <3>2
      <3> QED BY <3>3, Zenon DEF Entries
    <2>3. publication[p].confirmed \in Nat
      BY <1>1, CallTyped DEF Publication
    <2> QED BY <2>1, <2>2, <2>3 DEF CountInv, CopiesInv
  <1>5. NoClientLeaks
    <2> SUFFICES ASSUME sender \notin LeaksClients, NEW k \in Clients, connection[k] = "up"
                 PROVE  \/ k \in {cache, reconnecting}
                        \/ k = 1 /\ sender \in Remembers
                        \/ \E p \in Publishers : UnderWay(p) /\ k \in {publication[p].client, publication[p].dropped}
      BY DEF NoClientLeaks, Clients
    <2>1. ASSUME NEW p \in Publishers,
                 \/ StepAt(p) = "store" /\ publication[p].client = k
                 \/ publication[p].pc = "dropped" /\ publication[p].dropped = k
          PROVE  UnderWay(p) /\ k \in {publication[p].client, publication[p].dropped}
      <3>1. StepAt(p) = "store" => publication[p].pc \in {"running", "store"}
        BY DEF StepAt
      <3> QED BY <2>1, <3>1 DEF UnderWay
    <2> QED BY <1>1, <2>1 DEF OpenInv
  <1>6. ClosedIsClosed
    BY <1>1 DEF ClosedIsClosed, LateInv
  <1>7. FailsForAReason /\ PanicsAreKnown
    BY <1>1 DEF FailsForAReason, PanicsAreKnown, ReasonInv
  <1>8. BrokenIsReplaced
    BY <1>1 DEF BrokenIsReplaced, BadInv, Droppers
  <1> QED BY <1>2, <1>3, <1>4, <1>5, <1>6, <1>7, <1>8 DEF PublicationsAreTrue

\* Every step keeps the invariant, and one that changes nothing here does.
LEMMA PublicationsStep ==
  ASSUME PublicationsInv, [PublicationNext]_publicationVars
  PROVE  PublicationsInv'
  <1>1. CASE PublicationNext
    BY <1>1, StepsSplit, InvKeptByCalls, InvKeptOutside
  <1>2. CASE UNCHANGED publicationVars
    <2>1. /\ publication' = publication /\ stored' = stored /\ sender' = sender
          /\ resultChan' = resultChan /\ sendFaults' = sendFaults /\ shut' = shut
          /\ cache' = cache /\ connection' = connection /\ mutex' = mutex
          /\ reconnecting' = reconnecting /\ topicThere' = topicThere
      BY <1>2 DEF publicationVars
    <2> QED BY <2>1
       DEF PublicationsInv, PublicationsTyped, CacheInv, Made, SenderLockInv, OpenInv, SharedInv,
           Succeeded, AtTheBroker, LocalInv, PlaceInv, CountInv, CopiesInv, StreamInv, StoredInv,
           ClientInv, LateInv, ReasonInv, BadInv, StepAt, Steps, Entries, Locked, KubeMQs, Kafkas,
           OnDemand, Remembers, EventHubs, ServiceBuses, UnderLock, LeaksClients, Droppers,
           ServesAfterClose, Unconfirmed, Clients, Publication, Outcomes
  <1> QED BY <1>1, <1>2

\* Publish, BulkPublish and Invoke of every component are true to their callers and to
\* the clients they share, whatever the number of callers, clients, attempts and faults:
\* what is reported as published is stored, no copy is without a failed send, no client
\* is left open, and a call fails, panics or is refused only for the reasons named.
THEOREM PublicationsTrue == PublicationSpec => []PublicationsAreTrue
  <1>1. PublicationInit => PublicationsInv
    BY PublicationsInitially
  <1>2. PublicationsInv /\ [PublicationNext]_publicationVars => PublicationsInv'
    BY PublicationsStep
  <1>3. PublicationsInv => PublicationsAreTrue
    BY PublicationsInvImplies
  <1> QED BY <1>1, <1>2, <1>3, PTL DEF PublicationSpec

-----------------------------------------------------------------------------
(* The object stores: the invariant.                                       *)

Item0 == [name : ObjectNames, to : ObjectNames, at : Nat, val : Int \cup SUBSET ObjectNames,
          res : {"running", "ok", "error", "not found", "reconnecting"}, retried : BOOLEAN]
OpNames == {"none", "create", "upload", "get", "file", "delete", "bulkGet", "prefixGet", "bulkCreate",
            "bulkDelete", "prefixDelete", "presign", "list", "copy", "move", "rename"}
ItemMaps == UNION {[S -> Item0] : S \in SUBSET ObjectNames}
Invocation == [op : OpNames, pc : {"idle", "listing", "items", "ok", "error", "panicked", "looping"},
               page : Nat \ {0}, found : SUBSET ObjectNames, items : ItemMaps]

ObjectsTyped ==
  /\ binding \in DOMAIN Programs
  /\ objects \in [ObjectNames -> Int]
  /\ DOMAIN files = ObjectNames
  /\ DOMAIN invocation = Callers /\ \A c \in Callers : invocation[c] \in Invocation
  /\ DOMAIN held = Callers /\ \A c \in Callers : DOMAIN held[c] = ObjectNames
  /\ storeFaults \in Nat /\ link \in {"up", "down"} /\ needsReconnect \in BOOLEAN

\* The items of a call are at steps of its program.
ItemsInPlace(c) ==
  LET call == invocation[c] IN
  /\ call.pc # "idle" => call.op \in DOMAIN Programs[binding]
  /\ call.pc # "items" => call.items = <<>>
  /\ call.pc = "listing" => call.op \in ByPrefix \cup {"list"}
  /\ call.pc \notin {"idle", "items"} => binding \notin Sftp
  /\ call.pc = "items" /\ call.op = "list" => binding \in Sftp
  /\ call.pc = "items" /\ call.op \notin Bulk \cup ByPrefix => DOMAIN call.items = {1}
  /\ \A i \in DOMAIN call.items :
       /\ call.items[i].at \in 1..Len(Program(c))
       /\ call.op \in Bulk \cup ByPrefix => call.items[i].name = i /\ call.items[i].to = i
       /\ call.op \notin {"copy", "move", "rename"} => call.items[i].to = call.items[i].name
       /\ call.items[i].res = "reconnecting" => binding \in Sftp

\* A call holds what there is.
NowHeld(c) ==
  invocation[c].pc # "idle" => \A n \in ObjectNames : objects[n] \in held[c][n]

\* What an item has done that its answer will speak of.
HasRead(c, i) ==
  LET call == invocation[c]
      it == call.items[i]
  IN  Reads(call.op) /\ (it.res = "ok" \/ (it.at > 1 /\ ~(binding = "azure" /\ ToFile(call.op))))
HasWritten(c, i) ==
  LET call == invocation[c]
      it == call.items[i]
  IN  Writes(call.op) /\ (it.res = "ok" \/ (binding = "s3" /\ it.at > 1))
HasCopied(c, i) ==
  LET call == invocation[c]
      it == call.items[i]
  IN  call.op \in {"copy", "move", "rename"} /\ (it.res = "ok" \/ it.at > 1)

\* An item knows what its call has held.
AnswerInv(c, i) ==
  LET call == invocation[c]
      it == call.items[i]
      seen == held[c][it.name]
  IN  /\ HasRead(c, i) => it.val \in seen \ {0} /\ (it.val = Partial => MayBeTorn)
      /\ HasWritten(c, i) => Data(c, i) \in seen
      /\ HasCopied(c, i) => it.val \in held[c][it.to]
      /\ Deletes(call.op) /\ it.res = "ok" => 0 \in seen
      /\ it.res = "not found" => 0 \in seen

\* A listing under way is right as far as it has come.
ListInv(c) ==
  LET call == invocation[c] IN
  /\ call.op = "list" /\ call.pc \in {"listing", "ok"} =>
       \A n \in ObjectNames :
         /\ n \in call.found => held[c][n] # {0}
         /\ (\/ n < call.page
             \/ binding = "local" /\ call.page > 1
             \/ call.pc = "ok") /\ 0 \notin held[c][n] => n \in call.found
  /\ call.op = "list" /\ call.pc = "items" /\ call.items[1].res = "ok" =>
       \A n \in ObjectNames :
         /\ n \in call.items[1].val => held[c][n] # {0}
         /\ 0 \notin held[c][n] => n \in call.items[1].val

\* What a move has copied is at its destination, and it has copied before it deletes.
MoveInv(c, i) ==
  LET it == invocation[c].items[i] IN
  Moves(invocation[c].op) =>
    /\ it.at = 1 => it.val = 0
    /\ it.name # it.to /\ it.val # 0 /\ Alone(c, it) => objects[it.to] = it.val

\* Only an item of a call makes a file.
FilesTouched ==
  \A n \in ObjectNames :
    files[n] # 0 => \E c \in Callers : \E i \in DOMAIN invocation[c].items :
                      invocation[c].items[i].name = n

\* The file of an item is whole or gone, except between its two steps.
FileInv(c, i) ==
  LET it == invocation[c].items[i] IN
  ToFile(invocation[c].op) /\ Alone(c, it) =>
    /\ it.res = "ok" => files[it.name] \in held[c][it.name] \ {0, Partial}
    /\ binding # "s3" /\ (it.at = 1 \/ it.res \in {"error", "not found"}) => files[it.name] = 0

\* Half a file is that of a writer at its second step.
TornInv ==
  \A n \in ObjectNames :
    objects[n] = Partial =>
      \/ binding \in {"local", "sftp"}
      \/ /\ binding = "sequentialSftp"
         /\ storeFaults = 0 => \E c \in Callers :
              /\ invocation[c].pc = "items" /\ invocation[c].op = "create"
              /\ invocation[c].items[1].name = n
              /\ invocation[c].items[1].res = "running" /\ invocation[c].items[1].at = 2

\* What a create of Azure has not sent yet is nowhere.
UnsentInv(c) ==
  binding = "azure" =>
    /\ invocation[c].pc = "idle" => \A n \in ObjectNames : objects[n] # Data(c, 1)
    /\ /\ invocation[c].pc = "items" /\ invocation[c].op = "create"
       /\ invocation[c].items[1].at = 1
       => \A n \in ObjectNames : objects[n] # Data(c, 1) /\ Data(c, 1) \notin held[c][n]

\* Reconnects follow faults, errors follow two of them.
LinkInv ==
  binding \in Sftp =>
    /\ link = "down" => storeFaults > 0
    /\ \A c \in Callers : \A i \in DOMAIN invocation[c].items :
         LET it == invocation[c].items[i] IN
         /\ it.res = "reconnecting" \/ it.retried => storeFaults > 0
         /\ storeFaults <= 1 => it.res # "error"
         /\ storeFaults <= 1 /\ link = "down" =>
              ~it.retried /\ (it.res = "reconnecting" => needsReconnect)

\* Who does not answer.
PanicInv(c) ==
  invocation[c].pc \in {"panicked", "looping"} => binding \in {"gcs", "local"}

\* The inductive invariant.
ObjectsInv ==
  /\ ObjectsTyped /\ FilesTouched /\ TornInv /\ LinkInv
  /\ \A c \in Callers :
       /\ ItemsInPlace(c) /\ NowHeld(c) /\ ListInv(c) /\ UnsentInv(c) /\ PanicInv(c)
       /\ \A i \in DOMAIN invocation[c].items :
            AnswerInv(c, i) /\ MoveInv(c, i) /\ FileInv(c, i)

-----------------------------------------------------------------------------
(* The object stores: programs, steps of items, steps of calls.            *)

\* The programs, operation by operation.
ObjectProgramIs(b, op, prog) ==
  \/ b = "azure" /\ op = "create" /\ prog = <<"presign", "put">>
  \/ b = "azure" /\ op = "get" /\ prog = <<"read", "properties">>
  \/ b = "azure" /\ op \in {"file", "prefixGet"} /\ prog = <<"open", "download">>
  \/ b = "azure" /\ op \in {"bulkDelete", "prefixDelete"} /\ prog = <<"batch", "delete">>
  \/ b = "s3" /\ op = "create" /\ prog = <<"put", "presign">>
  \/ b = "s3" /\ op = "bulkGet" /\ prog = <<"read", "open", "save">>
  \/ b = "s3" /\ op = "bulkDelete" /\ prog = <<"batch">>
  \/ b = "gcs" /\ op = "copy" /\ prog = <<"copy">>
  \/ b = "gcs" /\ op \in {"move", "rename"} /\ prog = <<"copy", "delete">>
  \/ b \in {"gcs", "obs", "oss"} /\ op = "create" /\ prog = <<"put">>
  \/ b \in {"local", "sftp", "sequentialSftp"} /\ op = "create" /\ prog = <<"truncate", "write">>
  \/ b \in {"azure", "s3"} /\ op = "bulkCreate" /\ prog = <<"put">>
  \/ b = "obs" /\ op = "upload" /\ prog = <<"put">>
  \/ b # "azure" /\ op = "get" /\ prog = <<"read">>
  \/ b = "azure" /\ op = "bulkGet" /\ prog = <<"read">>
  \/ b = "gcs" /\ op = "prefixGet" /\ prog = <<"read">>
  \/ b \in {"azure", "s3", "gcs", "obs"} /\ op = "delete" /\ prog = <<"delete">>
  \/ b \in {"local", "sftp", "sequentialSftp"} /\ op = "delete" /\ prog = <<"remove">>
  \/ op = "presign" /\ prog = <<"presign">>
  \/ b \in Sftp /\ op = "list" /\ prog = <<"readdir">>
  \/ b \notin Sftp /\ op = "list" /\ prog = <<>>

\* The programs are those of the table.
LEMMA ObjectPrograms ==
  ASSUME NEW b \in DOMAIN Programs, NEW op \in DOMAIN Programs[b]
  PROVE  ObjectProgramIs(b, op, Programs[b][op])
  <1> USE DEF ObjectProgramIs, Sftp
  <1>1. CASE b = "azure"
    <2>1. Programs[b] =
            [create |-> BlobCreate, get |-> BlobGet, file |-> BlobGetToFile,
             delete |-> BlobDelete, bulkGet |-> BlobBulkGet, prefixGet |-> BlobGetToFile,
             bulkCreate |-> BlobBulkCreate, bulkDelete |-> BlobBulkDelete,
             prefixDelete |-> BlobBulkDelete, presign |-> BlobPresign, list |-> <<>>]
      BY <1>1 DEF Programs
    <2> QED BY <1>1, <2>1 DEF BlobCreate, BlobGet, BlobGetToFile, BlobDelete, BlobBulkGet,
               BlobBulkCreate, BlobBulkDelete, BlobPresign
  <1>2. CASE b = "s3"
    <2>1. Programs[b] =
            [create |-> S3Create, get |-> S3Get, delete |-> S3Delete,
             bulkGet |-> S3BulkGet, bulkCreate |-> S3BulkCreate,
             bulkDelete |-> S3BulkDelete, presign |-> S3Presign, list |-> <<>>]
      BY <1>2 DEF Programs
    <2> QED BY <1>2, <2>1 DEF S3Create, S3Get, S3Delete, S3BulkGet, S3BulkCreate,
               S3BulkDelete, S3Presign
  <1>3. CASE b = "gcs"
    <2>1. Programs[b] =
            [create |-> GCSCreate, get |-> GCSGet, delete |-> GCSDelete,
             prefixGet |-> GCSBulkGet, copy |-> GCSCopy, move |-> GCSMove,
             rename |-> GCSRename, presign |-> GCSSign, list |-> <<>>]
      BY <1>3 DEF Programs
    <2> QED BY <1>3, <2>1 DEF GCSCreate, GCSGet, GCSDelete, GCSBulkGet, GCSCopy, GCSMove,
               GCSRename, GCSSign
  <1>4. CASE b = "obs"
    <2>1. Programs[b] = [create |-> OBSCreate, upload |-> OBSUpload, get |-> OBSGet,
                         delete |-> OBSDelete, list |-> <<>>]
      BY <1>4 DEF Programs
    <2> QED BY <1>4, <2>1 DEF OBSCreate, OBSUpload, OBSGet, OBSDelete
  <1>5. CASE b = "oss"
    <2>1. Programs[b] = [create |-> OSSCreate]
      BY <1>5 DEF Programs
    <2> QED BY <1>5, <2>1 DEF OSSCreate
  <1>6. CASE b = "local"
    <2>1. Programs[b] = [create |-> LocalCreate, get |-> LocalGet, delete |-> LocalDelete,
                         list |-> <<>>]
      BY <1>6 DEF Programs
    <2> QED BY <1>6, <2>1 DEF LocalCreate, LocalGet, LocalDelete
  <1>7. CASE b \in Sftp
    <2>1. Programs[b] = [create |-> SftpCreate, get |-> SftpGet, delete |-> SftpDelete,
                         list |-> SftpList]
      BY <1>7 DEF Programs
    <2> QED BY <1>7, <2>1 DEF SftpCreate, SftpGet, SftpDelete, SftpList
  <1> QED BY <1>1, <1>2, <1>3, <1>4, <1>5, <1>6, <1>7 DEF Programs

\* What step s, number k, of an operation means; last says whether it is the last one.
ObjectStepIs(b, op, k, s, last) ==
  /\ s \in {"presign", "put", "read", "properties", "open", "download", "save", "delete",
            "batch", "copy", "truncate", "write", "remove", "readdir"}
  /\ Reads(op) => /\ s \notin {"copy", "readdir"}
                  /\ s \notin {"read", "download"} /\ (last \/ ~(b = "azure" /\ op \in {"file", "prefixGet"}))
                       => k > 1 /\ ~(b = "azure" /\ op \in {"file", "prefixGet"})
  /\ Writes(op) /\ (last \/ b = "s3") /\ s \notin {"put", "write"} => b = "s3" /\ k > 1
  /\ op \in {"copy", "move", "rename"} => s = "copy" \/ (k > 1 /\ s = "delete")
  /\ Deletes(op) /\ last => s \in {"delete", "remove", "batch"}
  /\ op = "list" => s = "readdir"
  /\ Moves(op) => b = "gcs" /\ \/ k = 1 /\ s = "copy" /\ ~last
                               \/ k = 2 /\ s = "delete" /\ last
  /\ b = "azure" /\ op \in {"file", "prefixGet"} => \/ k = 1 /\ s = "open" /\ ~last
                                                    \/ k = 2 /\ s = "download" /\ last
  /\ b = "s3" /\ op = "bulkGet" => \/ s \in {"read", "open"} /\ ~last
                                   \/ k > 1 /\ s = "save" /\ last
  /\ b # "azure" => op \notin {"file"} /\ s # "properties"
  /\ s = "truncate" => op = "create" /\ k = 1 /\ ~last /\ b \in {"local"} \cup Sftp
  /\ s = "copy" => op \in {"copy", "move", "rename"} /\ b = "gcs"
  /\ b = "sequentialSftp" /\ op = "create" => \/ k = 1 /\ s = "truncate" /\ ~last
                                              \/ k = 2 /\ s = "write" /\ last
  /\ b = "azure" /\ op = "create" => \/ k = 1 /\ s = "presign" /\ ~last
                                     \/ k = 2 /\ s = "put" /\ last
  /\ op = "create" /\ s = "presign" => b = "s3" \/ (b = "azure" /\ k = 1)
  /\ s = "batch" => Deletes(op)
  /\ s \in {"put", "write"} => Writes(op)
  /\ s \in {"open", "download", "save"} => op = "file" \/ <<b, op>> \in {<<"azure", "prefixGet">>, <<"s3", "bulkGet">>}

\* A step of a program means what its name says.
LEMMA ObjectSteps ==
  ASSUME NEW b \in DOMAIN Programs, NEW op \in DOMAIN Programs[b],
         NEW k \in 1..Len(Programs[b][op])
  PROVE  /\ ObjectStepIs(b, op, k, Programs[b][op][k],
                         k = Len(Programs[b][op]) \/ Programs[b][op][k] = "batch")
         /\ b = "azure" /\ Programs[b][op][k] = "batch" => Len(Programs[b][op]) = 2
  <1> DEFINE prog == Programs[b][op]
  <1>1. ObjectProgramIs(b, op, prog)
    BY ObjectPrograms
  <1> HIDE DEF prog
  <1>2. k \in 1..Len(prog)
    BY DEF prog
  <1>3. /\ ObjectStepIs(b, op, k, prog[k], k = Len(prog) \/ prog[k] = "batch")
        /\ b = "azure" /\ prog[k] = "batch" => Len(prog) = 2
    <2>1. ASSUME NEW x, prog = <<x>>
          PROVE  k = 1 /\ Len(prog) = 1 /\ prog[k] = x
      <3>1. Len(prog) = 1
        BY <2>1
      <3>2. k = 1
        BY <1>2, <3>1
      <3> QED BY <2>1, <3>1, <3>2
    <2>2. ASSUME NEW x, NEW y, prog = <<x, y>>
          PROVE  /\ Len(prog) = 2
                 /\ (k = 1 /\ prog[k] = x) \/ (k = 2 /\ prog[k] = y)
      <3>1. Len(prog) = 2
        BY <2>2
      <3>2. k = 1 \/ k = 2
        BY <1>2, <3>1
      <3> QED BY <2>2, <3>1, <3>2
    <2>3. ASSUME NEW x, NEW y, NEW z, prog = <<x, y, z>>
          PROVE  /\ Len(prog) = 3
                 /\ \/ k = 1 /\ prog[k] = x
                    \/ k = 2 /\ prog[k] = y
                    \/ k = 3 /\ prog[k] = z
      <3>1. Len(prog) = 3
        BY <2>3
      <3>2. k = 1 \/ k = 2 \/ k = 3
        BY <1>2, <3>1
      <3> QED BY <2>3, <3>1, <3>2
    <2>4. prog # <<>>
      BY <1>2
    <2> DEFINE s == prog[k]
               n == Len(prog)
    <2>5. \/ b = "azure" /\ op = "create" /\ n = 2 /\ ((k = 1 /\ s = "presign") \/ (k = 2 /\ s = "put"))
          \/ b = "azure" /\ op = "get" /\ n = 2 /\ ((k = 1 /\ s = "read") \/ (k = 2 /\ s = "properties"))
          \/ b = "azure" /\ op \in {"file", "prefixGet"} /\ n = 2 /\ ((k = 1 /\ s = "open") \/ (k = 2 /\ s = "download"))
          \/ b = "azure" /\ op \in {"bulkDelete", "prefixDelete"} /\ n = 2 /\ ((k = 1 /\ s = "batch") \/ (k = 2 /\ s = "delete"))
          \/ b = "s3" /\ op = "create" /\ n = 2 /\ ((k = 1 /\ s = "put") \/ (k = 2 /\ s = "presign"))
          \/ b = "s3" /\ op = "bulkGet" /\ n = 3 /\ ((k = 1 /\ s = "read") \/ (k = 2 /\ s = "open") \/ (k = 3 /\ s = "save"))
          \/ b = "s3" /\ op = "bulkDelete" /\ k = 1 /\ s = "batch" /\ n = 1
          \/ b = "gcs" /\ op = "copy" /\ k = 1 /\ s = "copy" /\ n = 1
          \/ b = "gcs" /\ op \in {"move", "rename"} /\ n = 2 /\ ((k = 1 /\ s = "copy") \/ (k = 2 /\ s = "delete"))
          \/ b \in {"gcs", "obs", "oss"} /\ op = "create" /\ k = 1 /\ s = "put" /\ n = 1
          \/ b \in {"local", "sftp", "sequentialSftp"} /\ op = "create" /\ n = 2 /\ ((k = 1 /\ s = "truncate") \/ (k = 2 /\ s = "write"))
          \/ b \in {"azure", "s3"} /\ op = "bulkCreate" /\ k = 1 /\ s = "put" /\ n = 1
          \/ b = "obs" /\ op = "upload" /\ k = 1 /\ s = "put" /\ n = 1
          \/ b # "azure" /\ op = "get" /\ k = 1 /\ s = "read" /\ n = 1
          \/ b = "azure" /\ op = "bulkGet" /\ k = 1 /\ s = "read" /\ n = 1
          \/ b = "gcs" /\ op = "prefixGet" /\ k = 1 /\ s = "read" /\ n = 1
          \/ b \in {"azure", "s3", "gcs", "obs"} /\ op = "delete" /\ k = 1 /\ s = "delete" /\ n = 1
          \/ b \in {"local", "sftp", "sequentialSftp"} /\ op = "delete" /\ k = 1 /\ s = "remove" /\ n = 1
          \/ op = "presign" /\ k = 1 /\ s = "presign" /\ n = 1
          \/ b \in Sftp /\ op = "list" /\ k = 1 /\ s = "readdir" /\ n = 1
      BY <1>1, <2>1, <2>2, <2>3, <2>4 DEF ObjectProgramIs
    <2> HIDE DEF s, n
    <2>6. ObjectStepIs(b, op, k, s, k = n \/ s = "batch")
      BY <2>5 DEF ObjectStepIs, Reads, Writes, Deletes, Moves, Sftp
    <2>7. b = "azure" /\ s = "batch" => n = 2
      BY <2>5
    <2> QED BY <2>6, <2>7 DEF s, n
  <1> QED BY <1>3 DEF prog

\* What is known of a call and its items.
LEMMA ItemsTyped ==
  ASSUME ObjectsTyped, NEW c \in Callers
  PROVE  /\ invocation[c] \in Invocation
         /\ DOMAIN invocation[c].items \subseteq ObjectNames
         /\ invocation[c].items \in [DOMAIN invocation[c].items -> Item0]
         /\ \A i \in DOMAIN invocation[c].items : invocation[c].items[i] \in Item0
  <1>1. invocation[c] \in Invocation
    BY DEF ObjectsTyped
  <1>2. invocation[c].items \in ItemMaps
    BY <1>1 DEF Invocation
  <1>3. PICK S \in SUBSET ObjectNames : invocation[c].items \in [S -> Item0]
    BY <1>2 DEF ItemMaps
  <1> QED BY <1>1, <1>3

\* An item is at a step of its program.
LEMMA ItemAtStep ==
  ASSUME ObjectsTyped, NEW c \in Callers, ItemsInPlace(c), NEW i \in DOMAIN invocation[c].items
  PROVE  /\ invocation[c].pc = "items"
         /\ ObjectStepIs(binding, invocation[c].op, invocation[c].items[i].at, At(c, i), IsLast(c, i))
         /\ binding = "azure" /\ At(c, i) = "batch" => Len(Program(c)) = 2
  <1>1. invocation[c].pc = "items"
    BY DEF ItemsInPlace
  <1>2. /\ binding \in DOMAIN Programs /\ invocation[c].op \in DOMAIN Programs[binding]
        /\ invocation[c].items[i].at \in 1..Len(Programs[binding][invocation[c].op])
    BY <1>1 DEF ItemsInPlace, ObjectsTyped, Program
  <1> QED BY <1>1, <1>2, ObjectSteps DEF At, IsLast, Program

\* A step with items of call c that leaves the rest of it and the other calls alone.
CallKeeps(c) ==
  /\ DOMAIN invocation' = Callers
  /\ \A d \in Callers \ {c} : invocation'[d] = invocation[d]
  /\ invocation'[c] \in Invocation
  /\ invocation'[c].op = invocation[c].op /\ invocation'[c].pc = invocation[c].pc
  /\ invocation'[c].page = invocation[c].page /\ invocation'[c].found = invocation[c].found
  /\ DOMAIN invocation'[c].items = DOMAIN invocation[c].items

\* A call with new items is the same call otherwise.
LEMMA ItemsReplaced ==
  ASSUME ObjectsTyped, NEW c \in Callers,
         NEW new \in [DOMAIN invocation[c].items -> Item0],
         invocation' = [invocation EXCEPT ![c].items = new]
  PROVE  CallKeeps(c) /\ invocation'[c].items = new
  <1> DEFINE call == invocation[c]
             r == [call EXCEPT !.items = new]
  <1>1. call \in Invocation /\ DOMAIN call.items \subseteq ObjectNames /\ DOMAIN invocation = Callers
    BY ItemsTyped DEF ObjectsTyped
  <1>2. new \in ItemMaps
    <2>1. DOMAIN call.items \in SUBSET ObjectNames
      BY <1>1
    <2> QED BY <2>1 DEF ItemMaps
  <1>3. invocation' = [invocation EXCEPT ![c] = r]
    OBVIOUS
  <1> HIDE DEF call
  <1>4. /\ r \in Invocation /\ r.items = new /\ r.op = call.op /\ r.pc = call.pc
        /\ r.page = call.page /\ r.found = call.found
    BY <1>1, <1>2 DEF Invocation
  <1> HIDE DEF r
  <1>5. invocation'[c] = r /\ DOMAIN invocation' = Callers
        /\ \A d \in Callers \ {c} : invocation'[d] = invocation[d]
    BY <1>1, <1>3
  <1>6. DOMAIN new = DOMAIN invocation[c].items
    OBVIOUS
  <1> QED BY <1>4, <1>5, <1>6 DEF CallKeeps, call

\* A call with one new item is the same call otherwise.
LEMMA ItemReplaced ==
  ASSUME ObjectsTyped, NEW c \in Callers, NEW i \in DOMAIN invocation[c].items,
         NEW it \in Item0, ItemIs(c, i, it)
  PROVE  /\ CallKeeps(c)
         /\ invocation'[c].items[i] = it
         /\ \A j \in DOMAIN invocation[c].items : j # i =>
              invocation'[c].items[j] = invocation[c].items[j]
  <1> DEFINE new == [invocation[c].items EXCEPT ![i] = it]
  <1>1. invocation' = [invocation EXCEPT ![c].items = new]
    BY DEF ItemIs
  <1>2. new \in [DOMAIN invocation[c].items -> Item0]
    BY ItemsTyped
  <1>3. CallKeeps(c) /\ invocation'[c].items = new
    BY <1>1, <1>2, ItemsReplaced
  <1>4. new[i] = it /\ \A j \in DOMAIN invocation[c].items : j # i => new[j] = invocation[c].items[j]
    OBVIOUS
  <1> QED BY <1>3, <1>4

\* What a request makes of the objects.
LEMMA EffectFacts ==
  ASSUME ObjectsTyped, NEW c \in Callers, ItemsInPlace(c), NEW i \in DOMAIN invocation[c].items
  PROVE  LET it == invocation[c].items[i]
             new == Effect(c, i)
         IN  /\ new \in [ObjectNames -> Int]
             /\ \A n \in ObjectNames : n \notin {it.name, it.to} => new[n] = objects[n]
             /\ At(c, i) \in {"put", "write"} => new[it.name] = Data(c, i)
             /\ At(c, i) \in {"delete", "remove", "batch"} => new[it.name] = 0
             /\ At(c, i) = "copy" => /\ new[it.to] = objects[it.name]
                                     /\ \A n \in ObjectNames : n # it.to => new[n] = objects[n]
             /\ At(c, i) # "copy" => \A n \in ObjectNames : n # it.name => new[n] = objects[n]
             /\ At(c, i) \notin {"put", "write", "truncate", "delete", "remove", "batch", "copy"}
                  => new = objects
             /\ \A n \in ObjectNames :
                  \/ new[n] \in {0, Data(c, i)}
                  \/ At(c, i) = "truncate" /\ n = it.name
                  \/ \E m \in ObjectNames : new[n] = objects[m]
             /\ At(c, i) \in {"put", "write"} =>
                  \A n \in ObjectNames : new[n] = Data(c, i) \/ new[n] = objects[n]
  <1> DEFINE it == invocation[c].items[i]
             s == At(c, i)
  <1>1. it.name \in ObjectNames /\ it.to \in ObjectNames
    BY ItemsTyped DEF Item0
  <1>2. Data(c, i) \in Int
    <2>1. c \in Int /\ i \in Int /\ Cardinality(ObjectNames) \in Int
      BY ItemsTyped, ObjectStoresAssumption, FS_CardinalityType
    <2> QED BY <2>1 DEF Data
  <1>3. objects \in [ObjectNames -> Int] /\ Partial \in Int
    BY DEF ObjectsTyped, Partial
  <1>4. Effect(c, i) = CASE s \in {"put", "write"} -> [objects EXCEPT ![it.name] = Data(c, i)]
        [] s = "truncate" -> [objects EXCEPT ![it.name] = Partial]
        [] s \in {"delete", "remove", "batch"} -> [objects EXCEPT ![it.name] = 0]
        [] s = "copy" -> [objects EXCEPT ![it.to] = objects[it.name]]
        [] OTHER -> objects
    BY DEF Effect
  <1> HIDE DEF it, s
  <1>5. CASE s \in {"put", "write"}
    <2>1. Effect(c, i) = [objects EXCEPT ![it.name] = Data(c, i)]
      BY <1>4, <1>5
    <2> QED BY <1>1, <1>2, <1>3, <1>5, <2>1 DEF it, s
  <1>6. CASE s = "truncate"
    <2>1. Effect(c, i) = [objects EXCEPT ![it.name] = Partial]
      BY <1>4, <1>6
    <2> QED BY <1>1, <1>2, <1>3, <1>6, <2>1 DEF it, s
  <1>7. CASE s \in {"delete", "remove", "batch"}
    <2>1. Effect(c, i) = [objects EXCEPT ![it.name] = 0]
      BY <1>4, <1>7
    <2> QED BY <1>1, <1>2, <1>3, <1>7, <2>1 DEF it, s
  <1>8. CASE s = "copy"
    <2>1. Effect(c, i) = [objects EXCEPT ![it.to] = objects[it.name]]
      BY <1>4, <1>8
    <2> QED BY <1>1, <1>2, <1>3, <1>8, <2>1 DEF it, s
  <1>9. CASE s \notin {"put", "write", "truncate", "delete", "remove", "batch", "copy"}
    <2>1. Effect(c, i) = objects
      BY <1>4, <1>9
    <2> QED BY <1>1, <1>2, <1>3, <1>9, <2>1 DEF it, s
  <1> QED BY <1>5, <1>6, <1>7, <1>8, <1>9 DEF s

\* What the step of an item reads.
ReadBy(c, i) ==
  LET it == invocation[c].items[i]
  IN  CASE At(c, i) \in {"read", "copy", "download"} -> objects[it.name]
        [] At(c, i) = "readdir" -> {n \in ObjectNames : objects[n] # 0}
        [] OTHER -> it.val

\* The step of the item works.
ItemWorks(c, i) ==
  LET it == invocation[c].items[i]
      new == invocation'[c].items[i]
  IN  /\ Running(c, i) /\ ~Missing(c, i) /\ Holds(Effect(c, i))
      /\ new.name = it.name /\ new.to = it.to /\ new.retried = it.retried
      /\ new.val = ReadBy(c, i)
      /\ IsLast(c, i) => new.res = "ok" /\ new.at = it.at
      /\ ~IsLast(c, i) => new.res = "running" /\ new.at = it.at + 1
      /\ files'[it.name] = FileAfter(c, i)

\* It does not, or its item begins again.
ItemStays(c, i) ==
  LET it == invocation[c].items[i]
      new == invocation'[c].items[i]
  IN  /\ new.name = it.name /\ new.to = it.to /\ new.val = it.val
      /\ new.res \in {"running", "error", "not found", "reconnecting"}
      /\ new.res = "not found" => objects[it.name] = 0
      /\ new.res = "reconnecting" => binding \in Sftp
      /\ \/ new.at = it.at /\ new.res # "running"
         \/ new.at = 1 /\ binding \in Sftp
         \/ new.at = 2 /\ binding = "azure" /\ At(c, i) = "batch"
      /\ binding \notin Sftp =>
           files'[it.name] = IF At(c, i) = "download" THEN 0 ELSE files[it.name]

\* The other items of the call, which a failed batch takes along.
OtherItemsStay(c, i) ==
  \A j \in DOMAIN invocation[c].items : j # i =>
    \/ invocation'[c].items[j] = invocation[c].items[j]
    \/ /\ binding = "azure" /\ At(c, i) = "batch"
       /\ invocation'[c].items[j] = [invocation[c].items[j] EXCEPT !.at = 2]

ObjectsMove(c, i) ==
  \/ objects' = objects /\ held' = held
  \/ ~Missing(c, i) /\ Holds(Effect(c, i))

\* A step of item i of call c.
ItemAct(c, i) ==
  /\ CallKeeps(c) /\ OtherItemsStay(c, i) /\ (ItemWorks(c, i) \/ ItemStays(c, i))
  /\ ObjectsMove(c, i)
  /\ DOMAIN files' = ObjectNames
  /\ \A n \in ObjectNames : n # invocation[c].items[i].name => files'[n] = files[n]
  /\ binding' = binding
  /\ storeFaults' \in {storeFaults, storeFaults + 1}
  /\ link' \in {"up", "down"} /\ needsReconnect' \in BOOLEAN

\* A request that succeeds is a step of its item.
LEMMA ItemStepActs ==
  ASSUME ObjectsTyped, NEW c \in Callers, ItemsInPlace(c), NEW i \in DOMAIN invocation[c].items,
         ItemStep(c, i)
  PROVE  ItemAct(c, i) /\ ItemWorks(c, i)
  <1> DEFINE it == invocation[c].items[i]
             ok == [it EXCEPT !.res = "ok", !.val = ReadBy(c, i)]
             on == [it EXCEPT !.at = @ + 1, !.val = ReadBy(c, i)]
  <1>1. it \in Item0 /\ it.name \in ObjectNames
    BY ItemsTyped DEF Item0
  <1>2. ReadBy(c, i) \in Int \cup SUBSET ObjectNames
    <2>1. objects[it.name] \in Int /\ it.val \in Int \cup SUBSET ObjectNames
      BY <1>1 DEF ObjectsTyped, Item0
    <2>2. ReadBy(c, i) \in {objects[it.name], {n \in ObjectNames : objects[n] # 0}, it.val}
      BY DEF ReadBy
    <2> QED BY <2>1, <2>2
  <1>3. ItemIs(c, i, IF IsLast(c, i) THEN ok ELSE on)
    BY DEF ItemStep, ReadBy
  <1>4. /\ Running(c, i) /\ ~Missing(c, i) /\ Holds(Effect(c, i))
        /\ files' = [files EXCEPT ![it.name] = FileAfter(c, i)]
        /\ binding' = binding /\ storeFaults' = storeFaults /\ link' = link
        /\ needsReconnect' = needsReconnect
    BY DEF ItemStep
  <1>5. it.res = "running"
    BY <1>4 DEF Running
  <1> HIDE DEF it
  <1>6. /\ ok \in Item0 /\ ok.name = it.name /\ ok.to = it.to /\ ok.retried = it.retried
        /\ ok.val = ReadBy(c, i) /\ ok.res = "ok" /\ ok.at = it.at
        /\ on \in Item0 /\ on.name = it.name /\ on.to = it.to /\ on.retried = it.retried
        /\ on.val = ReadBy(c, i) /\ on.res = "running" /\ on.at = it.at + 1
    <2> DEFINE v == ReadBy(c, i)
               k == it.at + 1
    <2>1. k \in Nat
      <3>1. it.at \in Nat
        BY <1>1 DEF Item0
      <3> QED BY <3>1
    <2>2. v \in Int \cup SUBSET ObjectNames
      BY <1>2
    <2> HIDE DEF v, k
    <2>3. [it EXCEPT !.res = "ok", !.val = v] \in Item0
      BY <1>1, <2>2 DEF Item0
    <2>4. [it EXCEPT !.at = k, !.val = v] \in Item0
      BY <1>1, <2>1, <2>2 DEF Item0
    <2>5. it = [name |-> it.name, to |-> it.to, at |-> it.at, val |-> it.val, res |-> it.res,
                retried |-> it.retried]
      BY <1>1 DEF Item0
    <2> HIDE DEF Item0
    <2>6. ok = [it EXCEPT !.res = "ok", !.val = v] /\ on = [it EXCEPT !.at = k, !.val = v]
      BY DEF v, k
    <2> QED BY <1>5, <2>3, <2>4, <2>5, <2>6 DEF v, k
  <1> HIDE DEF ok, on
  <1>7. /\ CallKeeps(c) /\ invocation'[c].items[i] = IF IsLast(c, i) THEN ok ELSE on
        /\ \A j \in DOMAIN invocation[c].items : j # i =>
             invocation'[c].items[j] = invocation[c].items[j]
    BY <1>3, <1>6, ItemReplaced
  <1>8. files'[it.name] = FileAfter(c, i) /\ DOMAIN files' = ObjectNames
        /\ \A n \in ObjectNames : n # it.name => files'[n] = files[n]
    BY <1>1, <1>4 DEF ObjectsTyped
  <1>9. ItemWorks(c, i)
    BY <1>4, <1>6, <1>7, <1>8 DEF ItemWorks, it
  <1> QED BY <1>4, <1>7, <1>8, <1>9 DEF ItemAct, OtherItemsStay, ObjectsMove, ObjectsTyped, it

\* A result that is not the one of a step that has worked, or the state of a reconnect.
LEMMA ItemEndsForm ==
  ASSUME ObjectsTyped, NEW c \in Callers, NEW i \in DOMAIN invocation[c].items,
         NEW r \in {"error", "not found", "reconnecting"},
         ItemIs(c, i, [invocation[c].items[i] EXCEPT !.res = r])
  PROVE  LET it == invocation[c].items[i]
             new == invocation'[c].items[i]
         IN  /\ CallKeeps(c) /\ OtherItemsStay(c, i)
             /\ new.name = it.name /\ new.to = it.to /\ new.val = it.val /\ new.at = it.at
             /\ new.res = r /\ new.retried = it.retried
  <1> DEFINE it == invocation[c].items[i]
             ended == [it EXCEPT !.res = r]
  <1>1. it \in Item0
    BY ItemsTyped
  <1>2. ItemIs(c, i, ended)
    OBVIOUS
  <1> HIDE DEF it
  <1>3. /\ ended \in Item0 /\ ended.name = it.name /\ ended.to = it.to /\ ended.val = it.val
        /\ ended.at = it.at /\ ended.res = r /\ ended.retried = it.retried
    BY <1>1 DEF Item0
  <1> HIDE DEF ended
  <1> QED BY <1>2, <1>3, ItemReplaced DEF OtherItemsStay, it

\* So is one that the service refuses,
LEMMA NotFoundActs ==
  ASSUME ObjectsTyped, NEW c \in Callers, ItemsInPlace(c), NEW i \in DOMAIN invocation[c].items,
         NotFound(c, i)
  PROVE  /\ ItemAct(c, i) /\ ItemStays(c, i) /\ Running(c, i) /\ Missing(c, i)
         /\ objects' = objects /\ storeFaults' = storeFaults /\ link' = link
         /\ needsReconnect' = needsReconnect
         /\ invocation'[c].items[i].retried = invocation[c].items[i].retried
         /\ invocation'[c].items[i].res = IF At(c, i) = "properties" THEN "error" ELSE "not found"
  <1> DEFINE it == invocation[c].items[i]
             r == IF At(c, i) = "properties" THEN "error" ELSE "not found"
  <1>1. it \in Item0 /\ it.name \in ObjectNames
    BY ItemsTyped DEF Item0
  <1>2. /\ Running(c, i) /\ Missing(c, i) /\ files' = Cleaned(c, i)
        /\ ItemIs(c, i, [it EXCEPT !.res = r])
        /\ binding' = binding /\ objects' = objects /\ held' = held
        /\ storeFaults' = storeFaults /\ link' = link /\ needsReconnect' = needsReconnect
    BY DEF NotFound
  <1>3. objects[it.name] = 0
    BY <1>2 DEF Missing
  <1>4. r \in {"error", "not found"}
    OBVIOUS
  <1>5. files' = IF At(c, i) = "download" THEN [files EXCEPT ![it.name] = 0] ELSE files
    BY <1>2 DEF Cleaned
  <1>6. /\ files'[it.name] = IF At(c, i) = "download" THEN 0 ELSE files[it.name]
        /\ DOMAIN files' = ObjectNames
        /\ \A n \in ObjectNames : n # it.name => files'[n] = files[n]
    BY <1>1, <1>5 DEF ObjectsTyped
  <1> HIDE DEF r
  <1>7. /\ CallKeeps(c) /\ OtherItemsStay(c, i)
        /\ invocation'[c].items[i].name = it.name /\ invocation'[c].items[i].to = it.to
        /\ invocation'[c].items[i].val = it.val /\ invocation'[c].items[i].at = it.at
        /\ invocation'[c].items[i].res = r /\ invocation'[c].items[i].retried = it.retried
    BY <1>2, <1>4, ItemEndsForm
  <1>8. ItemStays(c, i)
    BY <1>3, <1>4, <1>6, <1>7 DEF ItemStays, r
  <1> QED BY <1>2, <1>6, <1>7, <1>8 DEF ItemAct, ObjectsMove, ObjectsTyped, it, r

\* A failed batch takes the items behind it along.
LEMMA FallBackForm ==
  ASSUME ObjectsTyped, NEW c \in Callers, NEW i \in DOMAIN invocation[c].items,
         invocation' = [invocation EXCEPT ![c].items = [j \in DOMAIN invocation[c].items |->
           IF j >= i THEN [invocation[c].items[j] EXCEPT !.at = 2] ELSE invocation[c].items[j]]]
  PROVE  /\ CallKeeps(c)
         /\ invocation'[c].items[i] = [invocation[c].items[i] EXCEPT !.at = 2]
         /\ \A j \in DOMAIN invocation[c].items :
              invocation'[c].items[j] \in
                {invocation[c].items[j], [invocation[c].items[j] EXCEPT !.at = 2]}
  <1> DEFINE items == invocation[c].items
             new == [j \in DOMAIN items |-> IF j >= i THEN [items[j] EXCEPT !.at = 2] ELSE items[j]]
  <1>1. \A j \in DOMAIN items : items[j] \in Item0
    BY ItemsTyped
  <1>2. i \in Nat
    <2>1. i \in ObjectNames
      BY ItemsTyped
    <2>2. ObjectNames = 1..Cardinality(ObjectNames) /\ Cardinality(ObjectNames) \in Nat
      BY ObjectStoresAssumption, FS_CardinalityType
    <2> QED BY <2>1, <2>2
  <1> HIDE DEF items
  <1>3. \A j \in DOMAIN items : [items[j] EXCEPT !.at = 2] \in Item0
    BY <1>1 DEF Item0
  <1>4. new \in [DOMAIN items -> Item0]
    BY <1>1, <1>3
  <1>5. invocation' = [invocation EXCEPT ![c].items = new]
    BY DEF items
  <1>6. /\ new[i] = [items[i] EXCEPT !.at = 2]
        /\ \A j \in DOMAIN items : new[j] \in {items[j], [items[j] EXCEPT !.at = 2]}
    BY <1>2 DEF items
  <1> HIDE DEF new
  <1>7. CallKeeps(c) /\ invocation'[c].items = new
    BY <1>4, <1>5, ItemsReplaced DEF items
  <1> QED BY <1>6, <1>7 DEF items

\* one that fails,
LEMMA StepFailsActs ==
  ASSUME ObjectsTyped, NEW c \in Callers, ItemsInPlace(c), NEW i \in DOMAIN invocation[c].items,
         StepFails(c, i)
  PROVE  ItemAct(c, i) /\ ItemStays(c, i) /\ binding \notin Sftp
  <1> DEFINE it == invocation[c].items[i]
  <1>1. it \in Item0 /\ it.name \in ObjectNames
    BY ItemsTyped DEF Item0
  <1>2. /\ Running(c, i) /\ binding \notin Sftp /\ storeFaults' = storeFaults + 1
        /\ files' = Cleaned(c, i) /\ Failed(c, i)
        /\ binding' = binding /\ link' = link /\ needsReconnect' = needsReconnect
    BY DEF StepFails
  <1>3. ObjectsMove(c, i)
    BY DEF StepFails, ObjectsMove
  <1>4. files' = IF At(c, i) = "download" THEN [files EXCEPT ![it.name] = 0] ELSE files
    BY <1>2 DEF Cleaned
  <1>5. /\ files'[it.name] = IF At(c, i) = "download" THEN 0 ELSE files[it.name]
        /\ DOMAIN files' = ObjectNames
        /\ \A n \in ObjectNames : n # it.name => files'[n] = files[n]
    BY <1>1, <1>4 DEF ObjectsTyped
  <1>6. storeFaults' \in {storeFaults, storeFaults + 1}
    BY <1>2
  <1>7. CASE binding = "azure" /\ At(c, i) = "batch"
    <2>1. invocation' = [invocation EXCEPT ![c].items = [j \in DOMAIN invocation[c].items |->
           IF j >= i THEN [invocation[c].items[j] EXCEPT !.at = 2] ELSE invocation[c].items[j]]]
      BY <1>2, <1>7 DEF Failed
    <2>2. /\ CallKeeps(c)
          /\ invocation'[c].items[i] = [it EXCEPT !.at = 2]
          /\ \A j \in DOMAIN invocation[c].items :
              invocation'[c].items[j] \in
                {invocation[c].items[j], [invocation[c].items[j] EXCEPT !.at = 2]}
      BY <2>1, FallBackForm
    <2>3. OtherItemsStay(c, i)
      BY <1>7, <2>2 DEF OtherItemsStay
    <2>4. it.res = "running"
      BY <1>2 DEF Running
    <2>5. [it EXCEPT !.at = 2].name = it.name /\ [it EXCEPT !.at = 2].to = it.to
          /\ [it EXCEPT !.at = 2].val = it.val /\ [it EXCEPT !.at = 2].at = 2
          /\ [it EXCEPT !.at = 2].res = it.res
      BY <1>1 DEF Item0
    <2>6. ItemStays(c, i)
      BY <1>5, <1>7, <2>2, <2>4, <2>5 DEF ItemStays
    <2> QED BY <1>2, <1>3, <1>5, <1>6, <2>2, <2>3, <2>6 DEF ItemAct, ObjectsTyped
  <1>8. CASE ~(binding = "azure" /\ At(c, i) = "batch")
    <2>1. ItemIs(c, i, [it EXCEPT !.res = "error"])
      BY <1>2, <1>8 DEF Failed
    <2>2. /\ CallKeeps(c) /\ OtherItemsStay(c, i)
          /\ invocation'[c].items[i].name = it.name /\ invocation'[c].items[i].to = it.to
          /\ invocation'[c].items[i].val = it.val /\ invocation'[c].items[i].at = it.at
          /\ invocation'[c].items[i].res = "error"
      BY <2>1, ItemEndsForm
    <2>3. ItemStays(c, i)
      BY <1>5, <2>2 DEF ItemStays
    <2> QED BY <1>2, <1>3, <1>5, <1>6, <2>2, <2>3 DEF ItemAct, ObjectsTyped
  <1> QED BY <1>2, <1>7, <1>8

\* The answer is lost, or no request gets through.
LEMMA TransportActs ==
  ASSUME ObjectsTyped, NEW c \in Callers, ItemsInPlace(c), NEW i \in DOMAIN invocation[c].items,
         SftpStepFails(c, i) \/ AnswerLost(c, i)
  PROVE  LET it == invocation[c].items[i]
             new == invocation'[c].items[i]
         IN  /\ ItemAct(c, i) /\ ItemStays(c, i) /\ binding \in Sftp
             /\ new.retried = it.retried
             /\ new.res = IF it.retried THEN "error" ELSE "reconnecting"
             /\ needsReconnect' = (needsReconnect \/ ~it.retried)
             /\ link' = "down"
             /\ \/ link = "down" /\ storeFaults' = storeFaults
                \/ storeFaults' = storeFaults + 1
  <1> DEFINE it == invocation[c].items[i]
             r == IF it.retried THEN "error" ELSE "reconnecting"
  <1>1. it \in Item0 /\ it.name \in ObjectNames /\ it.retried \in BOOLEAN
    BY ItemsTyped DEF Item0
  <1>2. /\ binding \in Sftp /\ TransportError(c, i) /\ link' = "down"
        /\ \/ link = "down" /\ storeFaults' = storeFaults
           \/ storeFaults' = storeFaults + 1
    BY DEF SftpStepFails, AnswerLost
  <1>3. /\ ItemIs(c, i, [it EXCEPT !.res = r]) /\ binding' = binding /\ files' = files
        /\ needsReconnect' = (needsReconnect \/ ~it.retried)
    BY <1>2 DEF TransportError
  <1>4. ObjectsMove(c, i)
    BY DEF SftpStepFails, AnswerLost, ObjectsMove
  <1>5. r \in {"error", "not found", "reconnecting"} /\ r # "not found"
    OBVIOUS
  <1>6. needsReconnect' \in BOOLEAN
    <2>1. needsReconnect \in BOOLEAN
      BY DEF ObjectsTyped
    <2> QED BY <1>1, <1>3, <2>1
  <1> HIDE DEF r
  <1>7. /\ CallKeeps(c) /\ OtherItemsStay(c, i)
        /\ invocation'[c].items[i].name = it.name /\ invocation'[c].items[i].to = it.to
        /\ invocation'[c].items[i].val = it.val /\ invocation'[c].items[i].at = it.at
        /\ invocation'[c].items[i].res = r /\ invocation'[c].items[i].retried = it.retried
    BY <1>3, <1>5, ItemEndsForm
  <1>8. ItemStays(c, i)
    BY <1>2, <1>5, <1>7 DEF ItemStays, r
  <1>9. storeFaults' \in {storeFaults, storeFaults + 1} /\ link' \in {"up", "down"}
    BY <1>2
  <1>10. ItemAct(c, i)
    BY <1>3, <1>4, <1>6, <1>7, <1>8, <1>9 DEF ItemAct, ObjectsTyped
  <1> QED BY <1>2, <1>3, <1>7, <1>8, <1>10 DEF r

\* the second attempt,
LEMMA ReconnectActs ==
  ASSUME ObjectsTyped, NEW c \in Callers, ItemsInPlace(c), NEW i \in DOMAIN invocation[c].items,
         SftpReconnect(c, i)
  PROVE  LET it == invocation[c].items[i]
             new == invocation'[c].items[i]
         IN  /\ ItemAct(c, i) /\ ItemStays(c, i) /\ binding \in Sftp
             /\ it.res = "reconnecting"
             /\ new.retried /\ new.res = "running"
             /\ needsReconnect' = FALSE
             /\ link' = IF needsReconnect THEN "up" ELSE link
             /\ storeFaults' = storeFaults
  <1> DEFINE it == invocation[c].items[i]
             again == [it EXCEPT !.res = "running", !.at = 1, !.retried = TRUE]
  <1>1. it \in Item0
    BY ItemsTyped
  <1>2. /\ it.res = "reconnecting"
        /\ link' = IF needsReconnect THEN "up" ELSE link
        /\ needsReconnect' = FALSE
        /\ ItemIs(c, i, again)
        /\ binding' = binding /\ objects' = objects /\ files' = files /\ held' = held
        /\ storeFaults' = storeFaults
    BY DEF SftpReconnect
  <1>3. binding \in Sftp /\ link' \in {"up", "down"}
    BY <1>2 DEF ObjectsTyped, ItemsInPlace
  <1> HIDE DEF it
  <1>4. /\ again \in Item0 /\ again.name = it.name /\ again.to = it.to /\ again.val = it.val
        /\ again.at = 1 /\ again.res = "running" /\ again.retried = TRUE
    BY <1>1 DEF Item0
  <1> HIDE DEF again
  <1>5. /\ CallKeeps(c) /\ invocation'[c].items[i] = again
        /\ \A j \in DOMAIN invocation[c].items : j # i =>
             invocation'[c].items[j] = invocation[c].items[j]
    BY <1>2, <1>4, ItemReplaced
  <1>6. ItemStays(c, i)
    BY <1>3, <1>4, <1>5 DEF ItemStays, it
  <1>7. ItemAct(c, i)
    BY <1>2, <1>3, <1>5, <1>6 DEF ItemAct, OtherItemsStay, ObjectsMove, ObjectsTyped
  <1> QED BY <1>2, <1>3, <1>4, <1>5, <1>6, <1>7 DEF it

\* and the reconnect that fails.
LEMMA ReconnectFailsActs ==
  ASSUME ObjectsTyped, NEW c \in Callers, ItemsInPlace(c), NEW i \in DOMAIN invocation[c].items,
         ReconnectFails(c, i)
  PROVE  LET it == invocation[c].items[i]
             new == invocation'[c].items[i]
         IN  /\ ItemAct(c, i) /\ ItemStays(c, i) /\ binding \in Sftp
             /\ new.retried = it.retried /\ new.res = "error"
             /\ needsReconnect' = needsReconnect
             /\ link = "down" /\ link' = link
             /\ storeFaults' = storeFaults + 1
  <1> DEFINE it == invocation[c].items[i]
  <1>1. /\ it.res = "reconnecting" /\ link = "down" /\ storeFaults' = storeFaults + 1
        /\ ItemIs(c, i, [it EXCEPT !.res = "error"])
        /\ binding' = binding /\ objects' = objects /\ files' = files /\ held' = held
        /\ link' = link /\ needsReconnect' = needsReconnect
    BY DEF ReconnectFails
  <1>2. /\ CallKeeps(c) /\ OtherItemsStay(c, i)
        /\ invocation'[c].items[i].name = it.name /\ invocation'[c].items[i].to = it.to
        /\ invocation'[c].items[i].val = it.val /\ invocation'[c].items[i].at = it.at
        /\ invocation'[c].items[i].res = "error"
        /\ invocation'[c].items[i].retried = it.retried
    BY <1>1, ItemEndsForm
  <1>3. binding \in Sftp
    BY <1>1 DEF ItemsInPlace
  <1>4. ItemStays(c, i)
    BY <1>1, <1>2, <1>3 DEF ItemStays
  <1>5. ItemAct(c, i)
    BY <1>1, <1>2, <1>4 DEF ItemAct, ObjectsMove, ObjectsTyped
  <1> QED BY <1>1, <1>2, <1>3, <1>4, <1>5

\* What a change of the objects means for what the calls have held.
LEMMA HoldsGives ==
  ASSUME NEW new, Holds(new)
  PROVE  /\ objects' = new /\ DOMAIN held' = Callers
         /\ \A d \in Callers : DOMAIN held'[d] = ObjectNames
         /\ \A d \in Callers, n \in ObjectNames :
              invocation[d].pc # "idle" => held'[d][n] = held[d][n] \cup {new[n]}
  BY DEF Holds

\* After a step, a call has held what it held before and what there is now.
LEMMA HeldGrows ==
  ASSUME ObjectsTyped, NEW c \in Callers, ItemsInPlace(c), NEW i \in DOMAIN invocation[c].items,
         ObjectsMove(c, i)
  PROVE  /\ objects' \in [ObjectNames -> Int]
         /\ DOMAIN held' = Callers /\ \A d \in Callers : DOMAIN held'[d] = ObjectNames
         /\ objects' = objects \/ (~Missing(c, i) /\ objects' = Effect(c, i))
         /\ \A d \in Callers, n \in ObjectNames :
              NowHeld(d) /\ invocation[d].pc # "idle" =>
                held'[d][n] = held[d][n] \cup {objects'[n]}
  <1>1. CASE objects' = objects /\ held' = held
    BY <1>1 DEF ObjectsTyped, NowHeld
  <1>2. CASE ~Missing(c, i) /\ Holds(Effect(c, i))
    <2>1. Effect(c, i) \in [ObjectNames -> Int]
      BY EffectFacts
    <2>2. /\ objects' = Effect(c, i) /\ DOMAIN held' = Callers
          /\ \A d \in Callers : DOMAIN held'[d] = ObjectNames
          /\ \A d \in Callers, n \in ObjectNames :
               invocation[d].pc # "idle" => held'[d][n] = held[d][n] \cup {Effect(c, i)[n]}
      BY <1>2, HoldsGives
    <2> QED BY <1>2, <2>1, <2>2
  <1> QED BY <1>1, <1>2 DEF ObjectsMove

\* A step of an item keeps the types.
LEMMA ActTypesKept ==
  ASSUME ObjectsTyped, NEW c \in Callers, ItemsInPlace(c), NEW i \in DOMAIN invocation[c].items,
         ItemAct(c, i)
  PROVE  ObjectsTyped'
  <1>1. /\ objects' \in [ObjectNames -> Int]
        /\ DOMAIN held' = Callers /\ \A d \in Callers : DOMAIN held'[d] = ObjectNames
    BY HeldGrows DEF ItemAct
  <1>2. DOMAIN invocation' = Callers /\ \A d \in Callers : invocation'[d] \in Invocation
    <2>1. CallKeeps(c)
      BY DEF ItemAct
    <2>2. \A d \in Callers : invocation[d] \in Invocation
      BY DEF ObjectsTyped
    <2> QED BY <2>1, <2>2 DEF CallKeeps
  <1>3. storeFaults' \in Nat
    <2>1. storeFaults \in Nat
      BY DEF ObjectsTyped
    <2> QED BY <2>1 DEF ItemAct
  <1> QED BY <1>1, <1>2, <1>3 DEF ItemAct, ObjectsTyped, Invocation, ItemMaps, Item0, OpNames

\* What a step does to the items of its call.
LEMMA ItemChanges ==
  ASSUME ObjectsTyped, NEW c \in Callers, ItemsInPlace(c), NEW i \in DOMAIN invocation[c].items,
         ItemAct(c, i), NEW j \in DOMAIN invocation[c].items
  PROVE  LET it == invocation[c].items[j]
             new == invocation'[c].items[j]
         IN  /\ new.name = it.name /\ new.to = it.to
             /\ j # i => /\ new.res = it.res /\ new.val = it.val /\ new.retried = it.retried
                         /\ \/ new.at = it.at
                            \/ /\ binding = "azure" /\ Deletes(invocation[c].op) /\ new.at = 2
                               /\ Len(Program(c)) = 2
             /\ new.at \in 1..Len(Program(c))
             /\ new.res = "reconnecting" => binding \in Sftp
  <1> DEFINE it == invocation[c].items[j]
             new == invocation'[c].items[j]
  <1>1. it \in Item0 /\ it.at \in 1..Len(Program(c)) /\ Len(Program(c)) \in Nat
    <2>1. it.at \in 1..Len(Program(c))
      BY DEF ItemsInPlace
    <2> QED BY <2>1, ItemsTyped
  <1>2. /\ ObjectStepIs(binding, invocation[c].op, invocation[c].items[i].at, At(c, i), IsLast(c, i))
        /\ binding = "azure" /\ At(c, i) = "batch" => Len(Program(c)) = 2
    BY ItemAtStep
  <1>3. CASE j # i
    <2>1. CASE new = it
      BY <1>1, <1>3, <2>1 DEF ItemsInPlace
    <2>2. CASE binding = "azure" /\ At(c, i) = "batch" /\ new = [it EXCEPT !.at = 2]
      <3>1. Deletes(invocation[c].op) /\ Len(Program(c)) = 2
        BY <1>2, <2>2 DEF ObjectStepIs
      <3>2. it.res = "reconnecting" => binding \in Sftp
        BY DEF ItemsInPlace
      <3>3. /\ new.name = it.name /\ new.to = it.to /\ new.res = it.res /\ new.val = it.val
            /\ new.retried = it.retried /\ new.at = 2
        BY <1>1, <2>2 DEF Item0
      <3> HIDE DEF it, new
      <3> QED BY <1>3, <2>2, <3>1, <3>2, <3>3 DEF it, new
    <2> QED BY <1>3, <2>1, <2>2 DEF ItemAct, OtherItemsStay
  <1>4. CASE j = i /\ ItemWorks(c, i)
    <2>1. /\ new.name = it.name /\ new.to = it.to
          /\ IsLast(c, i) => new.res = "ok" /\ new.at = it.at
          /\ ~IsLast(c, i) => new.res = "running" /\ new.at = it.at + 1
      BY <1>4 DEF ItemWorks
    <2>2. ~IsLast(c, i) => it.at # Len(Program(c))
      BY <1>4 DEF IsLast
    <2> HIDE DEF it, new
    <2>3. new.at \in 1..Len(Program(c))
      BY <1>1, <2>1, <2>2
    <2> QED BY <1>4, <2>1, <2>3 DEF it, new
  <1>5. CASE j = i /\ ItemStays(c, i)
    <2>1. /\ new.name = it.name /\ new.to = it.to
          /\ new.res = "reconnecting" => binding \in Sftp
          /\ \/ new.at = it.at
             \/ new.at = 1
             \/ new.at = 2 /\ binding = "azure" /\ At(c, i) = "batch"
      BY <1>5 DEF ItemStays
    <2> HIDE DEF it, new
    <2>2. new.at \in 1..Len(Program(c))
      <3> DEFINE k == new.at
                 l == it.at
                 n == Len(Program(c))
      <3>1. n \in Nat /\ l \in 1..n
        BY <1>1
      <3>2. k = l \/ k = 1 \/ (k = 2 /\ n = 2)
        BY <1>2, <2>1
      <3> HIDE DEF k, l, n
      <3>3. k \in 1..n
        BY <3>1, <3>2
      <3> QED BY <3>3 DEF k, n
    <2> QED BY <1>5, <2>1, <2>2 DEF it, new
  <1> QED BY <1>3, <1>4, <1>5 DEF ItemAct

\* It leaves the items of every call at steps of their programs.
LEMMA PlacesKept ==
  ASSUME ObjectsTyped, NEW c \in Callers, \A d \in Callers : ItemsInPlace(d),
         NEW i \in DOMAIN invocation[c].items, ItemAct(c, i), NEW d \in Callers
  PROVE  ItemsInPlace(d)' /\ Program(d)' = Program(d)
  <1>1. CallKeeps(c) /\ binding' = binding
    BY DEF ItemAct
  <1>2. invocation'[d].op = invocation[d].op
    BY <1>1 DEF CallKeeps
  <1>3. Program(d)' = Program(d)
    BY <1>1, <1>2 DEF Program
  <1>4. CASE d # c
    <2>1. invocation'[d] = invocation[d]
      BY <1>1, <1>4 DEF CallKeeps
    <2>2. ItemsInPlace(d)
      OBVIOUS
    <2> QED BY <1>1, <1>3, <2>1, <2>2 DEF ItemsInPlace
  <1>5. CASE d = c
    <2>1. invocation[c].pc = "items"
      BY ItemAtStep
    <2>2. /\ invocation'[c].pc = "items" /\ invocation'[c].op = invocation[c].op
          /\ DOMAIN invocation'[c].items = DOMAIN invocation[c].items
      BY <1>1, <2>1 DEF CallKeeps
    <2>3. ItemsInPlace(c)
      OBVIOUS
    <2>4. \A j \in DOMAIN invocation[c].items :
            /\ invocation'[c].items[j].name = invocation[c].items[j].name
            /\ invocation'[c].items[j].to = invocation[c].items[j].to
            /\ invocation'[c].items[j].at \in 1..Len(Program(c))
            /\ invocation'[c].items[j].res = "reconnecting" => binding \in Sftp
      BY ItemChanges
    <2> QED BY <1>1, <1>3, <1>5, <2>1, <2>2, <2>3, <2>4 DEF ItemsInPlace
  <1> QED BY <1>3, <1>4, <1>5

\* Every call goes on holding what there is.
LEMMA HeldKept ==
  ASSUME ObjectsTyped, NEW c \in Callers, ItemsInPlace(c), NEW i \in DOMAIN invocation[c].items,
         ItemAct(c, i), NEW d \in Callers, NowHeld(d)
  PROVE  /\ NowHeld(d)' /\ invocation'[d].op = invocation[d].op
         /\ invocation'[d].pc = invocation[d].pc
         /\ invocation[d].pc # "idle" => \A n \in ObjectNames :
              held'[d][n] = held[d][n] \cup {objects'[n]}
  <1>1. invocation'[d].op = invocation[d].op /\ invocation'[d].pc = invocation[d].pc
    BY DEF ItemAct, CallKeeps
  <1>2. invocation[d].pc # "idle" => \A n \in ObjectNames :
              held'[d][n] = held[d][n] \cup {objects'[n]}
    BY HeldGrows DEF ItemAct
  <1> QED BY <1>1, <1>2 DEF NowHeld

\* Who reads half of an object may do so.
LEMMA ReadsMayBeTorn ==
  ASSUME ObjectsTyped, NEW c \in Callers, \A d \in Callers : ItemsInPlace(d), TornInv,
         NEW i \in DOMAIN invocation[c].items, Running(c, i), Reads(invocation[c].op),
         objects[invocation[c].items[i].name] = Partial
  PROVE  MayBeTorn
  <1> DEFINE n == invocation[c].items[i].name
  <1>1. n \in ObjectNames
    BY ItemsTyped DEF Item0
  <1>2. CASE binding \in {"local", "sftp"}
    BY <1>2 DEF MayBeTorn
  <1>3. CASE binding = "sequentialSftp" /\ storeFaults = 0
    <2>1. PICK d \in Callers :
              /\ invocation[d].pc = "items" /\ invocation[d].op = "create"
              /\ invocation[d].items[1].res = "running" /\ invocation[d].items[1].at = 2
      BY <1>1, <1>3 DEF TornInv
    <2>2. d # c
      BY <2>1 DEF Reads
    <2>3. 1 \in DOMAIN invocation[d].items
      <3>1. ItemsInPlace(d)
        OBVIOUS
      <3> QED BY <2>1, <3>1 DEF ItemsInPlace, Bulk, ByPrefix
    <2>4. InUse(c)
      BY <2>1, <2>2, <2>3 DEF InUse
    <2> QED BY <1>3, <2>4 DEF Running
  <1>4. CASE binding = "sequentialSftp" /\ storeFaults # 0
    BY <1>4 DEF MayBeTorn, ObjectsTyped
  <1> QED BY <1>1, <1>2, <1>3, <1>4 DEF TornInv

\* What an item has read, written, copied or not found stays true: its call has held it.
LEMMA AnswersKept ==
  ASSUME ObjectsTyped, NEW c \in Callers, \A d \in Callers : ItemsInPlace(d) /\ NowHeld(d),
         TornInv, NEW i \in DOMAIN invocation[c].items, ItemAct(c, i),
         NEW d \in Callers, NEW j \in DOMAIN invocation[d].items, AnswerInv(d, j)
  PROVE  AnswerInv(d, j)'
  <1> DEFINE it == invocation[d].items[j]
             new == invocation'[d].items[j]
             op == invocation[d].op
             azureFile == binding = "azure" /\ ToFile(op)
  <1>1. /\ it.name \in ObjectNames /\ it.to \in ObjectNames /\ invocation[d].pc = "items"
        /\ it.at \in Nat
    BY ItemsTyped, ItemAtStep DEF Item0
  <1>2. /\ invocation'[d].op = op /\ binding' = binding
        /\ \A n \in ObjectNames : held'[d][n] = held[d][n] \cup {objects'[n]}
    BY <1>1, HeldKept DEF ItemAct
  <1>3. MayBeTorn => MayBeTorn'
    BY DEF ItemAct, MayBeTorn, ObjectsTyped
  <1>4. ToFile(op)' = ToFile(op)
    BY <1>2 DEF ToFile
  <1>5. /\ Reads(op) /\ (it.res = "ok" \/ (it.at > 1 /\ ~azureFile))
             => it.val \in held[d][it.name] \ {0} /\ (it.val = Partial => MayBeTorn)
        /\ Writes(op) /\ (it.res = "ok" \/ (binding = "s3" /\ it.at > 1))
             => Data(d, j) \in held[d][it.name]
        /\ op \in {"copy", "move", "rename"} /\ (it.res = "ok" \/ it.at > 1)
             => it.val \in held[d][it.to]
        /\ Deletes(op) /\ it.res = "ok" => 0 \in held[d][it.name]
        /\ it.res = "not found" => 0 \in held[d][it.name]
    BY DEF AnswerInv, HasRead, HasWritten, HasCopied
  <1>6. SUFFICES
          /\ Reads(op) /\ (new.res = "ok" \/ (new.at > 1 /\ ~azureFile))
               => new.val \in held'[d][new.name] \ {0} /\ (new.val = Partial => MayBeTorn')
          /\ Writes(op) /\ (new.res = "ok" \/ (binding = "s3" /\ new.at > 1))
               => Data(d, j) \in held'[d][new.name]
          /\ op \in {"copy", "move", "rename"} /\ (new.res = "ok" \/ new.at > 1)
               => new.val \in held'[d][new.to]
          /\ Deletes(op) /\ new.res = "ok" => 0 \in held'[d][new.name]
          /\ new.res = "not found" => 0 \in held'[d][new.name]
    BY <1>2, <1>4 DEF AnswerInv, HasRead, HasWritten, HasCopied, Data
  <1>7. CASE d # c
    <2>1. new = it
      BY <1>7 DEF ItemAct, CallKeeps
    <2> HIDE DEF it, new, op
    <2> QED BY <1>1, <1>2, <1>3, <1>5, <2>1
  <1>8. CASE d = c /\ j # i
    <2>1. /\ new.name = it.name /\ new.to = it.to /\ new.res = it.res /\ new.val = it.val
          /\ new.at = it.at \/ (binding = "azure" /\ Deletes(op))
      BY <1>8, ItemChanges
    <2>2. Deletes(op) => ~Reads(op) /\ ~Writes(op) /\ op \notin {"copy", "move", "rename"}
      BY DEF Deletes, Reads, Writes
    <2> HIDE DEF it, new, op
    <2> QED BY <1>1, <1>2, <1>3, <1>5, <2>1, <2>2
  <1>9. CASE d = c /\ j = i /\ ItemStays(c, i)
    <2>1. /\ new.name = it.name /\ new.to = it.to /\ new.val = it.val
          /\ new.res # "ok" /\ (new.res = "not found" => objects[it.name] = 0)
          /\ \/ new.at = it.at
             \/ new.at = 1
             \/ binding = "azure" /\ At(c, i) = "batch"
      BY <1>9 DEF ItemStays
    <2>2. At(c, i) = "batch" => Deletes(op)
      BY <1>9, ItemAtStep DEF ObjectStepIs
    <2>3. Deletes(op) => ~Reads(op) /\ ~Writes(op) /\ op \notin {"copy", "move", "rename"}
      BY DEF Deletes, Reads, Writes
    <2>4. objects[it.name] \in held[d][it.name]
      BY <1>1 DEF NowHeld
    <2> HIDE DEF it, new, op
    <2>5. CASE Deletes(op)
      BY <1>1, <1>2, <2>1, <2>3, <2>4, <2>5
    <2>6. CASE ~Deletes(op)
      <3>1. new.at > 1 => it.at > 1
        <4>1. new.at = it.at \/ new.at = 1
          BY <2>1, <1>9, <2>2, <2>6
        <4>2. it.at \in Nat
          BY <1>1
        <4> QED BY <4>1, <4>2
      <3>2. Reads(op) /\ new.at > 1 /\ ~azureFile
               => new.val \in held'[d][new.name] \ {0} /\ (new.val = Partial => MayBeTorn')
        BY <1>1, <1>2, <1>3, <1>5, <2>1, <3>1
      <3>3. Writes(op) /\ binding = "s3" /\ new.at > 1 => Data(d, j) \in held'[d][new.name]
        BY <1>1, <1>2, <1>5, <2>1, <3>1
      <3>4. op \in {"copy", "move", "rename"} /\ new.at > 1 => new.val \in held'[d][new.to]
        BY <1>1, <1>2, <1>5, <2>1, <3>1
      <3>5. new.res = "not found" => 0 \in held'[d][new.name]
        BY <1>1, <1>2, <2>1, <2>4
      <3> QED BY <2>1, <2>6, <3>2, <3>3, <3>4, <3>5
    <2> QED BY <2>5, <2>6
  <1>10. CASE d = c /\ j = i /\ ItemWorks(c, i)
    <2> DEFINE s == At(c, i)
               last == IsLast(c, i)
    <2>1. /\ new.name = it.name /\ new.to = it.to /\ new.val = ReadBy(c, i)
          /\ last => new.res = "ok" /\ new.at = it.at
          /\ ~last => new.res = "running" /\ new.at = it.at + 1
          /\ Running(c, i) /\ ~Missing(c, i) /\ objects' = Effect(c, i)
      BY <1>10, HoldsGives DEF ItemWorks
    <2>2. it.res = "running"
      BY <1>10, <2>1 DEF Running
    <2>3. ObjectStepIs(binding, op, it.at, s, last)
      BY <1>10, ItemAtStep
    <2>4. /\ s \in {"read", "download", "copy"} => new.val = objects[it.name]
          /\ s \notin {"read", "download", "copy", "readdir"} => new.val = it.val
          /\ s \in {"read", "download", "copy"} => objects[it.name] # 0
      BY <1>10, <2>1 DEF ReadBy, Missing
    <2>5. /\ s \in {"put", "write"} => objects'[it.name] = Data(d, j)
          /\ s \in {"delete", "remove", "batch"} => objects'[it.name] = 0
          /\ s = "copy" => objects'[it.to] = objects[it.name]
      BY <1>10, <2>1, EffectFacts
    <2>6. Reads(op) /\ objects[it.name] = Partial => MayBeTorn
      BY <1>10, <2>1, ReadsMayBeTorn
    <2>7. objects[it.name] \in held[d][it.name]
      BY <1>1 DEF NowHeld
    <2>8. azureFile <=> binding = "azure" /\ op \in {"file", "prefixGet"}
      BY DEF ToFile
    <2> HIDE DEF it, new, op, s, last
    <2>9. Reads(op) /\ (new.res = "ok" \/ (new.at > 1 /\ ~azureFile))
               => new.val \in held'[d][new.name] \ {0} /\ (new.val = Partial => MayBeTorn')
      <3> SUFFICES ASSUME Reads(op), last \/ ~azureFile
                   PROVE  new.val \in held'[d][new.name] \ {0} /\ (new.val = Partial => MayBeTorn')
        BY <2>1
      <3>1. CASE s \in {"read", "download"}
        BY <1>1, <1>2, <1>3, <2>1, <2>4, <2>6, <2>7, <3>1
      <3>2. CASE s \notin {"read", "download"}
        <4>1. it.at > 1 /\ ~azureFile /\ s \notin {"copy", "readdir"}
          BY <2>3, <2>8, <3>2 DEF ObjectStepIs
        <4> QED BY <1>1, <1>2, <1>3, <1>5, <2>1, <2>4, <3>2, <4>1
      <3> QED BY <3>1, <3>2
    <2>10. Writes(op) /\ (new.res = "ok" \/ (binding = "s3" /\ new.at > 1))
               => Data(d, j) \in held'[d][new.name]
      <3>1. Writes(op) /\ (last \/ binding = "s3") /\ s \notin {"put", "write"}
            => binding = "s3" /\ it.at > 1
        BY <2>3 DEF ObjectStepIs
      <3> QED BY <1>1, <1>2, <1>5, <2>1, <2>5, <3>1
    <2>11. op \in {"copy", "move", "rename"} => new.val \in held'[d][new.to]
      <3>1. op \in {"copy", "move", "rename"} => s = "copy" \/ (it.at > 1 /\ s = "delete")
        BY <2>3 DEF ObjectStepIs
      <3> QED BY <1>1, <1>2, <1>5, <2>1, <2>4, <2>5, <3>1
    <2>12. Deletes(op) /\ new.res = "ok" => 0 \in held'[d][new.name]
      <3>1. Deletes(op) /\ last => s \in {"delete", "remove", "batch"}
        BY <2>3 DEF ObjectStepIs
      <3> QED BY <1>1, <1>2, <2>1, <2>5, <3>1
    <2>13. new.res # "not found"
      BY <2>1
    <2> QED BY <2>9, <2>10, <2>11, <2>12, <2>13
  <1> QED BY <1>7, <1>8, <1>9, <1>10 DEF ItemAct

\* No two callers write the same content, nor that of the first object.
LEMMA DataDistinct ==
  ASSUME NEW c \in Callers, NEW i \in ObjectNames
  PROVE  /\ Data(c, i) \in Int /\ Data(c, i) > 1
         /\ \A d \in Callers, j \in ObjectNames : d # c => Data(d, j) # Data(c, i)
  <1> DEFINE N == Cardinality(ObjectNames)
  <1>1. N \in Nat /\ ObjectNames = 1..N
    BY ObjectStoresAssumption, FS_CardinalityType
  <1>2. \A d \in Callers : d \in Nat /\ d >= 1
    BY ObjectStoresAssumption
  <1> HIDE DEF N
  <1>3. ASSUME NEW d \in Nat, NEW e \in Nat, d < e, NEW j \in 1..N, NEW k \in 1..N
        PROVE  N * d + j < N * e + k
    <2>1. N * d + N <= N * e
      <3>1. e - d >= 1 /\ e - d \in Nat
        BY <1>3
      <3>2. N * (e - d) >= N
        BY <1>1, <3>1
      <3>3. N * e = N * d + N * (e - d)
        BY <1>1
      <3>4. N * d \in Int /\ N * e \in Int /\ N * (e - d) \in Int
        BY <1>1, <3>1
      <3> QED BY <1>1, <3>2, <3>3, <3>4
    <2>2. N * d \in Int /\ N * e \in Int
      BY <1>1
    <2> QED BY <1>1, <1>3, <2>1, <2>2
  <1>4. N * c + i \in Int /\ N * c + i > 1
    <2>1. N * c >= N /\ N * c \in Int
      BY <1>1, <1>2
    <2>2. i >= 1 /\ N >= 1 /\ i \in Int
      BY <1>1
    <2> QED BY <1>1, <2>1, <2>2
  <1>5. ASSUME NEW d \in Callers, NEW j \in ObjectNames, d # c
        PROVE  N * d + j # N * c + i
    <2>1. d \in Nat /\ c \in Nat /\ j \in 1..N /\ i \in 1..N
      BY <1>1, <1>2
    <2>2. N * d \in Int /\ N * c \in Int
      BY <1>1, <2>1
    <2>3. CASE d < c
      <3>1. N * d + j < N * c + i
        BY <1>3, <2>1, <2>3
      <3> QED BY <2>1, <2>2, <3>1
    <2>4. CASE c < d
      <3>1. N * c + i < N * d + j
        BY <1>3, <2>1, <2>4
      <3> QED BY <2>1, <2>2, <3>1
    <2> QED BY <1>5, <2>1, <2>3, <2>4
  <1> QED BY <1>4, <1>5 DEF Data, N

AloneAt(d, n, m) ==
  \A e \in Callers \ {d} : \A j \in DOMAIN invocation[e].items :
    {invocation[e].items[j].name, invocation[e].items[j].to} \cap {n, m} = {}

\* The items of a call keep their names.
LEMMA AloneStays ==
  ASSUME ObjectsTyped, NEW c \in Callers, ItemsInPlace(c), NEW i \in DOMAIN invocation[c].items,
         ItemAct(c, i), NEW d \in Callers, NEW n, NEW m, AloneAt(d, n, m)'
  PROVE  /\ AloneAt(d, n, m)
         /\ d # c => {invocation[c].items[i].name, invocation[c].items[i].to} \cap {n, m} = {}
  <1>1. /\ DOMAIN invocation'[c].items = DOMAIN invocation[c].items
        /\ \A e \in Callers \ {c} : invocation'[e] = invocation[e]
        /\ \A j \in DOMAIN invocation[c].items :
             /\ invocation'[c].items[j].name = invocation[c].items[j].name
             /\ invocation'[c].items[j].to = invocation[c].items[j].to
    BY ItemChanges DEF ItemAct, CallKeeps
  <1>2. ASSUME NEW e \in Callers \ {d}, NEW j \in DOMAIN invocation[e].items
        PROVE  {invocation[e].items[j].name, invocation[e].items[j].to} \cap {n, m} = {}
    <2>1. j \in DOMAIN invocation'[e].items
      BY <1>1, <1>2
    <2>2. {invocation'[e].items[j].name, invocation'[e].items[j].to} \cap {n, m} = {}
      BY <1>2, <2>1 DEF AloneAt
    <2> QED BY <1>1, <1>2, <2>2
  <1> QED BY <1>2 DEF AloneAt

\* What is being moved is at its destination once it has been copied.
LEMMA MovesKept ==
  ASSUME ObjectsTyped, NEW c \in Callers, \A d \in Callers : ItemsInPlace(d),
         NEW i \in DOMAIN invocation[c].items, ItemAct(c, i),
         NEW d \in Callers, NEW j \in DOMAIN invocation[d].items, MoveInv(d, j)
  PROVE  MoveInv(d, j)'
  <1> DEFINE it == invocation[d].items[j]
             new == invocation'[d].items[j]
  <1>1. it.name \in ObjectNames /\ it.to \in ObjectNames
    BY ItemsTyped DEF Item0
  <1>11. SUFFICES ASSUME NEW n \in ObjectNames, NEW m \in ObjectNames, n = it.name, m = it.to
                  PROVE  MoveInv(d, j)'
    BY <1>1
  <1>2. /\ invocation'[d].op = invocation[d].op /\ new.name = it.name /\ new.to = it.to
        /\ d # c => new = it
    BY ItemChanges DEF ItemAct, CallKeeps
  <1>3. objects' = objects \/ (objects' = Effect(c, i) /\ ~Missing(c, i))
    BY HeldGrows DEF ItemAct
  <1>4. SUFFICES ASSUME Moves(invocation[d].op)
                 PROVE  /\ new.at = 1 => new.val = 0
                        /\ it.name # it.to /\ new.val # 0 /\ AloneAt(d, n, m)'
                             => objects'[it.to] = new.val
    <2>1. Alone(d, it)' <=> AloneAt(d, n, m)'
      BY <1>2, <1>11 DEF Alone, AloneAt
    <2> QED BY <1>2, <1>4, <1>11, <2>1 DEF MoveInv
  <1>5. AloneAt(d, n, m)' =>
          /\ AloneAt(d, n, m)
          /\ d # c => it.to \notin {invocation[c].items[i].name, invocation[c].items[i].to}
    <2>1. AloneAt(d, n, m)' =>
            /\ AloneAt(d, n, m)
            /\ d # c => {invocation[c].items[i].name, invocation[c].items[i].to} \cap {n, m} = {}
      BY AloneStays
    <2> QED BY <1>11, <2>1
  <1>6. /\ it.at = 1 => it.val = 0
        /\ it.name # it.to /\ it.val # 0 /\ AloneAt(d, n, m) => objects[it.to] = it.val
    BY <1>4, <1>11 DEF MoveInv, Alone, AloneAt
  <1>7. CASE d # c
    <2>1. it.to \notin {invocation[c].items[i].name, invocation[c].items[i].to}
            => objects'[it.to] = objects[it.to]
      BY <1>1, <1>3, EffectFacts
    <2> QED BY <1>2, <1>5, <1>6, <1>7, <2>1
  <1>8. CASE d = c
    <2>1. j = i
      <3>1. invocation[c].pc = "items"
        BY ItemAtStep
      <3> QED BY <1>4, <1>8, <3>1 DEF ItemsInPlace, Moves, Bulk, ByPrefix
    <2>2. /\ binding = "gcs"
          /\ \/ it.at = 1 /\ At(c, i) = "copy" /\ ~IsLast(c, i)
             \/ it.at = 2 /\ At(c, i) = "delete" /\ IsLast(c, i)
      BY <1>4, <1>8, <2>1, ItemAtStep DEF ObjectStepIs
    <2>3. At(c, i) = "delete" /\ it.to # it.name => objects'[it.to] = objects[it.to]
      BY <1>1, <1>3, <1>8, <2>1, EffectFacts
    <2>4. CASE ItemStays(c, i)
      <3>1. new.val = it.val /\ new.at = it.at
        BY <1>8, <2>1, <2>2, <2>4 DEF ItemStays, Sftp
      <3> HIDE DEF it, new
      <3> QED BY <1>5, <1>6, <2>2, <2>3, <3>1
    <2>5. CASE ItemWorks(c, i)
      <3>1. /\ new.val = ReadBy(c, i) /\ objects' = Effect(c, i)
            /\ IsLast(c, i) => new.at = it.at
            /\ ~IsLast(c, i) => new.at = it.at + 1
        BY <1>8, <2>1, <2>5, HoldsGives DEF ItemWorks
      <3>2. /\ At(c, i) = "copy" => new.val = objects[it.name] /\ objects'[it.to] = objects[it.name]
            /\ At(c, i) = "delete" => new.val = it.val
        BY <1>8, <2>1, <3>1, EffectFacts DEF ReadBy
      <3> HIDE DEF it, new
      <3>3. CASE it.at = 1 /\ At(c, i) = "copy" /\ ~IsLast(c, i)
        BY <3>1, <3>2, <3>3
      <3>4. CASE it.at = 2 /\ At(c, i) = "delete" /\ IsLast(c, i)
        BY <1>5, <1>6, <2>3, <3>1, <3>2, <3>4
      <3> QED BY <2>2, <3>3, <3>4
    <2> QED BY <2>4, <2>5 DEF ItemAct
  <1> QED BY <1>7, <1>8

\* What a create of Azure has not sent stays unsent: only that item writes it.
LEMMA UnsentKept ==
  ASSUME ObjectsTyped, NEW c \in Callers, \A d \in Callers : ItemsInPlace(d) /\ NowHeld(d),
         NEW i \in DOMAIN invocation[c].items, ItemAct(c, i),
         NEW d \in Callers, UnsentInv(d)
  PROVE  UnsentInv(d)'
  <1> SUFFICES ASSUME binding = "azure"
               PROVE  UnsentInv(d)'
    BY DEF ItemAct, UnsentInv
  <1>1. /\ binding' = binding /\ CallKeeps(c) /\ (d # c => invocation'[d] = invocation[d])
        /\ invocation'[d].pc = invocation[d].pc /\ invocation'[d].op = invocation[d].op
    BY DEF ItemAct, CallKeeps
  <1>2. objects' = objects \/ objects' = Effect(c, i)
    BY HeldGrows DEF ItemAct
  <1>3. At(c, i) # "truncate" /\ i \in ObjectNames
    BY ItemAtStep, ItemsTyped DEF ObjectStepIs, Sftp
  <1>4. 1 \in ObjectNames
    <2>1. ObjectNames = 1..Cardinality(ObjectNames) /\ Cardinality(ObjectNames) \in Nat
      BY ObjectStoresAssumption, FS_CardinalityType
    <2> QED BY <1>3, <2>1
  <1>5. Data(d, 1) \in Int /\ Data(d, 1) > 1 /\ (d # c => Data(c, i) # Data(d, 1))
    BY <1>3, <1>4, DataDistinct
  <1>6. Data(d, 1)' = Data(d, 1)
    BY DEF Data
  <1>7. invocation[d].pc # "idle" => \A n \in ObjectNames :
              held'[d][n] = held[d][n] \cup {objects'[n]}
    BY HeldKept
  <1>8. CASE d # c
    <2>1. ASSUME NEW n \in ObjectNames, \A m \in ObjectNames : objects[m] # Data(d, 1)
          PROVE  objects'[n] # Data(d, 1)
      BY <1>2, <1>3, <1>5, <1>8, <2>1, EffectFacts
    <2>2. invocation[d].pc = "idle" => \A n \in ObjectNames : objects'[n] # Data(d, 1)
      BY <2>1 DEF UnsentInv
    <2>3. ASSUME invocation[d].pc = "items", invocation[d].op = "create",
                 invocation[d].items[1].at = 1, NEW n \in ObjectNames
          PROVE  objects'[n] # Data(d, 1) /\ Data(d, 1) \notin held'[d][n]
      <3>1. \A m \in ObjectNames : objects[m] # Data(d, 1) /\ Data(d, 1) \notin held[d][m]
        BY <2>3 DEF UnsentInv
      <3>2. objects'[n] # Data(d, 1)
        BY <2>1, <3>1
      <3>3. held'[d][n] = held[d][n] \cup {objects'[n]}
        BY <1>7, <2>3
      <3> QED BY <3>1, <3>2, <3>3
    <2>4. invocation'[d] = invocation[d]
      BY <1>1, <1>8
    <2>5. invocation[d].pc = "items" /\ invocation[d].op = "create" /\ invocation[d].items[1].at = 1
          => \A n \in ObjectNames : objects'[n] # Data(d, 1) /\ Data(d, 1) \notin held'[d][n]
      BY <2>3
    <2> QED BY <1>6, <2>2, <2>4, <2>5 DEF UnsentInv
  <1>9. CASE d = c
    <2>1. invocation[c].pc = "items"
      BY ItemAtStep
    <2>2. ASSUME invocation[c].op = "create", invocation'[c].items[1].at = 1,
                 NEW n \in ObjectNames
          PROVE  objects'[n] # Data(c, 1) /\ Data(c, 1) \notin held'[c][n]
      <3>1. i = 1
        BY <2>1, <2>2 DEF ItemsInPlace, Bulk, ByPrefix
      <3>2. \/ invocation[c].items[1].at = 1 /\ At(c, i) = "presign" /\ ~IsLast(c, i)
            \/ invocation[c].items[1].at = 2 /\ At(c, i) = "put" /\ IsLast(c, i)
        BY <2>2, <3>1, ItemAtStep DEF ObjectStepIs
      <3>3. invocation[c].items[1].at = 1 /\ At(c, i) = "presign"
        <4>1. CASE ItemWorks(c, i)
          BY <2>2, <3>1, <3>2, <4>1 DEF ItemWorks
        <4>2. CASE ItemStays(c, i)
          <5>1. invocation'[c].items[1].at = invocation[c].items[1].at
            BY <3>1, <3>2, <4>2 DEF ItemStays, Sftp
          <5> QED BY <2>2, <3>2, <5>1
        <4> QED BY <4>1, <4>2 DEF ItemAct
      <3>4. objects' = objects
        BY <1>2, <3>3, EffectFacts
      <3>5. objects[n] # Data(c, 1) /\ Data(c, 1) \notin held[c][n]
        BY <1>9, <2>1, <2>2, <3>3 DEF UnsentInv
      <3>6. held'[c][n] = held[c][n] \cup {objects'[n]}
        BY <1>7, <1>9, <2>1
      <3> QED BY <3>4, <3>5, <3>6
    <2> QED BY <1>1, <1>6, <1>9, <2>1, <2>2 DEF UnsentInv
  <1> QED BY <1>8, <1>9

\* A listing under way stays right, as the calls hold more and more.
LEMMA ListsKept ==
  ASSUME ObjectsTyped, NEW c \in Callers, \A d \in Callers : ItemsInPlace(d) /\ NowHeld(d),
         NEW i \in DOMAIN invocation[c].items, ItemAct(c, i),
         NEW d \in Callers, ListInv(d)
  PROVE  ListInv(d)'
  <1>1. /\ binding' = binding /\ CallKeeps(c) /\ (d # c => invocation'[d] = invocation[d])
        /\ invocation'[d].pc = invocation[d].pc /\ invocation'[d].op = invocation[d].op
    BY DEF ItemAct, CallKeeps
  <1>2. invocation[d].pc # "idle" => \A n \in ObjectNames :
           objects[n] \in held[d][n] /\ held'[d][n] = held[d][n] \cup {objects'[n]}
    BY HeldKept DEF NowHeld
  <1>3. CASE d # c
    <2>1. invocation[d].pc # "idle" => \A n \in ObjectNames :
            /\ held[d][n] # {0} => held'[d][n] # {0}
            /\ 0 \notin held'[d][n] => 0 \notin held[d][n]
      BY <1>2
    <2> QED BY <1>1, <1>3, <2>1 DEF ListInv
  <1>4. CASE d = c
    <2>1. invocation[c].pc = "items"
      BY ItemAtStep
    <2>2. ASSUME invocation[c].op = "list", invocation'[c].items[1].res = "ok",
                 NEW n \in ObjectNames
          PROVE  /\ n \in invocation'[c].items[1].val => held'[c][n] # {0}
                 /\ 0 \notin held'[c][n] => n \in invocation'[c].items[1].val
      <3>1. i = 1
        BY <2>1, <2>2 DEF ItemsInPlace, Bulk, ByPrefix
      <3>2. ItemWorks(c, i)
        BY <2>2, <3>1 DEF ItemAct, ItemStays
      <3>3. At(c, i) = "readdir"
        BY <2>2, ItemAtStep DEF ObjectStepIs
      <3>4. invocation'[c].items[1].val = {m \in ObjectNames : objects[m] # 0}
        BY <3>1, <3>2, <3>3 DEF ItemWorks, ReadBy
      <3>5. objects[n] \in held[c][n] /\ held'[c][n] = held[c][n] \cup {objects'[n]}
        BY <1>2, <1>4, <2>1
      <3> QED BY <3>4, <3>5
    <2> QED BY <1>1, <1>4, <2>1, <2>2 DEF ListInv
  <1> QED BY <1>3, <1>4

\* No file without an item of its name.
LEMMA TouchedKept ==
  ASSUME ObjectsTyped, NEW c \in Callers, ItemsInPlace(c),
         NEW i \in DOMAIN invocation[c].items, ItemAct(c, i), FilesTouched
  PROVE  FilesTouched'
  <1>1. /\ DOMAIN invocation'[c].items = DOMAIN invocation[c].items
        /\ \A e \in Callers \ {c} : invocation'[e] = invocation[e]
        /\ \A j \in DOMAIN invocation[c].items :
             invocation'[c].items[j].name = invocation[c].items[j].name
    BY ItemChanges DEF ItemAct, CallKeeps
  <1>2. ASSUME NEW n \in ObjectNames, files'[n] # 0
        PROVE  \E e \in Callers : \E j \in DOMAIN invocation'[e].items :
                 invocation'[e].items[j].name = n
    <2>1. CASE n = invocation[c].items[i].name
      BY <1>1, <2>1
    <2>2. CASE n # invocation[c].items[i].name
      <3>1. files[n] # 0
        BY <1>2, <2>2 DEF ItemAct
      <3>2. PICK e \in Callers : \E j \in DOMAIN invocation[e].items : invocation[e].items[j].name = n
        BY <3>1 DEF FilesTouched
      <3>3. PICK j \in DOMAIN invocation[e].items : invocation[e].items[j].name = n
        BY <3>2
      <3>4. j \in DOMAIN invocation'[e].items /\ invocation'[e].items[j].name = n
        BY <1>1, <3>3
      <3> QED BY <3>4
    <2> QED BY <2>1, <2>2
  <1> QED BY <1>2 DEF FilesTouched

\* The local file of an item, after a step of any item.
LEMMA FilesKept ==
  ASSUME ObjectsTyped, NEW c \in Callers, \A d \in Callers : ItemsInPlace(d) /\ NowHeld(d),
         TornInv, NEW i \in DOMAIN invocation[c].items, ItemAct(c, i), AnswerInv(c, i),
         NEW d \in Callers, NEW j \in DOMAIN invocation[d].items, FileInv(d, j)
  PROVE  FileInv(d, j)'
  <1> DEFINE it == invocation[d].items[j]
             new == invocation'[d].items[j]
             op == invocation[d].op
  <1>1. it.name \in ObjectNames /\ it.to \in ObjectNames /\ invocation[d].pc = "items"
    BY ItemsTyped, ItemAtStep DEF Item0
  <1>2. SUFFICES ASSUME NEW n \in ObjectNames, NEW m \in ObjectNames, n = it.name, m = it.to
                 PROVE  FileInv(d, j)'
    BY <1>1
  <1>3. /\ invocation'[d].op = op /\ new.name = it.name /\ new.to = it.to
        /\ binding' = binding /\ (d # c => new = it)
    BY ItemChanges DEF ItemAct, CallKeeps
  <1>4. ToFile(op)' <=> ToFile(op)
    BY <1>3 DEF ToFile
  <1>5. SUFFICES ASSUME ToFile(op), AloneAt(d, n, m)'
                 PROVE  /\ new.res = "ok" => files'[n] \in held'[d][n] \ {0, Partial}
                        /\ binding # "s3" /\ (new.at = 1 \/ new.res \in {"error", "not found"})
                             => files'[n] = 0
    <2>1. Alone(d, it)' <=> AloneAt(d, n, m)'
      BY <1>2, <1>3 DEF Alone, AloneAt
    <2> QED BY <1>2, <1>3, <1>4, <1>5, <2>1 DEF FileInv
  <1>6. /\ AloneAt(d, n, m)
        /\ d # c => n # invocation[c].items[i].name
    <2>1. d # c => {invocation[c].items[i].name, invocation[c].items[i].to} \cap {n, m} = {}
      BY <1>5, AloneStays
    <2> QED BY <1>5, <2>1, AloneStays
  <1>7. /\ it.res = "ok" => files[n] \in held[d][n] \ {0, Partial}
        /\ binding # "s3" /\ (it.at = 1 \/ it.res \in {"error", "not found"}) => files[n] = 0
    BY <1>2, <1>5, <1>6 DEF FileInv, Alone, AloneAt
  <1>8. \A k \in ObjectNames : held'[d][k] = held[d][k] \cup {objects'[k]}
    BY <1>1, HeldKept
  <1>9. op \in {"file", "prefixGet", "bulkGet"} /\ ~Deletes(op)
    BY <1>5 DEF ToFile, Deletes
  <1>10. CASE d # c
    <2>1. files'[n] = files[n] /\ new = it
      BY <1>3, <1>6, <1>10 DEF ItemAct
    <2> HIDE DEF it, new
    <2> QED BY <1>7, <1>8, <2>1
  <1>11. CASE d = c /\ j # i
    <2>1. n # invocation[c].items[i].name
      BY <1>1, <1>2, <1>11 DEF ItemsInPlace
    <2>2. files'[n] = files[n]
      BY <2>1 DEF ItemAct
    <2>3. new.res = it.res /\ new.at = it.at
      BY <1>9, <1>11, ItemChanges
    <2> HIDE DEF it, new
    <2> QED BY <1>7, <1>8, <2>2, <2>3
  <1>12. CASE d = c /\ j = i
    <2>1. ObjectStepIs(binding, op, it.at, At(c, i), IsLast(c, i))
      BY <1>12, ItemAtStep
    <2>2. \/ binding = "azure" /\ op \in {"file", "prefixGet"}
          \/ binding = "s3" /\ op = "bulkGet"
      BY <1>5, <2>1 DEF ToFile, ObjectStepIs
    <2>3. binding \notin Sftp /\ ~MayBeTorn
      BY <2>2 DEF Sftp, MayBeTorn
    <2>4. CASE binding = "azure"
      <3>1. \/ it.at = 1 /\ At(c, i) = "open" /\ ~IsLast(c, i)
            \/ it.at = 2 /\ At(c, i) = "download" /\ IsLast(c, i)
        BY <2>1, <2>2, <2>4 DEF ObjectStepIs
      <3>2. CASE ItemStays(c, i)
        <4>1. new.res # "ok" /\ files'[n] = IF At(c, i) = "download" THEN 0 ELSE files[n]
          BY <1>2, <1>12, <2>3, <3>1, <3>2 DEF ItemStays
        <4>2. files'[n] = 0
          BY <1>7, <2>4, <3>1, <4>1
        <4> QED BY <4>1, <4>2
      <3>3. CASE ItemWorks(c, i)
        <4>1. /\ IsLast(c, i) => new.at = it.at
              /\ ~IsLast(c, i) => new.res = "running" /\ new.at = it.at + 1
              /\ IsLast(c, i) => new.res = "ok"
              /\ files'[n] = FileAfter(c, i) /\ ~Missing(c, i)
          BY <1>2, <1>12, <3>3 DEF ItemWorks
        <4>2. CASE At(c, i) = "open"
          <5>1. new.at = 2 /\ new.res = "running"
            BY <3>1, <4>1, <4>2
          <5> QED BY <5>1
        <4>3. CASE At(c, i) = "download"
          <5>1. files'[n] = objects[n] /\ objects[n] # 0
            BY <1>2, <1>12, <4>1, <4>3 DEF FileAfter, Missing
          <5>2. objects[n] # Partial
            BY <2>4 DEF TornInv
          <5>3. objects[n] \in held[d][n]
            BY <1>1 DEF NowHeld
          <5>4. new.at = 2 /\ new.res = "ok"
            BY <3>1, <4>1, <4>3
          <5> QED BY <1>8, <5>1, <5>2, <5>3, <5>4
        <4> QED BY <3>1, <4>2, <4>3
      <3> QED BY <3>2, <3>3 DEF ItemAct
    <2>5. CASE binding = "s3"
      <3>1. \/ ~IsLast(c, i)
            \/ it.at > 1 /\ At(c, i) = "save" /\ IsLast(c, i)
        BY <2>1, <2>2, <2>5 DEF ObjectStepIs
      <3>2. CASE ItemStays(c, i)
        BY <1>12, <2>5, <3>2 DEF ItemStays
      <3>3. CASE ItemWorks(c, i)
        <4>1. /\ ~IsLast(c, i) => new.res = "running"
              /\ files'[n] = FileAfter(c, i)
          BY <1>2, <1>12, <3>3 DEF ItemWorks
        <4>2. CASE At(c, i) = "save" /\ it.at > 1
          <5>1. files'[n] = it.val
            BY <1>2, <1>12, <4>1, <4>2 DEF FileAfter
          <5>2. Reads(op) /\ ~(binding = "azure" /\ ToFile(op))
            BY <1>9, <2>5 DEF Reads
          <5>3. HasRead(c, i)
            BY <1>12, <4>2, <5>2 DEF HasRead
          <5>4. it.val \in held[d][n] \ {0} /\ (it.val = Partial => MayBeTorn)
            BY <1>2, <1>12, <5>3 DEF AnswerInv
          <5> QED BY <1>8, <2>3, <2>5, <5>1, <5>4
        <4> QED BY <2>5, <3>1, <4>1, <4>2
      <3> QED BY <3>2, <3>3 DEF ItemAct
    <2> QED BY <2>2, <2>4, <2>5
  <1> QED BY <1>10, <1>11, <1>12

\* Half a file stays that of its writer, whom the client's lock keeps alone.
LEMMA TornKept ==
  ASSUME ObjectsTyped, NEW c \in Callers, \A d \in Callers : ItemsInPlace(d), TornInv,
         NEW i \in DOMAIN invocation[c].items, ItemAct(c, i),
         storeFaults' = 0 => storeFaults = 0,
         storeFaults' = 0 /\ binding \in Sftp =>
           ItemWorks(c, i) \/ (objects' = objects /\ Missing(c, i))
  PROVE  TornInv'
  <1> DEFINE it == invocation[c].items[i]
  <1>1. SUFFICES ASSUME NEW n \in ObjectNames, objects'[n] = Partial,
                        binding \notin {"local", "sftp"}
                 PROVE  /\ binding = "sequentialSftp"
                        /\ storeFaults' = 0 => \E d \in Callers :
                             /\ invocation'[d].pc = "items" /\ invocation'[d].op = "create"
                             /\ invocation'[d].items[1].name = n
                             /\ invocation'[d].items[1].res = "running"
                             /\ invocation'[d].items[1].at = 2
    BY DEF TornInv, ItemAct
  <1>2. it.name \in ObjectNames /\ i \in ObjectNames /\ invocation[c].pc = "items"
    BY ItemsTyped, ItemAtStep DEF Item0
  <1>3. ObjectStepIs(binding, invocation[c].op, it.at, At(c, i), IsLast(c, i))
    BY ItemAtStep
  <1>4. objects' = objects \/ objects' = Effect(c, i)
    BY HeldGrows DEF ItemAct
  <1>5. Data(c, i) # Partial
    <2>1. Data(c, i) > 1 /\ Data(c, i) \in Int
      BY <1>2, DataDistinct
    <2> QED BY <2>1 DEF Partial
  <1>6. binding = "sequentialSftp"
    <2>1. CASE At(c, i) = "truncate"
      BY <1>1, <1>3, <2>1 DEF ObjectStepIs, Sftp
    <2>2. CASE At(c, i) # "truncate"
      <3>1. \E m \in ObjectNames : objects[m] = Partial
        <4>1. CASE objects' = objects
          BY <1>1, <4>1
        <4>2. CASE objects' = Effect(c, i)
          BY <1>1, <1>5, <2>2, <4>2, EffectFacts DEF Partial
        <4> QED BY <1>4, <4>1, <4>2
      <3> QED BY <1>1, <3>1 DEF TornInv
    <2> QED BY <2>1, <2>2
  <1>7. ASSUME storeFaults' = 0
        PROVE  \E d \in Callers :
                 /\ invocation'[d].pc = "items" /\ invocation'[d].op = "create"
                 /\ invocation'[d].items[1].name = n
                 /\ invocation'[d].items[1].res = "running"
                 /\ invocation'[d].items[1].at = 2
    <2>1. ASSUME objects[n] = Partial
          PROVE  \E d \in Callers :
                   /\ invocation[d].pc = "items" /\ invocation[d].op = "create"
                   /\ 1 \in DOMAIN invocation[d].items
                   /\ invocation[d].items[1].name = n
                   /\ invocation[d].items[1].res = "running" /\ invocation[d].items[1].at = 2
      <3>1. PICK d \in Callers :
                   /\ invocation[d].pc = "items" /\ invocation[d].op = "create"
                   /\ invocation[d].items[1].name = n
                   /\ invocation[d].items[1].res = "running" /\ invocation[d].items[1].at = 2
        BY <1>6, <1>7, <2>1 DEF TornInv
      <3>2. 1 \in DOMAIN invocation[d].items
        <4>1. ItemsInPlace(d)
          OBVIOUS
        <4> QED BY <3>1, <4>1 DEF ItemsInPlace, Bulk, ByPrefix
      <3> QED BY <3>1, <3>2
    <2>2. invocation[c].op = "create" => i = 1
      BY <1>2 DEF ItemsInPlace, Bulk, ByPrefix
    <2>3. CASE objects' = objects /\ Missing(c, i)
      <3>1. objects[n] = Partial /\ objects[it.name] = 0
        BY <1>1, <2>3 DEF Missing
      <3>2. PICK d \in Callers :
                   /\ invocation[d].pc = "items" /\ invocation[d].op = "create"
                   /\ invocation[d].items[1].name = n
                   /\ invocation[d].items[1].res = "running" /\ invocation[d].items[1].at = 2
        BY <2>1, <3>1
      <3>3. d # c
        BY <2>2, <3>1, <3>2 DEF Partial
      <3>4. invocation'[d] = invocation[d]
        BY <3>3 DEF ItemAct, CallKeeps
      <3> QED BY <3>2, <3>4
    <2>4. CASE ItemWorks(c, i)
      <3>1. /\ objects' = Effect(c, i) /\ ~InUse(c)
            /\ invocation'[c].items[i].name = it.name
            /\ ~IsLast(c, i) => /\ invocation'[c].items[i].res = "running"
                                /\ invocation'[c].items[i].at = it.at + 1
        BY <1>6, <2>4, HoldsGives DEF ItemWorks, Running
      <3>2. objects[n] = Partial =>
               /\ invocation[c].op = "create" /\ i = 1 /\ it.name = n /\ it.at = 2
        <4> SUFFICES ASSUME objects[n] = Partial
                     PROVE  invocation[c].op = "create" /\ i = 1 /\ it.name = n /\ it.at = 2
          OBVIOUS
        <4>1. PICK d \in Callers :
                   /\ invocation[d].pc = "items" /\ invocation[d].op = "create"
                   /\ 1 \in DOMAIN invocation[d].items
                   /\ invocation[d].items[1].name = n
                   /\ invocation[d].items[1].res = "running" /\ invocation[d].items[1].at = 2
          BY <2>1
        <4>2. d = c
          BY <3>1, <4>1 DEF InUse
        <4> QED BY <2>2, <4>1, <4>2
      <3>3. At(c, i) # "copy"
        BY <1>3, <1>6 DEF ObjectStepIs
      <3>4. objects[n] = Partial => At(c, i) = "write"
        BY <1>3, <1>6, <3>2 DEF ObjectStepIs
      <3>5. objects[n] # Partial
        <4> SUFFICES ASSUME objects[n] = Partial
                     PROVE  FALSE
          OBVIOUS
        <4>1. objects'[n] = Data(c, i)
          BY <3>1, <3>2, <3>4, EffectFacts
        <4> QED BY <1>1, <1>5, <4>1
      <3>6. At(c, i) = "truncate" /\ it.name = n
        <4>1. it.name = n
          BY <1>1, <3>1, <3>3, <3>5, EffectFacts
        <4>2. At(c, i) \in {"put", "write"} => objects'[n] = Data(c, i)
          BY <3>1, <4>1, EffectFacts
        <4>3. At(c, i) \in {"delete", "remove", "batch"} => objects'[n] = 0
          BY <3>1, <4>1, EffectFacts
        <4>4. At(c, i) \notin {"put", "write", "truncate", "delete", "remove", "batch", "copy"}
                  => objects' = objects
          BY <3>1, EffectFacts
        <4> QED BY <1>1, <1>5, <3>3, <3>5, <4>1, <4>2, <4>3, <4>4 DEF Partial
      <3>7. invocation[c].op = "create" /\ it.at = 1 /\ ~IsLast(c, i)
        BY <1>3, <3>6 DEF ObjectStepIs
      <3>8. invocation'[c].pc = "items" /\ invocation'[c].op = "create"
        BY <1>2, <3>7 DEF ItemAct, CallKeeps
      <3>9. i = 1 /\ invocation'[c].items[i].at = 2
        BY <2>2, <3>1, <3>7
      <3> QED BY <3>1, <3>6, <3>7, <3>8, <3>9
    <2> QED BY <1>6, <1>7, <2>3, <2>4 DEF Sftp
  <1> QED BY <1>6, <1>7

\* What LinkInv says of an item.
LinkItem(it, lost, down, needs) ==
  /\ it.res = "reconnecting" \/ it.retried => lost > 0
  /\ lost <= 1 => it.res # "error"
  /\ lost <= 1 /\ down => ~it.retried /\ (it.res = "reconnecting" => needs)

ItemActs(c, i) ==
  \/ ItemStep(c, i) \/ NotFound(c, i) \/ StepFails(c, i) \/ SftpStepFails(c, i)
  \/ AnswerLost(c, i) \/ SftpReconnect(c, i) \/ ReconnectFails(c, i)

\* The steps of an item and what they do to the connection.
LEMMA LinkMoves ==
  ASSUME ObjectsTyped, NEW c \in Callers, ItemsInPlace(c), NEW i \in DOMAIN invocation[c].items,
         ItemActs(c, i), binding \in Sftp
  PROVE  LET it == invocation[c].items[i]
             new == invocation'[c].items[i]
         IN  \/ /\ ItemWorks(c, i) \/ (ItemStays(c, i) /\ objects' = objects /\ Missing(c, i))
                /\ new.retried = it.retried /\ new.res \in {"ok", "running", "not found"}
                /\ link = "up" /\ link' = link /\ storeFaults' = storeFaults
                /\ needsReconnect' = needsReconnect
             \/ /\ new.retried = it.retried
                /\ new.res = IF it.retried THEN "error" ELSE "reconnecting"
                /\ needsReconnect' = (needsReconnect \/ ~it.retried)
                /\ link' = "down"
                /\ \/ link = "down" /\ storeFaults' = storeFaults
                   \/ storeFaults' = storeFaults + 1
             \/ /\ it.res = "reconnecting" /\ new.retried /\ new.res = "running"
                /\ needsReconnect' = FALSE
                /\ link' = IF needsReconnect THEN "up" ELSE link
                /\ storeFaults' = storeFaults
             \/ /\ new.retried = it.retried /\ new.res = "error"
                /\ needsReconnect' = needsReconnect
                /\ link = "down" /\ link' = link
                /\ storeFaults' = storeFaults + 1
  <1> DEFINE it == invocation[c].items[i]
             new == invocation'[c].items[i]
  <1>1. CASE ItemStep(c, i)
    <2>1. /\ link = "up" /\ link' = link /\ storeFaults' = storeFaults
          /\ needsReconnect' = needsReconnect
      BY <1>1 DEF ItemStep
    <2>2. ItemWorks(c, i)
      BY <1>1, ItemStepActs
    <2>3. new.retried = it.retried /\ new.res \in {"ok", "running"}
      BY <2>2 DEF ItemWorks
    <2> QED BY <2>1, <2>2, <2>3
  <1>2. CASE NotFound(c, i)
    <2>1. /\ ItemStays(c, i) /\ Missing(c, i) /\ objects' = objects
          /\ storeFaults' = storeFaults /\ link' = link /\ needsReconnect' = needsReconnect
          /\ new.retried = it.retried
          /\ new.res = IF At(c, i) = "properties" THEN "error" ELSE "not found"
      BY <1>2, NotFoundActs
    <2>2. At(c, i) # "properties"
      BY ItemAtStep DEF ObjectStepIs, Sftp
    <2>3. link = "up"
      BY <1>2 DEF NotFound
    <2> QED BY <2>1, <2>2, <2>3
  <1>3. CASE StepFails(c, i)
    BY <1>3 DEF StepFails
  <1>4. CASE SftpStepFails(c, i) \/ AnswerLost(c, i)
    BY <1>4, TransportActs
  <1>5. CASE SftpReconnect(c, i)
    BY <1>5, ReconnectActs
  <1>6. CASE ReconnectFails(c, i)
    BY <1>6, ReconnectFailsActs
  <1> QED BY <1>1, <1>2, <1>3, <1>4, <1>5, <1>6 DEF ItemActs

\* The steps of an item, in one.
LEMMA ItemActsAct ==
  ASSUME ObjectsTyped, NEW c \in Callers, ItemsInPlace(c), NEW i \in DOMAIN invocation[c].items,
         ItemActs(c, i)
  PROVE  ItemAct(c, i) /\ storeFaults' \in Nat /\ storeFaults' >= storeFaults
  <1>1. ItemAct(c, i)
    BY ItemStepActs, NotFoundActs, StepFailsActs, TransportActs, ReconnectActs,
       ReconnectFailsActs DEF ItemActs
  <1>2. storeFaults' = storeFaults \/ storeFaults' = storeFaults + 1
    BY DEF ItemActs, ItemStep, NotFound, StepFails, SftpStepFails, AnswerLost, SftpReconnect,
           ReconnectFails
  <1> QED BY <1>1, <1>2 DEF ObjectsTyped

\* No error after a single loss of the connection, and no reconnect that is not needed.
LEMMA LinkKept ==
  ASSUME ObjectsTyped, NEW c \in Callers, ItemsInPlace(c), NEW i \in DOMAIN invocation[c].items,
         ItemActs(c, i), LinkInv
  PROVE  LinkInv'
  <1> DEFINE it == invocation[c].items[i]
             new == invocation'[c].items[i]
  <1>1. ItemAct(c, i) /\ storeFaults \in Nat /\ storeFaults' \in Nat
    BY ItemActsAct DEF ObjectsTyped
  <1>2. SUFFICES ASSUME binding \in Sftp
                 PROVE  LinkInv'
    BY <1>1 DEF ItemAct, LinkInv
  <1>3. /\ link = "down" => storeFaults > 0
        /\ \A d \in Callers : \A j \in DOMAIN invocation[d].items :
             LinkItem(invocation[d].items[j], storeFaults, link = "down", needsReconnect)
    BY <1>2 DEF LinkInv, LinkItem
  <1>4. \A d \in Callers : \A j \in DOMAIN invocation'[d].items :
          \/ d = c /\ j = i
          \/ j \in DOMAIN invocation[d].items /\ invocation'[d].items[j] = invocation[d].items[j]
    <2>1. binding # "azure"
      BY <1>2 DEF Sftp
    <2> QED BY <1>1, <2>1 DEF ItemAct, CallKeeps, OtherItemsStay
  <1>5. SUFFICES
          /\ link' = "down" => storeFaults' > 0
          /\ LinkItem(new, storeFaults', link' = "down", needsReconnect')
          /\ \A d \in Callers : \A j \in DOMAIN invocation[d].items :
               LinkItem(invocation[d].items[j], storeFaults', link' = "down", needsReconnect')
    <2>1. \A d \in Callers : \A j \in DOMAIN invocation'[d].items :
            LinkItem(invocation'[d].items[j], storeFaults', link' = "down", needsReconnect')
      BY <1>4, <1>5
    <2> QED BY <1>5, <2>1 DEF LinkInv, LinkItem
  <1>6. LinkItem(it, storeFaults, link = "down", needsReconnect)
    BY <1>3
  <1>7. \A d \in Callers : \A j \in DOMAIN invocation[d].items :
          invocation[d].items[j].retried \in BOOLEAN
    BY ItemsTyped DEF Item0
  <1>8. it.retried \in BOOLEAN /\ needsReconnect \in BOOLEAN /\ link \in {"up", "down"}
    BY <1>7 DEF ObjectsTyped
  <1>9. CASE /\ new.retried = it.retried /\ new.res \in {"ok", "running", "not found"}
             /\ link = "up" /\ link' = link /\ storeFaults' = storeFaults
             /\ needsReconnect' = needsReconnect
    <2>1. LinkItem(new, storeFaults', link' = "down", needsReconnect')
      BY <1>6, <1>9 DEF LinkItem
    <2>2. \A d \in Callers : \A j \in DOMAIN invocation[d].items :
               LinkItem(invocation[d].items[j], storeFaults', link' = "down", needsReconnect')
      BY <1>3, <1>9
    <2> QED BY <1>3, <1>9, <2>1, <2>2
  <1>10. CASE /\ new.retried = it.retried
              /\ new.res = IF it.retried THEN "error" ELSE "reconnecting"
              /\ needsReconnect' = (needsReconnect \/ ~it.retried)
              /\ link' = "down"
              /\ \/ link = "down" /\ storeFaults' = storeFaults
                 \/ storeFaults' = storeFaults + 1
    <2>1. storeFaults' > 0
      BY <1>1, <1>3, <1>10
    <2>2. storeFaults' <= 1 => ~it.retried
      BY <1>1, <1>6, <1>10 DEF LinkItem
    <2>3. LinkItem(new, storeFaults', link' = "down", needsReconnect')
      BY <1>8, <1>10, <2>1, <2>2 DEF LinkItem
    <2>4. ASSUME NEW d \in Callers, NEW j \in DOMAIN invocation[d].items
          PROVE  LinkItem(invocation[d].items[j], storeFaults', link' = "down", needsReconnect')
      <3> DEFINE other == invocation[d].items[j]
      <3>1. LinkItem(other, storeFaults, link = "down", needsReconnect) /\ other.retried \in BOOLEAN
        BY <1>3, <1>7
      <3> HIDE DEF other
      <3>2. storeFaults' <= 1 => /\ ~other.retried
                                 /\ other.res = "reconnecting" => needsReconnect'
                                 /\ other.res # "error"
        <4>1. CASE link = "down" /\ storeFaults' = storeFaults
          BY <1>8, <1>10, <3>1, <4>1 DEF LinkItem
        <4>2. CASE storeFaults' = storeFaults + 1
          <5>1. storeFaults' <= 1 => storeFaults = 0
            BY <1>1, <4>2
          <5> QED BY <3>1, <5>1 DEF LinkItem
        <4> QED BY <1>10, <4>1, <4>2
      <3>3. LinkItem(other, storeFaults', link' = "down", needsReconnect')
        BY <2>1, <3>2 DEF LinkItem
      <3> QED BY <3>3 DEF other
    <2> QED BY <2>1, <2>3, <2>4
  <1>11. CASE /\ it.res = "reconnecting" /\ new.retried /\ new.res = "running"
              /\ needsReconnect' = FALSE
              /\ link' = IF needsReconnect THEN "up" ELSE link
              /\ storeFaults' = storeFaults
    <2>1. link' = "down" => storeFaults' > 1 /\ link = "down"
      BY <1>1, <1>6, <1>8, <1>11 DEF LinkItem
    <2>2. storeFaults' > 0
      BY <1>6, <1>11 DEF LinkItem
    <2>3. ~(storeFaults' <= 1 /\ link' = "down")
      BY <1>1, <2>1
    <2>4. LinkItem(new, storeFaults', link' = "down", needsReconnect')
      BY <1>11, <2>2, <2>3 DEF LinkItem
    <2>5. \A d \in Callers : \A j \in DOMAIN invocation[d].items :
               LinkItem(invocation[d].items[j], storeFaults', link' = "down", needsReconnect')
      BY <1>3, <1>11, <2>3 DEF LinkItem
    <2> QED BY <2>2, <2>4, <2>5
  <1>12. CASE /\ new.retried = it.retried /\ new.res = "error"
              /\ needsReconnect' = needsReconnect
              /\ link = "down" /\ link' = link
              /\ storeFaults' = storeFaults + 1
    <2>1. storeFaults' > 0 /\ ~(storeFaults' <= 1)
      BY <1>1, <1>3, <1>12
    <2>2. \A x : LinkItem(x, storeFaults', link' = "down", needsReconnect')
      BY <2>1 DEF LinkItem
    <2> QED BY <2>1, <2>2
  <1> QED BY <1>2, <1>9, <1>10, <1>11, <1>12, LinkMoves

\* A step of an item keeps the invariant.
LEMMA ItemActKeeps ==
  ASSUME ObjectsInv, NEW c \in Callers, NEW i \in DOMAIN invocation[c].items, ItemActs(c, i)
  PROVE  ObjectsInv'
  <1>1. /\ ObjectsTyped /\ FilesTouched /\ TornInv /\ LinkInv
        /\ \A d \in Callers : ItemsInPlace(d) /\ NowHeld(d)
        /\ ItemsInPlace(c)
    BY DEF ObjectsInv
  <1>2. ItemAct(c, i) /\ storeFaults \in Nat /\ storeFaults' \in Nat /\ storeFaults' >= storeFaults
    BY <1>1, ItemActsAct DEF ObjectsTyped
  <1>3. \A d \in Callers : ItemsInPlace(d)
    BY <1>1
  <1>4. ObjectsTyped'
    BY <1>1, <1>2, ActTypesKept
  <1>5. FilesTouched'
    BY <1>1, <1>2, TouchedKept
  <1>6. TornInv'
    <2>1. storeFaults' = 0 => storeFaults = 0
      BY <1>2
    <2>2. storeFaults' = 0 /\ binding \in Sftp =>
            ItemWorks(c, i) \/ (objects' = objects /\ Missing(c, i))
      <3> SUFFICES ASSUME storeFaults' = 0, binding \in Sftp
                   PROVE  ItemWorks(c, i) \/ (objects' = objects /\ Missing(c, i))
        OBVIOUS
      <3>1. /\ ~(storeFaults > 0) /\ ~(storeFaults' = storeFaults + 1)
        BY <1>2
      <3>2. link # "down" /\ invocation[c].items[i].res # "reconnecting"
        BY <1>1, <3>1 DEF LinkInv
      <3> QED BY <1>1, <3>1, <3>2, LinkMoves
    <2> QED BY <1>1, <1>2, <1>3, <2>1, <2>2, TornKept
  <1>7. LinkInv'
    BY <1>1, LinkKept
  <1>8. ASSUME NEW d \in Callers
        PROVE  /\ ItemsInPlace(d)' /\ NowHeld(d)' /\ ListInv(d)' /\ UnsentInv(d)' /\ PanicInv(d)'
               /\ \A j \in DOMAIN invocation'[d].items :
                    AnswerInv(d, j)' /\ MoveInv(d, j)' /\ FileInv(d, j)'
    <2>1. /\ NowHeld(d) /\ ListInv(d) /\ UnsentInv(d) /\ PanicInv(d)
          /\ \A j \in DOMAIN invocation[d].items : AnswerInv(d, j) /\ MoveInv(d, j) /\ FileInv(d, j)
          /\ AnswerInv(c, i)
      BY DEF ObjectsInv
    <2>2. ItemsInPlace(d)'
      BY <1>1, <1>2, <1>3, PlacesKept
    <2>3. NowHeld(d)' /\ invocation'[d].pc = invocation[d].pc
      BY <1>1, <1>2, <2>1, HeldKept
    <2>4. ListInv(d)'
      BY <1>1, <1>2, <2>1, ListsKept
    <2>5. UnsentInv(d)'
      BY <1>1, <1>2, <2>1, UnsentKept
    <2>6. PanicInv(d)'
      BY <1>2, <2>1, <2>3 DEF PanicInv, ItemAct
    <2>7. ASSUME NEW j \in DOMAIN invocation'[d].items
          PROVE  AnswerInv(d, j)' /\ MoveInv(d, j)' /\ FileInv(d, j)'
      <3>1. j \in DOMAIN invocation[d].items
        BY <1>2, <2>7 DEF ItemAct, CallKeeps
      <3>2. AnswerInv(d, j) /\ MoveInv(d, j) /\ FileInv(d, j)
        BY <2>1, <3>1
      <3>3. AnswerInv(d, j)'
        BY <1>1, <1>2, <3>1, <3>2, AnswersKept
      <3>4. MoveInv(d, j)'
        BY <1>1, <1>2, <1>3, <3>1, <3>2, MovesKept
      <3>5. FileInv(d, j)'
        BY <1>1, <1>2, <2>1, <3>1, <3>2, FilesKept
      <3> QED BY <3>3, <3>4, <3>5
    <2> QED BY <2>2, <2>3, <2>4, <2>5, <2>6, <2>7
  <1> QED BY <1>4, <1>5, <1>6, <1>7, <1>8 DEF ObjectsInv

\* An item that has not begun.
Fresh(it) == it.at = 1 /\ it.val = 0 /\ it.res = "running" /\ it.retried = FALSE

\* The call keeps its type.
CallTypedNext(c) ==
  /\ DOMAIN invocation' = Callers /\ invocation'[c] \in Invocation
  /\ DOMAIN held' = Callers /\ DOMAIN held'[c] = ObjectNames

\* A call goes on without items, or gets them.
CallGoesOn(c) ==
  /\ invocation[c].pc # "items" /\ DOMAIN invocation[c].items = {}
  /\ CallTypedNext(c)
  /\ \A d \in Callers : d # c => invocation'[d] = invocation[d] /\ held'[d] = held[d]
  /\ \A i \in DOMAIN invocation'[c].items : Fresh(invocation'[c].items[i])
  /\ binding' = binding /\ objects' = objects /\ files' = files /\ link' = link
  /\ needsReconnect' = needsReconnect
  /\ storeFaults' \in Nat /\ storeFaults' >= storeFaults
  /\ binding \in Sftp => storeFaults' = storeFaults
  /\ ItemsInPlace(c)' /\ NowHeld(c)' /\ ListInv(c)' /\ UnsentInv(c)' /\ PanicInv(c)'

\* A call that goes on has no effect on the others, and its items can be begun.
LEMMA CallGoesOnKeeps ==
  ASSUME ObjectsInv, NEW c \in Callers, CallGoesOn(c)
  PROVE  ObjectsInv'
  <1>1. /\ ObjectsTyped /\ FilesTouched /\ TornInv /\ LinkInv
        /\ \A d \in Callers :
             /\ ItemsInPlace(d) /\ NowHeld(d) /\ ListInv(d) /\ UnsentInv(d) /\ PanicInv(d)
             /\ \A i \in DOMAIN invocation[d].items :
                  AnswerInv(d, i) /\ MoveInv(d, i) /\ FileInv(d, i)
    BY DEF ObjectsInv
  <1>2. /\ invocation[c].pc # "items" /\ DOMAIN invocation[c].items = {}
        /\ CallTypedNext(c)
        /\ \A d \in Callers : d # c => invocation'[d] = invocation[d] /\ held'[d] = held[d]
        /\ \A i \in DOMAIN invocation'[c].items : Fresh(invocation'[c].items[i])
        /\ binding' = binding /\ objects' = objects /\ files' = files /\ link' = link
        /\ needsReconnect' = needsReconnect
        /\ storeFaults' \in Nat /\ storeFaults' >= storeFaults /\ storeFaults \in Nat
        /\ binding \in Sftp => storeFaults' = storeFaults
    BY <1>1 DEF CallGoesOn, ObjectsTyped
  <1>3. ObjectsTyped'
    BY <1>1, <1>2 DEF ObjectsTyped, CallTypedNext
  <1>4. FilesTouched'
    <2>1. ASSUME NEW n \in ObjectNames, files'[n] # 0
          PROVE  \E d \in Callers : \E i \in DOMAIN invocation'[d].items :
                   invocation'[d].items[i].name = n
      <3>1. PICK d \in Callers : \E i \in DOMAIN invocation[d].items : invocation[d].items[i].name = n
        BY <1>1, <1>2, <2>1 DEF FilesTouched
      <3>2. d # c
        BY <1>2, <3>1
      <3>3. invocation'[d] = invocation[d]
        BY <1>2, <3>2
      <3> QED BY <3>1, <3>3
    <2> QED BY <2>1 DEF FilesTouched
  <1>5. TornInv'
    <2>1. ASSUME NEW n \in ObjectNames, objects'[n] = Partial
          PROVE  \/ binding \in {"local", "sftp"}
                 \/ /\ binding = "sequentialSftp"
                    /\ storeFaults' = 0 => \E d \in Callers :
                         /\ invocation'[d].pc = "items" /\ invocation'[d].op = "create"
                         /\ invocation'[d].items[1].name = n
                         /\ invocation'[d].items[1].res = "running"
                         /\ invocation'[d].items[1].at = 2
      <3>1. objects[n] = Partial
        BY <1>2, <2>1
      <3>2. SUFFICES ASSUME binding = "sequentialSftp", storeFaults' = 0
                     PROVE  \E d \in Callers :
                         /\ invocation'[d].pc = "items" /\ invocation'[d].op = "create"
                         /\ invocation'[d].items[1].name = n
                         /\ invocation'[d].items[1].res = "running"
                         /\ invocation'[d].items[1].at = 2
        BY <1>1, <3>1 DEF TornInv
      <3>3. storeFaults = 0
        BY <1>2, <3>2 DEF Sftp
      <3>4. PICK d \in Callers :
              /\ invocation[d].pc = "items" /\ invocation[d].op = "create"
              /\ invocation[d].items[1].name = n
              /\ invocation[d].items[1].res = "running" /\ invocation[d].items[1].at = 2
        BY <1>1, <3>1, <3>2, <3>3 DEF TornInv
      <3>5. d # c
        BY <1>2, <3>4
      <3>6. invocation'[d] = invocation[d]
        BY <1>2, <3>5
      <3> QED BY <3>4, <3>6
    <2> QED BY <1>2, <2>1 DEF TornInv
  <1>6. LinkInv'
    <2> SUFFICES ASSUME binding \in Sftp
                 PROVE  LinkInv'
      BY <1>2 DEF LinkInv
    <2>1. /\ link = "down" => storeFaults > 0
          /\ \A d \in Callers : \A j \in DOMAIN invocation[d].items :
               LinkItem(invocation[d].items[j], storeFaults, link = "down", needsReconnect)
      BY <1>1 DEF LinkInv, LinkItem
    <2>2. ASSUME NEW d \in Callers, NEW j \in DOMAIN invocation'[d].items
          PROVE  LinkItem(invocation'[d].items[j], storeFaults, link = "down", needsReconnect)
      <3>1. CASE d = c
        BY <1>2, <3>1 DEF Fresh, LinkItem
      <3>2. CASE d # c
        <4>1. invocation'[d] = invocation[d]
          BY <1>2, <3>2
        <4> QED BY <2>1, <4>1
      <3> QED BY <3>1, <3>2
    <2> QED BY <1>2, <2>1, <2>2 DEF LinkInv, LinkItem
  <1>7. ASSUME NEW d \in Callers
        PROVE  /\ ItemsInPlace(d)' /\ NowHeld(d)' /\ ListInv(d)' /\ UnsentInv(d)' /\ PanicInv(d)'
               /\ \A i \in DOMAIN invocation'[d].items :
                    AnswerInv(d, i)' /\ MoveInv(d, i)' /\ FileInv(d, i)'
    <2>1. MayBeTorn => MayBeTorn'
      BY <1>2 DEF MayBeTorn
    <2>2. ASSUME NEW e \in Callers, NEW n, NEW m, AloneAt(e, n, m)', e # c
          PROVE  AloneAt(e, n, m)
      BY <1>2, <2>2 DEF AloneAt
    <2>3. CASE d = c
      <3>1. ASSUME NEW i \in DOMAIN invocation'[c].items
            PROVE  AnswerInv(c, i)' /\ MoveInv(c, i)' /\ FileInv(c, i)'
        <4> DEFINE it == invocation'[c].items[i]
        <4>1. it.at = 1 /\ it.val = 0 /\ it.res = "running" /\ it.name \in ObjectNames
          <5>1. Fresh(it)
            BY <1>2
          <5>2. it \in Item0
            BY <1>2 DEF CallTypedNext, Invocation, ItemMaps
          <5> QED BY <5>1, <5>2 DEF Fresh, Item0
        <4>2. AnswerInv(c, i)'
          BY <4>1 DEF AnswerInv, HasRead, HasWritten, HasCopied
        <4>3. MoveInv(c, i)'
          BY <4>1 DEF MoveInv
        <4>4. FileInv(c, i)'
          <5>1. SUFFICES ASSUME NEW n, NEW m, n = it.name, m = it.to, AloneAt(c, n, m)'
                         PROVE  files'[n] = 0
            BY <4>1 DEF FileInv, Alone, AloneAt
          <5>2. \A e \in Callers : \A j \in DOMAIN invocation[e].items :
                  invocation[e].items[j].name # n
            <6>1. \A e \in Callers \ {c} : invocation'[e] = invocation[e]
              BY <1>2
            <6>2. \A e \in Callers \ {c} : \A j \in DOMAIN invocation'[e].items :
                    {invocation'[e].items[j].name, invocation'[e].items[j].to} \cap {n, m} = {}
              BY <5>1 DEF AloneAt
            <6>3. ASSUME NEW e \in Callers \ {c}, NEW j \in DOMAIN invocation[e].items
                  PROVE  invocation[e].items[j].name # n
              <7>1. invocation'[e] = invocation[e]
                BY <6>1
              <7> QED BY <6>2, <6>3, <7>1
            <6> QED BY <1>2, <6>3
          <5> QED BY <1>1, <1>2, <4>1, <5>1, <5>2 DEF FilesTouched
        <4> QED BY <4>2, <4>3, <4>4
      <3>2. ItemsInPlace(c)' /\ NowHeld(c)' /\ ListInv(c)' /\ UnsentInv(c)' /\ PanicInv(c)'
        BY DEF CallGoesOn
      <3> QED BY <2>3, <3>1, <3>2
    <2>4. CASE d # c
      <3>1. invocation'[d] = invocation[d] /\ held'[d] = held[d]
        BY <1>2, <2>4
      <3>2. /\ ItemsInPlace(d) /\ NowHeld(d) /\ ListInv(d) /\ UnsentInv(d) /\ PanicInv(d)
            /\ \A i \in DOMAIN invocation[d].items :
                 AnswerInv(d, i) /\ MoveInv(d, i) /\ FileInv(d, i)
        BY <1>1
      <3>3. ItemsInPlace(d)'
        <4>1. Program(d)' = Program(d)
          BY <1>2, <3>1 DEF Program
        <4> QED BY <1>2, <3>1, <3>2, <4>1 DEF ItemsInPlace
      <3>4. NowHeld(d)'
        BY <1>2, <3>1, <3>2 DEF NowHeld
      <3>5. ListInv(d)'
        BY <1>2, <3>1, <3>2 DEF ListInv
      <3>6. UnsentInv(d)'
        BY <1>2, <3>1, <3>2 DEF UnsentInv
      <3>7. PanicInv(d)'
        BY <1>2, <3>1, <3>2 DEF PanicInv
      <3>8. ASSUME NEW i \in DOMAIN invocation'[d].items
            PROVE  AnswerInv(d, i)' /\ MoveInv(d, i)' /\ FileInv(d, i)'
        <4> DEFINE it == invocation[d].items[i]
        <4> SUFFICES ASSUME NEW n, NEW m, n = it.name, m = it.to
                     PROVE  AnswerInv(d, i)' /\ MoveInv(d, i)' /\ FileInv(d, i)'
          OBVIOUS
        <4>1. AnswerInv(d, i) /\ MoveInv(d, i) /\ FileInv(d, i) /\ invocation'[d].items[i] = it
          BY <3>1, <3>2, <3>8
        <4>2. Alone(d, it)' => Alone(d, it)
          <5>1. Alone(d, it)' <=> AloneAt(d, n, m)'
            BY <3>1 DEF Alone, AloneAt
          <5>2. Alone(d, it) <=> AloneAt(d, n, m)
            BY DEF Alone, AloneAt
          <5> QED BY <2>2, <2>4, <5>1, <5>2
        <4>3. AnswerInv(d, i)'
          <5>1. HasRead(d, i)' <=> HasRead(d, i)
            BY <1>2, <3>1 DEF HasRead, ToFile
          <5>2. HasWritten(d, i)' <=> HasWritten(d, i)
            BY <1>2, <3>1 DEF HasWritten
          <5>3. HasCopied(d, i)' <=> HasCopied(d, i)
            BY <1>2, <3>1 DEF HasCopied
          <5> QED BY <2>1, <3>1, <4>1, <5>1, <5>2, <5>3 DEF AnswerInv
        <4>4. MoveInv(d, i)'
          BY <1>2, <3>1, <4>1, <4>2 DEF MoveInv
        <4>5. FileInv(d, i)'
          <5>1. ToFile(invocation[d].op)' <=> ToFile(invocation[d].op)
            BY <1>2, <3>1 DEF ToFile
          <5> QED BY <1>2, <3>1, <4>1, <4>2, <5>1 DEF FileInv
        <4> QED BY <4>3, <4>4, <4>5
      <3> QED BY <3>3, <3>4, <3>5, <3>6, <3>7, <3>8
    <2> QED BY <2>3, <2>4
  <1> QED BY <1>3, <1>4, <1>5, <1>6, <1>7 DEF ObjectsInv

\* A fresh item has the type of an item.
LEMMA FreshItems ==
  ASSUME NEW n \in ObjectNames, NEW m \in ObjectNames
  PROVE  /\ Item(n, m) \in Item0 /\ Fresh(Item(n, m))
         /\ Item(n, m).name = n /\ Item(n, m).to = m /\ Item(n, m).at = 1
         /\ Item(n, m).res = "running"
  BY DEF Item, Item0, Fresh

\* The items a call begins with.
Beginning(op, pc, items) ==
  \/ pc = "listing" /\ items = <<>>
  \/ /\ pc = "items" /\ op \in Bulk /\ items = [m \in ObjectNames |-> Item(m, m)]
  \/ /\ pc = "items" /\ op \notin Bulk
     /\ \E n \in ObjectNames, to \in ObjectNames :
          /\ items = <<Item(n, to)>>
          /\ op \notin {"copy", "move", "rename"} => to = n

\* The items a call begins with are fresh and in their places.
LEMMA BeginningFacts ==
  ASSUME NEW op, NEW pc \in {"listing", "items"}, NEW items, Beginning(op, pc, items)
  PROVE  /\ items \in ItemMaps
         /\ pc = "listing" => items = <<>>
         /\ pc = "items" /\ op \notin Bulk => DOMAIN items = {1}
         /\ \A i \in DOMAIN items :
              /\ Fresh(items[i]) /\ items[i].name \in ObjectNames
              /\ op \in Bulk => items[i].name = i /\ items[i].to = i
              /\ op \notin {"copy", "move", "rename"} => items[i].to = items[i].name
  <1>1. CASE pc = "listing" /\ items = <<>>
    <2>1. items \in [{} -> Item0]
      BY <1>1
    <2> QED BY <1>1, <2>1 DEF ItemMaps
  <1>2. CASE /\ pc = "items" /\ op \in Bulk /\ items = [m \in ObjectNames |-> Item(m, m)]
    <2>1. items \in [ObjectNames -> Item0]
      BY <1>2, FreshItems
    <2>2. items \in ItemMaps
      BY <2>1 DEF ItemMaps
    <2> QED BY <1>2, <2>2, FreshItems
  <1>3. CASE /\ pc = "items" /\ op \notin Bulk
             /\ \E n \in ObjectNames, to \in ObjectNames :
                  /\ items = <<Item(n, to)>>
                  /\ op \notin {"copy", "move", "rename"} => to = n
    <2>1. PICK n \in ObjectNames, to \in ObjectNames :
                  /\ items = <<Item(n, to)>>
                  /\ op \notin {"copy", "move", "rename"} => to = n
      BY <1>3
    <2> DEFINE first == Item(n, to)
    <2>2. /\ first \in Item0 /\ Fresh(first) /\ first.name = n /\ first.to = to
      BY FreshItems
    <2> HIDE DEF first
    <2>3. DOMAIN items = {1} /\ items[1] = first /\ items = [i \in {1} |-> first]
      <3>1. items = <<first>>
        BY <2>1 DEF first
      <3> HIDE <2>1
      <3> QED BY <3>1
    <2>4. {1} \in SUBSET ObjectNames
      <3>1. ObjectNames = 1..Cardinality(ObjectNames) /\ Cardinality(ObjectNames) \in Nat
        BY ObjectStoresAssumption, FS_CardinalityType
      <3>2. 1 \in ObjectNames
        BY <2>1, <3>1
      <3> QED BY <3>2
    <2>5. items \in ItemMaps
      <3>1. items \in [{1} -> Item0]
        BY <2>2, <2>3
      <3> QED BY <2>4, <3>1 DEF ItemMaps
    <2> QED BY <1>3, <2>1, <2>2, <2>3, <2>5
  <1> QED BY <1>1, <1>2, <1>3 DEF Beginning

\* What Invoke makes of the call.
LEMMA InvokeForm ==
  ASSUME ObjectsTyped, NEW c \in Callers, Invoke(c)
  PROVE  \E op \in DOMAIN Programs[binding], pc \in {"listing", "items"}, items \in ItemMaps :
           /\ pc = "listing" <=> op \in ByPrefix \cup {"list"} /\ binding \notin Sftp
           /\ Beginning(op, pc, items)
           /\ invocation' = [invocation EXCEPT ![c] =
                [NoCall EXCEPT !.op = op, !.pc = pc, !.items = items]]
  <1>0. PICK op \in DOMAIN Programs[binding], n \in ObjectNames :
               LET lists == op \in ByPrefix \cup {"list"} /\ binding \notin Sftp
                   called == [NoCall EXCEPT !.op = op, !.pc = IF lists THEN "listing" ELSE "items"]
               IN  \E to \in Destinations(op, n) :
                   invocation' = [invocation EXCEPT ![c] = [called EXCEPT !.items =
                     CASE lists      -> <<>>
                       [] op \in Bulk -> [m \in ObjectNames |-> Item(m, m)]
                       [] OTHER       -> <<Item(n, to)>>]]
    BY DEF Invoke
  <1>1. PICK to \in Destinations(op, n) :
               LET lists == op \in ByPrefix \cup {"list"} /\ binding \notin Sftp
                   called == [NoCall EXCEPT !.op = op, !.pc = IF lists THEN "listing" ELSE "items"]
               IN  invocation' = [invocation EXCEPT ![c] = [called EXCEPT !.items =
                     CASE lists      -> <<>>
                       [] op \in Bulk -> [m \in ObjectNames |-> Item(m, m)]
                       [] OTHER       -> <<Item(n, to)>>]]
    BY <1>0
  <1> DEFINE lists == op \in ByPrefix \cup {"list"} /\ binding \notin Sftp
             pc == IF lists THEN "listing" ELSE "items"
             items == CASE lists      -> <<>>
                        [] op \in Bulk -> [m \in ObjectNames |-> Item(m, m)]
                        [] OTHER       -> <<Item(n, to)>>
  <1>2. op \in Bulk => ~lists
    BY DEF Bulk, ByPrefix
  <1>3. to \in ObjectNames /\ (op \notin {"copy", "move", "rename"} => to = n)
    BY DEF Destinations
  <1>4. Beginning(op, pc, items)
    BY <1>2, <1>3 DEF Beginning
  <1>5. pc \in {"listing", "items"} /\ (pc = "listing" <=> lists)
    OBVIOUS
  <1>6. invocation' = [invocation EXCEPT ![c] =
          [[NoCall EXCEPT !.op = op, !.pc = pc] EXCEPT !.items = items]]
    BY <1>1
  <1> HIDE DEF items, pc
  <1>7. items \in ItemMaps
    BY <1>4, <1>5, BeginningFacts
  <1>8. [[NoCall EXCEPT !.op = op, !.pc = pc] EXCEPT !.items = items]
        = [NoCall EXCEPT !.op = op, !.pc = pc, !.items = items]
    BY DEF NoCall
  <1> QED BY <1>4, <1>5, <1>6, <1>7, <1>8

\* Invoke begins a call,
LEMMA InvokeMoves ==
  ASSUME ObjectsInv, NEW c \in Callers, Invoke(c)
  PROVE  CallGoesOn(c)
  <1>1. ObjectsTyped /\ ItemsInPlace(c) /\ UnsentInv(c)
    BY DEF ObjectsInv
  <1>2. PICK op \in DOMAIN Programs[binding], pc \in {"listing", "items"}, items \in ItemMaps :
           /\ pc = "listing" <=> op \in ByPrefix \cup {"list"} /\ binding \notin Sftp
           /\ Beginning(op, pc, items)
           /\ invocation' = [invocation EXCEPT ![c] =
                [NoCall EXCEPT !.op = op, !.pc = pc, !.items = items]]
    BY <1>1, InvokeForm
  <1> DEFINE new == invocation'[c]
             prog == Programs[binding][op]
  <1>3. /\ invocation[c].pc = "idle" /\ binding' = binding /\ objects' = objects
        /\ files' = files /\ link' = link /\ needsReconnect' = needsReconnect
        /\ storeFaults' = storeFaults
        /\ held' = [held EXCEPT ![c] = [n \in ObjectNames |-> {objects[n]}]]
    BY DEF Invoke
  <1>4. /\ new = [op |-> op, pc |-> pc, page |-> 1, found |-> {}, items |-> items]
        /\ \A d \in Callers : d # c => invocation'[d] = invocation[d]
        /\ DOMAIN invocation' = Callers
    BY <1>1, <1>2 DEF ObjectsTyped, NoCall
  <1>5. /\ \A d \in Callers : d # c => held'[d] = held[d]
        /\ DOMAIN held' = Callers /\ DOMAIN held'[c] = ObjectNames
        /\ \A n \in ObjectNames : held'[c][n] = {objects[n]}
    BY <1>1, <1>3 DEF ObjectsTyped
  <1>6. ObjectProgramIs(binding, op, prog) /\ binding \in DOMAIN Programs
    BY <1>1, ObjectPrograms DEF ObjectsTyped
  <1>7. /\ items \in ItemMaps
        /\ pc = "listing" => items = <<>>
        /\ pc = "items" /\ op \notin Bulk => DOMAIN items = {1}
        /\ \A i \in DOMAIN items :
              /\ Fresh(items[i]) /\ items[i].name \in ObjectNames
              /\ op \in Bulk => items[i].name = i /\ items[i].to = i
              /\ op \notin {"copy", "move", "rename"} => items[i].to = items[i].name
    BY <1>2, BeginningFacts
  <1> HIDE DEF prog, new
  <1>8. op \in OpNames
    BY <1>6 DEF ObjectProgramIs, OpNames
  <1>9. op \in ByPrefix => binding \in {"azure", "gcs"}
    BY <1>6 DEF ObjectProgramIs, ByPrefix
  <1>10. pc = "items" => op \notin ByPrefix /\ (op = "list" => binding \in Sftp)
    BY <1>2, <1>9 DEF Sftp
  <1>11. pc = "items" => Len(prog) \in Nat /\ Len(prog) >= 1
    <2>1. pc = "items" => prog # <<>>
      BY <1>6, <1>10 DEF ObjectProgramIs
    <2>2. \/ prog = <<>>
          \/ \E x : prog = <<x>>
          \/ \E x, y : prog = <<x, y>>
          \/ \E x, y, z : prog = <<x, y, z>>
      BY <1>6 DEF ObjectProgramIs
    <2>3. (\E x : prog = <<x>>) => Len(prog) = 1
      OBVIOUS
    <2>4. (\E x, y : prog = <<x, y>>) => Len(prog) = 2
      OBVIOUS
    <2>5. (\E x, y, z : prog = <<x, y, z>>) => Len(prog) = 3
      OBVIOUS
    <2> QED BY <2>1, <2>2, <2>3, <2>4, <2>5
  <1>12. CallTypedNext(c)
    <2>1. new \in Invocation
      BY <1>4, <1>7, <1>8 DEF Invocation
    <2> QED BY <1>4, <1>5, <2>1 DEF CallTypedNext, new
  <1>13. DOMAIN invocation[c].items = {}
    <2>1. invocation[c].items = <<>>
      BY <1>1, <1>3 DEF ItemsInPlace
    <2> QED BY <2>1
  <1>14. \A i \in DOMAIN new.items : Fresh(new.items[i])
    BY <1>4, <1>7
  <1>15. ItemsInPlace(c)'
    <2>1. Program(c)' = prog
      BY <1>3, <1>4 DEF Program, prog, new
    <2>2. new.op = op /\ new.items = items /\ new.pc = pc
      BY <1>4
    <2>3. /\ new.pc # "idle" => new.op \in DOMAIN Programs[binding]
          /\ new.pc # "items" => new.items = <<>>
          /\ new.pc = "listing" => new.op \in ByPrefix \cup {"list"}
          /\ new.pc \notin {"idle", "items"} => binding \notin Sftp
          /\ new.pc = "items" /\ new.op = "list" => binding \in Sftp
          /\ new.pc = "items" /\ new.op \notin Bulk \cup ByPrefix => DOMAIN new.items = {1}
      BY <1>2, <1>7, <1>10, <2>2
    <2>4. ASSUME NEW i \in DOMAIN new.items
          PROVE  /\ new.items[i].at \in 1..Len(prog)
                 /\ new.op \in Bulk \cup ByPrefix => new.items[i].name = i /\ new.items[i].to = i
                 /\ new.op \notin {"copy", "move", "rename"} =>
                      new.items[i].to = new.items[i].name
                 /\ new.items[i].res = "reconnecting" => binding \in Sftp
      <3>1. pc = "items"
        <4>1. DOMAIN items # {}
          BY <2>2, <2>4
        <4> QED BY <1>7, <4>1
      <3>2. new.items[i].at = 1 /\ new.items[i].res = "running"
        BY <1>14 DEF Fresh
      <3>3. new.items[i].at \in 1..Len(prog)
        BY <1>11, <3>1, <3>2
      <3> QED BY <1>7, <1>10, <2>2, <2>4, <3>1, <3>2, <3>3
    <2> QED BY <1>3, <2>1, <2>3, <2>4 DEF ItemsInPlace, new
  <1>16. NowHeld(c)'
    BY <1>3, <1>5 DEF NowHeld
  <1>17. ListInv(c)'
    <2>1. CASE pc = "listing"
      <3>1. new.pc = "listing" /\ new.page = 1 /\ new.found = {}
        BY <1>4, <2>1
      <3>2. \A n \in ObjectNames : ~(n < 1)
        <4>1. ObjectNames = 1..Cardinality(ObjectNames) /\ Cardinality(ObjectNames) \in Nat
          BY ObjectStoresAssumption, FS_CardinalityType
        <4> QED BY <4>1
      <3> QED BY <3>1, <3>2 DEF ListInv, new
    <2>2. CASE pc = "items"
      <3>1. new.pc = "items" /\ new.op = op /\ new.items = items
        BY <1>4, <2>2
      <3>2. op = "list" => new.items[1].res = "running"
        <4>1. op = "list" => DOMAIN items = {1}
          BY <1>7, <2>2 DEF Bulk
        <4> QED BY <1>14, <3>1, <4>1 DEF Fresh
      <3> QED BY <3>1, <3>2 DEF ListInv, new
    <2> QED BY <2>1, <2>2
  <1>18. UnsentInv(c)'
    <2>1. binding = "azure" => \A n \in ObjectNames : objects[n] # Data(c, 1)
      BY <1>1, <1>3 DEF UnsentInv
    <2>2. Data(c, 1)' = Data(c, 1)
      BY DEF Data
    <2>3. new.pc # "idle"
      BY <1>4
    <2> QED BY <1>3, <1>5, <2>1, <2>2, <2>3 DEF UnsentInv, new
  <1>19. PanicInv(c)'
    <2>1. new.pc \in {"listing", "items"}
      BY <1>2, <1>4
    <2> QED BY <2>1 DEF PanicInv, new
  <1>20. storeFaults' \in Nat /\ storeFaults' >= storeFaults
    BY <1>1, <1>3 DEF ObjectsTyped
  <1> QED BY <1>3, <1>4, <1>5, <1>12, <1>13, <1>14, <1>15, <1>16, <1>17, <1>18, <1>19, <1>20
          DEF CallGoesOn, new

\* What the next page of a listing makes of its call.
LEMMA NextPageForm ==
  ASSUME ObjectsTyped, NEW c \in Callers, NextPage(c)
  PROVE  LET call == invocation[c]
             new == invocation'[c]
             found == Page(c)
         IN  /\ call.pc = "listing"
             /\ DOMAIN invocation' = Callers
             /\ \A d \in Callers : d # c => invocation'[d] = invocation[d]
             /\ new.op = call.op
             /\ \/ /\ new = [call EXCEPT !.pc = "panicked"] /\ binding = "local"
                \/ new = [call EXCEPT !.page = @ + 1, !.found = found] /\ call.page < LastPage
                \/ /\ ~(call.page < LastPage) /\ call.op = "list"
                   /\ new = [call EXCEPT !.pc = "ok", !.found = found]
                \/ /\ call.op # "list"
                   /\ \/ new = [call EXCEPT !.pc = "error"]
                      \/ new = [call EXCEPT !.pc = "ok"]
                \/ /\ call.op # "list"
                   /\ new = [call EXCEPT !.pc = "items", !.found = found,
                                         !.items = [n \in found |-> Item(n, n)]]
  <1> DEFINE call == invocation[c]
             new == invocation'[c]
             found == Page(c)
             vanished == /\ binding = "local" /\ call.page > 1
                         /\ call.page - 1 \in call.found /\ objects[call.page - 1] = 0
             next == CASE vanished              -> [call EXCEPT !.pc = "panicked"]
                       [] ~vanished /\ call.page < LastPage ->
                            [call EXCEPT !.page = @ + 1, !.found = found]
                       [] OTHER                 -> Listed(call, found)
  <1>1. call.pc = "listing" /\ invocation' = [invocation EXCEPT ![c] = next]
    BY DEF NextPage
  <1>2. call \in Invocation /\ DOMAIN invocation = Callers
    BY DEF ObjectsTyped
  <1>3. /\ vanished /\ binding = "local" => next = [call EXCEPT !.pc = "panicked"]
        /\ ~vanished /\ call.page < LastPage =>
             next = [call EXCEPT !.page = @ + 1, !.found = found]
        /\ ~vanished /\ ~(call.page < LastPage) => next = Listed(call, found)
    OBVIOUS
  <1>4. vanished => binding = "local"
    OBVIOUS
  <1> HIDE DEF next, vanished, found
  <1>5. /\ new = next /\ DOMAIN invocation' = Callers
        /\ \A d \in Callers : d # c => invocation'[d] = invocation[d]
    BY <1>1, <1>2
  <1>6. /\ call.op = "list" => Listed(call, found) = [call EXCEPT !.pc = "ok", !.found = found]
        /\ call.op # "list" /\ found = {} =>
             Listed(call, found) \in {[call EXCEPT !.pc = "error"], [call EXCEPT !.pc = "ok"]}
        /\ call.op # "list" /\ found # {} =>
             Listed(call, found) = [call EXCEPT !.pc = "items", !.found = found,
                                                !.items = [n \in found |-> Item(n, n)]]
    BY DEF Listed
  <1> HIDE DEF call, new
  <1>7. \/ /\ next = [call EXCEPT !.pc = "panicked"] /\ binding = "local"
        \/ next = [call EXCEPT !.page = @ + 1, !.found = found] /\ call.page < LastPage
        \/ /\ ~(call.page < LastPage) /\ call.op = "list"
           /\ next = [call EXCEPT !.pc = "ok", !.found = found]
        \/ /\ call.op # "list"
           /\ \/ next = [call EXCEPT !.pc = "error"]
              \/ next = [call EXCEPT !.pc = "ok"]
        \/ /\ call.op # "list"
           /\ next = [call EXCEPT !.pc = "items", !.found = found,
                                 !.items = [n \in found |-> Item(n, n)]]
    BY <1>3, <1>4, <1>6
  <1>8. next.op = call.op
    <2>1. CASE next = [call EXCEPT !.pc = "panicked"]
      BY <1>2, <2>1 DEF Invocation, call
    <2>2. CASE next = [call EXCEPT !.page = @ + 1, !.found = found]
      BY <1>2, <2>2 DEF Invocation, call
    <2>3. CASE next = [call EXCEPT !.pc = "ok", !.found = found]
      BY <1>2, <2>3 DEF Invocation, call
    <2>4. CASE next = [call EXCEPT !.pc = "error"] \/ next = [call EXCEPT !.pc = "ok"]
      BY <1>2, <2>4 DEF Invocation, call
    <2>5. CASE next = [call EXCEPT !.pc = "items", !.found = found,
                                   !.items = [n \in found |-> Item(n, n)]]
      <3> DEFINE fetched == [n \in found |-> Item(n, n)]
      <3>1. next = [call EXCEPT !.pc = "items", !.found = found, !.items = fetched]
        BY <2>5
      <3> HIDE DEF fetched
      <3> QED BY <1>2, <3>1 DEF Invocation, call
    <2> QED BY <1>7, <2>1, <2>2, <2>3, <2>4, <2>5
  <1> QED BY <1>1, <1>5, <1>7, <1>8 DEF call, new, found

\* What is found is there, and complete up to the page.
LEMMA PageFacts ==
  ASSUME ObjectsTyped, NEW c \in Callers, NowHeld(c), ListInv(c), invocation[c].pc = "listing"
  PROVE  LET call == invocation[c]
         IN  /\ Page(c) \subseteq ObjectNames
             /\ call.op = "list" =>
                  \A n \in ObjectNames :
                    /\ n \in Page(c) => held[c][n] # {0}
                    /\ (\/ n < call.page + 1
                        \/ binding = "local")
                       /\ 0 \notin held[c][n] => n \in Page(c)
  <1> DEFINE call == invocation[c]
             there == {n \in ObjectNames : objects[n] # 0}
  <1>1. /\ call.page \in Nat \ {0} /\ call.found \subseteq ObjectNames
        /\ ObjectNames \subseteq Nat
    <2>1. call \in Invocation
      BY DEF ObjectsTyped
    <2>2. ObjectNames = 1..Cardinality(ObjectNames) /\ Cardinality(ObjectNames) \in Nat
      BY ObjectStoresAssumption, FS_CardinalityType
    <2>3. ObjectNames \subseteq Nat
      BY <2>2
    <2> QED BY <2>1, <2>3 DEF Invocation
  <1>2. /\ binding = "local" /\ call.page = 1 => Page(c) = there
        /\ binding = "local" /\ call.page # 1 => Page(c) = call.found
        /\ binding # "local" => Page(c) = call.found \cup (there \cap {call.page})
    BY DEF Page
  <1>3. \A n \in ObjectNames : objects[n] \in held[c][n]
    BY DEF NowHeld
  <1>4. \A n \in ObjectNames :
          /\ n \in there => held[c][n] # {0}
          /\ 0 \notin held[c][n] => n \in there
    BY <1>3
  <1>5. call.op = "list" => \A n \in ObjectNames :
          /\ n \in call.found => held[c][n] # {0}
          /\ (n < call.page \/ (binding = "local" /\ call.page > 1)) /\ 0 \notin held[c][n]
               => n \in call.found
    BY DEF ListInv
  <1>6. Page(c) \subseteq ObjectNames
    BY <1>1, <1>2
  <1> HIDE DEF there, call
  <1>7. ASSUME call.op = "list", NEW n \in ObjectNames
        PROVE  /\ n \in Page(c) => held[c][n] # {0}
               /\ (n < call.page + 1 \/ binding = "local") /\ 0 \notin held[c][n] => n \in Page(c)
    <2>1. /\ n \in there => held[c][n] # {0}
          /\ 0 \notin held[c][n] => n \in there
          /\ n \in call.found => held[c][n] # {0}
          /\ (n < call.page \/ (binding = "local" /\ call.page > 1)) /\ 0 \notin held[c][n]
               => n \in call.found
      BY <1>4, <1>5, <1>7
    <2>2. CASE binding = "local" /\ call.page = 1
      BY <1>2, <2>1, <2>2
    <2>3. CASE binding = "local" /\ call.page # 1
      <3>1. Page(c) = call.found
        BY <1>2, <2>3
      <3>2. CASE call.page > 1
        BY <2>1, <2>3, <3>1, <3>2
      <3>3. CASE ~(call.page > 1)
        BY <1>1, <2>1, <2>3, <3>1, <3>3
      <3> QED BY <3>2, <3>3
    <2>4. CASE binding # "local"
      <3>1. Page(c) = call.found \cup (there \cap {call.page})
        BY <1>2, <2>4
      <3>2. n < call.page + 1 => n < call.page \/ n = call.page
        BY <1>1
      <3> QED BY <2>1, <2>4, <3>1, <3>2
    <2> QED BY <2>2, <2>3, <2>4
  <1> QED BY <1>6, <1>7 DEF call

\* a page of a listing moves it on,
LEMMA NextPageMoves ==
  ASSUME ObjectsInv, NEW c \in Callers, NextPage(c)
  PROVE  CallGoesOn(c)
  <1> DEFINE call == invocation[c]
             new == invocation'[c]
             found == Page(c)
  <1>1. ObjectsTyped /\ ItemsInPlace(c) /\ NowHeld(c) /\ ListInv(c)
    BY DEF ObjectsInv
  <1>2. /\ call.pc = "listing" /\ DOMAIN invocation' = Callers
        /\ \A d \in Callers : d # c => invocation'[d] = invocation[d]
        /\ new.op = call.op
        /\ \/ /\ new = [call EXCEPT !.pc = "panicked"] /\ binding = "local"
           \/ new = [call EXCEPT !.page = @ + 1, !.found = found] /\ call.page < LastPage
           \/ /\ ~(call.page < LastPage) /\ call.op = "list"
              /\ new = [call EXCEPT !.pc = "ok", !.found = found]
           \/ /\ call.op # "list"
              /\ \/ new = [call EXCEPT !.pc = "error"]
                 \/ new = [call EXCEPT !.pc = "ok"]
           \/ /\ call.op # "list"
              /\ new = [call EXCEPT !.pc = "items", !.found = found,
                                    !.items = [n \in found |-> Item(n, n)]]
    BY <1>1, NextPageForm
  <1>3. /\ binding' = binding /\ objects' = objects /\ files' = files /\ link' = link
        /\ needsReconnect' = needsReconnect /\ storeFaults' = storeFaults /\ held' = held
    BY DEF NextPage
  <1>4. /\ found \subseteq ObjectNames
        /\ call.op = "list" =>
             \A n \in ObjectNames :
               /\ n \in found => held[c][n] # {0}
               /\ (n < call.page + 1 \/ binding = "local") /\ 0 \notin held[c][n] => n \in found
    BY <1>1, <1>2, PageFacts
  <1>5. /\ call.op \in ByPrefix \cup {"list"} /\ binding \notin Sftp /\ call.items = <<>>
        /\ call.op \in DOMAIN Programs[binding]
    BY <1>1, <1>2 DEF ItemsInPlace
  <1>6. call \in Invocation /\ binding \in DOMAIN Programs
    BY <1>1 DEF ObjectsTyped
  <1> DEFINE fetched == [n \in found |-> Item(n, n)]
  <1>7. /\ fetched \in ItemMaps /\ DOMAIN fetched = found
        /\ \A n \in found : /\ Fresh(fetched[n]) /\ fetched[n].name = n /\ fetched[n].to = n
                            /\ fetched[n].at = 1 /\ fetched[n].res = "running"
    <2>1. \A n \in found : fetched[n] = Item(n, n) /\ n \in ObjectNames
      BY <1>4
    <2>2. fetched \in [found -> Item0]
      BY <2>1, FreshItems
    <2> QED BY <1>4, <2>1, <2>2, FreshItems DEF ItemMaps
  <1> HIDE DEF fetched, found, call, new
  <1>8. new \in Invocation /\ new.op = call.op
    <2>1. call.page + 1 \in Nat \ {0} /\ found \in SUBSET ObjectNames
      BY <1>4, <1>6 DEF Invocation
    <2>2. CASE new = [call EXCEPT !.pc = "panicked"]
      BY <1>6, <2>2 DEF Invocation
    <2>3. CASE new = [call EXCEPT !.page = @ + 1, !.found = found]
      BY <1>6, <2>1, <2>3 DEF Invocation
    <2>4. CASE new = [call EXCEPT !.pc = "ok", !.found = found]
      BY <1>6, <2>1, <2>4 DEF Invocation
    <2>5. CASE new = [call EXCEPT !.pc = "error"] \/ new = [call EXCEPT !.pc = "ok"]
      BY <1>6, <2>5 DEF Invocation
    <2>6. CASE new = [call EXCEPT !.pc = "items", !.found = found, !.items = fetched]
      BY <1>6, <1>7, <2>1, <2>6 DEF Invocation
    <2> QED BY <1>2, <2>2, <2>3, <2>4, <2>5, <2>6 DEF fetched
  <1>9. /\ new.pc \in {"panicked", "listing", "ok", "error", "items"}
        /\ new.pc = "panicked" => binding = "local"
        /\ new.pc # "items" => new.items = <<>>
        /\ new.pc = "items" => new.items = fetched /\ call.op # "list"
        /\ call.op = "list" /\ new.pc = "listing" => new.found = found /\ new.page = call.page + 1
        /\ call.op = "list" /\ new.pc = "ok" => new.found = found /\ ~(call.page < LastPage)
    <2>1. CASE new = [call EXCEPT !.pc = "panicked"] /\ binding = "local"
      BY <1>5, <1>6, <2>1 DEF Invocation, call
    <2>2. CASE new = [call EXCEPT !.page = @ + 1, !.found = found]
      BY <1>2, <1>5, <1>6, <2>2 DEF Invocation, call
    <2>3. CASE /\ ~(call.page < LastPage) /\ new = [call EXCEPT !.pc = "ok", !.found = found]
      BY <1>5, <1>6, <2>3 DEF Invocation, call
    <2>4. CASE /\ call.op # "list"
               /\ \/ new = [call EXCEPT !.pc = "error"]
                  \/ new = [call EXCEPT !.pc = "ok"]
      BY <1>5, <1>6, <2>4 DEF Invocation, call
    <2>5. CASE /\ call.op # "list"
               /\ new = [call EXCEPT !.pc = "items", !.found = found, !.items = fetched]
      BY <1>5, <1>6, <2>5 DEF Invocation, call
    <2> QED BY <1>2, <2>1, <2>2, <2>3, <2>4, <2>5 DEF fetched
  <1>10. DOMAIN held' = Callers /\ DOMAIN held'[c] = ObjectNames
    BY <1>1, <1>3 DEF ObjectsTyped
  <1>11. CallTypedNext(c)
    BY <1>2, <1>8, <1>10 DEF CallTypedNext, new
  <1>12. \A i \in DOMAIN new.items : Fresh(new.items[i])
    BY <1>7, <1>9
  <1>13. ItemsInPlace(c)'
    <2> DEFINE prog == Programs[binding][call.op]
    <2>1. Program(c)' = prog
      BY <1>3, <1>8 DEF Program, new
    <2>2. call.op \in ByPrefix => Len(prog) \in Nat /\ Len(prog) >= 1
      <3>1. ObjectProgramIs(binding, call.op, prog)
        BY <1>5, <1>6, ObjectPrograms
      <3> HIDE DEF prog
      <3>2. call.op \in ByPrefix => \E x, y : prog = <<x, y>> \/ prog = <<x>>
        BY <3>1 DEF ObjectProgramIs, ByPrefix
      <3>3. (\E x, y : prog = <<x, y>>) => Len(prog) = 2
        OBVIOUS
      <3>4. (\E x : prog = <<x>>) => Len(prog) = 1
        OBVIOUS
      <3> QED BY <3>2, <3>3, <3>4
    <2>3. ASSUME NEW i \in DOMAIN new.items
          PROVE  /\ new.items[i].at \in 1..Len(prog)
                 /\ new.items[i].name = i /\ new.items[i].to = i
                 /\ new.items[i].res = "running"
      <3>1. new.pc = "items"
        BY <1>9, <2>3
      <3>2. call.op \in ByPrefix /\ new.items = fetched
        BY <1>5, <1>9, <3>1
      <3>3. /\ new.items[i].name = i /\ new.items[i].to = i
            /\ new.items[i].at = 1 /\ new.items[i].res = "running"
        BY <1>7, <2>3, <3>2
      <3> QED BY <2>2, <3>2, <3>3
    <2>4. /\ new.pc # "idle" => new.op \in DOMAIN Programs[binding]
          /\ new.pc # "items" => new.items = <<>>
          /\ new.pc = "listing" => new.op \in ByPrefix \cup {"list"}
          /\ new.pc \notin {"idle", "items"} => binding \notin Sftp
          /\ new.pc = "items" /\ new.op = "list" => binding \in Sftp
          /\ new.pc = "items" /\ new.op \notin Bulk \cup ByPrefix => DOMAIN new.items = {1}
      BY <1>5, <1>8, <1>9
    <2> HIDE DEF prog
    <2> QED BY <1>3, <2>1, <2>3, <2>4 DEF ItemsInPlace, new
  <1>14. NowHeld(c)'
    BY <1>1, <1>2, <1>3 DEF NowHeld, call
  <1>15. ListInv(c)'
    <2>1. ObjectNames \subseteq Nat /\ (\A n \in ObjectNames : n <= LastPage) /\ LastPage \in Nat
      <3>1. ObjectNames = 1..Cardinality(ObjectNames) /\ Cardinality(ObjectNames) \in Nat
        BY ObjectStoresAssumption, FS_CardinalityType
      <3>2. LastPage \in {Cardinality(ObjectNames), Cardinality(ObjectNames) + 1}
        BY DEF LastPage
      <3> QED BY <3>1, <3>2
    <2>2. call.page \in Nat
      BY <1>6 DEF Invocation
    <2>3. ASSUME call.op = "list", new.pc \in {"listing", "ok"}, NEW n \in ObjectNames
          PROVE  /\ n \in new.found => held[c][n] # {0}
                 /\ (n < new.page \/ (binding = "local" /\ new.page > 1) \/ new.pc = "ok")
                    /\ 0 \notin held[c][n] => n \in new.found
      <3>1. new.found = found
        BY <1>9, <2>3
      <3>2. new.pc = "listing" => new.page = call.page + 1
        BY <1>9, <2>3
      <3>3. new.pc = "ok" => n < call.page + 1
        <4>1. n \in Nat /\ n <= LastPage
          BY <2>1
        <4> QED BY <1>9, <2>1, <2>2, <2>3, <4>1
      <3>4. CASE new.pc = "ok"
        BY <1>4, <2>3, <3>1, <3>3, <3>4
      <3>5. CASE new.pc = "listing"
        BY <1>4, <2>3, <3>1, <3>2, <3>5
      <3> QED BY <2>3, <3>4, <3>5
    <2>4. ~(new.op = "list" /\ new.pc = "items")
      BY <1>8, <1>9
    <2> QED BY <1>3, <1>8, <2>3, <2>4 DEF ListInv, new
  <1>16. UnsentInv(c)'
    <2>1. new.pc # "idle" /\ new.op # "create"
      BY <1>5, <1>8, <1>9 DEF ByPrefix
    <2> QED BY <2>1 DEF UnsentInv, new
  <1>17. PanicInv(c)'
    BY <1>3, <1>9 DEF PanicInv, new
  <1>18. storeFaults' \in Nat /\ storeFaults' >= storeFaults
    BY <1>1, <1>3 DEF ObjectsTyped
  <1>19. call.pc # "items" /\ DOMAIN call.items = {}
    BY <1>2, <1>5
  <1> QED BY <1>2, <1>3, <1>11, <1>12, <1>13, <1>14, <1>15, <1>16, <1>17, <1>18, <1>19
          DEF CallGoesOn, call, new

\* and so does a page that fails.
LEMMA PageFailsMoves ==
  ASSUME ObjectsInv, NEW c \in Callers, PageFails(c)
  PROVE  CallGoesOn(c)
  <1> DEFINE call == invocation[c]
             new == invocation'[c]
  <1>1. ObjectsTyped /\ ItemsInPlace(c) /\ NowHeld(c)
    BY DEF ObjectsInv
  <1>2. /\ call.pc = "listing" /\ binding' = binding /\ objects' = objects /\ files' = files
        /\ link' = link /\ needsReconnect' = needsReconnect /\ storeFaults' = storeFaults + 1
        /\ held' = held
    BY DEF PageFails
  <1>3. PICK pc \in {"error", "panicked", "looping"} :
          /\ pc # "error" => binding = "gcs"
          /\ invocation' = [invocation EXCEPT ![c].pc = pc]
    BY DEF PageFails
  <1>4. call \in Invocation /\ DOMAIN invocation = Callers
    BY <1>1 DEF ObjectsTyped
  <1>5. /\ new = [call EXCEPT !.pc = pc] /\ DOMAIN invocation' = Callers
        /\ \A d \in Callers : d # c => invocation'[d] = invocation[d]
    BY <1>3, <1>4
  <1>6. /\ call.op \in ByPrefix \cup {"list"} /\ binding \notin Sftp /\ call.items = <<>>
        /\ call.op \in DOMAIN Programs[binding]
    BY <1>1, <1>2 DEF ItemsInPlace
  <1> HIDE DEF call, new
  <1>7. new \in Invocation /\ new.op = call.op /\ new.pc = pc /\ new.items = <<>>
    BY <1>4, <1>5, <1>6 DEF Invocation
  <1>8. CallTypedNext(c)
    BY <1>1, <1>2, <1>5, <1>7 DEF CallTypedNext, ObjectsTyped, new
  <1>9. DOMAIN new.items = {}
    BY <1>7
  <1>10. ItemsInPlace(c)'
    BY <1>2, <1>6, <1>7, <1>9 DEF ItemsInPlace, new
  <1>11. NowHeld(c)'
    BY <1>1, <1>2 DEF NowHeld, call
  <1>12. ListInv(c)' /\ UnsentInv(c)'
    BY <1>7 DEF ListInv, UnsentInv, new
  <1>13. PanicInv(c)'
    BY <1>2, <1>3, <1>7 DEF PanicInv, new
  <1>14. storeFaults' \in Nat /\ storeFaults' >= storeFaults
    BY <1>1, <1>2 DEF ObjectsTyped
  <1>15. call.pc # "items" /\ DOMAIN call.items = {}
    BY <1>2, <1>6
  <1> QED BY <1>2, <1>5, <1>6, <1>8, <1>9, <1>10, <1>11, <1>12, <1>13, <1>14, <1>15
          DEF CallGoesOn, call, new

\* The loss of the connection keeps the invariant.
LEMMA LinkLostKeeps ==
  ASSUME ObjectsInv, LinkLost
  PROVE  ObjectsInv'
  <1>1. /\ ObjectsTyped /\ FilesTouched /\ TornInv /\ LinkInv
        /\ \A c \in Callers :
             /\ ItemsInPlace(c) /\ NowHeld(c) /\ ListInv(c) /\ UnsentInv(c) /\ PanicInv(c)
             /\ \A i \in DOMAIN invocation[c].items :
                  AnswerInv(c, i) /\ MoveInv(c, i) /\ FileInv(c, i)
    BY DEF ObjectsInv
  <1>2. /\ storeFaults' = storeFaults + 1 /\ link' = "down" /\ binding' = binding
        /\ objects' = objects /\ files' = files /\ invocation' = invocation /\ held' = held
        /\ needsReconnect' = needsReconnect /\ storeFaults \in Nat
    BY <1>1 DEF LinkLost, ObjectsTyped
  <1>3. storeFaults' \in Nat /\ storeFaults' > 0 /\ (storeFaults' <= 1 => storeFaults = 0)
    BY <1>2
  <1>4. ObjectsTyped'
    BY <1>1, <1>2, <1>3 DEF ObjectsTyped
  <1>5. FilesTouched'
    BY <1>1, <1>2 DEF FilesTouched
  <1>6. TornInv'
    BY <1>1, <1>2, <1>3 DEF TornInv
  <1>7. LinkInv'
    <2>1. \A c \in Callers : \A i \in DOMAIN invocation[c].items :
            binding \in Sftp => LinkItem(invocation[c].items[i], storeFaults, link = "down", needsReconnect)
      BY <1>1 DEF LinkInv, LinkItem
    <2>2. ASSUME NEW it, LinkItem(it, storeFaults, link = "down", needsReconnect)
          PROVE  LinkItem(it, storeFaults', link' = "down", needsReconnect')
      BY <1>2, <1>3, <2>2 DEF LinkItem
    <2>3. \A c \in Callers : \A i \in DOMAIN invocation[c].items :
            binding \in Sftp =>
              LinkItem(invocation[c].items[i], storeFaults', link' = "down", needsReconnect')
      BY <2>1, <2>2
    <2> QED BY <1>2, <1>3, <2>3 DEF LinkInv, LinkItem
  <1>8. ASSUME NEW c \in Callers
        PROVE  /\ ItemsInPlace(c)' /\ NowHeld(c)' /\ ListInv(c)' /\ UnsentInv(c)' /\ PanicInv(c)'
               /\ \A i \in DOMAIN invocation'[c].items :
                    AnswerInv(c, i)' /\ MoveInv(c, i)' /\ FileInv(c, i)'
    <2>1. ItemsInPlace(c)' /\ NowHeld(c)' /\ ListInv(c)' /\ UnsentInv(c)' /\ PanicInv(c)'
      BY <1>1, <1>2 DEF ItemsInPlace, NowHeld, ListInv, UnsentInv, PanicInv, Program
    <2>2. ASSUME NEW i \in DOMAIN invocation'[c].items
          PROVE  AnswerInv(c, i)' /\ MoveInv(c, i)' /\ FileInv(c, i)'
      <3>1. AnswerInv(c, i) /\ MoveInv(c, i) /\ FileInv(c, i)
        BY <1>1, <1>2, <2>2
      <3>2. MayBeTorn => MayBeTorn'
        BY <1>2, <1>3 DEF MayBeTorn
      <3>3. AnswerInv(c, i)'
        BY <1>2, <3>1, <3>2 DEF AnswerInv, HasRead, HasWritten, HasCopied, ToFile
      <3>4. MoveInv(c, i)' /\ FileInv(c, i)'
        BY <1>2, <3>1 DEF MoveInv, FileInv, Alone, ToFile
      <3> QED BY <3>3, <3>4
    <2> QED BY <2>1, <2>2
  <1> QED BY <1>4, <1>5, <1>6, <1>7, <1>8 DEF ObjectsInv

\* The invariant holds at first,
LEMMA ObjectsStart ==
  ASSUME ObjectInit
  PROVE  ObjectsInv
  <1>1. /\ binding \in DOMAIN Programs
        /\ objects = [n \in ObjectNames |-> IF n = 1 THEN 1 ELSE 0]
        /\ files = [n \in ObjectNames |-> 0]
        /\ invocation = [c \in Callers |-> NoCall]
        /\ held = [c \in Callers |-> [n \in ObjectNames |-> {}]]
        /\ storeFaults = 0 /\ link = "up" /\ needsReconnect = FALSE
    BY BindingsAssumption DEF ObjectInit
  <1>2. /\ NoCall \in Invocation /\ NoCall.items = <<>> /\ NoCall.pc = "idle"
        /\ NoCall.op = "none"
    <2>1. <<>> \in [{} -> Item0]
      OBVIOUS
    <2>2. <<>> \in ItemMaps
      BY <2>1 DEF ItemMaps
    <2> QED BY <2>2 DEF NoCall, Invocation, OpNames
  <1>3. \A c \in Callers : invocation[c] = NoCall
    BY <1>1
  <1>4. \A c \in Callers : DOMAIN invocation[c].items = {}
    BY <1>2, <1>3
  <1>5. ObjectsTyped
    <2>1. objects \in [ObjectNames -> Int]
      BY <1>1
    <2>2. /\ DOMAIN files = ObjectNames /\ DOMAIN invocation = Callers /\ DOMAIN held = Callers
          /\ \A c \in Callers : DOMAIN held[c] = ObjectNames
      BY <1>1
    <2> QED BY <1>1, <1>2, <1>3, <2>1, <2>2 DEF ObjectsTyped
  <1>6. FilesTouched /\ TornInv
    BY <1>1 DEF FilesTouched, TornInv, Partial
  <1>7. LinkInv
    BY <1>1, <1>4 DEF LinkInv
  <1>8. ASSUME NEW c \in Callers
        PROVE  ItemsInPlace(c) /\ NowHeld(c) /\ ListInv(c) /\ UnsentInv(c) /\ PanicInv(c)
    <2>1. invocation[c].pc = "idle" /\ invocation[c].items = <<>> /\ invocation[c].op = "none"
      BY <1>2, <1>3
    <2>2. ItemsInPlace(c) /\ NowHeld(c) /\ ListInv(c) /\ PanicInv(c)
      BY <2>1, <1>4 DEF ItemsInPlace, NowHeld, ListInv, PanicInv
    <2>3. \A n \in ObjectNames : objects[n] # Data(c, 1)
      <3>1. ASSUME NEW n \in ObjectNames
            PROVE  objects[n] # Data(c, 1)
        <4>1. 1 \in ObjectNames
          <5>1. ObjectNames = 1..Cardinality(ObjectNames) /\ Cardinality(ObjectNames) \in Nat
            BY ObjectStoresAssumption, FS_CardinalityType
          <5> QED BY <3>1, <5>1
        <4>2. Data(c, 1) > 1 /\ Data(c, 1) \in Int
          BY <4>1, DataDistinct
        <4>3. objects[n] \in {0, 1}
          BY <1>1
        <4> QED BY <4>2, <4>3
      <3> QED BY <3>1
    <2>4. UnsentInv(c)
      BY <2>1, <2>3 DEF UnsentInv
    <2> QED BY <2>2, <2>4
  <1> QED BY <1>4, <1>5, <1>6, <1>7, <1>8 DEF ObjectsInv

\* is kept by every step,
LEMMA ObjectsKept ==
  ASSUME ObjectsInv, [ObjectNext]_objectVars
  PROVE  ObjectsInv'
  <1>1. CASE LinkLost
    BY <1>1, LinkLostKeeps
  <1>2. ASSUME NEW c \in Callers, Invoke(c) \/ NextPage(c) \/ PageFails(c)
        PROVE  ObjectsInv'
    BY <1>2, InvokeMoves, NextPageMoves, PageFailsMoves, CallGoesOnKeeps
  <1>3. ASSUME NEW c \in Callers, NEW i \in DOMAIN invocation[c].items, ItemActs(c, i)
        PROVE  ObjectsInv'
    BY <1>3, ItemActKeeps
  <1>4. CASE UNCHANGED objectVars
    <2>1. /\ binding' = binding /\ objects' = objects /\ files' = files
          /\ invocation' = invocation /\ held' = held /\ storeFaults' = storeFaults
          /\ link' = link /\ needsReconnect' = needsReconnect
      BY <1>4 DEF objectVars
    <2>2. ObjectsTyped' <=> ObjectsTyped
      BY <2>1 DEF ObjectsTyped
    <2>3. (FilesTouched' <=> FilesTouched) /\ (TornInv' <=> TornInv)
      BY <2>1 DEF FilesTouched, TornInv
    <2>4. LinkInv' <=> LinkInv
      BY <2>1 DEF LinkInv
    <2>5. ASSUME NEW c \in Callers
          PROVE  /\ ItemsInPlace(c)' <=> ItemsInPlace(c)
                 /\ NowHeld(c)' <=> NowHeld(c)
                 /\ ListInv(c)' <=> ListInv(c)
                 /\ UnsentInv(c)' <=> UnsentInv(c)
                 /\ PanicInv(c)' <=> PanicInv(c)
      BY <2>1 DEF ItemsInPlace, NowHeld, ListInv, UnsentInv, PanicInv, Program
    <2>6. ASSUME NEW c \in Callers, NEW i
          PROVE  /\ AnswerInv(c, i)' <=> AnswerInv(c, i)
                 /\ MoveInv(c, i)' <=> MoveInv(c, i)
                 /\ FileInv(c, i)' <=> FileInv(c, i)
      BY <2>1 DEF AnswerInv, MoveInv, FileInv, HasRead, HasWritten, HasCopied, MayBeTorn, Alone,
                  ToFile
    <2> QED BY <2>1, <2>2, <2>3, <2>4, <2>5, <2>6 DEF ObjectsInv
  <1> QED BY <1>1, <1>2, <1>3, <1>4 DEF ObjectNext, ItemActs

\* and says what the property says.
LEMMA ObjectsAreTrue ==
  ASSUME ObjectsInv
  PROVE  ObjectCallsAreTrue
  <1>1. /\ ObjectsTyped /\ LinkInv
        /\ \A c \in Callers :
             /\ ItemsInPlace(c) /\ NowHeld(c) /\ ListInv(c) /\ UnsentInv(c) /\ PanicInv(c)
             /\ \A i \in DOMAIN invocation[c].items :
                  AnswerInv(c, i) /\ MoveInv(c, i) /\ FileInv(c, i)
    BY DEF ObjectsInv
  <1>2. AnswersAreTrue
    <2>1. ASSUME NEW c \in Callers, NEW i \in DOMAIN invocation[c].items
          PROVE  LET op == invocation[c].op
                     it == invocation[c].items[i]
                     seen == held[c][it.name]
                 IN  /\ it.res = "not found" => 0 \in seen
                     /\ it.res = "ok" =>
                          /\ Reads(op) => it.val \in seen \ {0}
                          /\ Reads(op) /\ it.val = Partial => MayBeTorn
                          /\ Writes(op) => Data(c, i) \in seen
                          /\ Deletes(op) => 0 \in seen
                          /\ op \in {"copy", "move", "rename"} => it.val \in held[c][it.to]
      <3>1. AnswerInv(c, i)
        BY <1>1, <2>1
      <3> QED BY <3>1 DEF AnswerInv, HasRead, HasWritten, HasCopied
    <2> QED BY <2>1 DEF AnswersAreTrue
  <1>3. ListingsAreTrue
    <2>1. ASSUME NEW c \in Callers, NEW n \in ObjectNames, invocation[c].op = "list",
                 \/ invocation[c].pc = "ok"
                 \/ invocation[c].pc = "items" /\ invocation[c].items[1].res = "ok"
          PROVE  LET call == invocation[c]
                     listing == IF binding \in Sftp THEN call.items[1].val ELSE call.found
                 IN  /\ 0 \notin held[c][n] => n \in listing
                     /\ held[c][n] = {0} => n \notin listing
      <3>1. ItemsInPlace(c) /\ ListInv(c)
        BY <1>1
      <3>2. CASE invocation[c].pc = "ok"
        <4>1. binding \notin Sftp
          BY <3>1, <3>2 DEF ItemsInPlace
        <4> QED BY <2>1, <3>1, <3>2, <4>1 DEF ListInv
      <3>3. CASE invocation[c].pc = "items" /\ invocation[c].items[1].res = "ok"
        <4>1. binding \in Sftp
          BY <2>1, <3>1, <3>3 DEF ItemsInPlace
        <4> QED BY <2>1, <3>1, <3>3, <4>1 DEF ListInv
      <3> QED BY <2>1, <3>2, <3>3
    <2> QED BY <2>1 DEF ListingsAreTrue
  <1>4. MovesLoseNothing
    BY <1>1 DEF MovesLoseNothing, MoveInv
  <1>5. FilesAreWhole
    BY <1>1 DEF FilesAreWhole, FileInv
  <1>6. RefusedLeavesNothing
    <2>1. ASSUME NEW c \in Callers, NEW i \in DOMAIN invocation[c].items,
                 invocation[c].op = "create", binding # "s3", At(c, i) = "presign"
          PROVE  Data(c, i) \notin held[c][invocation[c].items[i].name]
      <3>1. ItemsInPlace(c) /\ UnsentInv(c)
        BY <1>1
      <3>2. /\ invocation[c].pc = "items"
            /\ ObjectStepIs(binding, invocation[c].op, invocation[c].items[i].at, At(c, i), IsLast(c, i))
        BY <1>1, <3>1, ItemAtStep
      <3>3. binding = "azure" /\ invocation[c].items[i].at = 1
        BY <2>1, <3>2 DEF ObjectStepIs
      <3>4. i = 1
        BY <2>1, <3>1, <3>2 DEF ItemsInPlace, Bulk, ByPrefix
      <3>5. invocation[c].items[i].name \in ObjectNames
        BY <1>1, ItemsTyped DEF Item0
      <3> QED BY <2>1, <3>1, <3>2, <3>3, <3>4, <3>5 DEF UnsentInv
    <2> QED BY <2>1 DEF RefusedLeavesNothing
  <1>7. AllAnswer
    BY <1>1 DEF AllAnswer, PanicInv
  <1>8. OneLossIsRetried
    BY <1>1 DEF OneLossIsRetried, LinkInv
  <1> QED BY <1>2, <1>3, <1>4, <1>5, <1>6, <1>7, <1>8 DEF ObjectCallsAreTrue

\* Invoke of every object store answers the truth, whatever the number of callers,
\* objects and faults: what it reports as read, written, deleted, copied or listed was so
\* during the call, what is moved is not lost, a file is whole or gone, a create that is
\* refused has written nothing, and an SFTP operation gets over one lost connection.
THEOREM ObjectCallsTrue == ObjectSpec => []ObjectCallsAreTrue
  <1>1. ObjectInit => ObjectsInv
    BY ObjectsStart
  <1>2. ObjectsInv /\ [ObjectNext]_objectVars => ObjectsInv'
    BY ObjectsKept
  <1>3. ObjectsInv => ObjectCallsAreTrue
    BY ObjectsAreTrue
  <1> QED BY <1>1, <1>2, <1>3, PTL DEF ObjectSpec
===============================================================================
