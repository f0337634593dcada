---------------------------- MODULE BootProofs ----------------------------
(***************************************************************************)
(* The order of init and the cadence of the periodic tasks, for every      *)
(* period and every width of the counter that is a multiple of 8.          *)
(***************************************************************************)
EXTENDS Boot, TLAPS

\* Where init is tells whether the monotonic runs and whether STARTED is set.
ClockInv ==
    /\ place \notin {"greet", "ioport", "mono_open", "mono_start"} => mono = "running"
    /\ started => place \notin {"greet", "ioport", "mono_open", "mono_start", "mono_store"}

\* blinky is k periods after its first run, and both its counter and its LED
\* agree with k.
OnGrid(k) ==
    /\ next[blinky] = base[blinky] + k * Period
    /\ i % 8 = k % 8
    /\ at[blinky] = "loop" => next[blinky] <= now
    /\ at[blinky] = "delay" =>
        /\ k > 0
        /\ led = IsLit((k - 1) % 8)
        /\ base[blinky] + (k - 1) * Period <= now

BlinkyInv ==
    IF at[blinky] = "spawned" THEN i = 0 ELSE \E k \in Nat : OnGrid(k)

BootInv == TypeOK /\ ClockInv /\ PanicIsReported /\ NoDrift /\ BlinkyInv

-----------------------------------------------------------------------------
LEMMA PeriodsElapsed ==
    ASSUME NEW a \in Nat, NEW k \in Nat, NEW p \in Nat \ {0},
           k * p <= a, a < (k + 1) * p
    PROVE  a \div p = k
<1>1. a = p * (a \div p) + (a % p) /\ a % p \in 0 .. p - 1 /\ a \div p \in Nat
  OBVIOUS
<1>2. ASSUME a \div p < k PROVE FALSE
  <2>1. PICK d \in Nat : k = (a \div p) + 1 + d
    BY <1>1, <1>2
  <2>2. k * p = p * (a \div p) + p + d * p /\ d * p >= 0
    BY <1>1, <2>1
  <2> QED BY <1>1, <2>2
<1>3. ASSUME a \div p > k PROVE FALSE
  <2>1. PICK d \in Nat : a \div p = k + 1 + d
    BY <1>1, <1>3
  <2>2. p * (a \div p) = (k + 1) * p + d * p /\ d * p >= 0
    BY <1>1, <2>1
  <2> QED BY <1>1, <2>2
<1> QED BY <1>1, <1>2, <1>3

LEMMA WrapKeepsPhase ==
    ASSUME NEW n \in 0 .. Wrap - 1, NEW k \in Nat, n % 8 = k % 8
    PROVE  WrappingAdd(n) \in 0 .. Wrap - 1 /\ WrappingAdd(n) % 8 = (k + 1) % 8
BY BootAssumption DEF WrappingAdd

LEMMA NextPeriod ==
    ASSUME NEW b \in Nat, NEW k \in Nat
    PROVE  (b + k * Period) + Period = b + (k + 1) * Period
           /\ k * Period \in Nat
BY BootAssumption

-----------------------------------------------------------------------------
LEMMA BootInvInit == Init => BootInv
<1> SUFFICES ASSUME Init PROVE BootInv
  OBVIOUS
<1>1. TypeOK
  <2>1. started \in BOOLEAN /\ led \in BOOLEAN
    BY DEF Init
  <2>2. /\ at \in [Periodic -> {"spawned", "loop", "delay"}]
        /\ next \in [Periodic -> Nat] /\ base \in [Periodic -> Nat]
    BY DEF Init
  <2>3. i \in 0 .. Wrap - 1 /\ floor \in 0 .. 5 /\ now \in Nat
    BY BootAssumption DEF Init
  <2> QED BY <2>1, <2>2, <2>3 DEF Init, TypeOK, Places
<1>3. ClockInv /\ PanicIsReported
  BY DEF Init, ClockInv, PanicIsReported
<1>4. BlinkyInv
  BY DEF Init, BlinkyInv, Periodic
<1>2. NoDrift
  <2> SUFFICES ASSUME NEW t \in Periodic
               PROVE  \E k \in 0 .. next[t] : next[t] = base[t] + k * Period
    BY DEF NoDrift
  <2>1. next[t] = 0 /\ base[t] = 0 /\ 0 * Period = 0
    BY BootAssumption DEF Init
  <2> QED BY <2>1
<1> QED BY <1>1, <1>2, <1>3, <1>4 DEF BootInv

\* A step of init, of the panic handler or of an application.
LEMMA ControlNext ==
    ASSUME BootInv, InitStep \/ PanicLog \/ PanicSpins \/ ApplicationPanics
    PROVE  BootInv'
<1>1. TypeOK /\ ClockInv /\ handler # "nested" /\ UptimeReturns
  BY DEF BootInv, PanicIsReported, ClockInv, UptimeReturns, NowReturns
<1> DEFINE Safe == /\ TypeOK' /\ ClockInv' /\ PanicIsReported'
                   /\ UNCHANGED << now, at, next, base, i, led >>
<1> USE DEF Goto, Panics, InitAt, Fails, Info, boot, panic, tasks, TypeOK, ClockInv,
            PanicIsReported, Places, InitPriority
<1>2. CASE Greet \/ EthernetInfo \/ InitDone
  <2>1. Safe
    BY <1>1, <1>2 DEF Greet, EthernetInfo, InitDone
  <2> QED BY <2>1 DEF BootInv, NoDrift, BlinkyInv, OnGrid
<1>3. CASE OpenIoPort \/ OpenMono \/ StartMono \/ StoreStarted
  <2>1. ASSUME OpenIoPort \/ OpenMono \/ StartMono PROVE Safe
    BY <1>1, <2>1 DEF OpenIoPort, OpenMono, StartMono
  <2>2. ASSUME StoreStarted PROVE Safe
    <3>1. started' = TRUE /\ mono = "running" /\ UNCHANGED << mono, led >>
      BY <1>1, <2>2 DEF StoreStarted
    <3> QED BY <1>1, <2>2, <3>1 DEF StoreStarted
  <2>3. Safe
    BY <1>3, <2>1, <2>2
  <2> QED BY <2>3 DEF BootInv, NoDrift, BlinkyInv, OnGrid
<1>4. CASE StartEmbassy \/ OpenEthernet \/ AssertPriority \/ NewInterface \/ AddAddresses
  <2>1. Safe
    BY <1>1, <1>4
    DEF StartEmbassy, OpenEthernet, AssertPriority, NewInterface, AddAddresses, NowReturns
  <2> QED BY <2>1 DEF BootInv, NoDrift, BlinkyInv, OnGrid
<1>5. CASE PanicLog \/ PanicSpins \/ ApplicationPanics
  <2>1. Safe
    BY <1>1, <1>5 DEF PanicLog, PanicSpins, ApplicationPanics, HandlerAt
  <2> QED BY <2>1 DEF BootInv, NoDrift, BlinkyInv, OnGrid
<1> QED BY <1>2, <1>3, <1>4, <1>5 DEF InitStep

LEMMA StartNext ==
    ASSUME BootInv, NEW t \in Periodic, PeriodicStart(t)
    PROVE  BootInv'
<1>1. mono = "running" /\ NowReturns
  BY DEF BootInv, PeriodicStart, MayRun, ClockInv, NowReturns
<1>2. /\ at' = [at EXCEPT ![t] = "loop"]
      /\ next' = [next EXCEPT ![t] = now] /\ base' = [base EXCEPT ![t] = now]
      /\ UNCHANGED << place, mono, started, handler, floor, now, i, led >>
  BY <1>1 DEF PeriodicStart, boot, panic
<1>3. TypeOK
  BY DEF BootInv
<1>4. TypeOK' /\ ClockInv' /\ PanicIsReported'
  BY <1>2, <1>3 DEF BootInv, TypeOK, ClockInv, PanicIsReported
<1>5. now = now + 0 * Period
  BY <1>3, BootAssumption DEF TypeOK
<1>6. NoDrift'
  <2> SUFFICES ASSUME NEW u \in Periodic
               PROVE  \E k \in 0 .. next'[u] : next'[u] = base'[u] + k * Period
    BY DEF NoDrift
  <2>1. CASE u = t
    <3>1. next'[u] = now /\ base'[u] = now /\ now \in Nat
      BY <1>2, <1>3, <2>1 DEF TypeOK
    <3> QED BY <3>1, <1>5
  <2>2. CASE u # t
    BY <1>2, <1>3, <2>2 DEF BootInv, NoDrift, TypeOK
  <2> QED BY <2>1, <2>2
<1>7. BlinkyInv'
  <2>1. CASE t = blinky
    <3>1. at[blinky] = "spawned" /\ i = 0
      BY <2>1 DEF PeriodicStart, BootInv, BlinkyInv
    <3>2. at'[blinky] = "loop" /\ next'[blinky] = now /\ base'[blinky] = now
          /\ i' = 0 /\ now' = now /\ now \in Nat
      BY <1>2, <1>3, <2>1, <3>1 DEF TypeOK
    <3>3. OnGrid(0)'
      BY <3>2, <1>5 DEF OnGrid
    <3> QED BY <3>2, <3>3 DEF BlinkyInv
  <2>2. CASE t # blinky
    <3>1. at'[blinky] = at[blinky] /\ next'[blinky] = next[blinky]
          /\ base'[blinky] = base[blinky]
      BY <1>2, <1>3, <2>2 DEF TypeOK, Periodic
    <3> QED BY <3>1, <1>2 DEF BootInv, BlinkyInv, OnGrid
  <2> QED BY <2>1, <2>2
<1> QED BY <1>4, <1>6, <1>7 DEF BootInv

\* next += Period keeps every task on its grid.
LEMMA DelayKeepsGrid ==
    ASSUME TypeOK, NoDrift, NEW t \in Periodic, DelayUntilNext(t)
    PROVE  NoDrift'
<1> SUFFICES ASSUME NEW u \in Periodic
             PROVE  \E k \in 0 .. next'[u] : next'[u] = base'[u] + k * Period
  BY DEF NoDrift
<1>1. PICK k \in 0 .. next[u] : next[u] = base[u] + k * Period
  BY DEF NoDrift
<1>2. next[u] \in Nat /\ base[u] \in Nat /\ base'[u] = base[u] /\ k \in Nat
  BY DEF TypeOK, DelayUntilNext
<1>3. CASE u = t
  <2>1. next'[u] = next[u] + Period
    BY <1>3 DEF DelayUntilNext, TypeOK
  <2>2. k + 1 \in 0 .. next'[u]
    BY <1>2, <2>1, BootAssumption
  <2> QED BY <1>1, <1>2, <2>1, <2>2, NextPeriod
<1>4. CASE u # t
  BY <1>1, <1>2, <1>4 DEF DelayUntilNext, TypeOK
<1> QED BY <1>3, <1>4

LEMMA BlinkNext == ASSUME BootInv, Blink PROVE BootInv'
<1>1. TypeOK /\ at[blinky] = "loop" /\ blinky \in Periodic
  BY DEF BootInv, Blink, Periodic
<1>2. PICK k \in Nat : OnGrid(k)
  BY <1>1 DEF BootInv, BlinkyInv
<1>3. i' \in 0 .. Wrap - 1 /\ i' % 8 = (k + 1) % 8
  BY <1>1, <1>2, WrapKeepsPhase DEF Blink, TypeOK, OnGrid
<1>4. /\ next' = [next EXCEPT ![blinky] = @ + Period]
      /\ at' = [at EXCEPT ![blinky] = "delay"]
      /\ led' = IsLit(i % 8)
      /\ UNCHANGED << place, mono, started, handler, floor, now, base >>
  BY DEF Blink, DelayUntilNext, boot, panic
<1>5. TypeOK' /\ ClockInv' /\ PanicIsReported'
  <2>1. next' \in [Periodic -> Nat]
    BY <1>1, <1>4, BootAssumption DEF TypeOK
  <2> QED BY <1>1, <1>3, <1>4, <2>1 DEF BootInv, TypeOK, ClockInv, PanicIsReported, IsLit
<1>6. NoDrift'
  BY <1>1, DelayKeepsGrid DEF BootInv, Blink
<1>7. BlinkyInv'
  <2>1. at'[blinky] = "delay" /\ next'[blinky] = next[blinky] + Period
        /\ base'[blinky] = base[blinky] /\ base[blinky] \in Nat /\ now' = now
    BY <1>1, <1>4 DEF TypeOK
  <2>2. next'[blinky] = base'[blinky] + (k + 1) * Period
    BY <1>2, <2>1, NextPeriod DEF OnGrid
  <2>3. base'[blinky] + k * Period <= now' /\ (k + 1) - 1 = k /\ k + 1 > 0
    BY <1>1, <1>2, <2>1 DEF OnGrid
  <2>4. led' = IsLit(k % 8)
    BY <1>2, <1>4 DEF OnGrid
  <2>5. /\ led' = IsLit(((k + 1) - 1) % 8)
        /\ base'[blinky] + ((k + 1) - 1) * Period <= now'
    BY <2>3, <2>4
  <2>6. OnGrid(k + 1)'
    BY <1>3, <2>1, <2>2, <2>3, <2>5, Zenon DEF OnGrid
  <2> QED BY <2>1, <2>6 DEF BlinkyInv
<1> QED BY <1>5, <1>6, <1>7 DEF BootInv

LEMMA LinkNext == ASSUME BootInv, LinkLoop PROVE BootInv'
<1>1. TypeOK /\ link \in Periodic /\ link # blinky
  BY DEF BootInv, Periodic, link, blinky
<1>2. /\ next' = [next EXCEPT ![link] = @ + Period]
      /\ at' = [at EXCEPT ![link] = "delay"]
      /\ UNCHANGED << place, mono, started, handler, floor, now, base, i, led >>
  BY DEF LinkLoop, DelayUntilNext, boot, panic
<1>3. TypeOK' /\ ClockInv' /\ PanicIsReported'
  <2>1. next' \in [Periodic -> Nat]
    BY <1>1, <1>2, BootAssumption DEF TypeOK
  <2> QED BY <1>1, <1>2, <2>1 DEF BootInv, TypeOK, ClockInv, PanicIsReported
<1>4. NoDrift'
  BY <1>1, DelayKeepsGrid DEF BootInv, LinkLoop
<1>5. at'[blinky] = at[blinky] /\ next'[blinky] = next[blinky]
  BY <1>1, <1>2 DEF TypeOK, Periodic
<1>6. BlinkyInv'
  BY <1>2, <1>5 DEF BootInv, BlinkyInv, OnGrid
<1> QED BY <1>3, <1>4, <1>6 DEF BootInv

LEMMA DelayOverNext ==
    ASSUME BootInv, NEW t \in Periodic, DelayOver(t)
    PROVE  BootInv'
<1>1. /\ TypeOK /\ now >= next[t]
      /\ at' = [at EXCEPT ![t] = "loop"] /\ at[t] = "delay"
      /\ UNCHANGED << place, mono, started, handler, floor, now, next, base, i, led >>
  BY DEF BootInv, DelayOver, boot, panic
<1>2. TypeOK' /\ ClockInv' /\ PanicIsReported' /\ NoDrift'
  BY <1>1 DEF BootInv, TypeOK, ClockInv, PanicIsReported, NoDrift
<1>3. BlinkyInv'
  <2>1. CASE t = blinky
    <3>1. PICK k \in Nat : OnGrid(k)
      BY <1>1, <2>1 DEF BootInv, BlinkyInv
    <3>2. at'[blinky] = "loop" /\ next[blinky] <= now
      BY <1>1, <2>1 DEF TypeOK
    <3>3. OnGrid(k)'
      BY <1>1, <3>1, <3>2 DEF OnGrid
    <3> QED BY <3>2, <3>3 DEF BlinkyInv
  <2>2. CASE t # blinky
    <3>1. at'[blinky] = at[blinky]
      BY <1>1, <2>2 DEF TypeOK, Periodic
    <3> QED BY <1>1, <3>1 DEF BootInv, BlinkyInv, OnGrid
  <2> QED BY <2>1, <2>2
<1> QED BY <1>2, <1>3 DEF BootInv

LEMMA TickNext == ASSUME BootInv, Tick PROVE BootInv'
<1>1. /\ TypeOK /\ now' = now + 1
      /\ UNCHANGED << place, mono, started, handler, floor, at, next, base, i, led >>
  BY DEF BootInv, Tick, boot, panic, tasks
<1>2. TypeOK' /\ ClockInv' /\ PanicIsReported' /\ NoDrift'
  BY <1>1 DEF BootInv, TypeOK, ClockInv, PanicIsReported, NoDrift
<1>3. ASSUME NEW k \in Nat, OnGrid(k) PROVE OnGrid(k)'
  <2>1. now \in Nat /\ next[blinky] \in Nat /\ base[blinky] \in Nat
        /\ (k > 0 => (k - 1) * Period \in Nat)
    BY <1>1, BootAssumption, NextPeriod DEF TypeOK, Periodic
  <2> QED BY <1>1, <1>3, <2>1 DEF OnGrid
<1>4. BlinkyInv'
  BY <1>1, <1>3 DEF BootInv, BlinkyInv
<1> QED BY <1>2, <1>4 DEF BootInv

LEMMA BootInvNext == BootInv /\ [Next]_vars => BootInv'
<1> SUFFICES ASSUME BootInv, [Next]_vars PROVE BootInv'
  OBVIOUS
<1>1. CASE InitStep \/ PanicLog \/ PanicSpins \/ ApplicationPanics
  BY <1>1, ControlNext
<1>2. CASE \E t \in Periodic : PeriodicStart(t) \/ DelayOver(t)
  BY <1>2, StartNext, DelayOverNext
<1>3. CASE Blink \/ LinkLoop \/ Tick
  BY <1>3, BlinkNext, LinkNext, TickNext
<1>4. CASE UNCHANGED vars
  BY <1>4
  DEF vars, boot, panic, tasks, BootInv, TypeOK, ClockInv, PanicIsReported, NoDrift,
      BlinkyInv, OnGrid
<1> QED BY <1>1, <1>2, <1>3, <1>4 DEF Next

LEMMA BootInvAlways == Spec => []BootInv
BY BootInvInit, BootInvNext, PTL DEF Spec

-----------------------------------------------------------------------------
\* Type correctness; blinky's i stays inside its usize.
THEOREM TypeCorrect == Spec => []TypeOK
<1>1. BootInv => TypeOK
  BY DEF BootInv
<1> QED BY BootInvAlways, <1>1, PTL

\* uptime_us never panics: the panic handler reports every failure of init and of
\* the applications.
THEOREM PanicsAreReported == Spec => []PanicIsReported
<1>1. BootInv => PanicIsReported
  BY DEF BootInv
<1> QED BY BootInvAlways, <1>1, PTL

\* The periodic tasks of main.rs never drift.
THEOREM PeriodsKept == Spec => []NoDrift
<1>1. BootInv => NoDrift
  BY DEF BootInv
<1> QED BY BootInvAlways, <1>1, PTL

\* The LED shows the pattern of the period it is in, across every wrap of i.
THEOREM LedKeepsPhase == Spec => []LedTracksTime
<1>1. ASSUME BootInv PROVE LedTracksTime
  <2> SUFFICES ASSUME at[blinky] = "delay", now < next[blinky]
               PROVE  led = IsLit(((now - base[blinky]) \div Period) % 8)
    BY DEF LedTracksTime, LedOnTime
  <2>1. PICK k \in Nat : OnGrid(k)
    BY <1>1 DEF BootInv, BlinkyInv
  <2>2. k > 0 /\ led = IsLit((k - 1) % 8) /\ base[blinky] + (k - 1) * Period <= now
        /\ next[blinky] = base[blinky] + k * Period
    BY <2>1 DEF OnGrid
  <2>3. now \in Nat /\ base[blinky] \in Nat /\ next[blinky] \in Nat
    BY <1>1 DEF BootInv, TypeOK, Periodic
  <2> DEFINE m == k - 1
             a == now - base[blinky]
  <2>4. m \in Nat /\ m * Period \in Nat /\ k = m + 1
    BY <2>2, BootAssumption, NextPeriod
  <2>5. a \in Nat /\ m * Period <= a /\ a < (m + 1) * Period
    BY <2>2, <2>3, <2>4, BootAssumption
  <2> HIDE DEF m, a
  <2>6. a \div Period = m
    BY <2>4, <2>5, BootAssumption, PeriodsElapsed
  <2> QED BY <2>2, <2>6 DEF m, a
<1> QED BY BootInvAlways, <1>1, PTL

-----------------------------------------------------------------------------
\* Once init is done only an application panics, at priority 1.
HandlerInv == place = "done" /\ handler # "none" => floor = 1

LEMMA HandlerNext ==
    ASSUME BootInv, HandlerInv, [Next]_vars
    PROVE  HandlerInv'
<1>1. UptimeReturns /\ (place = "done" => NowReturns)
  BY DEF BootInv, ClockInv, UptimeReturns, NowReturns
<1> USE DEF HandlerInv, boot, panic, tasks
<1>2. CASE InitStep
  BY <1>1, <1>2
  DEF InitStep, Greet, OpenIoPort, OpenMono, StartMono, StoreStarted, StartEmbassy,
      OpenEthernet, EthernetInfo, AssertPriority, NewInterface, AddAddresses, InitDone,
      Info, Fails, InitAt, Goto, Panics
<1>3. CASE PanicLog \/ PanicSpins \/ ApplicationPanics
  BY <1>1, <1>3 DEF PanicLog, PanicSpins, ApplicationPanics, HandlerAt, Panics
<1>4. CASE \E t \in Periodic : PeriodicStart(t) \/ DelayOver(t)
  BY <1>1, <1>4 DEF PeriodicStart, DelayOver, MayRun
<1>5. CASE Blink \/ LinkLoop \/ Tick
  BY <1>5 DEF Blink, LinkLoop, Tick, DelayUntilNext
<1>6. CASE UNCHANGED vars
  BY <1>6 DEF vars
<1> QED BY <1>2, <1>3, <1>4, <1>5, <1>6 DEF Next

\* Only PanicSpins reaches the bkpt.
LEMMA StopStep ==
    ASSUME BootInv, [Next]_vars, handler # "bkpt", handler' = "bkpt"
    PROVE  PanicSpins
<1> USE DEF boot, panic, tasks
<1>1. CASE InitStep
  BY <1>1
  DEF InitStep, Greet, OpenIoPort, OpenMono, StartMono, StoreStarted, StartEmbassy,
      OpenEthernet, EthernetInfo, AssertPriority, NewInterface, AddAddresses, InitDone,
      Info, Fails, InitAt, Goto, Panics
<1>2. CASE PanicLog \/ ApplicationPanics
  BY <1>2 DEF PanicLog, ApplicationPanics, Panics
<1>3. CASE \E t \in Periodic : PeriodicStart(t) \/ DelayOver(t)
  BY <1>3 DEF PeriodicStart, DelayOver, Panics
<1>4. CASE Blink \/ LinkLoop \/ Tick
  BY <1>4 DEF Blink, LinkLoop, Tick, DelayUntilNext
<1>5. CASE UNCHANGED vars
  BY <1>5 DEF vars
<1> QED BY <1>1, <1>2, <1>3, <1>4, <1>5 DEF Next

\* A panic of an application stops the core with the LED on time: until the bkpt
\* blinky, above the panic handler, is never behind when the handler runs.
THEOREM PanicSparesBlinky == Spec => StopsOnTime
<1>1. Init => HandlerInv
  BY DEF Init, HandlerInv
<1>2. BootInv /\ HandlerInv /\ [Next]_vars => HandlerInv'
  BY HandlerNext
<1>3. ASSUME BootInv, HandlerInv, LedTracksTime, [Next]_vars
      PROVE  place = "done" /\ handler # "bkpt" /\ handler' = "bkpt" => LedOnTime
  <2> SUFFICES ASSUME place = "done", handler # "bkpt", handler' = "bkpt"
               PROVE  LedOnTime
    OBVIOUS
  <2>1. HandlerAt("spin")
    BY <1>3, StopStep DEF PanicSpins
  <2>2. MayRun(blinky) /\ blinky \in Periodic
    BY <1>3, <2>1 DEF HandlerAt, MayRun, HandlerInv, Priority, Periodic
  <2>3. at[blinky] = "delay" /\ ~ (now >= next[blinky])
    BY <2>1, <2>2 DEF HandlerAt, Preempts
  <2>4. now \in Nat /\ next[blinky] \in Nat
    BY <1>3, <2>2 DEF BootInv, TypeOK
  <2> QED BY <1>3, <2>3, <2>4 DEF LedTracksTime
<1>4. BootInv /\ HandlerInv /\ LedTracksTime /\ [Next]_vars
        => [place = "done" /\ handler # "bkpt" /\ handler' = "bkpt" => LedOnTime]_vars
  BY <1>3
<1> QED BY BootInvAlways, LedKeepsPhase, <1>1, <1>2, <1>4, PTL DEF Spec, StopsOnTime
=============================================================================
