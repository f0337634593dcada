------------------------------- MODULE Boot -------------------------------
(***************************************************************************)
(* init of main.rs with the drivers it opens, the logger and the panic     *)
(* handler, and the two periodic tasks, blinky and network_link_poll.      *)
(*                                                                         *)
(* The logger stamps every line with uptime_us, which reads the monotonic  *)
(* once STARTED is set; Mono::now panics while the monotonic does not run, *)
(* and the panic handler begins with a log line.                           *)
(***************************************************************************)
EXTENDS Naturals

CONSTANTS
    Period,     \* ticks between two runs of a periodic task; 100 ms in the code
    Wrap,       \* the values of a usize
    MaxNow      \* bound: the last tick that is looked at

ASSUME BootAssumption ==
    /\ Period \in Nat \ {0} /\ MaxNow \in Nat
    /\ Wrap \in Nat \ {0} /\ Wrap % 8 = 0

blinky == "blinky"
link == "network_link_poll"
Periodic == {blinky, link}

VARIABLES
    place,      \* what init is about to do
    mono,       \* the monotonic: "closed", "open" or "running"
    started,    \* STARTED
    handler,    \* what the panic handler is about to do; "none" before a panic
    floor,      \* the priority the panic handler runs at
    now,        \* Mono::now, in ticks
    at,         \* where each periodic task is
    next,       \* each periodic task's next
    base,       \* history: each periodic task's first next
    i,          \* blinky's i
    led         \* the pin of port 4

boot == << place, mono, started >>
panic == << handler, floor >>
tasks == << at, next, base, i, led >>
vars == << boot, panic, now, tasks >>

\* The priorities of main.rs; the applications are mqtt_task and http_task. init
\* runs with interrupts disabled: nothing is above it.
Priority(t) == IF t = blinky THEN 2 ELSE 1
InitPriority == 5

Init ==
    /\ place = "greet"
    /\ mono = "closed" /\ started = FALSE
    /\ handler = "none" /\ floor = 0
    /\ now = 0
    /\ at = [t \in Periodic |-> "spawned"]
    /\ next = [t \in Periodic |-> 0]
    /\ base = [t \in Periodic |-> 0]
    /\ i = 0 /\ led = FALSE

-----------------------------------------------------------------------------
(***************************************************************************)
(* A panic starts the handler, whatever was running; a second one starts   *)
(* it again.                                                               *)
(***************************************************************************)
Panics(p) ==
    /\ handler' = IF handler = "none" THEN "log" ELSE "nested"
    /\ floor' = p
    /\ UNCHANGED << boot, now, tasks >>

\* Mono::now returns.
NowReturns == mono = "running"

\* A line that log prints: uptime_us returns 0, or reads the monotonic.
UptimeReturns == started => NowReturns

InitAt(p) == place = p /\ handler = "none"

Goto(p) == place' = p /\ UNCHANGED << panic, now, tasks >>

\* A line of init's that logs.
Info(from, to) ==
    /\ InitAt(from)
    /\ IF UptimeReturns THEN Goto(to) /\ UNCHANGED << mono, started >>
       ELSE Panics(InitPriority)

\* A driver call with an expect: it succeeds, or init panics.
Fails(p) == InitAt(p) /\ Panics(InitPriority)

Greet == Info("greet", "ioport")

OpenIoPort ==
    \/ InitAt("ioport") /\ Goto("mono_open") /\ UNCHANGED << mono, started >>
    \/ Fails("ioport")

\* Mutant: STARTED is stored as soon as the timer is open.
BugOpenMono ==
    \/ InitAt("mono_open") /\ Goto("mono_start") /\ mono' = "open" /\ started' = TRUE
    \/ Fails("mono_open")

\* mono::start, whose last line stores STARTED.
OpenMono ==
    \/ InitAt("mono_open") /\ Goto("mono_start") /\ mono' = "open" /\ UNCHANGED started
    \/ Fails("mono_open")

StartMono ==
    \/ InitAt("mono_start") /\ Goto("mono_store") /\ mono' = "running" /\ UNCHANGED started
    \/ Fails("mono_start")

StoreStarted ==
    /\ InitAt("mono_store")
    /\ started' = TRUE
    /\ Goto("embassy")
    /\ UNCHANGED mono

StartEmbassy ==
    \/ InitAt("embassy") /\ Goto("ethernet") /\ UNCHANGED << mono, started >>
    \/ Fails("embassy")

\* create_dev: two expects, a line and an assert_eq.
OpenEthernet ==
    \/ InitAt("ethernet") /\ Goto("ethernet_info") /\ UNCHANGED << mono, started >>
    \/ Fails("ethernet")

EthernetInfo == Info("ethernet_info", "irq_priority")

AssertPriority ==
    \/ InitAt("irq_priority") /\ Goto("iface") /\ UNCHANGED << mono, started >>
    \/ Fails("irq_priority")

\* The rest of init_network: smol_now reads the monotonic, not the flag; the
\* addresses are logged, and pushed with an unwrap.
NewInterface ==
    /\ InitAt("iface")
    /\ IF NowReturns THEN Goto("addresses") /\ UNCHANGED << mono, started >>
       ELSE Panics(InitPriority)

AddAddresses == Info("addresses", "spawn") \/ Fails("addresses")

\* The spawns; init ends with a line and enables the interrupts.
InitDone == Info("spawn", "done")

InitStep ==
    \/ Greet \/ OpenIoPort \/ OpenMono \/ StartMono \/ StoreStarted \/ StartEmbassy
    \/ OpenEthernet \/ EthernetInfo \/ AssertPriority \/ NewInterface \/ AddAddresses
    \/ InitDone

-----------------------------------------------------------------------------
(***************************************************************************)
(* The panic handler logs, spins and stops the core with bkpt. It takes no *)
(* critical section, so that what is above it preempts it until then: the  *)
(* compare interrupt that ends a delay takes the core at once.             *)
(***************************************************************************)
\* Mutant: the handler begins with a critical section, as its todo proposes.
BugMayRun(t) == place = "done" /\ handler = "none"

\* A periodic task runs once init is done, and after a panic only above it.
MayRun(t) ==
    /\ place = "done"
    /\ handler # "none" => handler \in {"log", "spin"} /\ Priority(t) > floor

\* A task has something to do, and may do it.
Preempts(t) == MayRun(t) /\ (at[t] = "delay" => now >= next[t])

HandlerAt(h) == handler = h /\ \A t \in Periodic : ~ Preempts(t)

PanicLog ==
    /\ HandlerAt("log")
    /\ IF UptimeReturns
       THEN handler' = "spin" /\ UNCHANGED << boot, floor, now, tasks >>
       ELSE Panics(floor)

PanicSpins ==
    /\ HandlerAt("spin")
    /\ handler' = "bkpt"
    /\ UNCHANGED << boot, floor, now, tasks >>

\* An application task panics: the unwrap on accept, the index of the echo.
ApplicationPanics ==
    /\ place = "done" /\ handler = "none"
    /\ Panics(1)

-----------------------------------------------------------------------------
(***************************************************************************)
(* The periodic tasks.                                                     *)
(***************************************************************************)
PeriodicStart(t) ==
    /\ MayRun(t) /\ at[t] = "spawned"
    /\ IF NowReturns
       THEN /\ at' = [at EXCEPT ![t] = "loop"]
            /\ next' = [next EXCEPT ![t] = now]
            /\ base' = [base EXCEPT ![t] = now]
            /\ UNCHANGED << boot, panic, now, i, led >>
       ELSE Panics(Priority(t))

DelayUntilNext(t) ==
    /\ next' = [next EXCEPT ![t] = @ + Period]
    /\ at' = [at EXCEPT ![t] = "delay"]
    /\ UNCHANGED << base, boot, panic, now >>

\* Mutant: the counter wraps one step early.
BugWrappingAdd(n) == IF n + 2 = Wrap THEN 0 ELSE n + 1
\* Mutant: the counter wraps one step late.
BugAdd(n) == IF n = Wrap THEN 0 ELSE n + 1
WrappingAdd(n) == IF n + 1 = Wrap THEN 0 ELSE n + 1

IsLit(phase) == phase \in {0, 2}

Blink ==
    /\ MayRun(blinky) /\ at[blinky] = "loop"
    /\ led' = IsLit(i % 8)
    /\ i' = WrappingAdd(i)
    /\ DelayUntilNext(blinky)

\* The link task's loop begins with its delay; poll_link is in NetPoller.
LinkLoop ==
    /\ MayRun(link) /\ at[link] = "loop"
    /\ DelayUntilNext(link)
    /\ UNCHANGED << i, led >>

\* delay_until returns, at once if its time is over.
DelayOver(t) ==
    /\ MayRun(t) /\ at[t] = "delay" /\ now >= next[t]
    /\ at' = [at EXCEPT ![t] = "loop"]
    /\ UNCHANGED << boot, panic, now, next, base, i, led >>

\* Time passes, also while something of a higher priority has the core.
Tick ==
    /\ mono = "running" /\ now < MaxNow
    /\ now' = now + 1
    /\ UNCHANGED << boot, panic, tasks >>

Next ==
    \/ InitStep \/ PanicLog \/ PanicSpins \/ ApplicationPanics
    \/ \E t \in Periodic : PeriodicStart(t) \/ DelayOver(t)
    \/ Blink \/ LinkLoop \/ Tick

Spec == Init /\ [][Next]_vars

-----------------------------------------------------------------------------
Places == { "greet", "ioport", "mono_open", "mono_start", "mono_store", "embassy",
            "ethernet", "ethernet_info", "irq_priority", "iface", "addresses", "spawn",
            "done" }

\* Every variable holds a value of its kind; i stays inside its usize.
TypeOK ==
    /\ place \in Places
    /\ mono \in {"closed", "open", "running"} /\ started \in BOOLEAN
    /\ handler \in {"none", "log", "spin", "bkpt", "nested"} /\ floor \in 0 .. 5
    /\ now \in Nat
    /\ at \in [Periodic -> {"spawned", "loop", "delay"}]
    /\ next \in [Periodic -> Nat] /\ base \in [Periodic -> Nat]
    /\ i \in 0 .. Wrap - 1 /\ led \in BOOLEAN

\* uptime_us "is safe to call from the logger during early init": a failure
\* of any driver, before or after the monotonic runs, is reported by the panic
\* handler, whose own line never panics.
PanicIsReported == handler # "nested"

\* The pattern of blinky's match at the present time.
LedOnTime == led = IsLit(((now - base[blinky]) \div Period) % 8)

\* The LED shows what the time says it should, whenever blinky is not late: no
\* delay, however long, and no wrap of the counter shifts the pattern.
LedTracksTime == at[blinky] = "delay" /\ now < next[blinky] => LedOnTime

\* A run that comes late is made up for: the runs stay on the grid that the first
\* one set.
NoDrift ==
    \A t \in Periodic :
        \E k \in 0 .. next[t] : next[t] = base[t] + k * Period

\* The panic handler's todo asks what happens when a task of low priority panics:
\* blinky is not held up by the handler. In the step that stops the core at the bkpt
\* the LED shows what the time says, late wake-ups made up for.
StopsOnTime ==
    [][place = "done" /\ handler # "bkpt" /\ handler' = "bkpt" => LedOnTime]_vars
=============================================================================
