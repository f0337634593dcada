----------------------------- MODULE NetPoller -----------------------------
(***************************************************************************)
(* The network poller of the firmware and everything that asks it to run.  *)
(*                                                                         *)
(* One task, network_poller (network.rs), owns the smoltcp interface. It   *)
(* sleeps until NETWORK_POLL_REQUEST is set or until the instant smoltcp   *)
(* last asked for has come. Three kinds of context set the request through *)
(* request_network_poll:                                                   *)
(*   - the application tasks (mqtt_task, http_task), at the end of every   *)
(*     SocketInner::with_mut, inside the lock on net;                      *)
(*   - ethernet_isr, from NetCallback, inside the lock on device;          *)
(*   - network_link_poll, from the same callback, when the link came up.   *)
(*                                                                         *)
(* All of it runs on one core under RTIC: a context starts only above the  *)
(* current priority of every started one, and a lock raises the current    *)
(* priority to the resource's ceiling. No context ever waits for a lock.   *)
(***************************************************************************)
EXTENDS Integers

CONSTANTS
    Tasks,          \* the application tasks; each owns one smoltcp socket
    NTx,            \* ETH_N_TX_DESC, descriptors of the transmit ring
    NRx,            \* ETH_N_RX_DESC, descriptors of the receive ring
    TicksPerMicro,  \* CLOCK_HZ / 1_000_000
    MaxTime,        \* bound on the modelled time, in microseconds
    MaxSegs         \* bound on the segments the sockets hold ready to go

ASSUME TasksAssumption ==
    /\ Tasks # {}
    /\ Tasks \cap {"network_poller", "ethernet_isr", "network_link_poll"} = {}
ASSUME RingAssumption == NTx \in Nat \ {0} /\ NRx \in Nat
ASSUME TimeAssumption == TicksPerMicro \in Nat \ {0} /\ MaxTime \in Nat
ASSUME SegsAssumption == MaxSegs \in Nat

VARIABLES
    pc,             \* [Contexts -> where the context is; "off": not started]
    request,        \* NETWORK_POLL_REQUEST
    woken,          \* the executor's pending flag of network_poller
    next_poll_at,   \* network_poller_task's local, in ticks; None is Never
    armed,          \* a Delay of the poller is in the monotonic's timer queue
    cause,          \* the InterruptCause a driver call hands to NetCallback
    due,            \* [Tasks -> when smoltcp wants the socket polled, micros]
    segs,           \* segments the sockets can send before anything new happens
    up,             \* what dev.is_up() answers
    phy,            \* whether the cable really is in
    rx_ready,       \* the RX ring has its buffers
    rx_queued,      \* received frames waiting in the RX ring
    tx_busy,        \* TX descriptors owned by the hardware
    irq,            \* the events latched for the Ethernet interrupt
    now             \* Mono::now(), in ticks

vars == << pc, request, woken, next_poll_at, armed, cause, due, segs, up,
           phy, rx_ready, rx_queued, tx_busy, irq, now >>

poller == "network_poller"
isr    == "ethernet_isr"
link   == "network_link_poll"

Contexts == Tasks \cup {poller, isr, link}

(***************************************************************************)
(* Time. smoltcp counts microseconds, the monotonic counts ticks, and      *)
(* None (no poll wanted) is an instant that never comes.                   *)
(***************************************************************************)
Never == MaxTime + 1

\* smol_now: the monotonic's ticks rounded down to microseconds.
SmolNow == now \div TicksPerMicro

\* The conversion at the end of poll_network.
InstantOf(micros) == micros * TicksPerMicro

(***************************************************************************)
(* RTIC's scheduling, from the priorities and the shared resources main.rs *)
(* declares. net is shared by the tasks and the poller and device by the   *)
(* interrupt, the poller and the link task, so both ceilings are 4.        *)
(***************************************************************************)
Priority(c) == IF c \in {poller, isr} THEN 4 ELSE 1

\* Mutant: net declared as if only the priority-1 tasks shared it.
BugCeiling == 1

Ceiling == 4

\* The places inside a lock: the closure has run or is running.
InLock(c) == pc[c] \in {"callback", "store", "wake"}

CurrentPriority(c) == IF InLock(c) THEN Ceiling ELSE Priority(c)

\* The poller's dispatcher or the Ethernet interrupt is pending and runs
\* before the next instruction at priority p.
Preempted(p) ==
    \/ woken /\ pc[poller] = "off" /\ p < Priority(poller)
    \/ irq # {} /\ pc[isr] = "off" /\ p < Priority(isr)

MayStart(c) ==
    /\ pc[c] = "off"
    /\ \A d \in Contexts : pc[d] # "off" => CurrentPriority(d) < Priority(c)
    /\ ~Preempted(Priority(c))

OnCpu(c) ==
    /\ pc[c] # "off"
    /\ \A d \in Contexts : pc[d] # "off" => CurrentPriority(d) <= CurrentPriority(c)
    /\ ~Preempted(CurrentPriority(c))

Goto(c, where) == pc' = [pc EXCEPT ![c] = where]

Init ==
    /\ pc = [c \in Contexts |-> "off"]
    /\ request = FALSE
    /\ woken = TRUE              \* network_poller::spawn() in init
    /\ next_poll_at = InstantOf(Never)
    /\ armed = FALSE
    /\ cause = [c \in {isr, link} |-> {}]
    /\ due = [t \in Tasks |-> Never]
    /\ segs = 0
    /\ up = FALSE
    /\ phy \in BOOLEAN
    /\ rx_ready = TRUE
    /\ rx_queued = 0
    /\ tx_busy = 0
    /\ irq = {}
    /\ now = 0

-----------------------------------------------------------------------------
(***************************************************************************)
(* request_network_poll: store the flag, then wake the poller's task.      *)
(***************************************************************************)
RequestStore(c) ==
    /\ pc[c] = "store"
    /\ OnCpu(c)
    /\ request' = TRUE
    /\ Goto(c, "wake")
    /\ UNCHANGED << woken, next_poll_at, armed, cause, due, segs, up, phy,
                    rx_ready, rx_queued, tx_busy, irq, now >>

\* Mutant: the flag is stored and the task is not woken.
BugRequestWake(c) ==
    /\ pc[c] = "wake"
    /\ OnCpu(c)
    /\ Goto(c, IF c \in Tasks THEN "run" ELSE "off")
    /\ UNCHANGED << request, woken, next_poll_at, armed, cause, due, segs, up, phy,
                    rx_ready, rx_queued, tx_busy, irq, now >>

\* The caller returns and leaves its lock; an interrupt handler and the link
\* task are done, an application task goes on outside the lock.
RequestWake(c) ==
    /\ pc[c] = "wake"
    /\ OnCpu(c)
    /\ woken' = TRUE
    /\ Goto(c, IF c \in Tasks THEN "run" ELSE "off")
    /\ UNCHANGED << request, next_poll_at, armed, cause, due, segs, up, phy,
                    rx_ready, rx_queued, tx_busy, irq, now >>

(***************************************************************************)
(* An application task: the dispatcher polls it, it calls with_mut any     *)
(* number of times and returns Pending.                                    *)
(***************************************************************************)
TaskStart(t) ==
    /\ MayStart(t)
    /\ Goto(t, "run")
    /\ UNCHANGED << request, woken, next_poll_at, armed, cause, due, segs, up,
                    phy, rx_ready, rx_queued, tx_busy, irq, now >>

\* Mutant: with_mut without its POLL_NETWORK call.
BugWithMut(t) ==
    /\ pc[t] = "run"
    /\ OnCpu(t)
    /\ \E d \in 0..Never : due' = [due EXCEPT ![t] = d]
    /\ segs' \in 0..MaxSegs
    /\ UNCHANGED << pc, request, woken, next_poll_at, armed, cause, up, phy,
                    rx_ready, rx_queued, tx_busy, irq, now >>

\* SocketInner::with_mut up to POLL_NETWORK: whatever the closure does to the
\* socket, smoltcp may afterwards want it polled at once, later, or not at all.
WithMut(t) ==
    /\ pc[t] = "run"
    /\ OnCpu(t)
    /\ \E d \in 0..Never : due' = [due EXCEPT ![t] = d]
    /\ segs' \in 0..MaxSegs
    /\ Goto(t, "store")
    /\ UNCHANGED << request, woken, next_poll_at, armed, cause, up, phy, rx_ready,
                    rx_queued, tx_busy, irq, now >>

TaskPending(t) ==
    /\ pc[t] = "run"
    /\ OnCpu(t)
    /\ Goto(t, "off")
    /\ UNCHANGED << request, woken, next_poll_at, armed, cause, due, segs, up,
                    phy, rx_ready, rx_queued, tx_busy, irq, now >>

Task(t) == TaskStart(t) \/ WithMut(t) \/ TaskPending(t)
               \/ RequestStore(t) \/ RequestWake(t)

(***************************************************************************)
(* NetCallback and its two callers.                                        *)
(***************************************************************************)

\* ethernet_isr: lock the device and run the driver's handler, which calls
\* back for the frames received and the transmissions completed.
EthernetIsr ==
    /\ irq # {}
    /\ MayStart(isr)
    /\ irq' = {}
    /\ cause' = [cause EXCEPT ![isr] = irq]
    /\ Goto(isr, "callback")
    /\ UNCHANGED << request, woken, next_poll_at, armed, due, segs, up, phy,
                    rx_ready, rx_queued, tx_busy, now >>

\* network_link_poll: the 100 ms delay is over.
LinkStart ==
    /\ MayStart(link)
    /\ Goto(link, "run")
    /\ UNCHANGED << request, woken, next_poll_at, armed, cause, due, segs, up,
                    phy, rx_ready, rx_queued, tx_busy, irq, now >>

\* dev.poll_link() finds the link as it was.
LinkSame ==
    /\ pc[link] = "run"
    /\ OnCpu(link)
    /\ phy = up
    /\ Goto(link, "off")
    /\ UNCHANGED << request, woken, next_poll_at, armed, cause, due, segs, up,
                    phy, rx_ready, rx_queued, tx_busy, irq, now >>

\* dev.poll_link() finds it changed. Coming up resets both rings: frames and
\* transmissions in them are gone and the RX ring has lost its buffers. That the
\* driver sees every change, calls back and then receives again is assumed of it.
LinkChanged ==
    /\ pc[link] = "run"
    /\ OnCpu(link)
    /\ phy # up
    /\ up' = phy
    /\ cause' = [cause EXCEPT ![link] = IF phy THEN {"went_up"} ELSE {}]
    /\ rx_ready' = (rx_ready /\ ~phy)
    /\ rx_queued' = IF phy THEN 0 ELSE rx_queued
    /\ tx_busy' = IF phy THEN 0 ELSE tx_busy
    /\ Goto(link, "callback")
    /\ UNCHANGED << request, woken, next_poll_at, armed, due, segs, phy, irq,
                    now >>

\* Mutant: the callback polls for a received frame or a link-up only.
BugCallback(c) ==
    /\ pc[c] = "callback"
    /\ OnCpu(c)
    /\ rx_ready' = TRUE
    /\ Goto(c, IF cause[c] \ {"transmits"} # {} THEN "store" ELSE "off")
    /\ UNCHANGED << request, woken, next_poll_at, armed, cause, due, segs, up, phy,
                    rx_queued, tx_busy, irq, now >>

\* NetCallback::call_with_block: give the RX ring its buffers back, then poll
\* the network if the cause asks for it.
Callback(c) ==
    /\ pc[c] = "callback"
    /\ OnCpu(c)
    /\ rx_ready' = TRUE
    /\ Goto(c, IF cause[c] # {} THEN "store" ELSE "off")
    /\ UNCHANGED << request, woken, next_poll_at, armed, cause, due, segs, up,
                    phy, rx_queued, tx_busy, irq, now >>

Driver == EthernetIsr \/ LinkStart \/ LinkSame \/ LinkChanged
              \/ (\E c \in {isr, link} :
                     Callback(c) \/ RequestStore(c) \/ RequestWake(c))

-----------------------------------------------------------------------------
(***************************************************************************)
(* network_poller_task. "await" is futures_lite::future::or(requested,     *)
(* poll_at): requested is polled first, then the delay.                    *)
(***************************************************************************)

\* The dispatcher clears the pending flag before it polls the task.
PollerStart ==
    /\ woken
    /\ MayStart(poller)
    /\ woken' = FALSE
    /\ Goto(poller, "await")
    /\ UNCHANGED << request, next_poll_at, armed, cause, due, segs, up, phy,
                    rx_ready, rx_queued, tx_busy, irq, now >>

\* wait_until_network_poll_requested swaps the flag; the delay is dropped,
\* which takes it out of the timer queue.
AwaitRequested ==
    /\ pc[poller] = "await"
    /\ OnCpu(poller)
    /\ request
    /\ request' = FALSE
    /\ armed' = FALSE
    /\ Goto(poller, "check")
    /\ UNCHANGED << woken, next_poll_at, cause, due, segs, up, phy, rx_ready,
                    rx_queued, tx_busy, irq, now >>

\* wait_until: the instant has come.
AwaitElapsed ==
    /\ pc[poller] = "await"
    /\ OnCpu(poller)
    /\ ~request
    /\ next_poll_at <= now
    /\ next_poll_at' = InstantOf(Never)
    /\ armed' = FALSE
    /\ Goto(poller, "check")
    /\ UNCHANGED << request, woken, cause, due, segs, up, phy, rx_ready,
                    rx_queued, tx_busy, irq, now >>

\* Neither is ready: the delay, if there is one, enters the timer queue.
AwaitPending ==
    /\ pc[poller] = "await"
    /\ OnCpu(poller)
    /\ ~request
    /\ next_poll_at > now
    /\ armed' = (next_poll_at # InstantOf(Never))
    /\ Goto(poller, "off")
    /\ UNCHANGED << request, woken, next_poll_at, cause, due, segs, up, phy,
                    rx_ready, rx_queued, tx_busy, irq, now >>

\* Mutant: the early return keeps the deadline of the last poll.
BugCheckDown ==
    /\ pc[poller] = "check"
    /\ OnCpu(poller)
    /\ ~up
    /\ Goto(poller, "await")
    /\ UNCHANGED << request, woken, next_poll_at, armed, cause, due, segs, up, phy,
                    rx_ready, rx_queued, tx_busy, irq, now >>

\* poll_network's early return: the device is down and there is no next poll.
CheckDown ==
    /\ pc[poller] = "check"
    /\ OnCpu(poller)
    /\ ~up
    /\ next_poll_at' = InstantOf(Never)
    /\ Goto(poller, "await")
    /\ UNCHANGED << request, woken, armed, cause, due, segs, up, phy,
                    rx_ready, rx_queued, tx_busy, irq, now >>

\* Mutant: poll_network without the is_up check.
BugCheckUp ==
    /\ pc[poller] = "check"
    /\ OnCpu(poller)
    /\ Goto(poller, "poll")
    /\ UNCHANGED << request, woken, next_poll_at, armed, cause, due, segs, up, phy,
                    rx_ready, rx_queued, tx_busy, irq, now >>

CheckUp ==
    /\ pc[poller] = "check"
    /\ OnCpu(poller)
    /\ up
    /\ Goto(poller, "poll")
    /\ UNCHANGED << request, woken, next_poll_at, armed, cause, due, segs, up,
                    phy, rx_ready, rx_queued, tx_busy, irq, now >>

\* net.iface.poll: take frames in, send frames out. The device gives a token
\* only while it is up and a TX descriptor is free, so frames stay in the RX
\* ring and sockets stay due only when the TX ring is full (or the device is
\* down, and then nothing moves). When no frame was taken in, a deadline only
\* changes when the socket was due and no longer is, and sockets that merely go
\* on sending use up the segments they had.
IfacePoll ==
    /\ pc[poller] = "poll"
    /\ OnCpu(poller)
    /\ \E rx \in 0..rx_queued, tx \in tx_busy..NTx, d \in [Tasks -> 0..Never],
          s \in 0..MaxSegs :
          /\ ~up => rx = rx_queued /\ tx = tx_busy /\ d = due
          /\ up /\ tx < NTx => rx = 0 /\ (\A t \in Tasks : d[t] > SmolNow)
          /\ rx = rx_queued => \A t \in Tasks :
                d[t] = due[t] \/ (due[t] <= SmolNow /\ SmolNow < d[t])
          /\ d = due /\ rx = rx_queued => s + (tx - tx_busy) <= segs
          /\ rx_queued' = rx
          /\ tx_busy' = tx
          /\ due' = d
          /\ segs' = s
    /\ Goto(poller, "poll_at")
    /\ UNCHANGED << request, woken, next_poll_at, armed, cause, up, phy, rx_ready,
                    irq, now >>

\* Mutant: the poller forgets what poll_at answered.
BugPollAt ==
    /\ pc[poller] = "poll_at"
    /\ OnCpu(poller)
    /\ next_poll_at' = InstantOf(Never)
    /\ Goto(poller, "await")
    /\ UNCHANGED << request, woken, armed, cause, due, segs, up, phy, rx_ready,
                    rx_queued, tx_busy, irq, now >>

\* net.iface.poll_at: the earliest instant any socket wants.
PollAt ==
    /\ pc[poller] = "poll_at"
    /\ OnCpu(poller)
    /\ \E first \in Tasks :
          /\ \A t \in Tasks : due[first] <= due[t]
          /\ next_poll_at' = InstantOf(due[first])
    /\ Goto(poller, "await")
    /\ UNCHANGED << request, woken, armed, cause, due, segs, up, phy,
                    rx_ready, rx_queued, tx_busy, irq, now >>

Poller == PollerStart \/ AwaitRequested \/ AwaitElapsed \/ AwaitPending
              \/ CheckDown \/ CheckUp \/ IfacePoll \/ PollAt

-----------------------------------------------------------------------------
(***************************************************************************)
(* The hardware, and the monotonic's interrupt, which preempts everything. *)
(***************************************************************************)
Tick ==
    /\ now < InstantOf(MaxTime)
    /\ now' = now + 1
    /\ UNCHANGED << pc, request, woken, next_poll_at, armed, cause, due, segs,
                    up, phy, rx_ready, rx_queued, tx_busy, irq >>

\* mono::handle_isr: the monotonic wakes the task whose delay has elapsed.
DelayElapsed ==
    /\ armed
    /\ next_poll_at <= now
    /\ woken' = TRUE
    /\ armed' = FALSE
    /\ UNCHANGED << pc, request, next_poll_at, cause, due, segs, up, phy,
                    rx_ready, rx_queued, tx_busy, irq, now >>

\* Mutant: a ring that takes one frame more than it has descriptors.
BugFrameReceived ==
    /\ phy /\ up /\ rx_ready
    /\ rx_queued <= NRx
    /\ rx_queued' = rx_queued + 1
    /\ irq' = irq \cup {"receive"}
    /\ UNCHANGED << pc, request, woken, next_poll_at, armed, cause, due, segs, up,
                    phy, rx_ready, tx_busy, now >>

FrameReceived ==
    /\ phy /\ up /\ rx_ready
    /\ rx_queued < NRx
    /\ rx_queued' = rx_queued + 1
    /\ irq' = irq \cup {"receive"}
    /\ UNCHANGED << pc, request, woken, next_poll_at, armed, cause, due, segs,
                    up, phy, rx_ready, tx_busy, now >>

TxComplete ==
    /\ tx_busy > 0
    /\ tx_busy' = tx_busy - 1
    /\ irq' = irq \cup {"transmits"}
    /\ UNCHANGED << pc, request, woken, next_poll_at, armed, cause, due, segs,
                    up, phy, rx_ready, rx_queued, now >>

Cable ==
    /\ phy' = ~phy
    /\ UNCHANGED << pc, request, woken, next_poll_at, armed, cause, due, segs,
                    up, rx_ready, rx_queued, tx_busy, irq, now >>

Hardware == Tick \/ DelayElapsed \/ FrameReceived \/ TxComplete \/ Cable

Next == Poller \/ Driver \/ Hardware \/ (\E t \in Tasks : Task(t))

Spec == Init /\ [][Next]_vars

-----------------------------------------------------------------------------
(***************************************************************************)
(* Fairness. The core always runs something that can run, so a started     *)
(* context takes its steps. The two contexts of priority 4 start as soon   *)
(* as the one that runs is below 4, which it is again and again: that is   *)
(* strong fairness, where the interrupt controller is even stricter. A     *)
(* delay in the queue is woken, time passes, and the DMA finishes the      *)
(* descriptors it owns. Nothing is assumed of the cable, of the frames     *)
(* that arrive, or of when the application and link tasks start.           *)
(***************************************************************************)
Finish(c) == Callback(c) \/ RequestStore(c) \/ RequestWake(c)

\* The context inside a lock goes on.
Locked == \E c \in Contexts \ {poller} : Finish(c)

Fairness ==
    /\ SF_vars(PollerStart)
    /\ WF_vars(Poller)
    /\ SF_vars(EthernetIsr)
    /\ WF_vars(Locked)
    /\ WF_vars(LinkSame \/ LinkChanged)
    /\ \A t \in Tasks : WF_vars(TaskPending(t))
    /\ WF_vars(Tick)
    /\ WF_vars(DelayElapsed)
    /\ WF_vars(TxComplete)

FairSpec == Spec /\ Fairness

-----------------------------------------------------------------------------
TaskPlaces   == {"off", "run", "store", "wake"}
DriverPlaces == {"off", "run", "callback", "store", "wake"}
PollerPlaces == {"off", "await", "check", "poll", "poll_at"}

\* Every variable holds a value of its kind; in particular neither ring ever
\* holds more than it has descriptors.
TypeOK ==
    /\ pc \in [Contexts -> TaskPlaces \cup DriverPlaces \cup PollerPlaces]
    /\ pc[poller] \in PollerPlaces
    /\ pc[isr] \in DriverPlaces \ {"run"}
    /\ pc[link] \in DriverPlaces
    /\ \A t \in Tasks : pc[t] \in TaskPlaces
    /\ request \in BOOLEAN
    /\ woken \in BOOLEAN
    /\ next_poll_at \in 0..InstantOf(Never)
    /\ armed \in BOOLEAN
    /\ cause \in [{isr, link} -> SUBSET {"receive", "transmits", "went_up"}]
    /\ due \in [Tasks -> 0..Never]
    /\ segs \in 0..MaxSegs
    /\ up \in BOOLEAN
    /\ phy \in BOOLEAN
    /\ rx_ready \in BOOLEAN
    /\ rx_queued \in 0..NRx
    /\ tx_busy \in 0..NTx
    /\ irq \in SUBSET {"receive", "transmits"}
    /\ now \in 0..InstantOf(MaxTime)

HoldsNet(c) == \/ c \in Tasks /\ InLock(c)
               \/ c = poller /\ pc[c] \in {"poll", "poll_at"}

HoldsDevice(c) == \/ c \in {isr, link} /\ InLock(c)
                  \/ c = poller /\ pc[c] \in {"check", "poll"}

\* No two contexts are inside the lock on net, or inside the lock on device,
\* at the same time, although no lock ever blocks: the priorities main.rs
\* gives the tasks are enough.
Exclusive ==
    \A c, d \in Contexts :
        (HoldsNet(c) /\ HoldsNet(d)) \/ (HoldsDevice(c) /\ HoldsDevice(d)) => c = d

\* No context is in the middle of a driver call, a with_mut or a poll.
Quiet == pc[poller] = "off" /\ \A c \in Contexts : ~InLock(c)

\* request_network_poll sets a flag and wakes a task, and the poller clears
\* the flag on its own: a request the sleeping poller has not seen is always
\* followed by a wake-up.
NoLostPoll ==
    request /\ pc[poller] = "off" => woken \/ \E c \in Contexts : pc[c] = "wake"

\* While the poller sleeps with the device up and no request outstanding, no
\* socket's deadline is forgotten: the delay it sleeps on is not later than
\* any of them, and it is in the timer queue or has already woken the task.
\* This spans with_mut, poll_at, the early return on a device that is down
\* and the poll the link task asks for when it comes up.
DeadlineArmed ==
    Quiet /\ up /\ ~request =>
        \A t \in Tasks : due[t] # Never =>
            /\ next_poll_at <= InstantOf(due[t])
            /\ armed \/ woken

\* While the poller sleeps with the device up, the RX ring has its buffers
\* and no received frame is stranded in it: a poll is requested, or an
\* interrupt that will request one is pending or still to come from a
\* transmission under way. So the firmware's side of the ring recovers from an outage
\* of any length, if the driver does what LinkChanged says of it. main.rs has a
\* "fixme: if link is down for long, needs reset for ping to work"; its cause, if it is
\* still there, is in what LinkChanged and the hardware's actions take for granted.
FramesScheduled ==
    Quiet /\ up =>
        /\ rx_ready
        /\ rx_queued > 0 => request \/ irq # {} \/ tx_busy > 0

\* poll_network checks is_up in one lock and polls the interface in another:
\* the answer cannot go stale in between.
PolledOnlyUp == pc[poller] \in {"poll", "poll_at"} => up

\* The poller polls unasked only when a socket is due by smoltcp's own clock: the
\* deadline is never a stale one, and converting it to ticks and the clock back
\* to microseconds never brings the poll forward, which would keep the poller,
\* above every task, polling for nothing until the microsecond is over.
WakesOnTime == [][AwaitElapsed => \E t \in Tasks : due[t] <= SmolNow]_vars

\* The core is never stuck: a started poller and the context inside a lock can
\* always go on, and what is pending at priority 4 can start as soon as neither is
\* there; a delay that is over can wake, a transmission complete. With a ceiling
\* below the poller's priority, or one context too many in a lock, one of them
\* would wait for another.
NobodyBlocks ==
    /\ pc[poller] # "off" => ENABLED << Poller >>_vars
    /\ (\E c \in Contexts : InLock(c)) => ENABLED << Locked >>_vars
    /\ Quiet /\ woken => ENABLED << PollerStart >>_vars
    /\ Quiet /\ irq # {} => ENABLED << EthernetIsr >>_vars
    /\ armed /\ next_poll_at <= now => ENABLED << DelayElapsed >>_vars
    /\ tx_busy > 0 => ENABLED << TxComplete >>_vars

\* Every request for a poll is eventually taken by the poller.
RequestServed == request ~> ~request

\* What smoltcp has to be polled for.
Work == rx_queued > 0 \/ \E t \in Tasks : due[t] <= SmolNow

\* A frame that was received and a deadline that has come lead to a poll of the
\* interface, not just of the task, unless the link is lost first: whatever the
\* poller was doing, whoever holds a lock, and even if the only one left to ask
\* for the poll is the interrupt of a transmission under way.
WorkPolled == up /\ Work ~> ~up \/ pc[poller] = "poll"

\* Traffic dies down: from some instant on no frame arrives.
LineQuiet == <>[][~FrameReceived]_vars

\* The poller, which runs above every task, goes back to sleep once the line
\* is quiet: smoltcp asking for a poll "now", which is what it does while the
\* TX ring is full, never turns into an endless loop of polls.
PollerYields == LineQuiet => (pc[poller] # "off" ~> pc[poller] = "off")

\* A socket that is due is eventually polled, or the link is lost, once the
\* line is quiet: a full TX ring delays it and an outage of the link while
\* the poller returned early does not make it forgotten.
DueServed ==
    LineQuiet => \A t \in Tasks :
        (up /\ due[t] <= SmolNow ~> ~up \/ due[t] > SmolNow)

-----------------------------------------------------------------------------
(***************************************************************************)
(* The poller as the service PollService describes. A poll is owed from    *)
(* the moment something asks for one, before the flag is even stored.      *)
(* smoltcp's PollAt::Now is the instant 0.                                 *)
(***************************************************************************)
Owed ==
    \/ woken
    \/ irq # {}
    \/ \E c \in Contexts : pc[c] \in {"store", "wake"}
    \/ \E c \in {isr, link} : pc[c] = "callback" /\ cause[c] # {}

Phase == IF pc[poller] # "off" THEN "polling" ELSE IF Owed THEN "owed" ELSE "idle"

DueNow == {t \in Tasks : due[t] = 0}

Service == INSTANCE PollService WITH phase <- Phase, ready <- DueNow

\* Seen from the tasks, with_mut is synchronous: the poll it asks for comes
\* before the next step of any task, and with the device up it ends only when
\* nothing is left to send at once, whatever the interrupt, the link task, the
\* TX ring and the two flags do.
ServesPolls == Service!Spec

\* A poll that is owed starts: whatever asked for it, down to an interrupt that
\* is still latched, and whatever holds the core until then.
PollsStart == Phase = "owed" ~> Phase = "polling"
=============================================================================
