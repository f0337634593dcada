# A TLA+ model of the RA6M3 RTIC firmware

The repository is a firmware for one RA6M3 microcontroller: an HTTP server and
an MQTT client over smoltcp, scheduled by RTIC on a single core. The lines that
are hard to get right are few and hard to test on the board: a poller that must
be woken by everybody and keep everybody's deadlines, futures that must not
lose a wake-up to a poller that preempts them, two tasks that close and reuse
their only socket, and a logger that reads a clock init has yet to start. This
directory models those, checks them with TLC, and proves the safety part and
some of the liveness with TLAPS.

## The system

| part | state | operations | correct when |
|---|---|---|---|
| network poller, `network.rs` | `NETWORK_POLL_REQUEST`, `next_poll_at`, the task's pending flag, a delay in the timer queue | `request_network_poll`, `wait_until`, `poll_network` | no request, deadline or frame is forgotten; it goes back to sleep |
| RTIC application, `main.rs` | which contexts run, who holds `net` and `device`; `next` and `i` of the periodic tasks | `init`; tasks of priority 1 (mqtt, http, link poll), 2 (blinky) and 4 (poller, Ethernet interrupt) | two contexts never hold one resource; the periodic tasks do not drift |
| Ethernet glue, `net_ra6m3.rs` | RX and TX rings, latched interrupt, link state | `NetCallback`, called by the interrupt and by `poll_link` | frames and link-ups lead to a poll; the RX ring gets its buffers back |
| TCP socket, `socket.rs` | smoltcp's socket, two waker slots | `read`, `write`, `flush`, `connect`, `accept`, `disconnect`, `close`, `abort`, ... | a task asleep is woken when what it waits for has happened |
| HTTP task, `http.rs`, `http/timer.rs`, picoserve half of `socket.rs` | place in the loop, a timeout | accept, serve, `shutdown` or `abort` | the next accept works; every connection ends |
| MQTT task, `mqtt.rs` | `last_attempt`, `port_shift`, place in the loop, the echo's string | backoff, connect, session, echo, `disconnect` | it reconnects, from a port that has rested; it echoes any text |
| clocks, `mono.rs`, `embassy_time_driver.rs` | two GPT counters, `STARTED` | `start`, `uptime_us`, interrupts of priority 5 | due delays wake their task; nobody reads a clock that does not run |
| logger, panic handler, `log_ra6m3_setup.rs` | - | `log`, `panic` | a panic is reported |
| lock provider, `poll_share.rs`; storage, `socket_storage.rs` | - | `TokenProvider::lock` | each closure is atomic |

How they interact: a task calls its socket inside a lock on `net`
(`with`, `with_mut`); each `with_mut` ends with `request_network_poll`. The
poller, above the tasks, polls smoltcp with `net` and `device` locked, which
moves segments, changes sockets and calls the wakers the tasks left in them.
The interrupt and the link task call the driver, which calls `NetCallback`,
which requests a poll.

What is hard: preemption between any two locks; a flag and a wake-up that are
two steps; values read in one lock and used in the next (`is_up`, `is_open`); a
TX ring that is full; a link that goes away while deadlines are running;
futures dropped by timeouts, whose wakers stay behind; a peer that answers
late, never, or with a reset. PROJECT.json lists these as hazards, at their
lines, with the properties that catch them.

## Modules

`NetPoller` - the poller and all that makes it run. `pc` says where each
context is; a context starts only above the current priority of every started
one and a lock raises the current priority, so that exclusion follows from the
declared priorities and is not built in. `request_network_poll` is two steps
(`RequestStore`, `RequestWake`). `poll_network` is `CheckDown`/`CheckUp`,
`IfacePoll`, `PollAt`, one per lock. What smoltcp wants is abstracted to
`due` (when each socket wants to be polled) and `segs` (what the sockets can
still send); `IfacePoll` says what a poll may do to the rings and to these.
Link changes reset the rings as the driver does.

`TcpSocket` - the smoltcp socket as `socket.rs` sees it: its TCP state, whether
there is a remote endpoint, whether the peer's FIN was received, the two
buffers counted in segments, the waker slots. The network's steps are external;
the calls, `Ready`, `Slot` and `Effect` are `socket.rs`'s.

`SocketFutures` (extends `TcpSocket`) - the abstract specification of a task
that uses the futures: any calls in any order, one future awaited or `read` and
`flush` together, futures dropped at any time. Each `with_mut` is one step;
`disconnect` takes two.

`HttpTask`, `MqttTask` (extend `SocketFutures`) - the two tasks. Each action
is an action of `SocketFutures` together with a step of the task's control, and
that they implement it is a theorem. picoserve and minimq are external: they
read, write and flush and may fail at any moment. The timer of `HttpTask` is off,
set, expired, or seen: a poll of `run_with_timeout` looks at its future first and
at the timer last, so a poll that began after the expiry does not go back to
sleep.

`PollService` - what the poller promises the tasks, in three variables: whether
a poll is owed or running (`phase`), the link, and which sockets smoltcp wants
polled at once. A task steps only while nothing is owed, and a poll with the
device up ends only when nothing is left to send. `NetPoller` implements it:
`phase` is "polling" while the poller's context has started, "owed" from the
moment anything is on its way to ask for a poll (before the flag is stored), and
`ready` is the sockets with `due` 0, smoltcp's PollAt::Now.

`Firmware` (extends `MqttTask`) - `mqtt_task` composed with `PollService`. In
`MqttTask` the network may do anything between two steps; here it moves only in
a poll with the device up, each `with_mut` is followed by a poll, the link
changes only while the task waits (`network_link_poll` has its priority), and a
RST needs an entry in smoltcp's neighbor cache (`known`). It implements both
`MqttTask` and `PollService`.

`Echo` - the message loop inside the session: `from_utf8`, the cut, `push_str`,
`publish`. Of an octet its role in UTF-8 is kept.

`Boot` - `init` step by step with each `expect` that may fail, `STARTED`,
the logger's use of the clock, the panic handler at the priority of what
panicked, and the two periodic tasks, which may be late by any time. The handler
takes no step while a task above it has something to do (`Preempts`): it has no
critical section, and its todo asks what that means for a low-priority panic.
`StopsOnTime` is the answer for blinky, and a critical section is the mutant that
breaks it. `LedTracksTime` says for blinky, across wraps of its counter, what
`NoDrift`, which is proved and not a property of the run, says for both tasks.

`MCNetPoller` gives `NetPoller` its tasks and their symmetry for TLC; the other
modules are run as they are. `*Proofs` hold the theorems.

## Runs

| run | checks | bounds | states |
|---|---|---|---|
| `netpoller_safety` | `Exclusive`, `NoLostPoll`, `DeadlineArmed`, `FramesScheduled`, `PolledOnlyUp`, `WakesOnTime`, `NobodyBlocks`, and that `NetPoller` implements `PollService` (`ServesPolls`) | 2 tasks, rings of 2, 2 ticks per microsecond, 1 microsecond | 401 000 |
| `netpoller_liveness` | `PollsStart`, `RequestServed`, `WorkPolled`; once the line is quiet `PollerYields`, `DueServed` | the same with 1 task | 203 000 |
| `socket_futures` | `NoLostWake`, `ConnectNeverListens` | buffers of 2 segments, with a timeout | 24 000 |
| `http` | `PanicOnlyAfterTimeout`, `AbortNotifiesPeer`, `AcceptedIsConnected`, `ShutdownDelivers`, `ConnectionEnds`, `FlushEnds`, `HandshakeServed`, `AwakeTaskSteps` | buffers of 2 segments, no timeout on the socket | 24 000 |
| `firmware` | `ResetsSent`, `ConnectFindsClosed`, `PortsLinger`, `ConnectEnds`, `FuturesReturn`, `NothingStuck` | buffers of 1, 2 ports, interval 1, 2 time units | 253 000 |
| `echo` | `PublishedIsUtf8`, `PublishedIsEcho` | room for 4 octets, payloads of up to 6 | 313 000 |
| `boot` | `PanicIsReported`, `LedTracksTime`, `StopsOnTime` | period 2, a counter of 8 values, 18 ticks | 513 000 |
| `socket_write`, `http_unwrap`, `firmware_timeout`, `firmware_reconnects`, `echo_cut` | one property each, violated | as small as they go | - |

Every passing run but `netpoller_liveness` also checks its module's type invariant.

`NobodyBlocks`, `AwakeTaskSteps` and `NothingStuck` say that what has to go on can
go on: the step that a fairness condition speaks of is enabled in the states where
the code would take it. They guard against a scheduler or a composition that is
stuck, and against fairness that says nothing, and they are the hypothesis of the
liveness theorems below.

Why the bounds are enough: a ring of two descriptors is empty, partly used or
full; two ticks per microsecond are the least with which a conversion loses
something; one microsecond gives a deadline that is due, one that is ahead and
none; a buffer of two segments is empty, partly filled or full; with two ports
and two intervals the third attempt uses the first port again; a room of four
octets ends at a boundary or inside a character of every width, and payloads go
two octets beyond it; eighteen ticks take the counter past its wrap and leave a
late task several periods to catch up with. The invariants are proved for all
values of the constants besides. Time is cut off at `MaxTime` and `MaxNow`, where
the MQTT task may stay in its backoff, and a panic ends a task or the firmware:
those runs do not check deadlock.

### What the violated properties say

- `http_unwrap` (`AcceptNeverPanics`): `accept(80).await.unwrap()` panics after a `shutdown` whose
  discard (1 s) or last flush (5 s) timed out: the socket is still in FIN-WAIT,
  CLOSING or LAST-ACK, where `listen` returns InvalidState.
  `PanicOnlyAfterTimeout` is the other half: nothing else leads there.
- `firmware_reconnects` (`Reconnects`): `disconnect` looks at `is_open` in one lock and
  registers its waker in another. When a poll closes the socket in between,
  nobody wakes the task, not even the poll that the second lock asks for.
- `echo_cut` (`CutNeverPanics`): the echo is cut after 498 bytes; a longer text with a character
  across that byte makes `&text[..take]` panic. `PublishedIsUtf8` is the other
  half: it panics rather than publish half a character.
- `firmware_timeout` (`TimeoutCloses`): `set_timeout` promises to close a silent socket, but smoltcp
  looks at the timeout only when it is polled, and `poll_network` returns early
  while the device is down. `ConnectEnds` is what is left of the promise.
- `socket_write` (`WriteWaitsForRoom`): "If the socket is not ready to accept data, it
  waits until it is", says `write`'s doc. A `write` of an empty slice is told Ok(0) by
  smoltcp, takes it for a full buffer and waits with room in the buffer. Nothing in the
  repository writes an empty slice; the run does.

Two more places where a doc says more than the code does are stated by passing
properties. `flush` "waits until all data has been sent, and ACKed by the remote
host", but a reset connection counts as flushed: `ShutdownDelivers` has that
exception. `abort` asks its callers to wait for a `flush` before they reuse the
socket, which `mqtt.rs` does not: `ResetsSent` says when the RST goes out all the
same, and with the link down or the neighbor unknown it does not.

### The fixme on long outages

`main.rs:19` says "fixme: if link is down for long, needs reset for ping to work".
The model has outages of any length, and the properties about what follows one hold
and are proved: `FramesScheduled` (after the link-up the RX ring has its buffers and
no frame is left in it), `DeadlineArmed` (the sockets' deadlines are armed again) and
`WorkPolled` (every frame and every deadline leads to a poll). They are about this
repository's side, `NetCallback` and the poller. Of the driver, in ra-fsp-rs, the model
assumes that `poll_link` reports each change, resets both rings when the link comes
up and calls back with `went_up`, and that the hardware then receives again, with an
interrupt per frame; of smoltcp, that it answers what it is given, neighbor lookup
included. So the model neither confirms nor refutes the fixme. If the fault is still
there, it is in one of these assumptions, and the properties say where not to look.

## Fairness

`NetPoller`: the core runs what can run, so a started context takes its steps
(weak fairness; one condition for whichever context is inside a lock, `Locked`,
since there is never more than one); the two contexts of priority 4 start when the context that runs
is below 4, which it is again and again (strong fairness; the interrupt
controller is stricter). Time passes, the monotonic wakes due delays, and the
DMA finishes the descriptors it owns. `PollerYields` and `DueServed` assume that
from some instant on no frame arrives: under a flood the poller, which has the
top priority, may stay busy. Nothing is assumed of the cable.

`HttpTask`: the executor polls a task that is awake, and a set timer expires.
`ConnectionEnds` assumes that the peer does not send for ever.

`Firmware`: a poll that is owed starts (weak fairness; `PollsStart`, proved of
`NetPoller`); a poll serves a socket that is ready, and with the device up a
deadline leads to a poll (weak fairness; `WorkPolled`, proved of `NetPoller`, with
no assumption on the line); polls end, and the core comes back to the task, which
polls keep interrupting (strong fairness; `PollerYields` is where it comes from); a
handshake nobody answers is polled once more when its timeout is over (strong
fairness, since it can be only while a poll runs). Nothing is assumed of the
broker, the cable or the neighbor cache.

`FuturesReturn` leaves out two futures. `disconnect` may sleep for ever, which
`firmware_reconnects` shows. A `flush` that is about to return may find that the
socket has timed out in the meantime and has a RST to send, which waits for the
neighbor.

## Proofs

| theorem | of | argument |
|---|---|---|
| `LocksExclude`, `RequestsNotLost` | `NetPoller` | `Sched`: at most one context is inside a lock or of priority 4, so a request cannot fall between the poller's test and its sleep |
| `PolledUp` | `NetPoller` | the link task cannot start while the poller runs |
| `DeadlinesKept` | `NetPoller` | `Deadline` (a deadline earlier than `next_poll_at` has a request coming) and `Timer` (a sleeping poller has its delay in the queue or was woken) |
| `PollsAreDue` | `NetPoller` | `Earned`: `next_poll_at` is none or a socket's present deadline unless a request is on its way; `ComeInMicros`: a deadline that has come in ticks has come in microseconds rounded down |
| `FramesNotStranded` | `NetPoller` | `RxArmed` and `FrameKnown`: an event, a callback, a request or a busy descriptor knows of each frame |
| `WakeupsNotLost` | `SocketFutures` | `Registered`: a pending future's waker is in its slot and the future is not ready, or the task was woken |
| `UnreachableIsUnreachable` | `SocketFutures` | `NotListening`: a connecting socket has no listen endpoint to go back to |
| `HttpImplementsFutures`, `MqttImplementsFutures` | the tasks | refinement, each step by its definition; `NoLostWake` carries over |
| `AbortReachesPeer`, `PanicNeedsTimeout`, `ShutdownIsDelivery` | `HttpTask` | `ClosedEnough`: how far the socket is closed at each place; `FinKnown`: a socket past the peer's FIN remembers it |
| `AcceptHandsOverConnections` | `HttpTask` | `AcceptWaits`; assumes that no timeout is set on the socket, as in `http.rs` |
| `ConnectMayConnect` | `MqttTask` | the network opens no closed socket |
| `PortsRest` | `MqttTask` | `PortAges`: a port was used one interval before each attempt made since |
| `PollerServes`, `TasksServed` | `NetPoller` | refinement of `PollService`; needs `RunsIdle` (a task runs only when nothing is owed) and `SleepsServed` (a poller that sleeps with the device up has left no socket due at once, or a poll is owed) |
| `FirmwareImplementsMqtt`, `FirmwareUsesService` | `Firmware` | refinement, each step by its definition; what is proved of `MqttTask` carries over |
| `NobodyWaits` | `NetPoller` | the guards of `NobodyBlocks` without ENABLED: a started poller and whoever is inside a lock have the core, and with neither there the contexts of priority 4 may start |
| `ResetsReachTheWire` | `Firmware` | `Wanted` (a RST that can be sent is wanted at once) and `PollService`'s `Served` |
| `EchoIsUtf8`, `EchoIsComplete` | `Echo` | `CutIsUtf8`: a prefix that ends at a character boundary is UTF-8, since no first octet's announced octets reach across it; `TakeFits`: `push_str` cannot fail |
| `PanicsAreReported` | `Boot` | `ClockInv`: where `init` is tells whether the monotonic runs, and `STARTED` is set only behind it |
| `PeriodsKept`, `LedKeepsPhase` | `Boot` | `OnGrid(k)`: `next` is k periods after the first, `i` and k agree modulo 8, which the wrap keeps because the width is a multiple of 8 |
| `PanicSparesBlinky` (`StopsOnTime`) | `Boot` | `HandlerInv`: once `init` is done only priority 1 panics, so blinky preempts the handler and is not late when it runs; then `LedKeepsPhase` |

and type correctness of every module. They rest on the named ASSUMEs only: the
rings, buffers and ports are not empty, task names differ from the three fixed
contexts, the greeting fits the string, the counter's width is a multiple of 8. The strengthenings were checked with TLC before they
were proved.

Liveness. ENABLED is beyond the prover, but a leads-to can be derived from
fairness once it is known that the fair step is enabled where it is needed. That
is the one hypothesis of these theorems beside the fair specification, an
invariant that TLC checks on the instance of its run; the rest of the argument,
what each step does and where it leads, holds for all values of the constants.

| theorem | from | argument |
|---|---|---|
| `OwedPollsStart` (`PollsStart`) | `FairSpec`, `NobodyBlocks` | a latched interrupt becomes a callback, a callback a request, a request a wake-up (`LockSteps`); whatever holds a lock leaves it, so the woken poller may start again and again |
| `RequestsAreServed` (`RequestServed`) | `FairSpec`, `NobodyBlocks` | a sleeping poller that is asked starts (`NoLostPoll`, `OwedPollsStart`); a started one comes round its loop to the swap (`LoopRuns`) |
| `WorkIsPolled` (`WorkPolled`) | `FairSpec`, `NobodyBlocks` | a request leads to the check of the link and to the poll (`AskedIsPolled`); a frame has its request, its interrupt, or a transmission whose interrupt will do (`FrameKnown`, `SignalledIsPolled`, `SendingIsPolled`); for a deadline a sleeping poller has its delay over and in the queue and a started one does not go to sleep (`Deadline`, `Timer`, `LateGoesOn`) |
| `HandshakesAreServed` (`HandshakeServed`) | `HttpFairSpec`, `AwakeTaskSteps` | what accept waits for stays true until it returns (`MetStays`), and `NoLostWake` has woken the task |
| `FlushesEnd` (`FlushEnds`) | `HttpFairSpec`, `AwakeTaskSteps` | the timer is set, expires and wakes the task; the poll that sees it returns |
| `FuturesDoReturn` (`FuturesReturn`) | `FirmwareFairSpec`, `NothingStuck` | `Waits`: the task waits for one future, that of its place, and a session has a connection past its handshake; then what a connect, a read or a write waits for does not go away again (`NetworkSettles`), `NoLostWake` has woken the task, and the core comes back to it (`TaskRuns`) until it has returned (`MetSteps`) |
| `AttemptsEnd` (`ConnectEnds`) | `FirmwareFairSpec`, `NothingStuck`, a timeout on the socket | with the link up the service polls again and again, so the handshake is decided or given up; then connect returns (`FuturesReturn`) |

Only model-checked: that the fair steps are enabled (the three invariants just
named; of `NobodyBlocks` the scheduling is proved, `NobodyWaits`); and `ConnectionEnds`, `PollerYields` and `DueServed`, which need a number
that goes down (octets left to discard, segments left to send, time left to a
deadline), that is, induction over a temporal formula.

## Abstractions

- smoltcp, picoserve, minimq, rtic and the driver are not in the repository;
  they are modelled from how it uses them. Of smoltcp the models assume: a
  change of state wakes both slots, received octets the receive slot and
  acknowledged ones or a sent RST the send slot; a waker is used once; `listen`
  and `connect` reset the socket; a device gives a token only while a TX
  descriptor is free.
- Larger than the code: tasks start at any moment; a timer that is set may
  expire at once; a session may fail at any moment; transmissions complete
  while the link is down.
- Smaller: octets are segments, but in `Echo`; addresses and ports of the peer
  are not there; the periodic tasks of `Boot` share one period, as in the code.
- One socket per model: the two sockets share nothing but the poller, which
  `NetPoller` models with both, and `PollService` hides from each task.
- `connect`'s Err(NoRoute) has no step: the addresses and ports are fixed by the
  build, and taken to be ones smoltcp can connect. Err(InvalidState) has none because
  `ConnectFindsClosed` holds. `set_timeout` and `set_keep_alive`, two locks in a row, are
  one step with the port's choice: only a poll reads what they set, and the poll that
  follows may do all that one in between could.
- A bkpt stops the core; what a debugger does with it is left out.

## Not modelled

- The TLS transport: behind a feature, a wrapper that forwards to embedded-tls;
  with it `mqtt.rs` calls a `disconnect` that the wrapper does not have.
- The pin table, a constant; build-time configuration; `util.rs`, which nothing
  calls; `idle`, which sleeps.
- What the logger prints: output to RTT.
- The RefCell of `poll_share.rs`, which panics when a closure given to `lock`
  locks again: no closure does, and each is one step of the models.
- The 64-bit extension of the GPT counters, in ra-fsp-rs.
- A peer that vanishes in the middle of a handshake keeps `accept` waiting, since
  smoltcp repeats its SYN-ACK with no limit and `http` sets no timeout (the todo
  at `http.rs:14`): there is nothing to check until it does. With the timeout
  alone `AcceptedIsConnected` breaks, which is that property's mutant.

## Plan

1. Done: `NetPoller`, `TcpSocket`, `SocketFutures`, the two tasks; `PollService`
   and the refinement; `Firmware`; `Echo`; `Boot`; their runs and proofs;
   the liveness that needs no induction.
2. `http_task` on top of `PollService`, as `Firmware` does for `mqtt_task`, and both
   sockets in one composition.
3. Several requests on one HTTP connection, and what `accept` has to check once
   its socket has a timeout.
