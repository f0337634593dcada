-------------------------- MODULE NetPollerProofs --------------------------
(***************************************************************************)
(* The safety properties of NetPoller hold for any number of tasks, any    *)
(* ring sizes, any clock rate and any bound on time.                       *)
(*                                                                         *)
(* Each invariant is strengthened to one that a single step preserves:     *)
(*   Sched      what the priorities allow to be started at the same time;  *)
(*   Deadline   the poller's instant is early enough unless a poll is      *)
(*              already asked for;                                         *)
(*   Timer      a sleeping poller with an instant is in the timer queue;   *)
(*   RxArmed    a ring without buffers is on its way to getting them back; *)
(*   FrameKnown a frame in the ring is known to some context.              *)
(***************************************************************************)
EXTENDS NetPoller, TLAPS

High == {poller, isr}

Sched ==
    /\ \A c, d \in Contexts :
          Priority(c) = Priority(d) /\ pc[c] # "off" /\ pc[d] # "off" => c = d
    /\ \A h \in High, l \in Contexts \ High : pc[h] # "off" => ~InLock(l)

\* A poll is asked for, or the context that runs is about to ask.
Coming ==
    \/ request
    \/ \E c \in Contexts : pc[c] = "store"
    \/ pc[link] = "callback" /\ cause[link] # {}

Deadline ==
    up /\ pc[poller] \in {"off", "await"} /\ ~Coming =>
        \A t \in Tasks : due[t] # Never => next_poll_at <= InstantOf(due[t])

Timer == pc[poller] = "off" /\ next_poll_at # InstantOf(Never) => armed \/ woken

RxArmed == ~rx_ready => pc[link] = "callback"

FrameKnown ==
    up /\ rx_queued > 0 /\ pc[poller] \in {"off", "await", "poll_at"} =>
        \/ request
        \/ irq # {}
        \/ tx_busy > 0
        \/ pc[isr] = "callback" /\ cause[isr] # {}
        \/ \E c \in Contexts : pc[c] = "store"

-----------------------------------------------------------------------------
(***************************************************************************)
(* Facts about the constants and the conversion from microseconds.         *)
(***************************************************************************)

\* The contexts main.rs names are distinct from one another and the tasks.
LEMMA ContextsDistinct ==
    /\ poller \in Contexts /\ isr \in Contexts /\ link \in Contexts
    /\ Tasks \subseteq Contexts
    /\ poller # isr /\ poller # link /\ isr # link
    /\ poller \notin Tasks /\ isr \notin Tasks /\ link \notin Tasks
BY TasksAssumption DEF Contexts, poller, isr, link

\* Never lies after every modelled instant.
LEMMA NeverType == Never \in Nat /\ MaxTime < Never
BY TimeAssumption DEF Never

\* The conversion from microseconds to ticks at the end of poll_network keeps
\* order strictly and stays in range, so None is confused with no instant.
LEMMA InstantOfOrder ==
    ASSUME NEW a \in Nat, NEW b \in Nat
    PROVE  /\ InstantOf(a) \in Nat
           /\ a <= b => InstantOf(a) <= InstantOf(b)
           /\ a < b => InstantOf(a) < InstantOf(b)
<1>1. PICK k \in Nat \ {0} : k = TicksPerMicro
    BY TimeAssumption
<1>2. a * k \in Nat /\ b * k \in Nat
    BY <1>1
<1>3. a <= b => a * k <= b * k
    <2> SUFFICES ASSUME a <= b PROVE a * k <= b * k
        OBVIOUS
    <2>1. PICK n \in Nat : b = a + n
        BY b - a \in Nat /\ b = a + (b - a)
    <2>2. b * k = a * k + n * k /\ n * k \in Nat
        BY <2>1, <1>1
    <2> QED
        BY <2>2, <1>2
<1>4. a < b => a * k < b * k
    <2> SUFFICES ASSUME a < b PROVE a * k < b * k
        OBVIOUS
    <2>1. PICK n \in Nat : b = a + 1 + n
        BY b - a - 1 \in Nat /\ b = a + 1 + (b - a - 1)
    <2>2. b * k = a * k + k + n * k /\ n * k \in Nat
        BY <2>1, <1>1
    <2> QED
        BY <2>2, <1>1, <1>2
<1> QED
    BY <1>1, <1>2, <1>3, <1>4 DEF InstantOf

-----------------------------------------------------------------------------
(***************************************************************************)
(* Type correctness.                                                       *)
(***************************************************************************)
LEMMA TypeInit == Init => TypeOK
<1> SUFFICES ASSUME Init PROVE TypeOK
    OBVIOUS
<1>1. InstantOf(Never) \in Nat /\ InstantOf(MaxTime) \in Nat /\ Never \in Nat
    BY InstantOfOrder, NeverType, TimeAssumption
<1>2. /\ pc \in [Contexts -> TaskPlaces \cup DriverPlaces \cup PollerPlaces]
      /\ pc[poller] \in PollerPlaces
      /\ pc[isr] \in DriverPlaces \ {"run"}
      /\ pc[link] \in DriverPlaces
      /\ \A t \in Tasks : pc[t] \in TaskPlaces
    BY ContextsDistinct DEF Init, TaskPlaces, DriverPlaces, PollerPlaces
<1>3. cause \in [{isr, link} -> SUBSET {"receive", "transmits", "went_up"}]
    BY DEF Init
<1>4. due \in [Tasks -> 0..Never]
    BY <1>1 DEF Init
<1>5. /\ request \in BOOLEAN /\ woken \in BOOLEAN /\ armed \in BOOLEAN
      /\ up \in BOOLEAN /\ phy \in BOOLEAN /\ rx_ready \in BOOLEAN
    BY DEF Init
<1>6. /\ next_poll_at \in 0..InstantOf(Never) /\ now \in 0..InstantOf(MaxTime)
      /\ segs \in 0..MaxSegs /\ rx_queued \in 0..NRx /\ tx_busy \in 0..NTx
    BY <1>1, RingAssumption, SegsAssumption DEF Init
<1>7. irq \in SUBSET {"receive", "transmits"}
    BY DEF Init
<1> QED
    BY <1>2, <1>3, <1>4, <1>5, <1>6, <1>7 DEF TypeOK

\* The inductive step of type correctness.
LEMMA TypeNext == TypeOK /\ [Next]_vars => TypeOK'
<1> SUFFICES ASSUME TypeOK, [Next]_vars PROVE TypeOK'
    OBVIOUS
<1>n. /\ InstantOf(Never) \in Nat /\ InstantOf(MaxTime) \in Nat
      /\ InstantOf(MaxTime) < InstantOf(Never)
      /\ Never \in Nat /\ NTx \in Nat /\ NRx \in Nat /\ MaxSegs \in Nat
      /\ Never' = Never /\ InstantOf(Never)' = InstantOf(Never)
      /\ InstantOf(MaxTime)' = InstantOf(MaxTime)
    BY InstantOfOrder, NeverType, TimeAssumption, RingAssumption, SegsAssumption
    DEF Never, InstantOf
<1> USE ContextsDistinct
    DEF TypeOK, TaskPlaces, DriverPlaces, PollerPlaces, Goto
<1>1. ASSUME NEW c \in (Tasks \cup {isr, link}), RequestStore(c) PROVE TypeOK'
    BY <1>1, <1>n DEF RequestStore
<1>2. ASSUME NEW c \in (Tasks \cup {isr, link}), RequestWake(c) PROVE TypeOK'
    BY <1>2, <1>n DEF RequestWake
<1>3. ASSUME NEW t \in Tasks, TaskStart(t) PROVE TypeOK'
    BY <1>3, <1>n DEF TaskStart
<1>4. ASSUME NEW t \in Tasks, WithMut(t) PROVE TypeOK'
    BY <1>4, <1>n DEF WithMut
<1>5. ASSUME NEW t \in Tasks, TaskPending(t) PROVE TypeOK'
    BY <1>5, <1>n DEF TaskPending
<1>6. CASE EthernetIsr
    BY <1>6, <1>n DEF EthernetIsr
<1>7. CASE LinkStart
    BY <1>7, <1>n DEF LinkStart
<1>8. CASE LinkSame
    BY <1>8, <1>n DEF LinkSame
<1>9. CASE LinkChanged
    <2>1. up' \in BOOLEAN /\ rx_ready' \in BOOLEAN
        BY <1>9, Zenon DEF LinkChanged
    <2>2. cause' \in [{isr, link} -> SUBSET {"receive", "transmits", "went_up"}]
        BY <1>9 DEF LinkChanged
    <2>3. rx_queued' \in 0..NRx /\ tx_busy' \in 0..NTx
        BY <1>9, <1>n DEF LinkChanged
    <2> QED
        BY <1>9, <1>n, <2>1, <2>2, <2>3 DEF LinkChanged
<1>10. ASSUME NEW c \in {isr, link}, Callback(c) PROVE TypeOK'
    BY <1>10, <1>n DEF Callback
<1>11. CASE PollerStart
    BY <1>11, <1>n DEF PollerStart
<1>12. CASE AwaitRequested
    BY <1>12, <1>n DEF AwaitRequested
<1>13. CASE AwaitElapsed
    <2>1. next_poll_at' = InstantOf(Never)
        BY <1>13, Zenon DEF AwaitElapsed
    <2>2. next_poll_at' \in 0..InstantOf(Never)
        BY <2>1, <1>n
    <2> QED
        BY <1>13, <1>n, <2>2 DEF AwaitElapsed
<1>14. CASE AwaitPending
    BY <1>14, <1>n DEF AwaitPending
<1>15. CASE CheckDown
    BY <1>15, <1>n DEF CheckDown
<1>16. CASE CheckUp
    BY <1>16, <1>n DEF CheckUp
<1>17. CASE IfacePoll
    BY <1>17, <1>n DEF IfacePoll
<1>18. CASE PollAt
    BY <1>18, <1>n, InstantOfOrder DEF PollAt
<1>19. CASE Tick
    BY <1>19, <1>n DEF Tick
<1>20. CASE DelayElapsed
    BY <1>20, <1>n DEF DelayElapsed
<1>21. CASE FrameReceived
    BY <1>21, <1>n DEF FrameReceived
<1>22. CASE TxComplete
    BY <1>22, <1>n DEF TxComplete
<1>23. CASE Cable
    BY <1>23, <1>n DEF Cable
<1>24. CASE UNCHANGED vars
    BY <1>24, <1>n DEF vars
<1> QED
    BY <1>1, <1>2, <1>3, <1>4, <1>5, <1>6, <1>7, <1>8, <1>9, <1>10, <1>11, <1>12,
       <1>13, <1>14, <1>15, <1>16, <1>17, <1>18, <1>19, <1>20, <1>21, <1>22, <1>23,
       <1>24
    DEF Next, Poller, Driver, Hardware, Task

\* Every reachable state is well typed; in particular neither Ethernet ring
\* ever holds more than its descriptors and the poller's instant is in range.
THEOREM TypeCorrect == Spec => []TypeOK
<1> QED
    BY TypeInit, TypeNext, PTL DEF Spec

-----------------------------------------------------------------------------
(***************************************************************************)
(* Scheduling: what the priorities and the ceilings imply for the context  *)
(* that starts or runs.                                                    *)
(***************************************************************************)

\* A task, or the link task, running outside a lock has the core to itself.
LEMMA LowOnCpu ==
    ASSUME TypeOK, NEW l \in Contexts \ High, OnCpu(l), ~InLock(l)
    PROVE  pc[poller] = "off" /\ pc[isr] = "off"
BY ContextsDistinct DEF OnCpu, CurrentPriority, Priority, InLock, Ceiling, High

\* When a context of priority 4 starts, no other is started and no lock is held.
LEMMA HighStart ==
    ASSUME TypeOK, NEW h \in High, MayStart(h)
    PROVE  /\ pc[poller] = "off" /\ pc[isr] = "off"
           /\ \A l \in Contexts : ~InLock(l)
<1>1. \A d \in Contexts : pc[d] # "off" => CurrentPriority(d) < 4
    BY DEF MayStart, Priority, High
<1>2. h \in Contexts /\ Priority(poller) = 4 /\ Priority(isr) = 4
    BY ContextsDistinct DEF High, Priority
<1>3. \A l \in Contexts : ~InLock(l)
    BY <1>1 DEF CurrentPriority, Ceiling, InLock
<1>4. pc[poller] = "off" /\ pc[isr] = "off"
    BY <1>1, <1>2, <1>3, ContextsDistinct DEF CurrentPriority
<1> QED
    BY <1>3, <1>4

\* When a context of priority 1 starts, nothing at all is started.
LEMMA LowStart ==
    ASSUME TypeOK, NEW l \in Contexts \ High, MayStart(l)
    PROVE  \A d \in Contexts : pc[d] = "off"
BY DEF MayStart, Priority, CurrentPriority, High, Ceiling

\* A step that moves one context keeps Sched if a context only starts when it
\* may and enters a lock only while it runs.
LEMMA SchedStep ==
    ASSUME TypeOK, Sched, NEW x \in Contexts, NEW w, Goto(x, w),
           pc[x] # "off" \/ MayStart(x) \/ w = "off",
           x \notin High /\ w \in {"callback", "store", "wake"} =>
               InLock(x) \/ OnCpu(x)
    PROVE  Sched'
<1> USE ContextsDistinct
<1>1. pc' = [pc EXCEPT ![x] = w] /\ DOMAIN pc = Contexts
    BY DEF Goto, TypeOK
<1>2. pc'[x] = w /\ \A y \in Contexts : y # x => pc'[y] = pc[y]
    BY <1>1
<1>3. ASSUME NEW c \in Contexts, NEW d \in Contexts,
             Priority(c) = Priority(d), pc'[c] # "off", pc'[d] # "off", c # d
      PROVE  FALSE
    <2>1. \A y \in Contexts : y # x /\ Priority(y) = Priority(x) =>
              pc[y] = "off" \/ w = "off"
        <3>1. CASE pc[x] # "off"
            BY <3>1 DEF Sched
        <3>2. CASE MayStart(x)
            <4>1. CASE x \in High
                BY <3>2, <4>1, HighStart DEF Priority, High
            <4>2. CASE x \notin High
                BY <3>2, <4>2, LowStart
            <4> QED
                BY <4>1, <4>2
        <3> QED
            BY <3>1, <3>2
    <2>2. CASE c # x /\ d # x
        BY <2>2, <1>2, <1>3 DEF Sched
    <2>3. CASE c = x \/ d = x
        BY <2>1, <2>3, <1>2, <1>3
    <2> QED
        BY <2>2, <2>3
<1>4. ASSUME NEW h \in High, NEW l \in Contexts \ High, pc'[h] # "off", InLock(l)'
      PROVE  FALSE
    <2>0. pc'[l] \in {"callback", "store", "wake"} /\ h \in Contexts
        BY <1>4 DEF InLock, High
    <2>1. CASE h = x
        BY <2>1, <1>2, <1>4, <2>0, HighStart DEF Sched, InLock, High
    <2>2. CASE l = x
        <3>1. pc[h] # "off"
            BY <2>2, <1>2, <1>4, <2>0
        <3>2. CASE InLock(x)
            BY <2>2, <3>1, <3>2 DEF Sched
        <3>3. CASE OnCpu(x) /\ ~InLock(x)
            BY <2>2, <3>1, <3>3, LowOnCpu DEF High
        <3> QED
            BY <1>2, <2>0, <2>2, <3>2, <3>3
    <2>3. CASE h # x /\ l # x
        BY <2>3, <1>2, <1>4, <2>0 DEF Sched, InLock
    <2> QED
        BY <2>1, <2>2, <2>3
<1> QED
    BY <1>3, <1>4 DEF Sched, Priority

\* The inductive step: no action breaks the priorities or loses a request.
LEMMA SchedNext == TypeOK /\ Sched /\ [Next]_vars => Sched'
<1> SUFFICES ASSUME TypeOK, Sched, [Next]_vars PROVE Sched'
    OBVIOUS
<1> USE ContextsDistinct DEF High
<1>1. ASSUME NEW c \in (Tasks \cup {isr, link}), RequestStore(c) PROVE Sched'
    BY <1>1, SchedStep DEF RequestStore
<1>2. ASSUME NEW c \in (Tasks \cup {isr, link}), RequestWake(c) PROVE Sched'
    BY <1>2, SchedStep DEF RequestWake
<1>3. ASSUME NEW t \in Tasks, TaskStart(t) PROVE Sched'
    BY <1>3, SchedStep DEF TaskStart
<1>4. ASSUME NEW t \in Tasks, WithMut(t) PROVE Sched'
    BY <1>4, SchedStep DEF WithMut
<1>5. ASSUME NEW t \in Tasks, TaskPending(t) PROVE Sched'
    BY <1>5, SchedStep DEF TaskPending
<1>6. CASE EthernetIsr
    BY <1>6, SchedStep DEF EthernetIsr
<1>7. CASE LinkStart
    BY <1>7, SchedStep DEF LinkStart
<1>8. CASE LinkSame
    BY <1>8, SchedStep DEF LinkSame
<1>9. CASE LinkChanged
    BY <1>9, SchedStep DEF LinkChanged
<1>10. ASSUME NEW c \in {isr, link}, Callback(c) PROVE Sched'
    BY <1>10, SchedStep DEF Callback
<1>11. CASE PollerStart
    BY <1>11, SchedStep DEF PollerStart
<1>12. CASE AwaitRequested
    BY <1>12, SchedStep DEF AwaitRequested
<1>13. CASE AwaitElapsed
    BY <1>13, SchedStep DEF AwaitElapsed
<1>14. CASE AwaitPending
    BY <1>14, SchedStep DEF AwaitPending
<1>15. CASE CheckDown
    BY <1>15, SchedStep DEF CheckDown
<1>16. CASE CheckUp
    BY <1>16, SchedStep DEF CheckUp
<1>17. CASE IfacePoll
    BY <1>17, SchedStep DEF IfacePoll
<1>18. CASE PollAt
    BY <1>18, SchedStep DEF PollAt
<1>19. CASE UNCHANGED pc
    BY <1>19 DEF Sched, InLock, Priority
<1> QED
    BY <1>1, <1>2, <1>3, <1>4, <1>5, <1>6, <1>7, <1>8, <1>9, <1>10, <1>11, <1>12,
       <1>13, <1>14, <1>15, <1>16, <1>17, <1>18, <1>19
    DEF Next, Poller, Driver, Hardware, Task, Tick, DelayElapsed, FrameReceived,
        TxComplete, Cable, vars

\* The priorities main.rs declares are enough for the locks on net and on
\* device to exclude one another without ever blocking.
THEOREM LocksExclude == Spec => []Exclusive
<1>1. Init => Sched
    BY DEF Init, Sched, InLock, High, Contexts
<1>2. TypeOK /\ Sched => Exclusive
    BY ContextsDistinct
    DEF Sched, Exclusive, HoldsNet, HoldsDevice, Priority, InLock, High, Contexts
<1> QED
    BY <1>1, <1>2, SchedNext, TypeCorrect, PTL DEF Spec

-----------------------------------------------------------------------------
(***************************************************************************)
(* Requests: the flag and the wake-up are two steps of the requester.      *)
(***************************************************************************)
LEMMA NoLostPollNext == TypeOK /\ NoLostPoll /\ [Next]_vars => NoLostPoll'
<1> SUFFICES ASSUME TypeOK, NoLostPoll, [Next]_vars PROVE NoLostPoll'
    OBVIOUS
<1> USE ContextsDistinct DEF NoLostPoll
<1>w. ASSUME NEW x \in Contexts, NEW w, Goto(x, w), pc[x] # "wake"
      PROVE  /\ \A c \in Contexts : pc[c] = "wake" => pc'[c] = "wake"
             /\ pc'[x] = w
             /\ x # poller => pc'[poller] = pc[poller]
    BY <1>w DEF TypeOK, Goto
<1>1. ASSUME NEW c \in (Tasks \cup {isr, link}), RequestStore(c) PROVE NoLostPoll'
    BY <1>1, <1>w DEF RequestStore
<1>2. ASSUME NEW c \in (Tasks \cup {isr, link}), RequestWake(c) PROVE NoLostPoll'
    BY <1>2, <1>w DEF RequestWake
<1>3. ASSUME NEW t \in Tasks, TaskStart(t) PROVE NoLostPoll'
    BY <1>3, <1>w DEF TaskStart, MayStart
<1>4. ASSUME NEW t \in Tasks, WithMut(t) PROVE NoLostPoll'
    BY <1>4, <1>w DEF WithMut
<1>5. ASSUME NEW t \in Tasks, TaskPending(t) PROVE NoLostPoll'
    BY <1>5, <1>w DEF TaskPending
<1>6. CASE EthernetIsr
    BY <1>6, <1>w DEF EthernetIsr, MayStart
<1>7. CASE LinkStart
    BY <1>7, <1>w DEF LinkStart, MayStart
<1>8. CASE LinkSame
    BY <1>8, <1>w DEF LinkSame
<1>9. CASE LinkChanged
    BY <1>9, <1>w DEF LinkChanged
<1>10. ASSUME NEW c \in {isr, link}, Callback(c) PROVE NoLostPoll'
    BY <1>10, <1>w DEF Callback
<1>11. CASE PollerStart
    BY <1>11, <1>w DEF PollerStart, MayStart
<1>12. CASE AwaitRequested
    BY <1>12, <1>w DEF AwaitRequested
<1>13. CASE AwaitElapsed
    BY <1>13, <1>w DEF AwaitElapsed
<1>14. CASE AwaitPending
    BY <1>14, <1>w DEF AwaitPending
<1>15. CASE CheckDown
    BY <1>15, <1>w DEF CheckDown
<1>16. CASE CheckUp
    BY <1>16, <1>w DEF CheckUp
<1>17. CASE IfacePoll
    BY <1>17, <1>w DEF IfacePoll
<1>18. CASE PollAt
    BY <1>18, <1>w DEF PollAt
<1>19. CASE Tick
    BY <1>19 DEF Tick
<1>20. CASE DelayElapsed
    BY <1>20 DEF DelayElapsed
<1>21. CASE FrameReceived
    BY <1>21 DEF FrameReceived
<1>22. CASE TxComplete
    BY <1>22 DEF TxComplete
<1>23. CASE Cable
    BY <1>23 DEF Cable
<1>24. CASE UNCHANGED vars
    BY <1>24 DEF vars
<1> QED
    BY <1>1, <1>2, <1>3, <1>4, <1>5, <1>6, <1>7, <1>8, <1>9, <1>10, <1>11, <1>12,
       <1>13, <1>14, <1>15, <1>16, <1>17, <1>18, <1>19, <1>20, <1>21, <1>22, <1>23,
       <1>24
    DEF Next, Poller, Driver, Hardware, Task

\* A request for a poll that the sleeping poller has not seen is followed by a
\* wake-up, whatever preempts request_network_poll between its two halves.
THEOREM RequestsNotLost == Spec => []NoLostPoll
<1>1. Init => NoLostPoll
    BY DEF Init, NoLostPoll
<1> QED
    BY <1>1, NoLostPollNext, TypeCorrect, PTL DEF Spec

-----------------------------------------------------------------------------
(***************************************************************************)
(* The link: only the link task changes it, and it cannot run while the    *)
(* poller does.                                                            *)
(***************************************************************************)
LEMMA LinkChangedAlone ==
    ASSUME TypeOK, LinkChanged
    PROVE  pc[poller] = "off" /\ pc[isr] = "off"
BY LowOnCpu, ContextsDistinct DEF LinkChanged, InLock, High

\* The inductive step: the link task cannot run between the two locks.
LEMMA PolledOnlyUpNext == TypeOK /\ PolledOnlyUp /\ [Next]_vars => PolledOnlyUp'
<1> SUFFICES ASSUME TypeOK, PolledOnlyUp, [Next]_vars PROVE PolledOnlyUp'
    OBVIOUS
<1> USE ContextsDistinct DEF PolledOnlyUp, TypeOK, Goto
<1>1. ASSUME NEW c \in (Tasks \cup {isr, link}), RequestStore(c) PROVE PolledOnlyUp'
    BY <1>1 DEF RequestStore
<1>2. ASSUME NEW c \in (Tasks \cup {isr, link}), RequestWake(c) PROVE PolledOnlyUp'
    BY <1>2 DEF RequestWake
<1>3. ASSUME NEW t \in Tasks, TaskStart(t) PROVE PolledOnlyUp'
    BY <1>3 DEF TaskStart
<1>4. ASSUME NEW t \in Tasks, WithMut(t) PROVE PolledOnlyUp'
    BY <1>4 DEF WithMut
<1>5. ASSUME NEW t \in Tasks, TaskPending(t) PROVE PolledOnlyUp'
    BY <1>5 DEF TaskPending
<1>6. CASE EthernetIsr
    BY <1>6 DEF EthernetIsr
<1>7. CASE LinkStart
    BY <1>7 DEF LinkStart
<1>8. CASE LinkSame
    BY <1>8 DEF LinkSame
<1>9. CASE LinkChanged
    BY <1>9, LinkChangedAlone DEF LinkChanged
<1>10. ASSUME NEW c \in {isr, link}, Callback(c) PROVE PolledOnlyUp'
    BY <1>10 DEF Callback
<1>11. CASE PollerStart
    BY <1>11 DEF PollerStart
<1>12. CASE AwaitRequested
    BY <1>12 DEF AwaitRequested
<1>13. CASE AwaitElapsed
    BY <1>13 DEF AwaitElapsed
<1>14. CASE AwaitPending
    BY <1>14 DEF AwaitPending
<1>15. CASE CheckDown
    BY <1>15 DEF CheckDown
<1>16. CASE CheckUp
    BY <1>16 DEF CheckUp
<1>17. CASE IfacePoll
    BY <1>17 DEF IfacePoll
<1>18. CASE PollAt
    BY <1>18 DEF PollAt
<1>19. CASE Tick
    BY <1>19 DEF Tick
<1>20. CASE DelayElapsed
    BY <1>20 DEF DelayElapsed
<1>21. CASE FrameReceived
    BY <1>21 DEF FrameReceived
<1>22. CASE TxComplete
    BY <1>22 DEF TxComplete
<1>23. CASE Cable
    BY <1>23 DEF Cable
<1>24. CASE UNCHANGED vars
    BY <1>24 DEF vars
<1> QED
    BY <1>1, <1>2, <1>3, <1>4, <1>5, <1>6, <1>7, <1>8, <1>9, <1>10, <1>11, <1>12,
       <1>13, <1>14, <1>15, <1>16, <1>17, <1>18, <1>19, <1>20, <1>21, <1>22, <1>23,
       <1>24
    DEF Next, Poller, Driver, Hardware, Task

\* What poll_network learnt in its first lock still holds in the next two.
THEOREM PolledUp == Spec => []PolledOnlyUp
<1>1. Init => PolledOnlyUp
    BY ContextsDistinct DEF Init, PolledOnlyUp
<1> QED
    BY <1>1, PolledOnlyUpNext, TypeCorrect, PTL DEF Spec

-----------------------------------------------------------------------------
(***************************************************************************)
(* Deadlines.                                                              *)
(***************************************************************************)

\* A step moves one context and leaves the others where they are.
LEMMA Moved ==
    ASSUME TypeOK, NEW x \in Contexts, NEW w, Goto(x, w)
    PROVE  pc'[x] = w /\ \A y \in Contexts : y # x => pc'[y] = pc[y]
BY DEF TypeOK, Goto

\* The inductive step: a deadline is kept or a poll is on its way.
LEMMA DeadlineNext == TypeOK /\ Deadline /\ [Next]_vars => Deadline'
<1> SUFFICES ASSUME TypeOK, Deadline, [Next]_vars PROVE Deadline'
    OBVIOUS
<1> USE ContextsDistinct
<1>k. ASSUME NEW x \in Contexts, NEW w, Goto(x, w), UNCHANGED << request, cause >>,
             pc[x] \notin {"store", "callback"}
      PROVE  Coming => Coming'
    <2>1. CASE request
        BY <1>k, <2>1 DEF Coming
    <2>2. CASE \E c \in Contexts : pc[c] = "store"
        BY <1>k, <2>2, Moved DEF Coming
    <2>3. CASE pc[link] = "callback" /\ cause[link] # {}
        BY <1>k, <2>3, Moved DEF Coming
    <2> QED
        BY <2>1, <2>2, <2>3 DEF Coming
<1>e. ASSUME UNCHANGED << next_poll_at, due, up >>, Coming => Coming',
             pc'[poller] \in {"off", "await"} => pc[poller] \in {"off", "await"}
      PROVE  Deadline'
    BY <1>e DEF Deadline, InstantOf, Never
<1>1. ASSUME NEW c \in (Tasks \cup {isr, link}), RequestStore(c) PROVE Deadline'
    BY <1>1 DEF RequestStore, Deadline, Coming
<1>2. ASSUME NEW c \in (Tasks \cup {isr, link}), RequestWake(c) PROVE Deadline'
    BY <1>2, <1>k, <1>e, Moved DEF RequestWake
<1>3. ASSUME NEW t \in Tasks, TaskStart(t) PROVE Deadline'
    BY <1>3, <1>k, <1>e, Moved DEF TaskStart, MayStart
<1>4. ASSUME NEW t \in Tasks, WithMut(t) PROVE Deadline'
    BY <1>4, Moved DEF WithMut, Deadline, Coming
<1>5. ASSUME NEW t \in Tasks, TaskPending(t) PROVE Deadline'
    BY <1>5, <1>k, <1>e, Moved DEF TaskPending
<1>6. CASE EthernetIsr
    <2>1. Coming => Coming'
        BY <1>6, Moved DEF EthernetIsr, MayStart, Coming, TypeOK
    <2> QED
        BY <1>6, <2>1, <1>e, Moved DEF EthernetIsr
<1>7. CASE LinkStart
    BY <1>7, <1>k, <1>e, Moved DEF LinkStart, MayStart
<1>8. CASE LinkSame
    BY <1>8, <1>k, <1>e, Moved DEF LinkSame
<1>9. CASE LinkChanged
    <2>1. up' => cause'[link] # {}
        BY <1>9 DEF LinkChanged, TypeOK
    <2>2. pc'[link] = "callback"
        BY <1>9, Moved DEF LinkChanged
    <2> QED
        BY <2>1, <2>2 DEF Deadline, Coming
<1>10. ASSUME NEW c \in {isr, link}, Callback(c) PROVE Deadline'
    <2>1. c \in Contexts /\ cause' = cause /\ request' = request
        BY <1>10 DEF Callback
    <2>2. cause[c] # {} => Coming'
        BY <1>10, <2>1, Moved DEF Callback, Coming
    <2>3. Coming => Coming'
        <3>1. CASE \E d \in Contexts : pc[d] = "store"
            BY <1>10, <2>1, <3>1, Moved DEF Callback, Coming
        <3>2. CASE pc[link] = "callback" /\ cause[link] # {}
            BY <1>10, <2>1, <2>2, <3>2, Moved DEF Callback, Coming
        <3> QED
            BY <2>1, <3>1, <3>2 DEF Coming
    <2> QED
        BY <1>10, <2>1, <2>3, <1>e, Moved DEF Callback
<1>11. CASE PollerStart
    BY <1>11, <1>k, <1>e, Moved DEF PollerStart, MayStart
<1>12. CASE AwaitRequested
    BY <1>12, Moved DEF AwaitRequested, Deadline
<1>13. CASE AwaitElapsed
    BY <1>13, Moved DEF AwaitElapsed, Deadline
<1>14. CASE AwaitPending
    BY <1>14, <1>k, <1>e, Moved DEF AwaitPending
<1>15. CASE CheckDown
    BY <1>15 DEF CheckDown, Deadline
<1>16. CASE CheckUp
    BY <1>16, Moved DEF CheckUp, Deadline
<1>17. CASE IfacePoll
    BY <1>17, Moved DEF IfacePoll, Deadline
<1>18. CASE PollAt
    <2>1. PICK first \in Tasks :
              /\ \A t \in Tasks : due[first] <= due[t]
              /\ next_poll_at' = InstantOf(due[first])
        BY <1>18 DEF PollAt
    <2>2. \A t \in Tasks : due[t] \in Nat
        BY NeverType DEF TypeOK
    <2>3. \A t \in Tasks : next_poll_at' <= InstantOf(due[t])
        BY <2>1, <2>2, InstantOfOrder
    <2> QED
        BY <1>18, <2>3 DEF PollAt, Deadline, InstantOf
<1>19. CASE Tick
    BY <1>19 DEF Tick, Deadline, Coming, InstantOf, Never
<1>20. CASE DelayElapsed
    BY <1>20 DEF DelayElapsed, Deadline, Coming, InstantOf, Never
<1>21. CASE FrameReceived
    BY <1>21 DEF FrameReceived, Deadline, Coming, InstantOf, Never
<1>22. CASE TxComplete
    BY <1>22 DEF TxComplete, Deadline, Coming, InstantOf, Never
<1>23. CASE Cable
    BY <1>23 DEF Cable, Deadline, Coming, InstantOf, Never
<1>24. CASE UNCHANGED vars
    BY <1>24 DEF vars, Deadline, Coming, InstantOf, Never
<1> QED
    BY <1>1, <1>2, <1>3, <1>4, <1>5, <1>6, <1>7, <1>8, <1>9, <1>10, <1>11, <1>12,
       <1>13, <1>14, <1>15, <1>16, <1>17, <1>18, <1>19, <1>20, <1>21, <1>22, <1>23,
       <1>24
    DEF Next, Poller, Driver, Hardware, Task

\* The inductive step: a sleeping poller has its delay in the timer queue.
LEMMA TimerNext == TypeOK /\ Timer /\ [Next]_vars => Timer'
<1> SUFFICES ASSUME TypeOK, Timer, [Next]_vars PROVE Timer'
    OBVIOUS
<1> USE ContextsDistinct DEF Timer, InstantOf, Never
<1>1. ASSUME NEW c \in (Tasks \cup {isr, link}), RequestStore(c) PROVE Timer'
    BY <1>1, Moved DEF RequestStore
<1>2. ASSUME NEW c \in (Tasks \cup {isr, link}), RequestWake(c) PROVE Timer'
    BY <1>2, Moved DEF RequestWake
<1>3. ASSUME NEW t \in Tasks, TaskStart(t) PROVE Timer'
    BY <1>3, Moved DEF TaskStart, MayStart
<1>4. ASSUME NEW t \in Tasks, WithMut(t) PROVE Timer'
    BY <1>4, Moved DEF WithMut
<1>5. ASSUME NEW t \in Tasks, TaskPending(t) PROVE Timer'
    BY <1>5, Moved DEF TaskPending
<1>6. CASE EthernetIsr
    BY <1>6, Moved DEF EthernetIsr, MayStart
<1>7. CASE LinkStart
    BY <1>7, Moved DEF LinkStart, MayStart
<1>8. CASE LinkSame
    BY <1>8, Moved DEF LinkSame
<1>9. CASE LinkChanged
    BY <1>9, Moved DEF LinkChanged
<1>10. ASSUME NEW c \in {isr, link}, Callback(c) PROVE Timer'
    BY <1>10, Moved DEF Callback
<1>11. CASE PollerStart
    BY <1>11, Moved DEF PollerStart, MayStart
<1>12. CASE AwaitRequested
    BY <1>12, Moved DEF AwaitRequested
<1>13. CASE AwaitElapsed
    BY <1>13, Moved DEF AwaitElapsed
<1>14. CASE AwaitPending
    BY <1>14, Moved DEF AwaitPending
<1>15. CASE CheckDown
    BY <1>15, Moved DEF CheckDown
<1>16. CASE CheckUp
    BY <1>16, Moved DEF CheckUp
<1>17. CASE IfacePoll
    BY <1>17, Moved DEF IfacePoll
<1>18. CASE PollAt
    BY <1>18, Moved DEF PollAt
<1>19. CASE Tick
    BY <1>19 DEF Tick
<1>20. CASE DelayElapsed
    BY <1>20 DEF DelayElapsed
<1>21. CASE FrameReceived
    BY <1>21 DEF FrameReceived
<1>22. CASE TxComplete
    BY <1>22 DEF TxComplete
<1>23. CASE Cable
    BY <1>23 DEF Cable
<1>24. CASE UNCHANGED vars
    BY <1>24 DEF vars
<1> QED
    BY <1>1, <1>2, <1>3, <1>4, <1>5, <1>6, <1>7, <1>8, <1>9, <1>10, <1>11, <1>12,
       <1>13, <1>14, <1>15, <1>16, <1>17, <1>18, <1>19, <1>20, <1>21, <1>22, <1>23,
       <1>24
    DEF Next, Poller, Driver, Hardware, Task

\* While the poller sleeps no socket's deadline is forgotten, across with_mut,
\* poll_at, an outage of the link and the poll asked for when it is over.
THEOREM DeadlinesKept == Spec => []DeadlineArmed
<1>1. Init => Deadline /\ Timer
    BY DEF Init, Deadline, Timer
<1>2. TypeOK /\ Deadline /\ Timer => DeadlineArmed
    <2> SUFFICES ASSUME TypeOK, Deadline, Timer, Quiet, up, ~request,
                        NEW t \in Tasks, due[t] # Never
                 PROVE  next_poll_at <= InstantOf(due[t]) /\ (armed \/ woken)
        BY DEF DeadlineArmed
    <2>1. ~Coming
        BY ContextsDistinct DEF Quiet, Coming, InLock
    <2>2. next_poll_at <= InstantOf(due[t])
        BY <2>1 DEF Deadline, Quiet
    <2>3. due[t] \in Nat /\ Never \in Nat /\ due[t] < Never
        BY NeverType DEF TypeOK
    <2>4. next_poll_at # InstantOf(Never)
        BY <2>2, <2>3, InstantOfOrder DEF TypeOK
    <2> QED
        BY <2>2, <2>4 DEF Timer, Quiet
<1> QED
    BY <1>1, <1>2, DeadlineNext, TimerNext, TypeCorrect, PTL DEF Spec

-----------------------------------------------------------------------------
(***************************************************************************)
(* The deadline the poller waits for is one a socket still has.            *)
(***************************************************************************)
Asked == request \/ \E c \in Contexts : pc[c] = "store"

\* A deadline is none, a socket's, or about to be computed again.
Earned ==
    pc[poller] \in {"off", "await"} /\ ~Asked =>
        next_poll_at = InstantOf(Never) \/ \E t \in Tasks : next_poll_at = InstantOf(due[t])

\* The inductive step for Earned: only a poll takes a request back.
LEMMA EarnedNext == TypeOK /\ Earned /\ [Next]_vars => Earned'
<1> SUFFICES ASSUME TypeOK, Earned, [Next]_vars PROVE Earned'
    OBVIOUS
<1> USE ContextsDistinct
<1>e. ASSUME UNCHANGED << next_poll_at, due >>, Asked => Asked',
             pc'[poller] \in {"off", "await"} => pc[poller] \in {"off", "await"}
      PROVE  Earned'
    BY <1>e DEF Earned, InstantOf, Never
<1>k. ASSUME NEW x \in Contexts, NEW w, Goto(x, w), request' = request,
             pc[x] # "store", UNCHANGED << next_poll_at, due >>,
             x = poller => pc[poller] \in {"off", "await"} \/ w \notin {"off", "await"}
      PROVE  Earned'
    <2>1. Asked => Asked'
        BY <1>k, Moved DEF Asked
    <2>2. pc'[poller] \in {"off", "await"} => pc[poller] \in {"off", "await"}
        BY <1>k, Moved
    <2> QED
        BY <1>k, <2>1, <2>2, <1>e
<1>h. ASSUME UNCHANGED << pc, request, next_poll_at, due >> PROVE Earned'
    BY <1>h, <1>e DEF Asked
<1>1. ASSUME NEW c \in (Tasks \cup {isr, link}), RequestStore(c) PROVE Earned'
    BY <1>1 DEF RequestStore, Earned, Asked
<1>2. ASSUME NEW c \in (Tasks \cup {isr, link}), RequestWake(c) PROVE Earned'
    BY <1>2, <1>k DEF RequestWake
<1>3. ASSUME NEW t \in Tasks, TaskStart(t) \/ TaskPending(t) PROVE Earned'
    BY <1>3, <1>k DEF TaskStart, TaskPending, MayStart
<1>4. ASSUME NEW t \in Tasks, WithMut(t) PROVE Earned'
    BY <1>4, Moved DEF WithMut, Earned, Asked
<1>5. CASE EthernetIsr \/ LinkStart \/ LinkSame \/ LinkChanged
    BY <1>5, <1>k DEF EthernetIsr, LinkStart, LinkSame, LinkChanged, MayStart
<1>6. ASSUME NEW c \in {isr, link}, Callback(c) PROVE Earned'
    BY <1>6, <1>k DEF Callback
<1>7. CASE PollerStart \/ AwaitPending \/ CheckUp
    BY <1>7, <1>k DEF PollerStart, AwaitPending, CheckUp, MayStart
<1>8. CASE AwaitRequested \/ AwaitElapsed \/ IfacePoll
    BY <1>8, Moved DEF AwaitRequested, AwaitElapsed, IfacePoll, Earned
<1>9. CASE CheckDown
    BY <1>9 DEF CheckDown, Earned, InstantOf, Never
<1>10. CASE PollAt
    BY <1>10 DEF PollAt, Earned, InstantOf
<1>11. CASE Hardware
    BY <1>11, <1>h DEF Hardware, Tick, DelayElapsed, FrameReceived, TxComplete, Cable
<1>12. CASE UNCHANGED vars
    BY <1>12, <1>h DEF vars
<1> QED
    BY <1>1, <1>2, <1>3, <1>4, <1>5, <1>6, <1>7, <1>8, <1>9, <1>10, <1>11, <1>12
    DEF Next, Poller, Driver, Task

\* smol_now rounds down and the deadline is exact, so a deadline that has come in
\* ticks has come in smoltcp's microseconds.
LEMMA ComeInMicros ==
    ASSUME TypeOK, NEW a \in Nat, InstantOf(a) <= now
    PROVE  a <= SmolNow
<1>1. PICK k \in Nat \ {0} : k = TicksPerMicro
    BY TimeAssumption
<1>2. now \in Nat
    BY InstantOfOrder, TimeAssumption DEF TypeOK
<1>3. PICK q \in Nat : q = now \div k
    BY <1>1, <1>2
<1>4. now < (q + 1) * k
    BY <1>1, <1>2, <1>3
<1>5. ~(q < a)
    <2>1. q < a => (q + 1) * k <= a * k
        BY <1>1, InstantOfOrder DEF InstantOf
    <2>2. a * k \in Nat /\ (q + 1) * k \in Nat /\ a * k <= now
        BY <1>1 DEF InstantOf
    <2> QED
        BY <1>2, <1>4, <2>1, <2>2
<1> QED
    BY <1>1, <1>3, <1>5 DEF SmolNow

\* A poll nobody asked for is one a socket is due for.
THEOREM PollsAreDue == Spec => WakesOnTime
<1>1. Init => Sched /\ Earned
    BY DEF Init, Sched, InLock, High, Contexts, Earned
<1>2. TypeOK /\ Sched /\ Earned /\ AwaitElapsed => \E t \in Tasks : due[t] <= SmolNow
    <2> SUFFICES ASSUME TypeOK, Sched, Earned, AwaitElapsed
                 PROVE  \E t \in Tasks : due[t] <= SmolNow
        OBVIOUS
    <2>1. pc[poller] = "await" /\ ~request /\ next_poll_at <= now
        BY DEF AwaitElapsed
    <2>2. ~Asked
        BY <2>1, ContextsDistinct DEF Asked, Sched, High, InLock, TypeOK, Priority
    <2>3. next_poll_at # InstantOf(Never)
        <3>1. InstantOf(MaxTime) < InstantOf(Never) /\ InstantOf(MaxTime) \in Nat
                  /\ InstantOf(Never) \in Nat
            BY NeverType, InstantOfOrder, TimeAssumption
        <3> QED
            BY <2>1, <3>1 DEF TypeOK
    <2>4. PICK t \in Tasks : next_poll_at = InstantOf(due[t])
        BY <2>1, <2>2, <2>3 DEF Earned
    <2>5. due[t] \in Nat
        BY NeverType DEF TypeOK
    <2> QED
        BY <2>1, <2>4, <2>5, ComeInMicros
<1>3. Spec => [](TypeOK /\ Sched /\ Earned)
    BY <1>1, SchedNext, EarnedNext, TypeCorrect, PTL DEF Spec
<1> QED
    BY <1>2, <1>3, PTL DEF WakesOnTime, Spec

-----------------------------------------------------------------------------
(***************************************************************************)
(* Frames.                                                                 *)
(***************************************************************************)
LEMMA RxArmedNext == TypeOK /\ RxArmed /\ [Next]_vars => RxArmed'
<1> SUFFICES ASSUME TypeOK, RxArmed, [Next]_vars PROVE RxArmed'
    OBVIOUS
<1> USE ContextsDistinct DEF RxArmed
<1>1. ASSUME NEW c \in (Tasks \cup {isr, link}), RequestStore(c) PROVE RxArmed'
    BY <1>1, Moved DEF RequestStore
<1>2. ASSUME NEW c \in (Tasks \cup {isr, link}), RequestWake(c) PROVE RxArmed'
    BY <1>2, Moved DEF RequestWake
<1>3. ASSUME NEW t \in Tasks, TaskStart(t) PROVE RxArmed'
    BY <1>3, Moved DEF TaskStart, MayStart
<1>4. ASSUME NEW t \in Tasks, WithMut(t) PROVE RxArmed'
    BY <1>4, Moved DEF WithMut
<1>5. ASSUME NEW t \in Tasks, TaskPending(t) PROVE RxArmed'
    BY <1>5, Moved DEF TaskPending
<1>6. CASE EthernetIsr
    BY <1>6, Moved DEF EthernetIsr, MayStart
<1>7. CASE LinkStart
    BY <1>7, Moved DEF LinkStart, MayStart
<1>8. CASE LinkSame
    BY <1>8, Moved DEF LinkSame
<1>9. CASE LinkChanged
    BY <1>9, Moved DEF LinkChanged
<1>10. ASSUME NEW c \in {isr, link}, Callback(c) PROVE RxArmed'
    BY <1>10, Moved DEF Callback
<1>11. CASE PollerStart
    BY <1>11, Moved DEF PollerStart, MayStart
<1>12. CASE AwaitRequested
    BY <1>12, Moved DEF AwaitRequested
<1>13. CASE AwaitElapsed
    BY <1>13, Moved DEF AwaitElapsed
<1>14. CASE AwaitPending
    BY <1>14, Moved DEF AwaitPending
<1>15. CASE CheckDown
    BY <1>15, Moved DEF CheckDown
<1>16. CASE CheckUp
    BY <1>16, Moved DEF CheckUp
<1>17. CASE IfacePoll
    BY <1>17, Moved DEF IfacePoll
<1>18. CASE PollAt
    BY <1>18, Moved DEF PollAt
<1>19. CASE Tick
    BY <1>19 DEF Tick
<1>20. CASE DelayElapsed
    BY <1>20 DEF DelayElapsed
<1>21. CASE FrameReceived
    BY <1>21 DEF FrameReceived
<1>22. CASE TxComplete
    BY <1>22 DEF TxComplete
<1>23. CASE Cable
    BY <1>23 DEF Cable
<1>24. CASE UNCHANGED vars
    BY <1>24 DEF vars
<1> QED
    BY <1>1, <1>2, <1>3, <1>4, <1>5, <1>6, <1>7, <1>8, <1>9, <1>10, <1>11, <1>12,
       <1>13, <1>14, <1>15, <1>16, <1>17, <1>18, <1>19, <1>20, <1>21, <1>22, <1>23,
       <1>24
    DEF Next, Poller, Driver, Hardware, Task

\* The inductive step: somebody will see every received frame.
LEMMA FrameKnownNext ==
    TypeOK /\ PolledOnlyUp /\ FrameKnown /\ [Next]_vars => FrameKnown'
<1> SUFFICES ASSUME TypeOK, PolledOnlyUp, FrameKnown, [Next]_vars PROVE FrameKnown'
    OBVIOUS
<1> USE ContextsDistinct
<1> DEFINE Known == \/ request
                    \/ irq # {}
                    \/ tx_busy > 0
                    \/ pc[isr] = "callback" /\ cause[isr] # {}
                    \/ \E c \in Contexts : pc[c] = "store"
           Region == {"off", "await", "poll_at"}
<1>k. ASSUME NEW x \in Contexts, NEW w, Goto(x, w), pc[x] \notin {"store", "callback"},
             UNCHANGED << request, irq, tx_busy, cause >>
      PROVE  Known => Known'
    <2>1. CASE pc[isr] = "callback" /\ cause[isr] # {}
        BY <1>k, <2>1, Moved
    <2>2. CASE \E c \in Contexts : pc[c] = "store"
        BY <1>k, <2>2, Moved
    <2> QED
        BY <1>k, <2>1, <2>2
<1>e. ASSUME UNCHANGED << up, rx_queued >>, Known => Known',
             pc'[poller] \in Region => pc[poller] \in Region
      PROVE  FrameKnown'
    BY <1>e DEF FrameKnown
<1>1. ASSUME NEW c \in (Tasks \cup {isr, link}), RequestStore(c) PROVE FrameKnown'
    BY <1>1 DEF RequestStore, FrameKnown
<1>2. ASSUME NEW c \in (Tasks \cup {isr, link}), RequestWake(c) PROVE FrameKnown'
    BY <1>2, <1>k, <1>e, Moved DEF RequestWake
<1>3. ASSUME NEW t \in Tasks, TaskStart(t) PROVE FrameKnown'
    BY <1>3, <1>k, <1>e, Moved DEF TaskStart, MayStart
<1>4. ASSUME NEW t \in Tasks, WithMut(t) PROVE FrameKnown'
    BY <1>4, <1>k, <1>e, Moved DEF WithMut
<1>5. ASSUME NEW t \in Tasks, TaskPending(t) PROVE FrameKnown'
    BY <1>5, <1>k, <1>e, Moved DEF TaskPending
<1>6. CASE EthernetIsr
    <2>1. pc'[isr] = "callback" /\ cause'[isr] # {}
        BY <1>6, Moved DEF EthernetIsr, TypeOK
    <2> QED
        BY <2>1 DEF FrameKnown
<1>7. CASE LinkStart
    BY <1>7, <1>k, <1>e, Moved DEF LinkStart, MayStart
<1>8. CASE LinkSame
    BY <1>8, <1>k, <1>e, Moved DEF LinkSame
<1>9. CASE LinkChanged
    <2>1. CASE phy
        BY <1>9, <2>1 DEF LinkChanged, FrameKnown, TypeOK
    <2>2. CASE ~phy
        BY <1>9, <2>2 DEF LinkChanged, FrameKnown, TypeOK
    <2> QED
        BY <2>1, <2>2
<1>10. ASSUME NEW c \in {isr, link}, Callback(c) PROVE FrameKnown'
    <2>1. c \in Contexts /\ UNCHANGED << request, irq, tx_busy, cause >>
        BY <1>10 DEF Callback
    <2>2. cause[c] # {} => Known'
        BY <1>10, <2>1, Moved DEF Callback
    <2>3. Known => Known'
        <3>1. CASE \E d \in Contexts : pc[d] = "store"
            BY <1>10, <2>1, <3>1, Moved DEF Callback
        <3>2. CASE pc[isr] = "callback" /\ cause[isr] # {}
            BY <1>10, <2>1, <2>2, <3>2, Moved DEF Callback
        <3> QED
            BY <2>1, <3>1, <3>2
    <2> QED
        BY <1>10, <2>1, <2>3, <1>e, Moved DEF Callback
<1>11. CASE PollerStart
    BY <1>11, <1>k, <1>e, Moved DEF PollerStart, MayStart
<1>12. CASE AwaitRequested
    BY <1>12, Moved DEF AwaitRequested, FrameKnown
<1>13. CASE AwaitElapsed
    BY <1>13, Moved DEF AwaitElapsed, FrameKnown
<1>14. CASE AwaitPending
    BY <1>14, <1>k, <1>e, Moved DEF AwaitPending
<1>15. CASE CheckDown
    BY <1>15 DEF CheckDown, FrameKnown
<1>16. CASE CheckUp
    BY <1>16, Moved DEF CheckUp, FrameKnown
<1>17. CASE IfacePoll
    <2>1. up
        BY <1>17 DEF IfacePoll, PolledOnlyUp
    <2>2. rx_queued' = 0 \/ tx_busy' > 0
        BY <1>17, <2>1, RingAssumption DEF IfacePoll, TypeOK
    <2> QED
        BY <2>2 DEF FrameKnown
<1>18. CASE PollAt
    BY <1>18, <1>k, <1>e, Moved DEF PollAt
<1>19. CASE Tick
    BY <1>19 DEF Tick, FrameKnown
<1>20. CASE DelayElapsed
    BY <1>20 DEF DelayElapsed, FrameKnown
<1>21. CASE FrameReceived
    BY <1>21 DEF FrameReceived, FrameKnown
<1>22. CASE TxComplete
    BY <1>22 DEF TxComplete, FrameKnown
<1>23. CASE Cable
    BY <1>23 DEF Cable, FrameKnown
<1>24. CASE UNCHANGED vars
    BY <1>24 DEF vars, FrameKnown
<1> QED
    BY <1>1, <1>2, <1>3, <1>4, <1>5, <1>6, <1>7, <1>8, <1>9, <1>10, <1>11, <1>12,
       <1>13, <1>14, <1>15, <1>16, <1>17, <1>18, <1>19, <1>20, <1>21, <1>22, <1>23,
       <1>24
    DEF Next, Poller, Driver, Hardware, Task

\* While the poller sleeps with the link up the RX ring has its buffers, and a
\* frame in it is known: a poll or an interrupt that leads to one is coming.
THEOREM FramesNotStranded == Spec => []FramesScheduled
<1>1. Init => RxArmed /\ FrameKnown
    BY DEF Init, RxArmed, FrameKnown
<1>2. TypeOK /\ RxArmed /\ FrameKnown => FramesScheduled
    BY ContextsDistinct DEF FramesScheduled, Quiet, InLock, RxArmed, FrameKnown
<1> QED
    BY <1>1, <1>2, RxArmedNext, FrameKnownNext, TypeCorrect, PolledUp, PTL DEF Spec

=============================================================================
