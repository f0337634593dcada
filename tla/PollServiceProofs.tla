------------------------- MODULE PollServiceProofs -------------------------
(***************************************************************************)
(* The network poller implements PollService, for any number of tasks, any *)
(* ring sizes, any clock rate and any bound on time.                       *)
(*                                                                         *)
(* The argument: a context of priority 1 runs only while nothing is owed   *)
(* (RunsIdle), so calls and link changes map to steps from "idle"; and the *)
(* poller goes to sleep only with an instant in the future, which Deadline *)
(* of NetPollerProofs makes no later than any socket's (SleepsServed).     *)
(* Then what the poller does in the end, under FairSpec: it starts a poll  *)
(* that is owed, takes every request and polls for every frame and every   *)
(* deadline.                                                               *)
(***************************************************************************)
EXTENDS NetPollerProofs

\* What the simulation needs to know of a state of NetPoller.
Known == TypeOK /\ Sched /\ Deadline /\ PolledOnlyUp

\* It holds throughout: every part of it was proved inductive.
LEMMA AlwaysKnown == Spec => []Known
<1>1. Init => Known
    <2>1. Init => Sched
        BY ContextsDistinct DEF Init, Sched, High, InLock
    <2>2. Init => Deadline
        BY DEF Init, Deadline
    <2>3. Init => PolledOnlyUp
        BY ContextsDistinct DEF Init, PolledOnlyUp
    <2> QED
        BY TypeInit, <2>1, <2>2, <2>3 DEF Known
<1>2. Known /\ [Next]_vars => Known'
    BY TypeNext, SchedNext, DeadlineNext, PolledOnlyUpNext DEF Known
<1> QED
    BY <1>1, <1>2, PTL DEF Spec

\* A task or the link task that runs outside a lock runs while nothing is owed:
\* the poller and the interrupt would have preempted it.
LEMMA RunsIdle ==
    ASSUME TypeOK, NEW c \in Contexts \ High, pc[c] = "run", OnCpu(c)
    PROVE  /\ pc[poller] = "off" /\ pc[isr] = "off" /\ ~woken /\ irq = {}
           /\ \A d \in Contexts : ~InLock(d)
           /\ Phase = "idle"
<1> USE ContextsDistinct
<1>1. CurrentPriority(c) = 1
    BY DEF CurrentPriority, InLock, Priority, High
<1>2. \A d \in Contexts : ~InLock(d)
    BY <1>1 DEF OnCpu, CurrentPriority, Ceiling, InLock
<1>3. pc[poller] = "off" /\ pc[isr] = "off"
    BY <1>1, <1>2 DEF OnCpu, CurrentPriority, Priority
<1>4. ~woken /\ irq = {}
    BY <1>1, <1>3 DEF OnCpu, Preempted, Priority, TypeOK
<1> QED
    BY <1>2, <1>3, <1>4 DEF Phase, Owed, InLock

\* The poller goes to sleep with the device up only when no socket is due at once.
LEMMA SleepsServed ==
    ASSUME Known, AwaitPending, up
    PROVE  DueNow = {}
<1> USE ContextsDistinct DEF Known
<1>1. ~Coming
    <2>1. pc[poller] = "await" /\ ~request
        BY DEF AwaitPending
    <2>2. \A l \in Contexts \ High : ~InLock(l)
        BY <2>1 DEF Sched, High
    <2>3. pc[isr] = "off"
        BY <2>1 DEF Sched, Priority
    <2> QED
        BY <2>1, <2>2, <2>3 DEF Coming, InLock, High
<1>2. \A t \in Tasks : due[t] # Never => next_poll_at <= InstantOf(due[t])
    BY <1>1 DEF AwaitPending, Deadline
<1>3. InstantOf(0) = 0 /\ 0 # Never
    BY TimeAssumption, NeverType DEF InstantOf
<1>4. next_poll_at > now /\ now \in Nat /\ next_poll_at \in Nat
    <2>1. InstantOf(Never) \in Nat /\ InstantOf(MaxTime) \in Nat
        BY InstantOfOrder, NeverType, TimeAssumption
    <2> QED
        BY <2>1 DEF AwaitPending, TypeOK
<1> QED
    BY <1>2, <1>3, <1>4 DEF DueNow

\* Moving between places that are in no lock leaves what is owed alone.
LEMMA OwedKept ==
    ASSUME TypeOK, NEW x \in Contexts, NEW w, Goto(x, w), ~InLock(x),
           w \in {"off", "run"}, UNCHANGED << woken, irq, cause >>
    PROVE  Owed' = Owed
<1> USE ContextsDistinct
<1>1. pc'[x] = w /\ \A y \in Contexts : y # x => pc'[y] = pc[y]
    BY Moved
<1> QED
    BY <1>1 DEF Owed, InLock

-----------------------------------------------------------------------------
(***************************************************************************)
(* Every step of NetPoller is a step of the service or a stutter of it.    *)
(***************************************************************************)
\* The step of the simulation, one case for each action of NetPoller.
LEMMA ServiceNext ==
    Known /\ [Next]_vars => [Service!Next]_(Service!serviceVars)
<1> SUFFICES ASSUME Known, [Next]_vars
             PROVE  \/ Service!Next
                    \/ Phase' = Phase /\ up' = up /\ DueNow' = DueNow
    BY DEF Service!serviceVars
<1> USE ContextsDistinct
<1> DEFINE Stutter == Phase' = Phase /\ up' = up /\ DueNow' = DueNow
<1>t. TypeOK
    BY DEF Known
<1>k. due' = due => DueNow' = DueNow
    BY DEF DueNow
<1>s. ASSUME NEW x \in Contexts \ {poller}, NEW w, Goto(x, w), Owed, Owed',
             UNCHANGED << up, due >>
      PROVE  Stutter
    BY <1>s, <1>t, <1>k, Moved DEF Phase
<1>q. ASSUME NEW x \in Contexts \ {poller}, NEW w, Goto(x, w), ~InLock(x),
             w \in {"off", "run"}, UNCHANGED << woken, irq, cause, up, due >>
      PROVE  Stutter
    BY <1>q, <1>t, <1>k, Moved, OwedKept DEF Phase
<1>p. ASSUME NEW w, Goto(poller, w), w # "off", pc[poller] # "off",
             UNCHANGED << up, due >>
      PROVE  Stutter
    BY <1>p, <1>t, <1>k, Moved DEF Phase
<1>e. ASSUME UNCHANGED << pc, up, due >>, Owed', Owed => Owed'
      PROVE  Service!Next \/ Stutter
    <2>1. CASE Phase = "idle"
        BY <1>e, <2>1, <1>k DEF Phase, Service!Next, Service!Event
    <2>2. CASE Phase # "idle"
        BY <1>e, <2>2, <1>k DEF Phase
    <2> QED
        BY <2>1, <2>2
<1>1. ASSUME NEW c \in (Tasks \cup {isr, link}), RequestStore(c) PROVE Stutter
    <2>1. Goto(c, "wake") /\ pc[c] = "store" /\ UNCHANGED << up, due >>
        BY <1>1 DEF RequestStore
    <2>2. Owed /\ Owed'
        BY <2>1, <1>t, Moved DEF Owed
    <2> QED
        BY <2>1, <2>2, <1>s
<1>2. ASSUME NEW c \in (Tasks \cup {isr, link}), RequestWake(c) PROVE Stutter
    <2>1. \E w : Goto(c, w)
        BY <1>2 DEF RequestWake
    <2>2. pc[c] = "wake" /\ woken' /\ UNCHANGED << up, due >>
        BY <1>2 DEF RequestWake
    <2>3. Owed /\ Owed'
        BY <2>2 DEF Owed
    <2> QED
        BY <2>1, <2>2, <2>3, <1>s
<1>3. ASSUME NEW t \in Tasks, TaskStart(t) PROVE Stutter
    BY <1>3, <1>q DEF TaskStart, MayStart, InLock
<1>4. ASSUME NEW t \in Tasks, WithMut(t) PROVE Service!Next
    <2>1. Phase = "idle"
        BY <1>4, <1>t, RunsIdle DEF WithMut, High
    <2>2. Phase' = "owed"
        <3>1. pc'[t] = "store" /\ pc'[poller] = pc[poller]
            BY <1>4, <1>t, Moved DEF WithMut
        <3> QED
            BY <3>1, <2>1 DEF Phase, Owed
    <2>3. up' = up
        BY <1>4 DEF WithMut
    <2>4. DueNow' \in {DueNow \ {t}, DueNow \cup {t}}
        <3>1. PICK d \in 0..Never : due' = [due EXCEPT ![t] = d]
            BY <1>4 DEF WithMut
        <3>2. \A u \in Tasks : due'[u] = IF u = t THEN d ELSE due[u]
            BY <3>1, <1>t DEF TypeOK
        <3>3. CASE d = 0
            BY <3>2, <3>3 DEF DueNow
        <3>4. CASE d # 0
            BY <3>2, <3>4 DEF DueNow
        <3> QED
            BY <3>3, <3>4
    <2> QED
        BY <2>1, <2>2, <2>3, <2>4 DEF Service!Next, Service!Call
<1>5. ASSUME NEW t \in Tasks, TaskPending(t) PROVE Stutter
    BY <1>5, <1>q DEF TaskPending, InLock
<1>6. CASE EthernetIsr
    <2>1. pc[isr] = "off" /\ Goto(isr, "callback") /\ UNCHANGED << up, due >>
        BY <1>6 DEF EthernetIsr, MayStart
    <2>2. pc'[isr] = "callback" /\ cause'[isr] # {}
        BY <1>6, <1>t, <2>1, Moved DEF EthernetIsr, TypeOK
    <2>3. Owed /\ Owed'
        BY <1>6, <2>2 DEF EthernetIsr, Owed
    <2> QED
        BY <2>1, <2>3, <1>s
<1>7. CASE LinkStart
    BY <1>7, <1>q DEF LinkStart, MayStart, InLock
<1>8. CASE LinkSame
    BY <1>8, <1>q DEF LinkSame, InLock
<1>9. CASE LinkChanged
    <2>1. /\ pc[link] = "run" /\ OnCpu(link) /\ Goto(link, "callback") /\ up' = phy
          /\ due' = due /\ woken' = woken /\ irq' = irq
          /\ cause' = [cause EXCEPT ![link] = IF phy THEN {"went_up"} ELSE {}]
        BY <1>9 DEF LinkChanged
    <2>2. /\ pc[poller] = "off" /\ pc[isr] = "off" /\ ~woken /\ irq = {}
          /\ \A d \in Contexts : ~InLock(d)
          /\ Phase = "idle"
        BY <2>1, <1>t, RunsIdle DEF High
    <2>3. pc'[link] = "callback" /\ \A y \in Contexts : y # link => pc'[y] = pc[y]
        BY <2>1, <1>t, Moved
    <2>4. cause'[link] = IF phy THEN {"went_up"} ELSE {}
        BY <2>1, <1>t DEF TypeOK
    <2>5. CASE phy
        <3>1. Phase' = "owed"
            BY <2>2, <2>3, <2>4, <2>5 DEF Phase, Owed
        <3> QED
            BY <3>1, <2>1, <2>2, <2>5, <1>k DEF Service!Next, Service!LinkUp
    <2>6. CASE ~phy
        <3>1. Phase' = "idle"
            BY <2>1, <2>2, <2>3, <2>4, <2>6 DEF Phase, Owed, InLock
        <3>2. up' = FALSE
            BY <2>1, <2>6, <1>t DEF TypeOK
        <3> QED
            BY <3>1, <3>2, <2>1, <2>2, <1>k DEF Service!Next, Service!LinkDown
    <2> QED
        BY <2>5, <2>6
<1>10. ASSUME NEW c \in {isr, link}, Callback(c) PROVE Stutter
    <2>1. pc[c] = "callback" /\ UNCHANGED << woken, irq, cause, up, due >>
        BY <1>10 DEF Callback
    <2>2. CASE cause[c] # {}
        <3>1. Goto(c, "store")
            BY <1>10, <2>2 DEF Callback
        <3>2. Owed /\ Owed'
            BY <2>1, <2>2, <3>1, <1>t, Moved DEF Owed
        <3> QED
            BY <2>1, <3>1, <3>2, <1>s
    <2>3. CASE cause[c] = {}
        <3>1. Goto(c, "off")
            BY <1>10, <2>3 DEF Callback
        <3>2. pc'[c] = "off" /\ \A y \in Contexts : y # c => pc'[y] = pc[y]
            BY <3>1, <1>t, Moved
        <3>3. Owed' = Owed
            BY <2>1, <2>3, <3>2 DEF Owed
        <3> QED
            BY <2>1, <3>2, <3>3, <1>k DEF Phase
    <2> QED
        BY <2>2, <2>3
<1>11. CASE PollerStart
    <2>1. Phase = "owed"
        BY <1>11 DEF PollerStart, MayStart, Phase, Owed
    <2>2. Phase' = "polling"
        BY <1>11, <1>t, Moved DEF PollerStart, Phase
    <2> QED
        BY <1>11, <2>1, <2>2, <1>k DEF PollerStart, Service!Next, Service!PollStarts
<1>12. CASE AwaitRequested
    BY <1>12, <1>p DEF AwaitRequested
<1>13. CASE AwaitElapsed
    BY <1>13, <1>p DEF AwaitElapsed
<1>14. CASE AwaitPending
    <2>1. Phase = "polling" /\ up' = up /\ DueNow' = DueNow
        BY <1>14, <1>k DEF AwaitPending, Phase
    <2>2. Phase' \in {"idle", "owed"}
        BY <1>14, <1>t, Moved DEF AwaitPending, Phase
    <2>3. up => DueNow = {}
        BY <1>14, SleepsServed
    <2> QED
        BY <2>1, <2>2, <2>3 DEF Service!Next, Service!PollEnds
<1>15. CASE CheckDown
    BY <1>15, <1>p DEF CheckDown
<1>16. CASE CheckUp
    BY <1>16, <1>p DEF CheckUp
<1>17. CASE IfacePoll
    <2>1. up /\ up' = up
        BY <1>17 DEF IfacePoll, Known, PolledOnlyUp
    <2>2. Phase = "polling" /\ Phase' = "polling"
        BY <1>17, <1>t, Moved DEF IfacePoll, Phase
    <2>3. DueNow' \in SUBSET Tasks
        BY DEF DueNow
    <2> QED
        BY <2>1, <2>2, <2>3 DEF Service!Next, Service!Poll
<1>18. CASE PollAt
    BY <1>18, <1>p DEF PollAt
<1>19. CASE Tick
    BY <1>19, <1>k DEF Tick, Phase, Owed
<1>20. CASE DelayElapsed
    BY <1>20, <1>e DEF DelayElapsed, Owed
<1>21. CASE FrameReceived
    BY <1>21, <1>e DEF FrameReceived, Owed
<1>22. CASE TxComplete
    BY <1>22, <1>e DEF TxComplete, Owed
<1>23. CASE Cable
    BY <1>23, <1>k DEF Cable, Phase, Owed
<1>24. CASE UNCHANGED vars
    BY <1>24, <1>k DEF vars, Phase, Owed
<1> QED
    BY <1>1, <1>2, <1>3, <1>4, <1>5, <1>6, <1>7, <1>8, <1>9, <1>10, <1>11, <1>12,
       <1>13, <1>14, <1>15, <1>16, <1>17, <1>18, <1>19, <1>20, <1>21, <1>22, <1>23,
       <1>24
    DEF Next, Poller, Driver, Hardware, Task

\* request_network_poll, the poller, the interrupt and the link task together
\* are the synchronous service the tasks rely on.
THEOREM PollerServes == Spec => ServesPolls
<1>1. Init => Service!Init
    <2> SUFFICES ASSUME Init PROVE Service!Init
        OBVIOUS
    <2>1. Phase = "owed"
        BY ContextsDistinct DEF Init, Phase, Owed
    <2>2. DueNow = {}
        BY TimeAssumption DEF Init, DueNow, Never
    <2> QED
        BY <2>1, <2>2 DEF Init, Service!Init
<1> QED
    BY <1>1, ServiceNext, AlwaysKnown, PTL DEF Spec, ServesPolls, Service!Spec

\* A task that runs with the device up finds nothing left to send at once, in
\* its own socket or in any other.
THEOREM TasksServed == Spec => [](Service!Served)
<1>1. Service!Init => Service!Served
    BY DEF Service!Init, Service!Served
<1>2. Service!Served /\ [Service!Next]_(Service!serviceVars) => (Service!Served)'
    BY DEF Service!Served, Service!Next, Service!serviceVars, Service!Call,
           Service!Event, Service!LinkUp, Service!LinkDown, Service!PollStarts,
           Service!Poll, Service!PollEnds
<1> QED
    BY <1>1, <1>2, PollerServes, PTL DEF ServesPolls, Service!Spec

-----------------------------------------------------------------------------
(***************************************************************************)
(* Liveness, from the fairness of FairSpec. That the contexts concerned    *)
(* can take their steps is a hypothesis (NobodyBlocks): ENABLED is beyond  *)
(* the prover, and TLC checks it.                                          *)
(***************************************************************************)

\* A context inside a lock is the only one that can move, and the poller has not
\* started.
LEMMA LockAlone ==
    ASSUME TypeOK, Sched, NEW c \in Contexts, InLock(c)
    PROVE  /\ pc[poller] = "off" /\ c # poller
           /\ \A d \in Contexts : InLock(d) => d = c
           /\ \A d \in Contexts : ~MayStart(d)
           /\ \A d \in Contexts : OnCpu(d) => d = c
<1> USE ContextsDistinct
<1>1. c # poller /\ pc[c] # "off"
    BY DEF TypeOK, PollerPlaces, InLock
<1>2. pc[poller] = "off"
    BY <1>1 DEF Sched, High, Priority
<1>3. ASSUME NEW d \in Contexts, InLock(d) PROVE d = c
    <2>1. pc[d] # "off" /\ d # poller
        BY <1>3 DEF TypeOK, PollerPlaces, InLock
    <2> QED
        BY <1>1, <1>3, <2>1 DEF Sched, High, Priority
<1>4. ASSUME NEW d \in Contexts PROVE ~MayStart(d)
    BY <1>1, HighStart, LowStart DEF High
<1>5. ASSUME NEW d \in Contexts, OnCpu(d) PROVE d = c
    <2>1. CurrentPriority(c) = 4
        BY DEF CurrentPriority, Ceiling
    <2>2. 4 <= CurrentPriority(d)
        BY <1>1, <1>5, <2>1 DEF OnCpu
    <2>3. InLock(d) \/ d \in High
        BY <2>2 DEF CurrentPriority, Priority, High
    <2>4. d = isr => InLock(d)
        BY <1>5 DEF OnCpu, TypeOK, DriverPlaces, InLock
    <2>5. d # poller
        BY <1>2, <1>5 DEF OnCpu
    <2> QED
        BY <1>3, <2>3, <2>4, <2>5 DEF High
<1> QED
    BY <1>1, <1>2, <1>3, <1>4, <1>5

\* What a step does while a context is inside a lock.
LEMMA LockedRuns ==
    ASSUME TypeOK, Sched, NEW c \in Contexts, InLock(c), [Next]_vars
    PROVE  \/ Finish(c)
           \/ UNCHANGED << pc, request, cause >> /\ (woken => woken')
<1> USE LockAlone
<1>1. ASSUME NEW t \in Tasks, Task(t) PROVE Finish(c)
    BY <1>1, ContextsDistinct DEF Task, TaskStart, WithMut, TaskPending, RequestStore,
       RequestWake, Finish, InLock
<1>2. CASE Driver
    BY <1>2, ContextsDistinct DEF Driver, EthernetIsr, LinkStart, LinkSame, LinkChanged,
       Callback, RequestStore, RequestWake, Finish, InLock
<1>3. ~Poller
    BY ContextsDistinct DEF Poller, PollerStart, AwaitRequested, AwaitElapsed,
       AwaitPending, CheckDown, CheckUp, IfacePoll, PollAt
<1>4. CASE Hardware
    BY <1>4 DEF Hardware, Tick, DelayElapsed, FrameReceived, TxComplete, Cable
<1>5. CASE UNCHANGED vars
    BY <1>5 DEF vars
<1> QED
    BY <1>1, <1>2, <1>3, <1>4, <1>5 DEF Next

\* What a step does while the poller has not started.
LEMMA OffSteps ==
    ASSUME TypeOK, pc[poller] = "off", [Next]_vars
    PROVE  \/ PollerStart
           \/ /\ pc'[poller] = "off"
              /\ woken => woken'
              /\ irq # {} => irq' # {} \/ EthernetIsr
<1> USE ContextsDistinct
<1>0. ASSUME NEW x \in Contexts, NEW w, Goto(x, w), x # poller
      PROVE  pc'[poller] = pc[poller]
    BY <1>0 DEF Goto, TypeOK
<1>1. ASSUME NEW t \in Tasks, Task(t) PROVE pc'[poller] = "off" /\ (woken => woken')
                                          /\ irq' = irq
    BY <1>0, <1>1 DEF Task, TaskStart, WithMut, TaskPending, RequestStore, RequestWake
<1>2. CASE Driver
    BY <1>0, <1>2 DEF Driver, EthernetIsr, LinkStart, LinkSame, LinkChanged, Callback,
       RequestStore, RequestWake
<1>3. CASE Poller
    BY <1>3 DEF Poller, AwaitRequested, AwaitElapsed, AwaitPending, CheckDown, CheckUp,
       IfacePoll, PollAt
<1>4. CASE Hardware
    BY <1>4 DEF Hardware, Tick, DelayElapsed, FrameReceived, TxComplete, Cable
<1>5. CASE UNCHANGED vars
    BY <1>5 DEF vars
<1> QED
    BY <1>1, <1>2, <1>3, <1>4, <1>5 DEF Next

\* The ways a poll can be owed, from the first to the last.
Latched == pc[poller] = "off" /\ irq # {}
Called == \E c \in {isr, link} : pc[c] = "callback" /\ cause[c] # {}
At(place) == \E c \in Contexts : pc[c] = place
Pending == pc[poller] = "off" /\ woken
Started == pc[poller] # "off"

\* A step inside a lock takes it to the next place, or out of the lock.
LEMMA LockSteps ==
    ASSUME TypeOK, Sched, Locked
    PROVE  /\ Called => (At("store"))'
           /\ At("callback") => (At("store"))' \/ Quiet'
           /\ At("store") => (At("wake"))' /\ request'
           /\ At("wake") => Quiet' /\ Pending'
<1> USE ContextsDistinct
<1>1. PICK c \in Contexts \ {poller} : Finish(c)
    BY DEF Locked
<1>2. InLock(c)
    BY <1>1 DEF Finish, Callback, RequestStore, RequestWake, InLock
<1>3. \A d \in Contexts : pc[d] \in {"callback", "store", "wake"} => d = c
    BY <1>2, LockAlone DEF InLock
<1>4. pc[poller] = "off"
    BY <1>2, LockAlone
<1>5. ASSUME NEW w, Goto(c, w)
      PROVE  pc'[c] = w /\ \A d \in Contexts : d # c => pc'[d] = pc[d]
    BY <1>5 DEF Goto, TypeOK
<1>6. ASSUME NEW w, Goto(c, w), w \in {"run", "off"} PROVE Quiet'
    BY <1>3, <1>4, <1>5, <1>6 DEF Quiet, InLock
<1>7. CASE Callback(c)
    <2>1. pc[c] = "callback"
        BY <1>7 DEF Callback
    <2>2. cause[c] # {} => pc'[c] = "store"
        BY <1>5, <1>7 DEF Callback
    <2>3. cause[c] = {} => Quiet'
        BY <1>6, <1>7 DEF Callback
    <2>4. At("store") \/ At("wake") => FALSE
        BY <1>3, <2>1 DEF At
    <2>5. Called => cause[c] # {}
        BY <1>3 DEF Called
    <2> QED
        BY <2>2, <2>3, <2>4, <2>5 DEF At
<1>8. CASE RequestStore(c)
    <2>1. pc[c] = "store" /\ pc'[c] = "wake" /\ request'
        BY <1>5, <1>8 DEF RequestStore
    <2> QED
        BY <1>3, <2>1 DEF At, Called
<1>9. CASE RequestWake(c)
    <2>1. pc[c] = "wake" /\ woken'
        BY <1>9 DEF RequestWake
    <2>2. Quiet'
        BY <1>6, <1>9 DEF RequestWake
    <2> QED
        BY <1>3, <2>1, <2>2 DEF At, Called, Pending, Quiet
<1> QED
    BY <1>1, <1>7, <1>8, <1>9 DEF Finish

\* Other steps leave the lock as it is.
LEMMA LockStays ==
    ASSUME TypeOK, Sched, [Next]_vars, ~Locked, \E c \in Contexts : InLock(c)
    PROVE  UNCHANGED << pc, request, cause >>
<1>1. PICK c \in Contexts : InLock(c)
    OBVIOUS
<1>2. c # poller
    BY <1>1, LockAlone
<1> QED
    BY <1>1, <1>2, LockedRuns DEF Locked

\* The scheduling behind NobodyBlocks: whoever is started at priority 4, or inside a
\* lock, has the core, and with neither there a context of priority 4 may start.
Unblocked ==
    /\ Started => OnCpu(poller)
    /\ \A c \in Contexts : InLock(c) => OnCpu(c)
    /\ Quiet => \A h \in High : MayStart(h)

\* With the ceilings main.rs gives net and device no context ever waits for another:
\* what is left of NobodyBlocks is that each action has a successor.
THEOREM NobodyWaits == Spec => []Unblocked
<1>1. TypeOK => Unblocked
    <2> SUFFICES ASSUME TypeOK PROVE Unblocked
        OBVIOUS
    <2> USE ContextsDistinct DEF Priority, Ceiling, CurrentPriority, Preempted
    <2>1. Started => OnCpu(poller)
        BY DEF Started, OnCpu
    <2>2. \A c \in Contexts : InLock(c) => OnCpu(c)
        BY DEF OnCpu, InLock
    <2>3. ASSUME Quiet, NEW h \in High PROVE MayStart(h)
        <3>1. pc[poller] = "off" /\ pc[isr] = "off"
            BY <2>3 DEF Quiet, TypeOK, DriverPlaces, InLock
        <3> QED
            BY <2>3, <3>1 DEF MayStart, Quiet, High
    <2> QED
        BY <2>1, <2>2, <2>3 DEF Unblocked
<1> QED
    BY <1>1, TypeCorrect, PTL

Alive == FairSpec /\ []NobodyBlocks

\* What the liveness proofs use of the poller: its invariants.
Inv == Known /\ NoLostPoll /\ Timer /\ FrameKnown

\* They hold of it.
LEMMA AliveInv == Alive => []Inv /\ []NobodyBlocks /\ [][Next]_vars
<1>1. Init => Timer /\ FrameKnown
    BY DEF Init, Timer, FrameKnown
<1>2. Known /\ Timer /\ FrameKnown /\ [Next]_vars => Timer' /\ FrameKnown'
    BY TimerNext, FrameKnownNext DEF Known
<1>3. Spec => [](Timer /\ FrameKnown)
    BY <1>1, <1>2, AlwaysKnown, PTL DEF Spec
<1> QED
    BY <1>3, AlwaysKnown, RequestsNotLost, PTL DEF Alive, FairSpec, Spec, Inv

\* A lock is left: a callback becomes a request, a request a wake-up.
LEMMA LocksEnd ==
    Alive => /\ Called ~> At("store")
             /\ At("store") ~> At("wake") /\ request
             /\ At("wake") ~> Pending /\ Quiet
             /\ At("callback") ~> At("store") \/ Quiet
<1> DEFINE Busy == \E c \in Contexts : InLock(c)
<1>1. Alive => WF_vars(Locked)
    BY PTL DEF Alive, FairSpec, Fairness
<1>2. Called \/ At("callback") \/ At("store") \/ At("wake") => Busy
    BY ContextsDistinct DEF Called, At, InLock
<1>3. NobodyBlocks /\ (Called \/ At("callback") \/ At("store") \/ At("wake"))
          => ENABLED <<Locked>>_vars
    BY <1>2 DEF NobodyBlocks
<1> USE DEF Inv, Known
<1>4. Alive => (Called ~> At("store"))
    <2>1. Inv /\ Called /\ [Next]_vars => Called' \/ (At("store"))'
        BY <1>2, LockSteps, LockStays DEF Called
    <2>2. Inv /\ Called /\ <<Locked>>_vars => (At("store"))'
        BY LockSteps
    <2> QED
        BY <1>1, <1>3, <2>1, <2>2, AliveInv, PTL
<1>5. Alive => (At("store") ~> At("wake") /\ request)
    <2>1. Inv /\ At("store") /\ [Next]_vars => (At("store"))' \/ (At("wake") /\ request)'
        BY <1>2, LockSteps, LockStays DEF At
    <2>2. Inv /\ At("store") /\ <<Locked>>_vars => (At("wake") /\ request)'
        BY LockSteps
    <2> QED
        BY <1>1, <1>3, <2>1, <2>2, AliveInv, PTL
<1>6. Alive => (At("wake") ~> Pending /\ Quiet)
    <2>1. Inv /\ At("wake") /\ [Next]_vars => (At("wake"))' \/ (Pending /\ Quiet)'
        BY <1>2, LockSteps, LockStays DEF At
    <2>2. Inv /\ At("wake") /\ <<Locked>>_vars => (Pending /\ Quiet)'
        BY LockSteps
    <2> QED
        BY <1>1, <1>3, <2>1, <2>2, AliveInv, PTL
<1>7. Alive => (At("callback") ~> At("store") \/ Quiet)
    <2>1. Inv /\ At("callback") /\ [Next]_vars
              => (At("callback"))' \/ (At("store"))' \/ Quiet'
        BY <1>2, LockSteps, LockStays DEF At
    <2>2. Inv /\ At("callback") /\ <<Locked>>_vars => (At("store"))' \/ Quiet'
        BY LockSteps
    <2> QED
        BY <1>1, <1>3, <2>1, <2>2, AliveInv, PTL
<1> QED
    BY <1>4, <1>5, <1>6, <1>7

\* While the poller sleeps the locks in its way are left again and again.
LEMMA SleepsQuietly == Alive => (~Started ~> Quiet)
<1>1. Quiet \/ Started \/ At("callback") \/ At("store") \/ At("wake")
    BY DEF Quiet, Started, At, InLock
<1> QED
    BY <1>1, LocksEnd, PTL

\* A woken poller starts.
LEMMA PendingStarts == Alive => (Pending ~> Started)
<1>1. Inv /\ PollerStart => Started'
    BY ContextsDistinct DEF PollerStart, Goto, Inv, Known, TypeOK, Started
<1>2. Inv /\ Pending /\ [Next]_vars => Pending' \/ Started'
    BY <1>1, OffSteps DEF Pending, Inv, Known
<1>3. NobodyBlocks /\ Quiet /\ Pending => ENABLED <<PollerStart>>_vars
    BY DEF NobodyBlocks, Pending
<1>4. Pending => ~Started
    BY DEF Pending, Started
<1>5. Alive => SF_vars(PollerStart)
    BY PTL DEF Alive, FairSpec, Fairness
<1> QED
    BY <1>1, <1>2, <1>3, <1>4, <1>5, AliveInv, SleepsQuietly, PTL

\* A poll that is owed starts. A latched interrupt becomes a callback, a callback
\* a request, a request a wake-up; a wake-up starts the poller since the locks in
\* its way are left again and again. This is the fairness Firmware assumes of
\* PollStarts.
THEOREM OwedPollsStart == FairSpec /\ []NobodyBlocks => PollsStart
<1>1. Inv /\ EthernetIsr => Called'
    BY ContextsDistinct DEF EthernetIsr, Goto, Inv, Known, TypeOK, Called
<1>2. Inv /\ PollerStart => Started'
    BY ContextsDistinct DEF PollerStart, Goto, Inv, Known, TypeOK, Started
<1>3. Inv /\ Latched /\ [Next]_vars => Latched' \/ Called' \/ Started'
    BY <1>1, <1>2, OffSteps DEF Latched, Inv, Known
<1>4. NobodyBlocks /\ Quiet /\ Latched => ENABLED <<EthernetIsr>>_vars
    BY DEF NobodyBlocks, Latched
<1>5. Latched => ~Started
    BY DEF Latched, Started
<1>6. Alive => SF_vars(EthernetIsr)
    BY PTL DEF Alive, FairSpec, Fairness
<1>7. Alive => (Latched ~> Called \/ Started)
    BY <1>1, <1>3, <1>4, <1>5, <1>6, AliveInv, SleepsQuietly, PTL
<1>8. Phase = "owed" => Latched \/ Called \/ At("store") \/ At("wake") \/ Pending
    BY DEF Phase, Owed, Latched, Called, At, Pending
<1>9. Started => Phase = "polling"
    BY DEF Phase, Started
<1>10. Alive => (Phase = "owed" ~> Phase = "polling")
    BY <1>7, <1>8, <1>9, LocksEnd, PendingStarts, PTL
<1> QED
    BY <1>10 DEF PollsStart, Alive

-----------------------------------------------------------------------------
\* Once started, the poller is moved by its own steps only, and they take it from
\* place to place round its loop.
LEMMA StartedSteps ==
    ASSUME TypeOK, Started, [Next]_vars
    PROVE  \/ Poller
           \/ pc'[poller] = pc[poller] /\ (request => request')
<1> USE ContextsDistinct
<1>1. ASSUME NEW x \in Contexts, NEW w, Goto(x, w), x # poller
      PROVE  pc'[poller] = pc[poller]
    BY <1>1 DEF Goto, TypeOK
<1>2. ASSUME NEW t \in Tasks, Task(t)
      PROVE  pc'[poller] = pc[poller] /\ (request => request')
    BY <1>1, <1>2 DEF Task, TaskStart, WithMut, TaskPending, RequestStore, RequestWake
<1>3. CASE Driver
    BY <1>1, <1>3 DEF Driver, EthernetIsr, LinkStart, LinkSame, LinkChanged, Callback,
       RequestStore, RequestWake
<1>4. CASE Hardware
    BY <1>4 DEF Hardware, Tick, DelayElapsed, FrameReceived, TxComplete, Cable
<1>5. CASE UNCHANGED vars
    BY <1>5 DEF vars
<1> QED
    BY <1>2, <1>3, <1>4, <1>5 DEF Next

\* The places of the loop a request can find the poller in.
Polls(place) == pc[poller] = place

\* The loop of network_poller_task comes back to the flag and takes it.
LEMMA LoopSteps ==
    ASSUME TypeOK, Poller, Started
    PROVE  /\ Polls("check") => (Polls("poll"))' \/ (Polls("await"))'
           /\ Polls("poll") => (Polls("poll_at"))'
           /\ Polls("poll_at") => (Polls("await"))'
           /\ Polls("await") /\ request => ~request'
           /\ Polls("await") => (Polls("check"))' \/ ~Started'
<1> USE ContextsDistinct
<1>1. ASSUME NEW w, Goto(poller, w) PROVE pc'[poller] = w
    BY <1>1 DEF Goto, TypeOK
<1>2. ~PollerStart
    BY DEF PollerStart, MayStart, Started
<1> QED
    BY <1>1, <1>2 DEF Poller, AwaitRequested, AwaitElapsed, AwaitPending, CheckDown,
       CheckUp, IfacePoll, PollAt, Polls, Started

\* A started poller goes round its loop.
LEMMA LoopRuns ==
    Alive => /\ Polls("check") ~> Polls("poll") \/ Polls("await")
             /\ Polls("poll") ~> Polls("poll_at")
             /\ Polls("poll_at") ~> Polls("await")
             /\ Polls("await") ~> Polls("check") \/ ~Started
<1> USE DEF Inv, Known
<1>1. Polls("check") \/ Polls("poll") \/ Polls("poll_at") \/ Polls("await") => Started
    BY DEF Started, Polls
<1>2. NobodyBlocks /\ Started => ENABLED <<Poller>>_vars
    BY DEF NobodyBlocks, Started
<1>3. Alive => WF_vars(Poller)
    BY PTL DEF Alive, FairSpec, Fairness
<1>4. Alive => (Polls("check") ~> Polls("poll") \/ Polls("await"))
    <2>1. Inv /\ Polls("check") /\ [Next]_vars
              => (Polls("check"))' \/ (Polls("poll"))' \/ (Polls("await"))'
        BY <1>1, StartedSteps, LoopSteps DEF Polls
    <2>2. Inv /\ Polls("check") /\ <<Poller>>_vars => (Polls("poll"))' \/ (Polls("await"))'
        BY <1>1, LoopSteps
    <2> QED
        BY <1>1, <1>2, <1>3, <2>1, <2>2, AliveInv, PTL
<1>5. Alive => (Polls("poll") ~> Polls("poll_at"))
    <2>1. Inv /\ Polls("poll") /\ [Next]_vars => (Polls("poll"))' \/ (Polls("poll_at"))'
        BY <1>1, StartedSteps, LoopSteps DEF Polls
    <2>2. Inv /\ Polls("poll") /\ <<Poller>>_vars => (Polls("poll_at"))'
        BY <1>1, LoopSteps
    <2> QED
        BY <1>1, <1>2, <1>3, <2>1, <2>2, AliveInv, PTL
<1>6. Alive => (Polls("poll_at") ~> Polls("await"))
    <2>1. Inv /\ Polls("poll_at") /\ [Next]_vars => (Polls("poll_at"))' \/ (Polls("await"))'
        BY <1>1, StartedSteps, LoopSteps DEF Polls
    <2>2. Inv /\ Polls("poll_at") /\ <<Poller>>_vars => (Polls("await"))'
        BY <1>1, LoopSteps
    <2> QED
        BY <1>1, <1>2, <1>3, <2>1, <2>2, AliveInv, PTL
<1>7. Alive => (Polls("await") ~> Polls("check") \/ ~Started)
    <2>1. Inv /\ Polls("await") /\ [Next]_vars
              => (Polls("await"))' \/ (Polls("check"))' \/ ~Started'
        BY <1>1, StartedSteps, LoopSteps DEF Polls
    <2>2. Inv /\ Polls("await") /\ <<Poller>>_vars => (Polls("check"))' \/ ~Started'
        BY <1>1, LoopSteps
    <2> QED
        BY <1>1, <1>2, <1>3, <2>1, <2>2, AliveInv, PTL
<1> QED
    BY <1>4, <1>5, <1>6, <1>7

\* The places of a started poller.
LEMMA StartedPlaces ==
    Inv /\ Started => Polls("check") \/ Polls("poll") \/ Polls("poll_at") \/ Polls("await")
BY DEF Inv, Known, TypeOK, Started, Polls, PollerPlaces

\* Every request is taken: the sleeping poller starts (OwedPollsStart, since no
\* request of a sleeping poller lacks its wake-up), and a started one, wherever it
\* is in its loop, comes to the swap of the flag.
THEOREM RequestsAreServed == FairSpec /\ []NobodyBlocks => RequestServed
<1>1. Inv /\ request /\ ~Started => At("wake") \/ Pending
    BY DEF Inv, NoLostPoll, Started, At, Pending
<1>2. Polls("await") => Started
    BY DEF Started, Polls
<1>3. Inv /\ Polls("await") /\ request /\ [Next]_vars => (Polls("await"))' \/ ~request'
    BY <1>2, StartedSteps, LoopSteps DEF Polls, Inv, Known
<1>4. Inv /\ Polls("await") /\ request /\ <<Poller>>_vars => ~request'
    BY <1>2, LoopSteps DEF Inv, Known
<1>5. NobodyBlocks /\ Started => ENABLED <<Poller>>_vars
    BY DEF NobodyBlocks, Started
<1>6. Alive => WF_vars(Poller)
    BY PTL DEF Alive, FairSpec, Fairness
<1>7. Alive => (Polls("await") ~> ~request)
    BY <1>2, <1>3, <1>4, <1>5, <1>6, AliveInv, PTL
<1>8. Alive => (Started ~> ~request)
    BY <1>7, AliveInv, LoopRuns, StartedPlaces, PTL
<1>9. Alive => (request ~> ~request)
    BY <1>1, <1>8, AliveInv, LocksEnd, PendingStarts, PTL
<1> QED
    BY <1>9 DEF RequestServed, Alive

-----------------------------------------------------------------------------
(***************************************************************************)
(* WorkPolled. A request leads to the check of the link and, if it is up,  *)
(* to the poll. A frame in the ring has its request, or an interrupt that  *)
(* will make it, now or when the transmission under way completes          *)
(* (FrameKnown). A deadline that has come finds the poller's own delay     *)
(* over (Deadline), and that delay in the queue (Timer).                   *)
(***************************************************************************)
Reached == ~up \/ Polls("poll")
Signalled == irq # {}
Sending == tx_busy > 0

\* A socket is due, in the monotonic's ticks.
Late == \E t \in Tasks : InstantOf(due[t]) <= now

\* The delay of the sleeping poller is over and has not woken it yet.
Ripe == pc[poller] = "off" /\ armed /\ next_poll_at <= now

\* What is due in smoltcp's microseconds is due in ticks: smol_now rounds down.
LEMMA DueInTicks ==
    ASSUME TypeOK, NEW t \in Tasks, due[t] <= SmolNow
    PROVE  InstantOf(due[t]) <= now
<1>1. PICK k \in Nat \ {0} : k = TicksPerMicro
    BY TimeAssumption
<1>2. now \in Nat /\ due[t] \in Nat
    BY InstantOfOrder, TimeAssumption, NeverType DEF TypeOK
<1>3. PICK q \in Nat : q = now \div k
    BY <1>1, <1>2
<1>4. q * k <= now
    BY <1>1, <1>2, <1>3
<1>5. InstantOf(due[t]) <= InstantOf(q) /\ InstantOf(due[t]) \in Nat
    BY <1>1, <1>2, <1>3, InstantOfOrder DEF SmolNow
<1>6. InstantOf(q) = q * k /\ q * k \in Nat
    BY <1>1 DEF InstantOf
<1> QED
    BY <1>2, <1>4, <1>5, <1>6

\* With a socket due the poller's own instant has come, unless a poll is on its way.
LEMMA LateInstant ==
    ASSUME TypeOK, Deadline, up, Late, pc[poller] \in {"off", "await"}, ~Coming
    PROVE  next_poll_at <= now /\ next_poll_at # InstantOf(Never)
<1>1. PICK t \in Tasks : InstantOf(due[t]) <= now
    BY DEF Late
<1>2. /\ InstantOf(MaxTime) < InstantOf(Never)
      /\ InstantOf(MaxTime) \in Nat /\ InstantOf(Never) \in Nat
    BY NeverType, InstantOfOrder, TimeAssumption
<1>3. due[t] \in Nat /\ InstantOf(due[t]) \in Nat /\ now \in Nat /\ next_poll_at \in Nat
    BY <1>2, NeverType, InstantOfOrder DEF TypeOK
<1>4. now < InstantOf(Never)
    BY <1>2 DEF TypeOK
<1>5. due[t] # Never
    BY <1>1, <1>3, <1>4, <1>2
<1>6. next_poll_at <= InstantOf(due[t])
    BY <1>5 DEF Deadline
<1> QED
    BY <1>1, <1>2, <1>3, <1>4, <1>6

\* What one step may do to each of them: none is lost before it has led to the next.
LEMMA WorkSteps ==
    ASSUME Known, [Next]_vars
    PROVE  /\ request => request' \/ (Polls("check"))'
           /\ Signalled => Signalled' \/ Called'
           /\ Sending /\ up => Sending' \/ Signalled' \/ ~up'
           /\ Late => Late' \/ (At("store"))' \/ Polls("poll")
           /\ Ripe => Ripe' \/ Pending' \/ Started'
           /\ Started => up' = up
<1> USE ContextsDistinct
<1>t. TypeOK
    BY DEF Known
<1>k. /\ due' = due /\ now' = now => (Late => Late')
      /\ irq' = irq => (Signalled => Signalled')
      /\ tx_busy' = tx_busy => (Sending => Sending')
    BY DEF Late, Signalled, Sending
<1>p. ASSUME NEW x \in Contexts \ {poller}, NEW w, Goto(x, w)
      PROVE  pc'[poller] = pc[poller] /\ pc'[x] = w
    BY <1>p, <1>t, Moved
<1>r. ASSUME pc'[poller] = pc[poller], UNCHANGED << armed, next_poll_at, now >>
      PROVE  Ripe => Ripe'
    BY <1>r DEF Ripe
<1>1. ASSUME NEW c \in Contexts \ {poller}, RequestStore(c) \/ RequestWake(c)
      PROVE  /\ request => request'
             /\ UNCHANGED << armed, next_poll_at, now, due, irq, tx_busy, up >>
             /\ pc'[poller] = pc[poller]
    BY <1>1, <1>p DEF RequestStore, RequestWake
<1>2. ASSUME NEW t \in Tasks, TaskStart(t) \/ TaskPending(t)
      PROVE  /\ request => request'
             /\ UNCHANGED << armed, next_poll_at, now, due, irq, tx_busy, up >>
             /\ pc'[poller] = pc[poller]
    BY <1>2, <1>p DEF TaskStart, TaskPending
<1>3. ASSUME NEW t \in Tasks, WithMut(t)
      PROVE  /\ UNCHANGED << request, armed, next_poll_at, now, irq, tx_busy, up >>
             /\ pc'[poller] = pc[poller] /\ (At("store"))'
    BY <1>3, <1>p DEF WithMut, At
<1>4. ASSUME NEW t \in Tasks, Task(t) PROVE
             /\ request => request'
             /\ UNCHANGED << armed, next_poll_at, now, irq, tx_busy, up >>
             /\ pc'[poller] = pc[poller]
             /\ Late => Late' \/ (At("store"))'
    BY <1>1, <1>2, <1>3, <1>4, <1>k DEF Task
<1>5. CASE \E t \in Tasks : Task(t)
    BY <1>4, <1>5, <1>k, <1>r
<1>6. CASE EthernetIsr
    <2>1. Called'
        BY <1>6, <1>t DEF EthernetIsr, Goto, TypeOK, Called
    <2> QED
        BY <1>6, <2>1, <1>p, <1>k, <1>r DEF EthernetIsr
<1>7. CASE LinkChanged
    <2>1. pc[poller] = "off" /\ pc'[poller] = "off"
        BY <1>7, <1>t, <1>p, LinkChangedAlone DEF LinkChanged
    <2>2. up => ~up' /\ tx_busy' = tx_busy
        BY <1>7, <1>t DEF LinkChanged, TypeOK
    <2> QED
        BY <1>7, <2>1, <2>2, <1>k, <1>r DEF LinkChanged, Started
<1>8. CASE LinkStart \/ LinkSame \/ Callback(isr) \/ Callback(link)
    <2>1. /\ UNCHANGED << request, armed, next_poll_at, now, due, irq, tx_busy, up >>
          /\ pc'[poller] = pc[poller]
        BY <1>8, <1>p DEF LinkStart, LinkSame, Callback
    <2> QED
        BY <2>1, <1>k, <1>r
<1>9. CASE RequestStore(isr) \/ RequestWake(isr) \/ RequestStore(link) \/ RequestWake(link)
    BY <1>1, <1>9, <1>k, <1>r
<1>10. CASE PollerStart
    <2>1. Started'
        BY <1>10, <1>t DEF PollerStart, Goto, TypeOK, Started
    <2> QED
        BY <1>10, <2>1, <1>k DEF PollerStart
<1>11. CASE AwaitRequested \/ AwaitElapsed \/ AwaitPending \/ CheckDown \/ CheckUp \/ PollAt
    <2>1. Started /\ UNCHANGED << now, due, irq, tx_busy, up >>
        BY <1>11 DEF AwaitRequested, AwaitElapsed, AwaitPending, CheckDown, CheckUp, PollAt,
           Started
    <2>2. request => request' \/ (Polls("check"))'
        BY <1>11, <1>t DEF AwaitRequested, AwaitElapsed, AwaitPending, CheckDown, CheckUp,
           PollAt, Polls, Goto, TypeOK
    <2> QED
        BY <2>1, <2>2, <1>k DEF Started, Ripe
<1>12. CASE IfacePoll
    <2>1. Polls("poll") /\ UNCHANGED << request, now, irq, up >>
        BY <1>12 DEF IfacePoll, Polls
    <2>2. tx_busy' \in tx_busy..NTx
        BY <1>12 DEF IfacePoll
    <2>3. Sending => Sending'
        BY <2>2, <1>t, RingAssumption DEF Sending, TypeOK
    <2> QED
        BY <2>1, <2>3, <1>k DEF Polls, Ripe
<1>13. CASE Tick
    <2>1. now \in Nat /\ next_poll_at \in Nat /\ \A t \in Tasks : InstantOf(due[t]) \in Nat
        BY <1>t, InstantOfOrder, NeverType, TimeAssumption DEF TypeOK
    <2>2. now' = now + 1
        BY <1>13 DEF Tick
    <2>3. Late => Late'
        BY <1>13, <2>1, <2>2 DEF Tick, Late, InstantOf
    <2>4. Ripe => Ripe'
        BY <1>13, <2>1, <2>2 DEF Tick, Ripe
    <2> QED
        BY <1>13, <2>3, <2>4, <1>k DEF Tick
<1>14. CASE DelayElapsed
    BY <1>14, <1>k DEF DelayElapsed, Ripe, Pending
<1>15. CASE FrameReceived \/ TxComplete
    <2>1. Signalled' /\ UNCHANGED << pc, request, armed, next_poll_at, now, due, up >>
        BY <1>15 DEF FrameReceived, TxComplete, Signalled
    <2> QED
        BY <2>1, <1>k, <1>r
<1>16. CASE Cable \/ UNCHANGED vars
    BY <1>16, <1>k, <1>r DEF Cable, vars
<1> QED
    BY <1>5, <1>6, <1>7, <1>8, <1>9, <1>10, <1>11, <1>12, <1>13, <1>14, <1>15, <1>16
    DEF Next, Poller, Driver, Hardware

\* A started poller that finds a socket due does not go to sleep.
LEMMA LateGoesOn ==
    ASSUME Known, up, Late, Polls("await"), Poller
    PROVE  (Polls("check"))'
<1> USE ContextsDistinct DEF Polls
<1>1. request \/ next_poll_at <= now
    <2> SUFFICES ASSUME ~request PROVE next_poll_at <= now
        OBVIOUS
    <2>1. \A l \in Contexts \ High : ~InLock(l)
        BY DEF Known, Sched, High
    <2>2. pc[isr] = "off"
        BY DEF Known, Sched, Priority
    <2>3. ~Coming
        BY <2>1, <2>2 DEF Coming, InLock, High
    <2> QED
        BY <2>3, LateInstant DEF Known
<1>2. now \in Nat /\ next_poll_at \in Nat
    BY InstantOfOrder, NeverType, TimeAssumption DEF Known, TypeOK
<1>3. AwaitRequested \/ AwaitElapsed
    <2>1. ~AwaitPending
        <3>1. AwaitPending => ~request /\ next_poll_at > now
            BY DEF AwaitPending
        <3>2. ~(next_poll_at <= now /\ next_poll_at > now)
            BY <1>2
        <3> QED
            BY <1>1, <3>1, <3>2
    <2> QED
        BY <2>1 DEF Poller, PollerStart, MayStart, CheckDown, CheckUp, IfacePoll, PollAt
<1> QED
    BY <1>3 DEF AwaitRequested, AwaitElapsed, Goto, Known, TypeOK

Frames == rx_queued > 0
Overdue == up /\ Late

\* Whatever leads to a request leads to a poll of the interface, or to the loss of
\* the link.
LEMMA AskedIsPolled ==
    Alive => /\ Polls("check") ~> Reached
             /\ request ~> Reached
             /\ At("store") ~> Reached
             /\ Called ~> Reached
<1>0. Reached <=> ~up \/ Polls("poll")
    BY DEF Reached
<1>1. Alive => (Polls("check") ~> Reached)
    <2>1. Polls("check") => Started
        BY DEF Polls, Started
    <2>2. Inv /\ up /\ Polls("check") /\ Poller => (Polls("poll"))'
        BY ContextsDistinct DEF Polls, Poller, PollerStart, MayStart, AwaitRequested,
           AwaitElapsed, AwaitPending, CheckDown, CheckUp, IfacePoll, PollAt, Goto, Inv,
           Known, TypeOK
    <2>3. Inv /\ up /\ Polls("check") /\ [Next]_vars
              => up' /\ ((Polls("check"))' \/ (Polls("poll"))')
        BY <2>1, <2>2, WorkSteps, StartedSteps DEF Polls, Inv, Known
    <2>4. NobodyBlocks /\ Polls("check") => ENABLED <<Poller>>_vars
        BY <2>1 DEF NobodyBlocks, Started
    <2>5. Alive => WF_vars(Poller)
        BY PTL DEF Alive, FairSpec, Fairness
    <2> QED
        BY <1>0, <2>2, <2>3, <2>4, <2>5, AliveInv, PTL
<1>2. Alive => (request ~> Reached)
    <2>1. Inv /\ request /\ [Next]_vars => request' \/ (Polls("check"))'
        BY WorkSteps DEF Inv
    <2>2. Alive => (request ~> ~request)
        BY RequestsAreServed DEF RequestServed, Alive
    <2> QED
        BY <1>1, <2>1, <2>2, AliveInv, PTL
<1> QED
    BY <1>1, <1>2, LocksEnd, PTL

\* A started poller polls the interface or goes to sleep.
LEMMA StartedEnds == Alive => (Started ~> Reached \/ ~Started)
<1>1. Polls("poll") => Reached
    BY DEF Reached
<1> QED
    BY <1>1, AskedIsPolled, LoopRuns, StartedPlaces, AliveInv, PTL

\* A latched interrupt leads to a poll: a poller that does not poll sleeps, and
\* while it sleeps the interrupt is served.
LEMMA SignalledIsPolled == Alive => (Signalled ~> Reached)
<1>1. Inv /\ Signalled /\ [Next]_vars => Signalled' \/ Called'
    BY WorkSteps DEF Inv
<1>2. Inv /\ <<EthernetIsr>>_vars => Called'
    BY ContextsDistinct DEF EthernetIsr, Goto, Inv, Known, TypeOK, Called
<1>3. NobodyBlocks /\ Quiet /\ Signalled => ENABLED <<EthernetIsr>>_vars
    BY DEF NobodyBlocks, Signalled
<1>4. Alive => SF_vars(EthernetIsr)
    BY PTL DEF Alive, FairSpec, Fairness
<1>5. Alive => (Signalled ~> Called \/ Reached)
    BY <1>1, <1>2, <1>3, <1>4, AliveInv, StartedEnds, SleepsQuietly, PTL
<1> QED
    BY <1>5, AskedIsPolled, PTL

\* So does a transmission under way: it completes.
LEMMA SendingIsPolled == Alive => (Sending ~> Reached)
<1>0. Reached <=> ~up \/ Polls("poll")
    BY DEF Reached
<1>1. Inv /\ Sending /\ up /\ [Next]_vars => Sending' \/ Signalled' \/ ~up'
    BY WorkSteps DEF Inv
<1>2. <<TxComplete>>_vars => Signalled'
    BY DEF TxComplete, Signalled
<1>3. NobodyBlocks /\ Sending => ENABLED <<TxComplete>>_vars
    BY DEF NobodyBlocks, Sending
<1>4. Alive => WF_vars(TxComplete)
    BY PTL DEF Alive, FairSpec, Fairness
<1> QED
    BY <1>0, <1>1, <1>2, <1>3, <1>4, AliveInv, SignalledIsPolled, PTL

\* A received frame leads to a poll.
LEMMA FramesArePolled == Alive => (up /\ Frames ~> Reached)
<1>1. Polls("poll") => Reached
    BY DEF Reached
<1>2. Inv /\ up /\ Frames
          => \/ request \/ Signalled \/ Sending \/ Called \/ At("store")
             \/ Polls("check") \/ Polls("poll")
    BY DEF Inv, Known, TypeOK, PollerPlaces, FrameKnown, Frames, Signalled, Sending, Called,
       At, Polls
<1> QED
    BY <1>1, <1>2, AskedIsPolled, SignalledIsPolled, SendingIsPolled, AliveInv, PTL

\* A deadline that has come leads to a poll.
LEMMA OverdueIsPolled == Alive => (Overdue ~> Reached)
<1>0. (Reached <=> ~up \/ Polls("poll")) /\ (Overdue <=> up /\ Late)
    BY DEF Reached, Overdue
<1>1. Inv /\ Overdue /\ [Next]_vars => Overdue' \/ ~up' \/ (At("store"))' \/ Reached
    BY <1>0, WorkSteps DEF Inv, Overdue
<1>2. Polls("await") => Started
    BY DEF Polls, Started
<1>3. Inv /\ Overdue /\ Polls("await") /\ Poller => (Polls("check"))'
    BY LateGoesOn DEF Inv, Overdue
<1>4. Inv /\ Overdue /\ Polls("await") /\ [Next]_vars => (Polls("await"))' \/ (Polls("check"))'
    BY <1>2, <1>3, StartedSteps DEF Polls, Inv, Known
<1>5. NobodyBlocks /\ Polls("await") => ENABLED <<Poller>>_vars
    BY <1>2 DEF NobodyBlocks, Started
<1>6. Alive => WF_vars(Poller) /\ WF_vars(DelayElapsed)
    BY PTL DEF Alive, FairSpec, Fairness
<1>7. Alive => (Overdue /\ Polls("await") ~> Reached)
    BY <1>0, <1>1, <1>3, <1>4, <1>5, <1>6, AliveInv, AskedIsPolled, PTL
<1>8. Alive => (Overdue /\ Started ~> Reached)
    BY <1>0, <1>1, <1>7, AliveInv, AskedIsPolled, LoopRuns, StartedPlaces, PTL
<1>9. Alive => (Ripe ~> Pending \/ Started)
    <2>1. Inv /\ Ripe /\ [Next]_vars => Ripe' \/ Pending' \/ Started'
        BY WorkSteps DEF Inv
    <2>2. Ripe /\ DelayElapsed => Pending'
        BY DEF Ripe, DelayElapsed, Pending
    <2>3. NobodyBlocks /\ Ripe => ENABLED <<DelayElapsed>>_vars
        BY DEF NobodyBlocks, Ripe
    <2> QED
        BY <1>6, <2>1, <2>2, <2>3, AliveInv, PTL
<1>10. Inv /\ Overdue /\ ~Started => request \/ At("store") \/ Called \/ Pending \/ Ripe
    <2> SUFFICES ASSUME Inv, Overdue, ~Started PROVE Coming \/ Pending \/ Ripe
        BY DEF Coming, At, Called
    <2>1. ~Coming => next_poll_at <= now /\ next_poll_at # InstantOf(Never)
        BY LateInstant DEF Inv, Known, Overdue, Started
    <2> QED
        BY <2>1 DEF Inv, Timer, Started, Pending, Ripe
<1>11. Alive => (Overdue /\ ~Started ~> Reached)
    BY <1>0, <1>1, <1>8, <1>9, <1>10, AliveInv, AskedIsPolled, PendingStarts, PTL
<1> QED
    BY <1>8, <1>11, PTL

\* Work for smoltcp is polled: a frame, since a request or an interrupt that will
\* make one is never far (FrameKnown), and a deadline, since the poller's own is
\* no later and is in the timer queue (Deadline, Timer); whatever the poller, the
\* locks, the two flags and the hardware are doing.
THEOREM WorkIsPolled == FairSpec /\ []NobodyBlocks => WorkPolled
<1>1. Inv /\ (up /\ Work) => (up /\ Frames) \/ Overdue
    BY DueInTicks DEF Inv, Known, Work, Frames, Overdue, Late
<1>2. Reached <=> ~up \/ pc[poller] = "poll"
    BY DEF Reached, Polls
<1>3. Alive => (up /\ Work ~> ~up \/ pc[poller] = "poll")
    BY <1>1, <1>2, AliveInv, FramesArePolled, OverdueIsPolled, PTL
<1> QED
    BY <1>3 DEF WorkPolled, Alive

=============================================================================
