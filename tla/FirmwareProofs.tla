--------------------------- MODULE FirmwareProofs ---------------------------
(***************************************************************************)
(* mqtt_task on the poll service: the composition implements both of its   *)
(* parts, so what is proved of each holds of it; no RST of an aborted      *)
(* connection is left behind while the link and the neighbor are there;    *)
(* and what mqtt_task waits for returns.                                   *)
(***************************************************************************)
EXTENDS Firmware, MqttTaskProofs

\* The composition's steps are the task's.
LEMMA FirmwareStepIsMqttStep == [FirmwareNext]_firmwareVars => [MqttNext]_mqttVars
<1> SUFFICES ASSUME FirmwareNext \/ UNCHANGED firmwareVars
             PROVE  MqttNext \/ UNCHANGED mqttVars
    OBVIOUS
<1>1. ASSUME Locks PROVE MqttNext
    <2>1. CASE BackoffOver \/ DropOld \/ ConnectCall \/ Connected
        BY <2>1 DEF MqttNext, MqttStep
    <2>2. CASE SessionPolled \/ SessionTransportError \/ DisconnectCall
        BY <2>2 DEF MqttNext, MqttStep
    <2>3. CASE /\ (\E f \in Futures : PollPending(f)) \/ DisconnectRegister
               /\ UNCHANGED << place, clock >>
        BY <2>3 DEF MqttNext, MqttStep, Waiting
    <2> QED
        BY <1>1, <2>1, <2>2, <2>3 DEF Locks
<1>2. ASSUME LocksNot PROVE MqttNext
    BY <1>2 DEF LocksNot, MqttNext, MqttStep, Waiting
<1>3. CASE TaskStep
    BY <1>1, <1>2, <1>3 DEF TaskStep, CallsSocket, RunsOn
<1>4. CASE PollStep
    BY <1>4 DEF PollStep, SocketPolled, Dispatched, NeighborFound, MqttNext
<1>5. CASE PollStarts \/ PollEnds \/ Event \/ NeighborForgotten \/ LinkPoll
    BY <1>5 DEF PollStarts, PollEnds, Event, NeighborForgotten, LinkPoll
<1>6. CASE Timers
    BY <1>6 DEF Timers, MqttNext
<1>7. CASE UNCHANGED firmwareVars
    BY <1>7 DEF firmwareVars
<1> QED
    BY <1>3, <1>4, <1>5, <1>6, <1>7 DEF FirmwareNext

\* Under the poller, with its priorities, its link and its neighbor cache,
\* mqtt_task does nothing MqttTask does not allow: every theorem about
\* mqtt_task holds in the firmware.
THEOREM FirmwareImplementsMqtt == FirmwareSpec => MqttSpec
<1>1. FirmwareInit => MqttInit
    BY DEF FirmwareInit
<1> QED
    BY <1>1, FirmwareStepIsMqttStep, PTL DEF FirmwareSpec, MqttSpec

\* The composition's steps are the service's.
LEMMA FirmwareStepIsServiceStep ==
    [FirmwareNext]_firmwareVars => [Service!Next]_(Service!serviceVars)
<1> SUFFICES ASSUME FirmwareNext \/ UNCHANGED firmwareVars
             PROVE  Service!Next \/ UNCHANGED << phase, up, ready >>
    BY DEF Service!serviceVars
<1> USE DEF Service!Next
<1>1. CASE TaskStep
    BY <1>1 DEF TaskStep, CallsSocket, RunsOn
<1>2. CASE PollStep
    BY <1>2 DEF PollStep, SocketPolled, Dispatched, NeighborFound
<1>3. CASE PollStarts \/ PollEnds \/ Event \/ NeighborForgotten \/ LinkPoll
    BY <1>3 DEF PollStarts, PollEnds, Event, NeighborForgotten, LinkPoll
<1>4. CASE Timers
    BY <1>4 DEF Timers
<1>5. CASE UNCHANGED firmwareVars
    BY <1>5 DEF firmwareVars
<1> QED
    BY <1>1, <1>2, <1>3, <1>4, <1>5 DEF FirmwareNext

\* mqtt_task uses the service only as PollService allows it to be used.
THEOREM FirmwareUsesService == FirmwareSpec => Service!Spec
<1>1. FirmwareInit => Service!Init
    BY DEF FirmwareInit
<1> QED
    BY <1>1, FirmwareStepIsServiceStep, PTL DEF FirmwareSpec, Service!Spec

-----------------------------------------------------------------------------
ServiceType ==
    /\ phase \in {"idle", "owed", "polling"}
    /\ up \in BOOLEAN
    /\ ready \subseteq {"mqtt_task"}

\* The service's own variables keep their types.
LEMMA ServiceTyped == Service!Spec => []ServiceType
<1> USE DEF ServiceType
<1>1. Service!Init => ServiceType
    BY DEF Service!Init
<1>2. ServiceType /\ [Service!Next]_(Service!serviceVars) => ServiceType'
    BY DEF Service!Next, Service!serviceVars, Service!Call, Service!Event,
           Service!LinkUp, Service!LinkDown, Service!PollStarts, Service!Poll,
           Service!PollEnds
<1> QED
    BY <1>1, <1>2, PTL DEF Service!Spec

\* Every variable of the composition keeps its type.
THEOREM FirmwareTypeCorrect == FirmwareSpec => []FirmwareTypeOK
<1>1. FirmwareInit => known \in BOOLEAN
    BY DEF FirmwareInit
<1>2. known \in BOOLEAN /\ [FirmwareNext]_firmwareVars => (known \in BOOLEAN)'
    BY DEF FirmwareNext, firmwareVars, TaskStep, CallsSocket, RunsOn, PollStep,
           SocketPolled, Dispatched, NeighborFound, PollStarts, PollEnds, Event,
           NeighborForgotten, LinkPoll, Timers
<1>3. FirmwareSpec => [](known \in BOOLEAN)
    BY <1>1, <1>2, PTL DEF FirmwareSpec
<1>4. MqttTypeOK /\ ServiceType /\ known \in BOOLEAN => FirmwareTypeOK
    BY DEF FirmwareTypeOK, ServiceType
<1> QED
    BY <1>3, <1>4, FirmwareImplementsMqtt, MqttTypeCorrect, FirmwareUsesService,
       ServiceTyped, PTL

-----------------------------------------------------------------------------
(***************************************************************************)
(* ResetsSent. Wanted says that a RST which can be sent keeps the socket   *)
(* ready; the service ends no poll with a socket ready.                    *)
(***************************************************************************)

\* The task's steps without with_mut leave the socket as it is.
LEMMA LocksNotSocket == LocksNot => UNCHANGED sock
<1>1. CASE CheckOpen \/ SessionCall \/ SessionUp
    BY <1>1 DEF CheckOpen, SessionCall, SessionUp, CallFuture, vars
<1>2. CASE SessionError
    BY <1>2 DEF SessionError, Cancel, vars
<1>3. CASE Disconnected
    <2>1. Effect("disconnect")
        BY <1>3 DEF Disconnected, PollReady
    <2> QED
        BY <2>1 DEF Effect
<1>4. CASE DisconnectOpen \/ Sleep \/ Resume
    BY <1>4 DEF DisconnectOpen, Sleep, Resume
<1> QED
    BY <1>1, <1>2, <1>3, <1>4 DEF LocksNot

\* The inductive step for Wanted.
LEMMA WantedNext == Wanted /\ [FirmwareNext]_firmwareVars => Wanted'
<1> SUFFICES ASSUME Wanted, [FirmwareNext]_firmwareVars PROVE Wanted'
    OBVIOUS
<1>k. ASSUME UNCHANGED << sock, ready, known >> PROVE Wanted'
    BY <1>k DEF Wanted, RstPending
<1>1. CASE CallsSocket
    BY <1>1 DEF CallsSocket
<1>2. CASE RunsOn
    BY <1>2, <1>k, LocksNotSocket DEF RunsOn
<1>3. CASE PollStep
    BY <1>3 DEF PollStep, SocketPolled, Dispatched, NeighborFound
<1>4. CASE PollStarts \/ PollEnds \/ Event \/ LinkPoll
    BY <1>4, <1>k DEF PollStarts, PollEnds, Event, LinkPoll, Service!PollStarts,
       Service!PollEnds, Service!Event, Service!LinkUp, Service!LinkDown, mqttVars
<1>5. CASE NeighborForgotten
    BY <1>5 DEF NeighborForgotten, Wanted
<1>6. CASE Timers
    BY <1>6, <1>k DEF Timers, KeepAlive, TimerWakes, Tick, vars
<1>7. CASE UNCHANGED firmwareVars
    BY <1>7, <1>k DEF firmwareVars, mqttVars
<1> QED
    BY <1>1, <1>2, <1>3, <1>4, <1>5, <1>6, <1>7 DEF FirmwareNext, TaskStep

\* The service leaves no socket ready when the tasks run.
LEMMA ServiceServes == Service!Spec => [](Service!Served)
<1>1. Service!Init => Service!Served
    BY DEF Service!Init, Service!Served
<1>2. Service!Served /\ [Service!Next]_(Service!serviceVars) => (Service!Served)'
    BY DEF Service!Served, Service!Next, Service!serviceVars, Service!Call,
           Service!Event, Service!LinkUp, Service!LinkDown, Service!PollStarts,
           Service!Poll, Service!PollEnds
<1> QED
    BY <1>1, <1>2, PTL DEF Service!Spec

\* When mqtt_task runs, no RST is waiting that could have been sent: reusing
\* an aborted socket without a flush loses one only while the link is down or
\* the neighbor unknown.
THEOREM ResetsReachTheWire == FirmwareSpec => []ResetsSent
<1>1. FirmwareInit => Wanted
    BY DEF FirmwareInit, Wanted
<1>2. Wanted /\ Service!Served => ResetsSent
    BY DEF Wanted, Service!Served, ResetsSent
<1> QED
    BY <1>1, <1>2, WantedNext, FirmwareUsesService, ServiceServes, PTL
    DEF FirmwareSpec

-----------------------------------------------------------------------------
(***************************************************************************)
(* FuturesReturn and ConnectEnds, from the fairness of FirmwareFairSpec.   *)
(* That the steps it is about can be taken is a hypothesis (NothingStuck): *)
(* ENABLED is beyond the prover, and TLC checks it.                        *)
(***************************************************************************)

\* The handshake is over, or there was none.
Settled == sock.state \notin {"Listen", "SynSent", "SynReceived"}

\* mqtt_task waits for at most one future, the one of the place it is in; it sleeps
\* only once it has polled it, and a session has a connection.
Waits ==
    /\ \/ awaited = {} /\ place # "connecting"
       \/ awaited = {"connect"} /\ place = "connecting"
       \/ awaited = {"disconnect"} /\ place = "disconnect"
       \/ InSession /\ \E f \in {"read", "write", "flush"} : awaited = {f}
    /\ pc = "gap" => awaited = {"disconnect"}
    /\ pc = "asleep" => todo = {}
    /\ InSession => Settled

\* All steps but the task's leave the task where it is.
LEMMA OtherSteps ==
    ASSUME [FirmwareNext]_firmwareVars
    PROVE  \/ TaskStep
           \/ /\ UNCHANGED << place, pc, awaited, todo >>
              /\ [NetworkStep]_sock
<1>1. CASE PollStep
    BY <1>1 DEF PollStep, SocketPolled, Dispatched, NeighborFound, MqttNetwork, Network,
       mqttVars
<1>2. CASE PollStarts \/ PollEnds \/ Event \/ NeighborForgotten \/ LinkPoll
    BY <1>2 DEF PollStarts, PollEnds, Event, NeighborForgotten, LinkPoll, mqttVars
<1>3. CASE Timers
    BY <1>3 DEF Timers, KeepAlive, TimerWakes, Tick, vars
<1>4. CASE UNCHANGED firmwareVars
    BY <1>4 DEF firmwareVars, mqttVars
<1> QED
    BY <1>1, <1>2, <1>3, <1>4 DEF FirmwareNext

\* A connection that is past its handshake does not get back into one, and what a
\* connect, a read or a write waits for does not go away again.
LEMMA NetworkSettles ==
    ASSUME TypeOK, Settled, [NetworkStep]_sock
    PROVE  /\ Settled'
           /\ \A f \in {"connect", "read", "write"} : Ready(f) => Ready(f)'
<1> USE DEF Settled, TypeOK, SocketTypeOK, Sockets
<1>r. /\ Ready("connect") <=> sock.state \notin {"SynSent", "SynReceived"}
      /\ Ready("read") <=> CanRecv \/ ~MayRecv
      /\ Ready("write") <=> CanSend \/ ~MaySend
      /\ Ready("connect")' <=> sock'.state \notin {"SynSent", "SynReceived"}
      /\ Ready("read")' <=> CanRecv' \/ ~MayRecv'
      /\ Ready("write")' <=> CanSend' \/ ~MaySend'
    BY DEF Ready
<1> SUFFICES /\ Settled'
             /\ CanRecv \/ ~MayRecv => CanRecv' \/ ~MayRecv'
             /\ CanSend \/ ~MaySend => CanSend' \/ ~MaySend'
    BY <1>r
<1> USE DEF CanRecv, MayRecv, CanSend, MaySend
<1>1. CASE SynArrives \/ SynSentAnswered \/ SynAcked
    BY <1>1 DEF SynArrives, SynSentAnswered, SynAcked
<1>2. CASE DataArrives
    BY <1>2 DEF DataArrives
<1>3. CASE DataAcked
    BY <1>3, CapAssumption DEF DataAcked
<1>4. CASE FinArrives
    BY <1>4 DEF FinArrives, Becomes
<1>5. CASE FinAcked
    BY <1>5 DEF FinAcked, Becomes, SetState
<1>6. CASE RstArrives
    BY <1>6 DEF RstArrives, Becomes
<1>7. CASE TimedOut
    BY <1>7 DEF TimedOut, Becomes, SetState
<1>8. CASE RstSent
    BY <1>8 DEF RstSent
<1>9. CASE TimeWaitOver
    BY <1>9 DEF TimeWaitOver, Becomes, Fresh
<1>10. CASE UNCHANGED sock
    BY <1>10
<1> QED
    BY <1>1, <1>2, <1>3, <1>4, <1>5, <1>6, <1>7, <1>8, <1>9, <1>10 DEF NetworkStep

\* Waits is inductive.
LEMMA WaitsNext ==
    TypeOK /\ NotListening /\ Waits /\ [FirmwareNext]_firmwareVars => Waits'
<1> SUFFICES ASSUME TypeOK, NotListening, Waits, [FirmwareNext]_firmwareVars
             PROVE  Waits'
    OBVIOUS
<1>1. CASE ~TaskStep
    <2>1. UNCHANGED << place, pc, awaited, todo >> /\ [NetworkStep]_sock
        BY <1>1, OtherSteps
    <2>2. Settled => Settled'
        BY <2>1, NetworkSettles
    <2> QED
        BY <2>1, <2>2 DEF Waits, InSession
<1>2. CASE BackoffOver \/ CheckOpen \/ SessionUp
    BY <1>2 DEF BackoffOver, CheckOpen, SessionUp, Free, Goto, vars, Waits, InSession,
       Settled
<1>3. CASE DropOld \/ ConnectCall \/ DisconnectCall
    BY <1>3 DEF DropOld, ConnectCall, DisconnectCall, CallAbort, CallConnect,
       CallDisconnect, Free, Await, Goto, Waits, InSession
<1>4. CASE Connected
    <2>1. /\ "connect" \in awaited /\ Ready("connect") /\ UNCHANGED sock
          /\ awaited' = {} /\ pc' = "run"
        BY <1>4 DEF Connected, PollReady, Effect, TypeOK
    <2>2. Settled'
        BY <2>1 DEF Settled, Ready, NotListening
    <2> QED
        BY <1>4, <2>1, <2>2 DEF Connected, Goto, Waits, InSession
<1>5. CASE SessionCall
    BY <1>5 DEF SessionCall, CallFuture, Free, Waits, InSession, Settled
<1>6. CASE SessionPolled \/ SessionTransportError
    <2>1. InSession /\ awaited' = {} /\ \E f \in {"read", "write", "flush"} : PollReady(f)
        BY <1>6 DEF SessionPolled, SessionTransportError
    <2>2. sock'.state = sock.state /\ pc' = "run"
        BY <2>1 DEF PollReady, Effect, TypeOK, SocketTypeOK, Sockets
    <2>3. place' # "connecting"
        BY <1>6, <2>1 DEF SessionPolled, SessionTransportError, SessionEnds, Goto, InSession
    <2> QED
        BY <2>1, <2>2, <2>3 DEF Waits, Settled
<1>7. CASE SessionError
    BY <1>7 DEF SessionError, Free, Cancel, Await, SessionEnds, Goto, vars, Waits, InSession
<1>8. CASE Disconnected
    BY <1>8 DEF Disconnected, PollReady, Goto, Waits, InSession
<1>9. CASE /\ (\E f \in Futures : PollPending(f)) \/ DisconnectRegister \/ Sleep \/ Resume
           /\ UNCHANGED << place, clock >>
    BY <1>9 DEF PollPending, DisconnectRegister, Sleep, Resume, Waits, InSession, Settled
<1>10. CASE DisconnectOpen /\ UNCHANGED << place, clock >>
    BY <1>10 DEF DisconnectOpen, TypeOK, Waits, InSession, Settled
<1> QED
    BY <1>1, <1>2, <1>3, <1>4, <1>5, <1>6, <1>7, <1>8, <1>9, <1>10
    DEF TaskStep, CallsSocket, RunsOn, Locks, LocksNot

\* connect's socket does not listen, in the firmware.
LEMMA FirmwareNotListening == FirmwareSpec => []NotListening
<1>1. Init => NotListening
    BY DEF Init, NotListening
<1>2. Spec => []NotListening
    BY <1>1, NotListeningNext, TypeCorrect, PTL DEF Spec
<1> QED
    BY <1>2, FirmwareImplementsMqtt, MqttImplementsFutures, PTL

\* Waits holds of the firmware.
LEMMA FirmwareWaits == FirmwareSpec => []Waits
<1>1. FirmwareInit => Waits
    BY DEF FirmwareInit, MqttInit, Init, Waits, InSession
<1> QED
    BY <1>1, WaitsNext, FirmwareNotListening, FirmwareImplementsMqtt, MqttTyped, PTL
    DEF FirmwareSpec

-----------------------------------------------------------------------------
\* What the task waits for has happened, and: it has returned from the wait.
Met == \E f \in awaited \ {"flush", "disconnect"} : Ready(f)
Returned == awaited = {}

\* The future a task waits for that may return.
LEMMA MetFuture ==
    ASSUME NotListening, Waits, Met
    PROVE  \E f \in {"connect", "read", "write"} : /\ awaited = {f} /\ Ready(f)
                                                   /\ Settled
<1>1. PICK f \in awaited \ {"flush", "disconnect"} : Ready(f)
    BY DEF Met
<1>2. awaited = {f} /\ f \in {"connect", "read", "write"}
    BY <1>1 DEF Waits
<1>3. Settled
    BY <1>1, <1>2 DEF Waits, NotListening, Ready, Settled
<1> QED
    BY <1>1, <1>2, <1>3

\* Until it returns the task can only sleep or be resumed.
LEMMA MetTaskSteps ==
    ASSUME TypeOK, NotListening, Waits, Met, TaskStep
    PROVE  Returned' \/ ((Sleep \/ Resume) /\ UNCHANGED place)
<1>1. PICK f \in {"connect", "read", "write"} : awaited = {f} /\ Ready(f)
    BY MetFuture
<1>2. todo \subseteq {f} /\ pc # "gap" /\ place \in {"connecting", "session_connect", "session"}
    BY <1>1 DEF TypeOK, Waits, InSession
<1>3. ~Free
    BY <1>1 DEF Free
<1>4. CASE Locks
    <2>1. ~(BackoffOver \/ DropOld \/ ConnectCall \/ DisconnectCall)
        BY <1>3 DEF BackoffOver, DropOld, ConnectCall, DisconnectCall, CallAbort,
           CallConnect, CallDisconnect
    <2>2. ~(\E g \in Futures : PollPending(g)) /\ ~DisconnectRegister
        BY <1>1, <1>2 DEF PollPending, DisconnectRegister
    <2> QED
        BY <1>4, <2>1, <2>2 DEF Locks, Connected, SessionPolled, SessionTransportError,
           Returned
<1>5. CASE LocksNot
    <2>1. ~(CheckOpen \/ SessionCall \/ SessionUp \/ DisconnectOpen)
        BY <1>2, <1>3 DEF CheckOpen, SessionCall, SessionUp, CallFuture, DisconnectOpen
    <2> QED
        BY <1>3, <1>5, <2>1 DEF LocksNot, SessionError, Cancel, Await, Disconnected, Returned
<1> QED
    BY <1>4, <1>5 DEF TaskStep, CallsSocket, RunsOn

\* What the task waits for does not go away before it returns.
LEMMA MetStays ==
    ASSUME TypeOK, NotListening, Waits, Met, [FirmwareNext]_firmwareVars
    PROVE  Met' \/ Returned'
<1>1. PICK f \in {"connect", "read", "write"} : awaited = {f} /\ Ready(f) /\ Settled
    BY MetFuture
<1>2. ASSUME UNCHANGED awaited, [NetworkStep]_sock PROVE Met'
    <2>1. Ready(f)'
        BY <1>1, <1>2, NetworkSettles
    <2> QED
        BY <1>1, <1>2, <2>1 DEF Met
<1>3. CASE ~TaskStep
    BY <1>2, <1>3, OtherSteps
<1>4. CASE TaskStep
    BY <1>2, <1>4, MetTaskSteps DEF Sleep, Resume
<1> QED
    BY <1>3, <1>4

\* Where the task is between the two.
Recorded == Met /\ pc = "run" /\ todo = {}
Asleep == Met /\ pc = "asleep"
Polling == Met /\ pc = "run" /\ todo # {}

\* One step of the task takes it from each of them to the next.
LEMMA MetSteps ==
    ASSUME TypeOK, NotListening, Waits, Met, TaskStep
    PROVE  /\ Recorded => Asleep' \/ Returned'
           /\ Asleep => Polling' \/ Returned'
           /\ Polling => Returned'
<1>1. Met' \/ Returned'
    BY MetStays DEF FirmwareNext
<1>2. awaited # {}
    BY MetFuture
<1>3. CASE Sleep
    BY <1>1, <1>3 DEF Sleep, Recorded, Asleep, Polling
<1>4. CASE Resume
    BY <1>1, <1>2, <1>4 DEF Resume, Recorded, Asleep, Polling
<1> QED
    BY <1>3, <1>4, MetTaskSteps

-----------------------------------------------------------------------------
In(p) == phase = p

\* A poll that has nothing left to do.
Served == In("polling") /\ (up => ready = {})

\* What a step does to the phase of the service.
LEMMA PhaseSteps ==
    ASSUME ServiceType, [FirmwareNext]_firmwareVars
    PROVE  /\ In("idle") => (In("idle"))' \/ (In("owed"))'
           /\ In("owed") => (In("owed"))' \/ (In("polling"))'
           /\ In("polling") => (In("polling"))' \/ Served
<1>1. Service!Next \/ UNCHANGED << phase, up, ready >>
    BY FirmwareStepIsServiceStep DEF Service!serviceVars
<1> QED
    BY <1>1 DEF In, Served, Service!Next, Service!Call, Service!Event, Service!LinkUp,
       Service!LinkDown, Service!PollStarts, Service!Poll, Service!PollEnds

\* What the liveness proofs use of the firmware.
Known == ServiceType /\ TypeOK /\ NotListening /\ NoLostWake /\ Waits

Fair ==
    /\ []Known /\ []NothingStuck
    /\ [][FirmwareNext]_firmwareVars
    /\ SF_firmwareVars(TaskStep)
    /\ WF_firmwareVars(PollStarts)
    /\ SF_firmwareVars(PollEnds /\ phase' = "idle")
    /\ WF_firmwareVars(PollStep /\ ready' = {})
    /\ WF_firmwareVars(up /\ Event)
    /\ SF_firmwareVars(HandshakeTimesOut)

\* The invariants hold of the firmware.
LEMMA FirmwareFair == FirmwareFairSpec /\ []NothingStuck => Fair
BY FirmwareImplementsMqtt, MqttImplementsFutures, TypeCorrect, WakeupsNotLost,
   FirmwareNotListening, FirmwareWaits, FirmwareUsesService, ServiceTyped, PTL
DEF FirmwareFairSpec, FirmwareSpec, Fair, Known

\* A poll that is owed starts.
LEMMA PollsBegin == Fair => (In("owed") ~> In("polling"))
<1>1. Known /\ In("owed") /\ [FirmwareNext]_firmwareVars
          => (In("owed"))' \/ (In("polling"))'
    BY PhaseSteps DEF Known
<1>2. <<PollStarts>>_firmwareVars => (In("polling"))'
    BY DEF PollStarts, Service!PollStarts, In
<1>3. NothingStuck /\ In("owed") => ENABLED <<PollStarts>>_firmwareVars
    BY DEF NothingStuck, In
<1> QED
    BY <1>1, <1>2, <1>3, PTL DEF Fair

\* Whatever the link does, the core gets back to the task again and again.
LEMMA TaskRuns == Fair => []<>In("idle")
<1>1. Fair => (In("polling") ~> Served)
    <2>1. Known /\ In("polling") /\ [FirmwareNext]_firmwareVars
              => (In("polling"))' \/ Served
        BY PhaseSteps DEF Known
    <2>2. <<PollStep /\ ready' = {}>>_firmwareVars => Served'
        BY DEF PollStep, SocketPolled, Dispatched, NeighborFound, Service!Poll, In, Served
    <2>3. NothingStuck /\ In("polling")
              => Served \/ ENABLED <<PollStep /\ ready' = {}>>_firmwareVars
        BY DEF NothingStuck, In, Served
    <2> QED
        BY <2>1, <2>2, <2>3, PTL DEF Fair
<1>2. Known => In("idle") \/ In("owed") \/ In("polling")
    BY DEF Known, ServiceType, In
<1>3. <<PollEnds /\ phase' = "idle">>_firmwareVars => (In("idle"))'
    BY DEF In
<1>4. NothingStuck /\ Served => ENABLED <<PollEnds /\ phase' = "idle">>_firmwareVars
    BY DEF NothingStuck, In, Served
<1> QED
    BY <1>1, <1>2, <1>3, <1>4, PollsBegin, PTL DEF Fair

\* A future that is ready returns: the task gets the core again and again, and
\* the only step it may then take leads from recording its waker to sleep, from
\* sleep, which NoLostWake ends, to the poll, and from the poll to the return.
LEMMA MetReturns == Fair => (Met ~> Returned)
<1>1. Known /\ Met => Recorded \/ Asleep \/ Polling
    BY DEF Known, TypeOK, Waits, Recorded, Asleep, Polling, Met
<1>2. NothingStuck /\ Known /\ In("idle") /\ Met => ENABLED <<TaskStep>>_firmwareVars
    <2>1. ASSUME Known, Met, pc = "asleep" PROVE woken
        <3>1. todo = {}
            BY <2>1 DEF Known, Waits
        <3> QED
            BY <2>1, <3>1 DEF Known, NoLostWake, Met
    <2>2. Met => awaited # {}
        BY DEF Met
    <2> QED
        BY <2>1, <2>2 DEF NothingStuck, In
<1>3. Known /\ Met /\ [FirmwareNext]_firmwareVars
          => TaskStep \/ ((Recorded => Recorded') /\ (Asleep => Asleep')
                              /\ (Polling => Polling')) \/ Returned'
    BY MetStays, OtherSteps DEF Known, Recorded, Asleep, Polling
<1>4. Recorded \/ Asleep \/ Polling => Met
    BY DEF Recorded, Asleep, Polling
<1>5. Known /\ Met /\ TaskStep => /\ Recorded => Asleep' \/ Returned'
                                  /\ Asleep => Polling' \/ Returned'
                                  /\ Polling => Returned'
    BY MetSteps DEF Known
<1>6. Fair => (Recorded ~> Asleep \/ Returned)
    BY <1>2, <1>3, <1>4, <1>5, TaskRuns, PTL DEF Fair
<1>7. Fair => (Asleep ~> Polling \/ Returned)
    BY <1>2, <1>3, <1>4, <1>5, TaskRuns, PTL DEF Fair
<1>8. Fair => (Polling ~> Returned)
    BY <1>2, <1>3, <1>4, <1>5, TaskRuns, PTL DEF Fair
<1> QED
    BY <1>1, <1>6, <1>7, <1>8, PTL DEF Fair

\* Under the poller, whatever the link, the peer and the neighbor cache do, a
\* connect, a read or a write of mqtt_task returns once it is ready. It takes the
\* wake-up (NoLostWake), that what it waits for does not go away again, and that
\* polls leave the core to the task.
THEOREM FuturesDoReturn == FirmwareFairSpec /\ []NothingStuck => FuturesReturn
<1>1. Met <=> \E f \in awaited \ {"flush", "disconnect"} : Ready(f)
    BY DEF Met
<1>2. Returned <=> awaited = {}
    BY DEF Returned
<1> QED
    BY <1>1, <1>2, FirmwareFair, MetReturns, PTL DEF FuturesReturn

-----------------------------------------------------------------------------
Connecting == place = "connecting"

\* With the link up for good the service polls again and again, so a handshake
\* nobody answers is given up (HandshakeTimesOut), and connect returns
\* (FuturesReturn). Timeout: mqtt_task does set one.
THEOREM AttemptsEnd ==
    ASSUME Timeout
    PROVE  FirmwareFairSpec /\ []NothingStuck => ConnectEnds
<1>1. Fair /\ []up => []<>In("polling")
    <2>1. Known /\ In("idle") /\ [FirmwareNext]_firmwareVars => (In("idle"))' \/ (In("owed"))'
        BY PhaseSteps DEF Known
    <2>2. <<up /\ Event>>_firmwareVars => (In("owed"))'
        BY DEF Event, Service!Event, In
    <2>3. NothingStuck /\ In("idle") /\ up => ENABLED <<up /\ Event>>_firmwareVars
        BY DEF NothingStuck, In
    <2> QED
        BY <2>1, <2>2, <2>3, PollsBegin, TaskRuns, PTL DEF Fair
<1>2. Known /\ Connecting /\ Ready("connect") => Met
    BY DEF Known, Waits, Connecting, Met, InSession
<1>3. Fair /\ []up => (Connecting ~> Met \/ ~Connecting)
    <2>1. Known /\ Known' /\ <<HandshakeTimesOut>>_firmwareVars => Met' \/ ~Connecting'
        <3>1. ASSUME Known, HandshakeTimesOut PROVE (Ready("connect"))'
            BY <3>1 DEF HandshakeTimesOut, TimedOut, SetState, Becomes, Ready, Known, TypeOK,
               SocketTypeOK, Sockets
        <3>2. (Known /\ Connecting /\ Ready("connect"))' => Met'
            BY <1>2, PTL
        <3> QED
            BY <3>1, <3>2
    <2>2. NothingStuck /\ Known /\ In("polling") /\ up /\ Connecting
              => Met \/ ENABLED <<HandshakeTimesOut>>_firmwareVars
        BY <1>2 DEF NothingStuck, In, Connecting
    <2> QED
        BY <1>1, <2>1, <2>2, PTL DEF Fair
<1>4. Known /\ Returned => ~Connecting
    BY DEF Known, Waits, Returned, Connecting, InSession
<1>5. Fair /\ []up => (Connecting ~> ~Connecting)
    BY <1>3, <1>4, MetReturns, PTL DEF Fair
<1>6. Fair => []Fair
    BY PTL DEF Fair
<1>7. Fair => (<>[]up => (Connecting ~> ~Connecting))
    BY <1>5, <1>6, PTL
<1>8. (Connecting <=> place = "connecting") /\ (~Connecting <=> place # "connecting")
    BY DEF Connecting
<1> QED
    BY <1>7, <1>8, FirmwareFair, PTL DEF ConnectEnds
=============================================================================
