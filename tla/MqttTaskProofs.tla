--------------------------- MODULE MqttTaskProofs ---------------------------
(***************************************************************************)
(* mqtt_task implements SocketFutures, connect always finds a socket it may*)
(* use, and a local port rests for NPorts intervals before it is used      *)
(* again, for any interval, any number of ports and any bound on time.     *)
(***************************************************************************)
EXTENDS MqttTask, SocketFuturesProofs

\* How many attempts have been made since the one that used port p.
Behind(p) == IF p < port_shift THEN port_shift - 1 - p ELSE port_shift - 1 - p + NPorts

\* A port was used at least one interval before each attempt made since.
PortAges ==
    \A p \in Ports : used[p] # Never =>
        last_attempt # Never /\ used[p] + Behind(p) * Interval <= last_attempt

ClockType ==
    /\ place \in Places
    /\ now \in 0..MaxTime
    /\ last_attempt \in 0..Never
    /\ port_shift \in Ports
    /\ used \in [Ports -> 0..Never]

-----------------------------------------------------------------------------
\* The task's steps that are steps of its socket futures.
LEMMA MqttStepIsFuturesStep == MqttNext => [Next]_vars
<1> SUFFICES ASSUME MqttNext PROVE Next \/ UNCHANGED vars
    OBVIOUS
<1> USE DEF Next, Call, Poll, Futures
<1>1. CASE BackoffOver \/ CheckOpen \/ DropOld \/ ConnectCall \/ Connected
    BY <1>1 DEF BackoffOver, CheckOpen, DropOld, ConnectCall, Connected
<1>2. CASE SessionCall \/ SessionPolled \/ SessionTransportError \/ SessionError
           \/ SessionUp
    BY <1>2 DEF SessionCall, SessionPolled, SessionTransportError, SessionError,
       SessionUp
<1>3. CASE DisconnectCall \/ Disconnected \/ Waiting
    BY <1>3 DEF DisconnectCall, Disconnected, Waiting
<1>4. CASE KeepAlive \/ Tick \/ MqttNetwork
    BY <1>4 DEF KeepAlive, Tick, MqttNetwork
<1> QED
    BY <1>1, <1>2, <1>3, <1>4 DEF MqttNext, MqttStep

\* mqtt_task is one of the tasks SocketFutures is about: every step of it is a
\* call or a poll of socket.rs's futures, or leaves the socket alone.
THEOREM MqttImplementsFutures == MqttSpec => Spec
<1>1. MqttInit => Init
    BY DEF MqttInit
<1>2. [MqttNext]_mqttVars => [Next]_vars
    BY MqttStepIsFuturesStep DEF mqttVars, vars
<1> QED
    BY <1>1, <1>2, PTL DEF MqttSpec, Spec

\* What SocketFutures promises of its socket holds of mqtt's.
LEMMA MqttTyped == MqttSpec => []TypeOK
BY MqttImplementsFutures, TypeCorrect, PTL

-----------------------------------------------------------------------------
(***************************************************************************)
(* The clock, the ports and the places of the task.                        *)
(***************************************************************************)

\* Wrapping<u8> stays among the ports.
LEMMA PortWraps ==
    ASSUME NEW p \in Ports
    PROVE  (p + 1) % NPorts = IF p + 1 = NPorts THEN 0 ELSE p + 1
BY MqttAssumption DEF Ports

\* Every step of the task keeps its own variables' types.
LEMMA ClockNext == ClockType /\ [MqttNext]_mqttVars => ClockType'
<1> SUFFICES ASSUME ClockType, [MqttNext]_mqttVars PROVE ClockType'
    OBVIOUS
<1> USE MqttAssumption DEF ClockType, Places, Goto, clock
<1>1. CASE BackoffOver
    <2>1. (port_shift + 1) % NPorts \in Ports
        BY PortWraps DEF Ports
    <2> QED
        BY <1>1, <2>1 DEF BackoffOver, Never
<1>2. CASE CheckOpen \/ DropOld \/ ConnectCall \/ Connected
    BY <1>2 DEF CheckOpen, DropOld, ConnectCall, Connected
<1>3. CASE SessionCall \/ SessionPolled \/ SessionTransportError \/ SessionError
           \/ SessionUp
    BY <1>3 DEF SessionCall, SessionPolled, SessionTransportError, SessionError,
       SessionUp, SessionEnds
<1>4. CASE DisconnectCall \/ Disconnected \/ Waiting
    BY <1>4 DEF DisconnectCall, Disconnected, Waiting
<1>5. CASE Tick
    BY <1>5 DEF Tick
<1>6. CASE KeepAlive \/ MqttNetwork
    BY <1>6 DEF KeepAlive, MqttNetwork
<1>7. CASE UNCHANGED mqttVars
    BY <1>7 DEF mqttVars
<1> QED
    BY <1>1, <1>2, <1>3, <1>4, <1>5, <1>6, <1>7 DEF MqttNext, MqttStep

\* The task's own variables keep their types.
LEMMA ClockTyped == MqttSpec => []ClockType
<1>1. MqttInit => ClockType
    BY MqttAssumption DEF MqttInit, ClockType, Places, Ports, Never
<1> QED
    BY <1>1, ClockNext, PTL DEF MqttSpec

\* Every variable of mqtt_task keeps its kind; port_shift wraps.
THEOREM MqttTypeCorrect == MqttSpec => []MqttTypeOK
<1>1. TypeOK /\ ClockType => MqttTypeOK
    BY DEF ClockType, MqttTypeOK
<1> QED
    BY <1>1, MqttTyped, ClockTyped, PTL

-----------------------------------------------------------------------------
(***************************************************************************)
(* connect finds a closed socket.                                          *)
(***************************************************************************)

\* The network does not open a closed socket.
LEMMA NetworkStaysClosed ==
    ASSUME SocketTypeOK, NetworkStep, ~IsOpen
    PROVE  ~IsOpen'
<1> USE DEF IsOpen, SocketTypeOK, Sockets, Becomes, SetState
<1>1. ~(SynArrives \/ SynSentAnswered \/ SynAcked \/ DataArrives \/ DataAcked)
    BY DEF SynArrives, SynSentAnswered, SynAcked, DataArrives, DataAcked
<1>2. CASE FinArrives
    BY <1>2 DEF FinArrives
<1>3. CASE FinAcked
    BY <1>3 DEF FinAcked
<1>4. CASE RstArrives
    BY <1>4 DEF RstArrives
<1>5. CASE TimedOut \/ RstSent
    BY <1>5 DEF TimedOut, RstSent
<1>6. CASE TimeWaitOver
    BY <1>6 DEF TimeWaitOver, Fresh
<1> QED
    BY <1>1, <1>2, <1>3, <1>4, <1>5, <1>6 DEF NetworkStep

\* connect never fails with InvalidState: the socket is closed or in TIME-WAIT
\* when is_open says so or when abort returns, and stays so until connect.
THEOREM ConnectMayConnect == MqttSpec => []ConnectFindsClosed
<1>1. MqttInit => ConnectFindsClosed
    BY DEF MqttInit, ConnectFindsClosed
<1>2. TypeOK /\ ConnectFindsClosed /\ [MqttNext]_mqttVars => ConnectFindsClosed'
    <2> SUFFICES ASSUME TypeOK, ConnectFindsClosed, [MqttNext]_mqttVars
                 PROVE  ConnectFindsClosed'
        OBVIOUS
    <2>0. SocketTypeOK
        BY DEF TypeOK
    <2> USE DEF ConnectFindsClosed, ConnectOk, IsOpen, Goto, clock
    <2>1. CASE CheckOpen
        BY <2>1 DEF CheckOpen, vars
    <2>2. CASE DropOld
        BY <2>0, <2>2 DEF DropOld, CallAbort, Abort, SetState, Becomes, SocketTypeOK,
           Sockets
    <2>3. CASE BackoffOver \/ ConnectCall \/ Connected \/ DisconnectCall
               \/ Disconnected \/ SessionUp
        BY <2>3 DEF BackoffOver, ConnectCall, Connected, DisconnectCall, Disconnected,
           SessionUp
    <2>4. CASE SessionCall \/ SessionPolled \/ SessionTransportError \/ SessionError
        BY <2>4 DEF SessionCall, SessionPolled, SessionTransportError, SessionError,
           SessionEnds, InSession
    <2>5. CASE Waiting
        BY <2>5 DEF Waiting, PollPending, DisconnectOpen, DisconnectRegister, Sleep,
           Resume
    <2>6. CASE KeepAlive \/ Tick
        BY <2>6 DEF KeepAlive, TimerWakes, Tick, vars
    <2>7. CASE MqttNetwork
        BY <2>0, <2>7, NetworkStaysClosed DEF MqttNetwork, Network
    <2>8. CASE UNCHANGED mqttVars
        BY <2>8 DEF mqttVars
    <2> QED
        BY <2>1, <2>2, <2>3, <2>4, <2>5, <2>6, <2>7, <2>8 DEF MqttNext, MqttStep
<1> QED
    BY <1>1, <1>2, MqttTyped, PTL DEF MqttSpec

-----------------------------------------------------------------------------
(***************************************************************************)
(* Ports.                                                                  *)
(***************************************************************************)

\* One attempt puts every port but its own one attempt further behind.
LEMMA BehindMoves ==
    ASSUME ClockType, port_shift' = (port_shift + 1) % NPorts, NEW p \in Ports
    PROVE  /\ Behind(p) \in Nat
           /\ p # port_shift => Behind(p)' = Behind(p) + 1
           /\ p = port_shift => Behind(p) = NPorts - 1 /\ Behind(p)' = 0
<1>1. port_shift' = IF port_shift + 1 = NPorts THEN 0 ELSE port_shift + 1
    BY PortWraps DEF ClockType
<1>2. /\ NPorts \in Nat /\ p \in Nat /\ port_shift \in Nat
      /\ p < NPorts /\ port_shift < NPorts
    BY MqttAssumption DEF ClockType, Ports
<1>3. Behind(p)' = IF p < port_shift' THEN port_shift' - 1 - p
                   ELSE port_shift' - 1 - p + NPorts
    BY DEF Behind
<1>4. CASE port_shift + 1 = NPorts
    BY <1>1, <1>2, <1>3, <1>4 DEF Behind
<1>5. CASE port_shift + 1 # NPorts
    BY <1>1, <1>2, <1>3, <1>5 DEF Behind
<1> QED
    BY <1>4, <1>5

\* (n + 1) * Interval = n * Interval + Interval
LEMMA Intervals ==
    ASSUME NEW n \in Nat
    PROVE  /\ n * Interval \in Nat
           /\ (n + 1) * Interval = n * Interval + Interval
BY MqttAssumption

\* The attempt that uses a port again comes NPorts intervals after the last.
LEMMA AttemptRests ==
    ASSUME ClockType, PortAges, BackoffOver, used[port_shift] # Never
    PROVE  now - used[port_shift] >= NPorts * Interval
<1>1. port_shift \in Ports
    BY DEF ClockType
<1>2. Behind(port_shift) = NPorts - 1
    BY <1>1, BehindMoves DEF BackoffOver
<1>3. used[port_shift] + (NPorts - 1) * Interval <= last_attempt
    BY <1>1, <1>2 DEF PortAges
<1>4. last_attempt + Interval <= now
    BY <1>1 DEF PortAges, BackoffOver
<1>5. NPorts * Interval = (NPorts - 1) * Interval + Interval
    <2>1. NPorts - 1 \in Nat /\ (NPorts - 1) + 1 = NPorts
        BY MqttAssumption
    <2> QED
        BY <2>1, Intervals
<1>6. (NPorts - 1) * Interval \in Nat
    BY Intervals, MqttAssumption
<1> QED
    BY <1>1, <1>3, <1>4, <1>5, <1>6, MqttAssumption DEF ClockType, Never

\* The inductive step: an attempt ages every port by one interval.
LEMMA PortAgesNext == ClockType /\ PortAges /\ [MqttNext]_mqttVars => PortAges'
<1> SUFFICES ASSUME ClockType, PortAges, [MqttNext]_mqttVars PROVE PortAges'
    OBVIOUS
<1>1. CASE BackoffOver
    <2> SUFFICES ASSUME NEW p \in Ports, used'[p] # Never
                 PROVE  /\ last_attempt' # Never
                        /\ used'[p] + Behind(p)' * Interval <= last_attempt'
        BY DEF PortAges, Never
    <2>1. last_attempt' = now /\ now \in Nat /\ now # Never
        BY <1>1, MqttAssumption DEF BackoffOver, ClockType, Never
    <2>2. CASE p = port_shift
        <3>1. Behind(p)' = 0
            BY <1>1, <2>2, BehindMoves DEF BackoffOver
        <3>2. used'[p] = now
            BY <1>1, <2>2 DEF BackoffOver, ClockType
        <3> QED
            BY <2>1, <3>1, <3>2, MqttAssumption
    <2>3. CASE p # port_shift
        <3>1. Behind(p) \in Nat /\ Behind(p)' = Behind(p) + 1
            BY <1>1, <2>3, BehindMoves DEF BackoffOver
        <3>2. used'[p] = used[p]
            BY <1>1, <2>3 DEF BackoffOver, ClockType
        <3>3. last_attempt # Never /\ used[p] + Behind(p) * Interval <= last_attempt
            BY <3>2 DEF PortAges
        <3>4. last_attempt + Interval <= now
            BY <1>1, <3>3 DEF BackoffOver
        <3>5. (Behind(p) + 1) * Interval = Behind(p) * Interval + Interval
            BY <3>1, Intervals
        <3>6. Behind(p) * Interval \in Nat
            BY <3>1, Intervals
        <3>7. used[p] \in Nat /\ last_attempt \in Nat
            BY MqttAssumption DEF ClockType, Never
        <3>8. used[p] + (Behind(p) * Interval + Interval) <= now
            BY <2>1, <3>3, <3>4, <3>6, <3>7, MqttAssumption
        <3> QED
            BY <2>1, <3>1, <3>2, <3>5, <3>8
    <2> QED
        BY <2>2, <2>3
<1> USE DEF PortAges, Behind, Never, clock
<1>2. CASE CheckOpen \/ DropOld \/ ConnectCall \/ Connected
    BY <1>2 DEF CheckOpen, DropOld, ConnectCall, Connected
<1>3. CASE SessionCall \/ SessionPolled \/ SessionTransportError \/ SessionError
           \/ SessionUp
    BY <1>3 DEF SessionCall, SessionPolled, SessionTransportError, SessionError,
       SessionUp
<1>4. CASE DisconnectCall \/ Disconnected \/ Waiting
    BY <1>4 DEF DisconnectCall, Disconnected, Waiting
<1>5. CASE KeepAlive \/ Tick \/ MqttNetwork
    BY <1>5 DEF KeepAlive, Tick, MqttNetwork
<1>6. CASE UNCHANGED mqttVars
    BY <1>6 DEF mqttVars
<1> QED
    BY <1>1, <1>2, <1>3, <1>4, <1>5, <1>6 DEF MqttNext, MqttStep

\* A local port is used again only NPorts intervals after its last use, which
\* is what port_shift and the backoff are there for.
THEOREM PortsRest == MqttSpec => PortsLinger
<1>1. MqttInit => PortAges
    BY DEF MqttInit, PortAges
<1>2. ASSUME ClockType, PortAges, [MqttNext]_mqttVars, NEW p \in Ports,
             used'[p] # used[p], used[p] # Never
      PROVE  used'[p] - used[p] >= NPorts * Interval
    <2>1. CASE BackoffOver
        <3>1. p = port_shift /\ used'[p] = now
            BY <1>2, <2>1 DEF BackoffOver, ClockType
        <3> QED
            BY <1>2, <2>1, <3>1, AttemptRests
    <2>2. CASE ~BackoffOver
        <3>1. UNCHANGED used
            BY <1>2, <2>2
            DEF MqttNext, MqttStep, CheckOpen, DropOld, ConnectCall, Connected,
                SessionCall, SessionPolled, SessionTransportError, SessionError,
                SessionUp, DisconnectCall, Disconnected, Waiting, KeepAlive, Tick,
                MqttNetwork, clock, mqttVars
        <3> QED
            BY <1>2, <3>1
    <2> QED
        BY <2>1, <2>2
<1>3. ClockType /\ PortAges /\ [MqttNext]_mqttVars
        => [\A p \in Ports : used'[p] # used[p] /\ used[p] # Never =>
                used'[p] - used[p] >= NPorts * Interval]_mqttVars
    BY <1>2
<1> QED
    BY <1>1, <1>3, PortAgesNext, ClockTyped, PTL DEF MqttSpec, PortsLinger
=============================================================================
