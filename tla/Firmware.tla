------------------------------ MODULE Firmware ------------------------------
(***************************************************************************)
(* mqtt_task on top of the network poller: MqttTask composed with the      *)
(* service that PollService describes and NetPoller implements.            *)
(*                                                                         *)
(* MqttTask alone lets the network do anything between two steps of the    *)
(* task. Here the network moves only inside a poll, with the device up;    *)
(* a poll comes before the task's next step when the task has called       *)
(* with_mut; and the link changes only while the task waits, since         *)
(* network_link_poll runs at the task's own priority.                      *)
(***************************************************************************)
EXTENDS MqttTask

VARIABLES
    phase, up, ready,   \* the service, see PollService
    known               \* smoltcp's neighbor cache has the broker's gateway

firmwareVars == << mqttVars, phase, up, ready, known >>

Service == INSTANCE PollService WITH Tasks <- {"mqtt_task"}

\* smoltcp asks to be polled at once for a RST that it is able to send; with the
\* neighbor unknown it asks for the next ARP request, later.
Wanted == RstPending /\ known => ready = {"mqtt_task"}

FirmwareInit ==
    /\ MqttInit
    /\ Service!Init
    /\ known = FALSE

-----------------------------------------------------------------------------
(***************************************************************************)
(* The steps of the task that call with_mut, and those that do not.        *)
(***************************************************************************)
Locks ==
    \/ BackoffOver \/ DropOld \/ ConnectCall \/ Connected
    \/ SessionPolled \/ SessionTransportError \/ DisconnectCall
    \/ /\ (\E f \in Futures : PollPending(f)) \/ DisconnectRegister
       /\ UNCHANGED << place, clock >>

LocksNot ==
    \/ CheckOpen \/ SessionCall \/ SessionError \/ SessionUp \/ Disconnected
    \/ /\ DisconnectOpen \/ Sleep \/ Resume
       /\ UNCHANGED << place, clock >>

\* Mutant: with_mut without its POLL_NETWORK call.
BugCallsSocket ==
    /\ phase = "idle"
    /\ Locks
    /\ ready' \in SUBSET {"mqtt_task"}
    /\ UNCHANGED << phase, up, known >>
    /\ Wanted'

CallsSocket ==
    /\ Locks
    /\ Service!Call("mqtt_task")
    /\ UNCHANGED known
    /\ Wanted'

RunsOn ==
    /\ phase = "idle"
    /\ LocksNot
    /\ UNCHANGED << phase, up, ready, known >>

TaskStep == CallsSocket \/ RunsOn

(***************************************************************************)
(* What a poll does: one step of the socket, a frame that changes nothing  *)
(* the task can see, or an ARP reply.                                      *)
(***************************************************************************)

\* A RST, like any segment, needs the neighbor.
SocketPolled ==
    /\ MqttNetwork
    /\ RstPending => known
    /\ Service!Poll
    /\ UNCHANGED known
    /\ Wanted'

Dispatched ==
    /\ Service!Poll
    /\ UNCHANGED << mqttVars, known >>
    /\ Wanted'

NeighborFound ==
    /\ Service!Poll
    /\ known' = TRUE
    /\ UNCHANGED mqttVars
    /\ Wanted'

PollStep == SocketPolled \/ Dispatched \/ NeighborFound

PollStarts == Service!PollStarts /\ UNCHANGED << mqttVars, known >>

PollEnds == Service!PollEnds /\ UNCHANGED << mqttVars, known >>

(***************************************************************************)
(* The rest of the world.                                                  *)
(***************************************************************************)
Event == Service!Event /\ UNCHANGED << mqttVars, known >>

\* An entry of the neighbor cache lives for a minute.
NeighborForgotten ==
    /\ known
    /\ known' = FALSE
    /\ UNCHANGED << mqttVars, phase, up, ready >>

\* The task is inside an await: of a future of socket.rs, or of its backoff.
Awaits ==
    \/ pc = "asleep"
    \/ place = "backoff" /\ last_attempt # Never /\ now < last_attempt + Interval

LinkPoll ==
    /\ Awaits
    /\ Service!LinkUp \/ Service!LinkDown
    /\ UNCHANGED << mqttVars, known >>

Timers ==
    /\ KeepAlive \/ Tick
    /\ UNCHANGED << phase, up, ready, known >>

FirmwareNext ==
    \/ TaskStep \/ PollStep \/ PollStarts \/ PollEnds
    \/ Event \/ NeighborForgotten \/ LinkPoll \/ Timers

FirmwareSpec == FirmwareInit /\ [][FirmwareNext]_firmwareVars

(***************************************************************************)
(* Fairness. A poll that is owed starts (PollsStart of NetPoller), serves  *)
(* a socket that is ready and ends, and the core gets back to the task     *)
(* (PollerYields, for a line that leaves it time; strong fairness, since   *)
(* polls keep interrupting the task). With the device up a deadline of     *)
(* smoltcp's leads to a poll (WorkPolled). A handshake nobody answers is   *)
(* polled for the last time when the timeout set on the socket is over.    *)
(* Nothing is assumed of the broker, the cable or the neighbor cache.      *)
(***************************************************************************)
HandshakeTimesOut == sock.state \in {"SynSent", "SynReceived"} /\ TimedOut /\ SocketPolled

FirmwareFairSpec ==
    /\ FirmwareSpec
    /\ SF_firmwareVars(TaskStep)
    /\ WF_firmwareVars(PollStarts)
    /\ SF_firmwareVars(PollEnds /\ phase' = "idle")
    /\ WF_firmwareVars(PollStep /\ ready' = {})
    /\ WF_firmwareVars(up /\ Event)
    /\ SF_firmwareVars(HandshakeTimesOut)

-----------------------------------------------------------------------------
\* Every variable holds a value of its kind.
FirmwareTypeOK ==
    /\ MqttTypeOK
    /\ phase \in {"idle", "owed", "polling"}
    /\ up \in BOOLEAN
    /\ ready \subseteq {"mqtt_task"}
    /\ known \in BOOLEAN

\* Whenever the task runs, the RST of a connection it has aborted, or of one
\* that timed out, is gone, unless the device is down or the neighbor unknown:
\* "abort() callers should wait for a flush() call to complete before dropping
\* or reusing the socket", says abort's doc; mqtt.rs does not, and gets away with
\* it, but for those two cases, because with_mut's poll preempts it.
ResetsSent == phase = "idle" /\ up /\ known => ~RstPending

\* The core always has a step to go on with: a poll that is owed can start, one
\* that finds a socket ready can serve it and one that finds none can end; with
\* the device up a deadline can come, and a handshake be given up; and a task
\* that waits for a future and is not asleep, or has been woken, can go on.
NothingStuck ==
    /\ phase = "owed" => ENABLED << PollStarts >>_firmwareVars
    /\ phase = "polling" /\ up /\ ready # {} =>
           ENABLED << PollStep /\ ready' = {} >>_firmwareVars
    /\ phase = "polling" /\ (up => ready = {}) =>
           ENABLED << PollEnds /\ phase' = "idle" >>_firmwareVars
    /\ phase = "idle" /\ up => ENABLED << up /\ Event >>_firmwareVars
    /\ phase = "polling" /\ up /\ Timeout /\ place = "connecting" /\ ~Ready("connect") =>
           ENABLED << HandshakeTimesOut >>_firmwareVars
    /\ phase = "idle" /\ awaited # {} /\ (pc = "asleep" => woken) =>
           ENABLED << TaskStep >>_firmwareVars

\* A connect, a read or a write that mqtt_task waits for returns once it is ready,
\* whatever the poller that preempts the task, the link and the peer do. Not so
\* disconnect (Reconnects), and not so flush: a socket that times out while its
\* flush is about to return has a RST to send first.
FuturesReturn ==
    (\E f \in awaited \ {"flush", "disconnect"} : Ready(f)) ~> awaited = {}

\* An attempt to connect ends, even if the broker never answers, as long as the
\* link stays up.
ConnectEnds == <>[]up => (place = "connecting" ~> place # "connecting")

\* "If the timeout is set, the socket will be closed if no data is received for
\* the specified duration", says the doc of set_timeout: an attempt to connect
\* then ends whatever becomes of the link.
TimeoutCloses == place = "connecting" ~> place # "connecting"

\* "MQTT session disconnected, reconnecting...": once the connection of a session
\* is closed the task gets to its next attempt.
Reconnects == place = "disconnect" /\ ~IsOpen ~> place = "backoff"
=============================================================================
