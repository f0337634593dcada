------------------------------ MODULE MqttTask ------------------------------
(***************************************************************************)
(* mqtt_task: connect to the broker, run a session, and when it ends drop  *)
(* the connection and connect again, no sooner than RECONNECT_INTERVAL_MS  *)
(* after the last attempt and from the next local port (mqtt.rs).          *)
(*                                                                         *)
(* Like http_task it is one use of the futures of socket.rs. minimq is     *)
(* external: a session reads, writes and flushes, and ends with an error   *)
(* at any moment (the peer closed or reset the connection, the broker      *)
(* broke the protocol or fell silent, a message is not UTF-8).             *)
(***************************************************************************)
EXTENDS SocketFutures

CONSTANTS
    Interval,   \* RECONNECT_INTERVAL_MS
    NPorts,     \* how many local ports port_shift goes through, 2^8
    MaxTime     \* bound on the modelled time

ASSUME MqttAssumption ==
    /\ Interval \in Nat
    /\ NPorts \in Nat \ {0}
    /\ MaxTime \in Nat

VARIABLES
    place,          \* where mqtt() is
    now,            \* Mono::now()
    last_attempt,   \* None is Never
    port_shift,     \* Wrapping<u8>
    used            \* history: when each local port was last connected from

clock    == << now, last_attempt, port_shift, used >>
mqttVars == << sock, wakers, woken, pc, awaited, todo, place, clock >>

Never == MaxTime + 1

Ports == 0..(NPorts - 1)

MqttInit ==
    /\ Init
    /\ place = "backoff"
    /\ now = 0
    /\ last_attempt = Never
    /\ port_shift = 0
    /\ used = [p \in Ports |-> Never]

Goto(p) == place' = p

-----------------------------------------------------------------------------
(***************************************************************************)
(* connect_transport.                                                      *)
(***************************************************************************)

\* Mutant: the attempt is not noted, so there is never a backoff.
BugBackoffOver ==
    /\ place = "backoff"
    /\ Free
    /\ used' = [used EXCEPT ![port_shift] = now]
    /\ port_shift' = (port_shift + 1) % NPorts
    /\ Goto("is_open")
    /\ UNCHANGED << vars, now, last_attempt >>

\* Mutant: a port counter that does not wrap.
BugPortShift ==
    /\ place = "backoff"
    /\ Free
    /\ last_attempt = Never \/ last_attempt + Interval <= now
    /\ last_attempt' = now
    /\ used' = [used EXCEPT ![port_shift] = now]
    /\ port_shift' = port_shift + 1
    /\ Goto("is_open")
    /\ UNCHANGED << vars, now >>

\* The deadline has come, or there is none: note the attempt, take its port
\* and move on to the next. set_timeout and set_keep_alive, two locks, are part of
\* the step: each sets a field that only a poll reads, and a poll between them does
\* nothing that the poll after them cannot do.
BackoffOver ==
    /\ place = "backoff"
    /\ Free
    /\ last_attempt = Never \/ last_attempt + Interval <= now
    /\ last_attempt' = now
    /\ used' = [used EXCEPT ![port_shift] = now]
    /\ port_shift' = (port_shift + 1) % NPorts
    /\ Goto("is_open")
    /\ UNCHANGED << vars, now >>

\* Mutant: the socket the last session left behind is not dropped.
BugCheckOpen ==
    /\ place = "is_open"
    /\ Goto("connect")
    /\ UNCHANGED << vars, clock >>

CheckOpen ==
    /\ place = "is_open"
    /\ Goto(IF IsOpen THEN "abort" ELSE "connect")
    /\ UNCHANGED << vars, clock >>

DropOld ==
    /\ place = "abort"
    /\ CallAbort
    /\ Goto("connect_again")
    /\ UNCHANGED clock

\* connect is called. Err(InvalidState) has no step because it cannot happen, which
\* is ConnectFindsClosed; nor has Err(NoRoute): the addresses and the ports are fixed by
\* the build, and are taken to be ones that smoltcp can connect.
ConnectCall ==
    /\ place \in {"connect", "connect_again"}
    /\ CallConnect
    /\ Goto("connecting")
    /\ UNCHANGED clock

\* connect returns: Err(ConnectionReset) leads to another attempt.
Connected ==
    /\ place = "connecting"
    /\ PollReady("connect") /\ awaited' = {}
    /\ Goto(IF IsOpen THEN "session_connect" ELSE "backoff")
    /\ UNCHANGED clock

-----------------------------------------------------------------------------
(***************************************************************************)
(* The session: first session.connect, then the subscription and the echo  *)
(* loop, which own the connection.                                         *)
(***************************************************************************)
InSession == place \in {"session_connect", "session"}

\* Only an established session has a Connection to disconnect; when
\* session.connect fails the socket is left as it is.
SessionEnds == Goto(IF place = "session" THEN "drop_conn" ELSE "backoff")

SessionCall ==
    /\ InSession
    /\ CallFuture /\ awaited' \in { {"read"}, {"write"}, {"flush"} }
    /\ UNCHANGED << place, clock >>

SessionPolled ==
    /\ InSession
    /\ \/ CanRecv /\ PollReady("read")
       \/ CanSend /\ PollReady("write")
       \/ PollReady("flush")
    /\ awaited' = {}
    /\ UNCHANGED << place, clock >>

\* The end of the stream, or Err(ConnectionReset).
SessionTransportError ==
    /\ InSession
    /\ \/ ~CanRecv /\ PollReady("read")
       \/ ~CanSend /\ PollReady("write")
    /\ awaited' = {}
    /\ SessionEnds
    /\ UNCHANGED clock

\* Every other error.
SessionError ==
    /\ InSession
    /\ \/ Free /\ UNCHANGED vars
       \/ Cancel
    /\ SessionEnds
    /\ UNCHANGED clock

SessionUp ==
    /\ place = "session_connect"
    /\ Free
    /\ Goto("session")
    /\ UNCHANGED << vars, clock >>

DisconnectCall ==
    /\ place = "drop_conn"
    /\ CallDisconnect
    /\ Goto("disconnect")
    /\ UNCHANGED clock

Disconnected ==
    /\ place = "disconnect"
    /\ PollReady("disconnect") /\ awaited' = {}
    /\ Goto("backoff")
    /\ UNCHANGED clock

-----------------------------------------------------------------------------
\* The steps of a poll that leave the task where it is.
Waiting ==
    /\ (\E f \in Futures : PollPending(f)) \/ DisconnectOpen \/ DisconnectRegister
          \/ Sleep \/ Resume
    /\ UNCHANGED << place, clock >>

\* minimq's keep-alive timer, which ends with the session.
KeepAlive == InSession /\ TimerWakes /\ UNCHANGED << place, clock >>

Tick ==
    /\ now < MaxTime
    /\ now' = now + 1
    /\ UNCHANGED << vars, place, last_attempt, port_shift, used >>

MqttNetwork == Network /\ UNCHANGED << place, clock >>

MqttStep ==
    \/ BackoffOver \/ CheckOpen \/ DropOld \/ ConnectCall \/ Connected
    \/ SessionCall \/ SessionPolled \/ SessionTransportError \/ SessionError
    \/ SessionUp \/ DisconnectCall \/ Disconnected \/ Waiting

MqttNext == MqttStep \/ KeepAlive \/ Tick \/ MqttNetwork

MqttSpec == MqttInit /\ [][MqttNext]_mqttVars

-----------------------------------------------------------------------------
Places == { "backoff", "is_open", "abort", "connect", "connect_again",
            "connecting", "session_connect", "session", "drop_conn", "disconnect" }

\* Every variable holds a value of its kind.
MqttTypeOK ==
    /\ TypeOK
    /\ place \in Places
    /\ now \in 0..MaxTime
    /\ last_attempt \in 0..Never
    /\ port_shift \in Ports
    /\ used \in [Ports -> 0..Never]

\* However the last session ended, and whatever the network did since the
\* check, connect finds a socket it may use: it never fails with InvalidState.
ConnectFindsClosed == place \in {"connect", "connect_again"} => ConnectOk

\* "shifted on every reconnect attempt to dodge lingering TIME_WAIT": a port is
\* used again only after all the others, hence NPorts intervals later.
PortsLinger ==
    [][\A p \in Ports : used'[p] # used[p] /\ used[p] # Never =>
          used'[p] - used[p] >= NPorts * Interval]_mqttVars
=============================================================================
