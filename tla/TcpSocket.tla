----------------------------- MODULE TcpSocket -----------------------------
(***************************************************************************)
(* One TCP socket of the firmware and the task that owns it.               *)
(*                                                                         *)
(* The socket itself is smoltcp's (external: modelled from the way         *)
(* socket.rs uses it). Its state changes in two ways: the owning task calls*)
(* it through socket.rs's with_mut, and the network poller, which runs     *)
(* above the task, processes a segment or a timer. The second kind are the *)
(* actions of NetworkStep. A task that cannot go on leaves its waker in    *)
(* the socket, in the receive or in the send slot; smoltcp takes a waker   *)
(* out of its slot when it uses it.                                        *)
(*                                                                         *)
(* Every closure given to with or with_mut runs inside one lock on net, so *)
(* it is one step; between two of them the poller may run.                 *)
(***************************************************************************)
EXTENDS Naturals

CONSTANTS
    RxCap,      \* TCP_RX_SOCKET_BUFFER_SIZE, in segments
    TxCap,      \* TCP_TX_SOCKET_BUFFER_SIZE, in segments
    Timeout     \* whether the owner calls set_timeout (mqtt does, http does not)

ASSUME CapAssumption == RxCap \in Nat \ {0} /\ TxCap \in Nat \ {0}
ASSUME TimeoutAssumption == Timeout \in BOOLEAN

VARIABLES
    sock,       \* the smoltcp socket
    wakers,     \* the slots that hold the task's waker
    woken       \* the executor's pending flag of the task

socketVars == << sock, wakers, woken >>

States == { "Closed", "Listen", "SynSent", "SynReceived", "Established",
            "FinWait1", "FinWait2", "CloseWait", "Closing", "LastAck", "TimeWait" }

\* state; whether there is a remote endpoint; whether the peer's FIN has been
\* received; segments in the two buffers; whether listen() set an endpoint.
Sockets == [ state : States, tuple : BOOLEAN, fin : BOOLEAN,
             rx : 0..RxCap, tx : 0..TxCap, listening : BOOLEAN ]

\* tcp::Socket::new, and what reset() leaves behind.
Fresh == [ state |-> "Closed", tuple |-> FALSE, fin |-> FALSE,
           rx |-> 0, tx |-> 0, listening |-> FALSE ]

SocketInit == sock = Fresh /\ wakers = {} /\ woken = TRUE

-----------------------------------------------------------------------------
(***************************************************************************)
(* What a socket answers about itself.                                     *)
(***************************************************************************)
IsOpen == sock.state \notin {"Closed", "TimeWait"}
MayRecv == sock.state \in {"Established", "FinWait1", "FinWait2"} \/ sock.rx > 0
CanRecv == sock.rx > 0
MaySend == sock.state \in {"Established", "CloseWait"}
CanSend == MaySend /\ sock.tx < TxCap

(***************************************************************************)
(* How the socket changes: a change of state wakes both slots, received    *)
(* octets the receive slot, acknowledged ones the send slot.               *)
(***************************************************************************)
Wake(slots) ==
    /\ woken' = (woken \/ wakers \cap slots # {})
    /\ wakers' = wakers \ slots

Becomes(s) == sock' = s /\ Wake({"recv", "send"})

SetState(state) == Becomes([sock EXCEPT !.state = state])

-----------------------------------------------------------------------------
(***************************************************************************)
(* The network's steps, taken inside iface.poll.                           *)
(***************************************************************************)
SynArrives ==
    /\ sock.state = "Listen"
    /\ Becomes([sock EXCEPT !.state = "SynReceived", !.tuple = TRUE])

\* The answer to our SYN, or the peer's own SYN crossing it.
SynSentAnswered ==
    /\ sock.state = "SynSent"
    /\ SetState("Established") \/ SetState("SynReceived")

SynAcked == sock.state = "SynReceived" /\ SetState("Established")

\* Mutant: a window one segment too large.
BugDataArrives ==
    /\ sock.state \in {"Established", "FinWait1", "FinWait2"}
    /\ sock.rx <= RxCap
    /\ sock' = [sock EXCEPT !.rx = @ + 1]
    /\ Wake({"recv"})

DataArrives ==
    /\ sock.state \in {"Established", "FinWait1", "FinWait2"}
    /\ sock.rx < RxCap
    /\ sock' = [sock EXCEPT !.rx = @ + 1]
    /\ Wake({"recv"})

FinArrives ==
    \E next \in CASE sock.state \in {"SynReceived", "Established"} -> {"CloseWait"}
                  [] sock.state = "FinWait1" -> {"Closing"}
                  [] sock.state = "FinWait2" -> {"TimeWait"}
                  [] OTHER -> {} :
        Becomes([sock EXCEPT !.state = next, !.fin = TRUE])

DataAcked ==
    /\ sock.state \in {"Established", "FinWait1", "CloseWait", "Closing", "LastAck"}
    /\ sock.tx > 0
    /\ sock' = [sock EXCEPT !.tx = @ - 1]
    /\ Wake({"send"})

\* Our FIN goes out after the last octet and is acknowledged after it.
FinAcked ==
    /\ sock.tx = 0
    /\ \/ sock.state = "FinWait1" /\ SetState("FinWait2")
       \/ sock.state = "Closing" /\ SetState("TimeWait")
       \/ sock.state = "LastAck"
             /\ Becomes([sock EXCEPT !.state = "Closed", !.tuple = FALSE])

\* A connection that was being accepted goes back to listening.
RstArrives ==
    /\ sock.tuple /\ sock.state # "Closed"
    /\ Becomes([sock EXCEPT
           !.state = IF sock.state = "SynReceived" /\ sock.listening
                     THEN "Listen" ELSE "Closed",
           !.tuple = FALSE])

\* Mutant: the timeout the todo in http.rs asks for, set on every socket.
BugTimedOut == sock.tuple /\ sock.state # "Closed" /\ SetState("Closed")

\* Mutant: the owner never calls set_timeout.
BugNoTimeout == FALSE

\* The peer has been silent for the time set with set_timeout.
TimedOut ==
    /\ Timeout
    /\ sock.tuple /\ sock.state # "Closed"
    /\ SetState("Closed")

\* A closed socket that still has a remote endpoint sends it a RST.
RstSent ==
    /\ sock.state = "Closed" /\ sock.tuple
    /\ sock' = [sock EXCEPT !.tuple = FALSE]
    /\ Wake({"send"})

TimeWaitOver == sock.state = "TimeWait" /\ Becomes(Fresh)

NetworkStep ==
    \/ SynArrives \/ SynSentAnswered \/ SynAcked \/ DataArrives \/ FinArrives
    \/ DataAcked \/ FinAcked \/ RstArrives \/ TimedOut \/ RstSent \/ TimeWaitOver

-----------------------------------------------------------------------------
(***************************************************************************)
(* The calls of socket.rs that do not wait.                                *)
(***************************************************************************)

\* TcpSocket::close
Close ==
    CASE sock.state \in {"Listen", "SynSent"} -> SetState("Closed")
      [] sock.state \in {"SynReceived", "Established"} -> SetState("FinWait1")
      [] sock.state = "CloseWait" -> SetState("LastAck")
      [] OTHER -> UNCHANGED << sock, wakers, woken >>

\* TcpSocket::abort
Abort == SetState("Closed")

\* The first half of TcpSocket::connect; Err(InvalidState) on an open socket.
ConnectOk == ~IsOpen
\* Mutant: connecting without resetting the socket first.
BugConnect == Becomes([sock EXCEPT !.state = "SynSent", !.tuple = TRUE])
Connect == Becomes([Fresh EXCEPT !.state = "SynSent", !.tuple = TRUE])

\* The first half of TcpSocket::accept; listening again on the same port is
\* allowed and changes nothing.
ListenOk == ~IsOpen \/ sock.state = "Listen"
Listen ==
    IF sock.state = "Listen"
    THEN UNCHANGED << sock, wakers, woken >>
    ELSE Becomes([Fresh EXCEPT !.state = "Listen", !.listening = TRUE])

-----------------------------------------------------------------------------
(***************************************************************************)
(* The futures of socket.rs: the condition on which a poll of each returns *)
(* Ready, and the slot it leaves the waker in when it returns Pending.     *)
(***************************************************************************)
Futures == { "poll_read_ready", "read", "read_with", "poll_write_ready", "write",
             "write_with", "flush", "connect", "accept", "disconnect",
             "read_empty", "write_empty" }    \* read and write of an empty slice

\* SocketInner::flush
DataPending == sock.tx > 0 /\ sock.state # "Closed"
FinPending == sock.state \in {"FinWait1", "Closing", "LastAck"}
\* Mutant: flush does not wait for the RST of an aborted connection.
BugRstPending == FALSE
RstPending == sock.state = "Closed" /\ sock.tuple

Ready(f) ==
    CASE f = "poll_read_ready"       -> CanRecv
      [] f \in {"read", "read_with"} -> CanRecv \/ ~MayRecv
      [] f = "poll_write_ready"      -> CanSend
      [] f \in {"write", "write_with"} -> CanSend \/ ~MaySend
      [] f = "flush"   -> ~(DataPending \/ FinPending \/ RstPending)
      [] f = "connect" -> sock.state \notin {"SynSent", "SynReceived"}
      [] f = "accept"  -> sock.state \notin {"Listen", "SynSent", "SynReceived"}
      [] f = "disconnect" -> ~IsOpen
      [] f = "read_empty"  -> TRUE
      [] f = "write_empty" -> ~MaySend

\* Mutant: flush waits for the receive half.
BugSlot(f) ==
    IF f \in {"poll_read_ready", "read", "read_with", "disconnect", "flush"}
    THEN "recv" ELSE "send"

Slot(f) ==
    IF f \in {"poll_read_ready", "read", "read_with", "disconnect"}
    THEN "recv" ELSE "send"

\* What a future that is Ready does to the socket: a read takes octets out of
\* the receive buffer, a write puts octets into the transmit buffer. The
\* closures of read_with and write_with may leave the buffer as it was.
Effect(f) ==
    LET reads  == f \in {"read", "read_with"} /\ CanRecv
        writes == f \in {"write", "write_with"} /\ CanSend
    IN \/ reads  /\ \E n \in 0..(sock.rx - 1) : sock' = [sock EXCEPT !.rx = n]
       \/ writes /\ \E n \in (sock.tx + 1)..TxCap : sock' = [sock EXCEPT !.tx = n]
       \/ (f \in {"read_with", "write_with"} \/ ~(reads \/ writes)) /\ UNCHANGED sock

SocketTypeOK ==
    /\ sock \in Sockets
    /\ wakers \subseteq {"recv", "send"}
    /\ woken \in BOOLEAN
=============================================================================
