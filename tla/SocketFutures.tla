--------------------------- MODULE SocketFutures ---------------------------
(***************************************************************************)
(* Any task that uses a TcpSocket through the futures of socket.rs.        *)
(*                                                                         *)
(* The task calls whatever it likes in whatever order, waits for one       *)
(* future, or for read and flush together as futures_lite::future::or does *)
(* in the picoserve shutdown, and may drop a future it waits for, as a     *)
(* timeout does. The question is whether a task that went to sleep is      *)
(* always woken when what it waits for has happened.                       *)
(***************************************************************************)
EXTENDS TcpSocket

VARIABLES
    pc,         \* "run", "gap" inside a poll of disconnect, or "asleep"
    awaited,    \* the futures the task is waiting for
    todo        \* those this poll of the task has still to poll

vars == << sock, wakers, woken, pc, awaited, todo >>

Init ==
    /\ SocketInit
    /\ pc = "run"
    /\ awaited = {}
    /\ todo = {}

\* The task is running and holds no future.
Free == pc = "run" /\ awaited = {}

Await(fs) == awaited' = fs /\ todo' = fs

-----------------------------------------------------------------------------
(***************************************************************************)
(* Calls.                                                                  *)
(***************************************************************************)

\* The futures that do nothing before they are first polled.
CallFuture ==
    /\ Free
    /\ \E f \in Futures \ {"connect", "accept", "disconnect"} : Await({f})
    /\ UNCHANGED << sock, wakers, woken, pc >>

CallConnect ==
    /\ Free
    /\ ConnectOk
    /\ Connect
    /\ Await({"connect"})
    /\ UNCHANGED pc

CallAccept ==
    /\ Free
    /\ ListenOk
    /\ Listen
    /\ Await({"accept"})
    /\ UNCHANGED pc

CallDisconnect ==
    /\ Free
    /\ Close
    /\ Await({"disconnect"})
    /\ UNCHANGED pc

\* The first part of the picoserve shutdown.
CallShutdown ==
    /\ Free
    /\ Close
    /\ Await({"read", "flush"})
    /\ UNCHANGED pc

CallAbort == Free /\ Abort /\ UNCHANGED << pc, awaited, todo >>

-----------------------------------------------------------------------------
(***************************************************************************)
(* Polls. Each with_mut is one step. A future that is Ready ends the wait  *)
(* for all of them, leaves the task waiting for the rest, or is called     *)
(* again at once.                                                          *)
(***************************************************************************)
PollReady(f) ==
    /\ pc = "run"
    /\ f \in todo
    /\ Ready(f)
    /\ Effect(f)
    /\ \/ Await({})
       \/ awaited' = awaited \ {f} /\ todo' = todo \ {f}
       \/ UNCHANGED << awaited, todo >>
    /\ UNCHANGED << wakers, woken, pc >>

\* Mutant: Pending is returned without registering a waker.
BugPollPending(f) ==
    /\ pc = "run"
    /\ f \in todo \ {"disconnect"}
    /\ ~Ready(f)
    /\ todo' = todo \ {f}
    /\ UNCHANGED << sock, wakers, woken, pc, awaited >>

PollPending(f) ==
    /\ pc = "run"
    /\ f \in todo \ {"disconnect"}
    /\ ~Ready(f)
    /\ wakers' = wakers \cup {Slot(f)}
    /\ todo' = todo \ {f}
    /\ UNCHANGED << sock, woken, pc, awaited >>

\* disconnect looks at the socket in one lock and registers in another.
DisconnectOpen ==
    /\ pc = "run"
    /\ "disconnect" \in todo
    /\ IsOpen
    /\ pc' = "gap"
    /\ UNCHANGED << sock, wakers, woken, awaited, todo >>

DisconnectRegister ==
    /\ pc = "gap"
    /\ wakers' = wakers \cup {Slot("disconnect")}
    /\ todo' = todo \ {"disconnect"}
    /\ pc' = "run"
    /\ UNCHANGED << sock, woken, awaited >>

\* A timeout is over: the task drops what it waits for.
Cancel ==
    /\ pc = "run"
    /\ awaited # {}
    /\ Await({})
    /\ UNCHANGED << sock, wakers, woken, pc >>

Sleep ==
    /\ pc = "run"
    /\ awaited # {} /\ todo = {}
    /\ pc' = "asleep"
    /\ UNCHANGED << sock, wakers, woken, awaited, todo >>

\* The executor clears the pending flag, then polls the task.
Resume ==
    /\ pc = "asleep"
    /\ woken
    /\ woken' = FALSE
    /\ pc' = "run"
    /\ todo' = awaited
    /\ UNCHANGED << sock, wakers, awaited >>

\* A timer of the task expires.
TimerWakes ==
    /\ woken' = TRUE
    /\ UNCHANGED << sock, wakers, pc, awaited, todo >>

Network == NetworkStep /\ UNCHANGED << pc, awaited, todo >>

Call == CallFuture \/ CallConnect \/ CallAccept \/ CallDisconnect \/ CallShutdown
            \/ CallAbort

Poll == (\E f \in Futures : PollReady(f) \/ PollPending(f))
            \/ DisconnectOpen \/ DisconnectRegister \/ Cancel \/ Sleep \/ Resume

Next == Call \/ Poll \/ TimerWakes \/ Network

Spec == Init /\ [][Next]_vars

-----------------------------------------------------------------------------
\* Every variable holds a value of its kind; in particular neither buffer of
\* the socket overflows.
TypeOK ==
    /\ SocketTypeOK
    /\ pc \in {"run", "gap", "asleep"}
    /\ awaited \subseteq Futures
    /\ todo \subseteq awaited

\* A future that returned Pending and has become Ready since has woken the
\* task, whatever the poller does between the steps of a poll and whatever
\* stale wakers earlier futures left behind. Every future of socket.rs but
\* disconnect, whose two locks do not allow it.
NoLostWake ==
    \A f \in (awaited \ todo) \ {"disconnect"} : Ready(f) => woken

\* connect's unreachable!() is: the socket it waits for never listens, not
\* even when the peer's SYN crosses ours and is followed by a RST.
ConnectNeverListens == "connect" \in awaited => sock.state # "Listen"

\* "If the socket is not ready to accept data, it waits until it is", says the
\* doc of write: a write goes to sleep only on a socket that has no room.
WriteWaitsForRoom ==
    [][\A f \in {"write", "write_empty"} :
          f \in todo /\ f \in awaited' \ todo' => ~CanSend]_vars
=============================================================================
