---------------------------- MODULE PollService ----------------------------
(***************************************************************************)
(* What the poller promises to the tasks that use the network.             *)
(*                                                                         *)
(* A task runs only while no poll is owed. A call into a socket, an event  *)
(* of the driver or of a timer, or a link that came up makes the service   *)
(* owe a poll; the poll starts before the tasks go on, and with the device *)
(* up it ends only when no socket has anything left to send at once. With  *)
(* the device down it does nothing.                                        *)
(***************************************************************************)
CONSTANT Tasks      \* the application tasks; each owns one smoltcp socket

VARIABLES
    phase,  \* "idle": the tasks run, "owed": a poll is to come, "polling"
    up,     \* what dev.is_up() answers
    ready   \* the sockets that smoltcp wants polled at once (PollAt::Now)

serviceVars == << phase, up, ready >>

Init ==
    /\ phase = "owed"
    /\ up = FALSE
    /\ ready = {}

\* A task calls with_mut: its socket may have something to send or not.
Call(t) ==
    /\ phase = "idle"
    /\ ready' \in {ready \ {t}, ready \cup {t}}
    /\ phase' = "owed"
    /\ UNCHANGED up

\* An interrupt of the driver, or a deadline of the poller's, comes.
Event ==
    /\ phase = "idle"
    /\ phase' = "owed"
    /\ UNCHANGED << up, ready >>

LinkUp ==
    /\ phase = "idle"
    /\ up' = TRUE
    /\ phase' = "owed"
    /\ UNCHANGED ready

LinkDown ==
    /\ phase = "idle"
    /\ up' = FALSE
    /\ UNCHANGED << phase, ready >>

PollStarts ==
    /\ phase = "owed"
    /\ phase' = "polling"
    /\ UNCHANGED << up, ready >>

\* Frames are taken in and sent out.
Poll ==
    /\ phase = "polling"
    /\ up
    /\ ready' \in SUBSET Tasks
    /\ UNCHANGED << phase, up >>

\* The next poll may be owed already.
PollEnds ==
    /\ phase = "polling"
    /\ up => ready = {}
    /\ phase' \in {"idle", "owed"}
    /\ UNCHANGED << up, ready >>

Next ==
    \/ \E t \in Tasks : Call(t)
    \/ Event \/ LinkUp \/ LinkDown \/ PollStarts \/ Poll \/ PollEnds

Spec == Init /\ [][Next]_serviceVars

-----------------------------------------------------------------------------
\* A task that runs with the device up finds every socket's output handed to
\* the driver, its own calls' included.
Served == phase = "idle" /\ up => ready = {}
=============================================================================
