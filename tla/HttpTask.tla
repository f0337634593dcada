------------------------------ MODULE HttpTask ------------------------------
(***************************************************************************)
(* http_task: accept a connection, let picoserve serve it, end it with     *)
(* shutdown or with abort, accept the next (http.rs, and the picoserve     *)
(* Socket implementation in socket.rs).                                    *)
(*                                                                         *)
(* The task is one use of the futures of socket.rs: every step of it is a  *)
(* step of SocketFutures together with a step of the task's own control.   *)
(* picoserve is external: it reads, writes and flushes, each with a        *)
(* timeout, and ends with Ok, which calls shutdown, or with Err, which     *)
(* calls abort. Time is left out: a timer that is set may expire at any    *)
(* moment.                                                                 *)
(***************************************************************************)
EXTENDS SocketFutures

VARIABLES
    place,      \* where http() is
    timer,      \* the timer of run_with_timeout: "off", "set", "expired", or
                \* "seen" in a poll that began after it had expired
    result,     \* what the last handle_connection ended with
    met         \* history: a peer completed the handshake since the last listen

control == << place, timer, result, met >>
httpVars == << sock, wakers, woken, pc, awaited, todo, place, timer, result, met >>

HttpInit ==
    /\ Init
    /\ place = "accept_call"
    /\ timer = "off"
    /\ result = "none"
    /\ met = FALSE

Goto(p) == place' = p

TimerOver == {"expired", "seen"}

\* handle_connection returns r and the loop starts again.
Ends(r) ==
    Goto("accept_call") /\ result' = r /\ timer' = "off" /\ UNCHANGED met

-----------------------------------------------------------------------------
AcceptCall ==
    /\ place = "accept_call"
    /\ CallAccept
    /\ Goto("accept")
    /\ met' = FALSE
    /\ UNCHANGED << timer, result >>

\* accept(80).await.unwrap() on Err(InvalidState).
AcceptPanics ==
    /\ place = "accept_call"
    /\ Free /\ ~ListenOk
    /\ Goto("panicked")
    /\ UNCHANGED << vars, timer, result, met >>

Accepted ==
    /\ place = "accept"
    /\ PollReady("accept") /\ awaited' = {}
    /\ Goto("serve")
    /\ UNCHANGED << timer, result, met >>

(***************************************************************************)
(* picoserve's serve.                                                      *)
(***************************************************************************)
ServeCall ==
    /\ place = "serve"
    /\ CallFuture /\ awaited' \in { {"read"}, {"write"}, {"flush"} }
    /\ timer' = "set"
    /\ UNCHANGED << place, result, met >>

ServePolled ==
    /\ place = "serve"
    /\ \E f \in {"read", "write", "flush"} : PollReady(f)
    /\ awaited' = {}
    /\ timer' = "off"
    /\ UNCHANGED << place, result, met >>

\* Mutant: a timer that outlives the future it belongs to.
BugServeTimeout ==
    /\ place = "serve"
    /\ timer \in TimerOver /\ todo = {}
    /\ Cancel
    /\ UNCHANGED control

ServeTimeout ==
    /\ place = "serve"
    /\ timer \in TimerOver /\ todo = {}
    /\ Cancel
    /\ timer' = "off"
    /\ UNCHANGED << place, result, met >>

\* Ok: shutdown closes the socket and waits for discard_all_data, with the
\* read_request timeout, or flush.
ServeOk ==
    /\ place = "serve"
    /\ CallShutdown
    /\ Goto("discard")
    /\ timer' = "set"
    /\ UNCHANGED << result, met >>

\* Err: abort, then flush with the write timeout.
ServeErr ==
    /\ place = "serve"
    /\ CallAbort
    /\ Goto("abort")
    /\ UNCHANGED << timer, result, met >>

(***************************************************************************)
(* shutdown.                                                               *)
(***************************************************************************)
DiscardData ==
    /\ place = "discard"
    /\ CanRecv
    /\ PollReady("read") /\ UNCHANGED awaited
    /\ UNCHANGED control

\* Mutant: shutdown without the flush that ends it.
BugDiscardEof ==
    /\ place = "discard"
    /\ ~CanRecv /\ sock.fin
    /\ PollReady("read") /\ awaited' = {}
    /\ Ends("Ok")

\* Ok(0): the peer has closed its half.
DiscardEof ==
    /\ place = "discard"
    /\ ~CanRecv /\ sock.fin
    /\ PollReady("read") /\ awaited' = {}
    /\ Goto("flush_call")
    /\ timer' = "off"
    /\ UNCHANGED << result, met >>

DiscardReset ==
    /\ place = "discard"
    /\ ~CanRecv /\ ~sock.fin
    /\ PollReady("read") /\ awaited' = {}
    /\ Ends("Read")

\* The second half of or(): flush is polled after the read; when it is done
\* it waits for ever.
DiscardFlushed ==
    /\ place = "discard"
    /\ "read" \notin todo
    /\ PollReady("flush") /\ awaited' = {"read"}
    /\ UNCHANGED control

DiscardTimeout ==
    /\ place = "discard"
    /\ timer \in TimerOver /\ "read" \notin todo
    /\ Cancel
    /\ Ends("ReadTimeout")

\* The flush that ends shutdown, and the one that ends abort.
FlushCall ==
    /\ place \in {"flush_call", "abort"}
    /\ CallFuture /\ awaited' = {"flush"}
    /\ Goto(IF place = "abort" THEN "abort_flush" ELSE "flush")
    /\ timer' = "set"
    /\ UNCHANGED << result, met >>

FlushDone ==
    /\ place \in {"flush", "abort_flush"}
    /\ PollReady("flush") /\ awaited' = {}
    /\ Ends(IF place = "abort_flush" THEN "Aborted" ELSE "Ok")

\* Mutant: the last flush is awaited without run_with_timeout.
BugFlushTimeout == FALSE

FlushTimeout ==
    /\ place \in {"flush", "abort_flush"}
    /\ timer \in TimerOver /\ todo = {}
    /\ Cancel
    /\ Ends(IF place = "abort_flush" THEN "AbortTimeout" ELSE "WriteTimeout")

-----------------------------------------------------------------------------
\* A poll that returns Pending; or() polls the read first.
StillPending ==
    /\ \/ PollPending("accept") \/ PollPending("read") \/ PollPending("write")
       \/ "read" \notin todo /\ PollPending("flush")
    /\ UNCHANGED control

\* run_with_timeout polls its timer after the future: the task goes to sleep
\* only on a timer that had not expired then.
GoesToSleep ==
    /\ timer # "seen"
    /\ Sleep
    /\ UNCHANGED control

Resumes ==
    /\ Resume
    /\ timer' = IF timer = "expired" THEN "seen" ELSE timer
    /\ UNCHANGED << place, result, met >>

TimerExpires ==
    /\ timer = "set"
    /\ timer' = "expired"
    /\ TimerWakes
    /\ UNCHANGED << place, result, met >>

HttpNetwork ==
    /\ Network
    /\ met' = (met \/ sock'.state \in {"Established", "CloseWait"})
    /\ UNCHANGED << place, timer, result >>

\* What http_task does in shutdown and abort, where nothing but the socket and
\* the timers decides.
Closing ==
    \/ DiscardData \/ DiscardEof \/ DiscardReset \/ DiscardFlushed
    \/ DiscardTimeout \/ FlushCall \/ FlushDone \/ FlushTimeout

HttpStep ==
    \/ AcceptCall \/ AcceptPanics \/ Accepted \/ ServeCall \/ ServePolled
    \/ ServeTimeout \/ ServeOk \/ ServeErr \/ Closing
    \/ StillPending \/ GoesToSleep \/ Resumes

HttpNext == HttpStep \/ TimerExpires \/ HttpNetwork

HttpSpec == HttpInit /\ [][HttpNext]_httpVars

\* The executor polls a task that is awake, and a timer that is set expires.
\* Nothing is assumed of the peer or the network.
HttpFairSpec ==
    HttpSpec /\ WF_httpVars(HttpStep) /\ WF_httpVars(TimerExpires)

-----------------------------------------------------------------------------
Places == { "accept_call", "panicked", "accept", "serve", "discard", "flush_call",
            "flush", "abort", "abort_flush" }
Results == { "none", "Ok", "Read", "ReadTimeout", "WriteTimeout", "Aborted",
             "AbortTimeout" }

\* Every variable holds a value of its kind, and the timer runs only inside
\* run_with_timeout.
HttpTypeOK ==
    /\ TypeOK
    /\ place \in Places
    /\ timer \in {"off", "set"} \cup TimerOver
    /\ result \in Results
    /\ timer # "off" => awaited # {}
    /\ met \in BOOLEAN

\* The executor has the task to run.
Awake == place # "panicked" /\ (pc = "asleep" => woken)

\* A task that is awake always has a step to take, whatever the peer did since
\* the last one: no state of the socket is missing from what accept, the two
\* futures of shutdown, and the flushes handle, and no timer that is over keeps
\* a task from both its timeout and its sleep.
AwakeTaskSteps ==
    /\ Awake => ENABLED << HttpStep >>_httpVars
    /\ timer = "set" => ENABLED << TimerExpires >>_httpVars

\* The unwrap in http() says that accept cannot fail.
AcceptNeverPanics == place # "panicked"

\* A connection that ended with Ok, with a reset or through abort leaves a
\* socket that can listen again: only the two timeouts of shutdown leave one
\* that cannot, and make the next accept panic.
PanicOnlyAfterTimeout ==
    place = "panicked" => result \in {"ReadTimeout", "WriteTimeout"}

\* When abort has returned Ok the peer has been told, or was already gone.
AbortNotifiesPeer ==
    place = "accept_call" /\ result = "Aborted" => ~IsOpen /\ ~sock.tuple

\* accept returns Ok in every state but three, CLOSED among them. Still it
\* never hands picoserve a connection that did not exist: a handshake that
\* fails goes back to listening, since http sets no timeout on the socket.
AcceptedIsConnected == place = "serve" => met

\* A shutdown that returned Ok left nothing unacknowledged, its last flush
\* having come after the last read, unless the connection was reset: flush does
\* not tell the two apart, though its doc says that it "waits until all data has
\* been sent, and ACKed by the remote host".
ShutdownDelivers ==
    place = "accept_call" /\ result = "Ok" => sock.tx = 0 \/ sock.state = "Closed"

\* A client that completed its handshake while accept waits is handed to
\* picoserve, even if it resets or closes the connection before the task runs.
HandshakeServed == place = "accept" /\ met ~> place = "serve"

\* The flushes that end shutdown and abort end, though the peer acknowledges
\* nothing or keeps the task awake with segments for ever.
FlushEnds ==
    place \in {"flush_call", "flush", "abort", "abort_flush"}
        ~> place \in {"accept_call", "panicked"}

\* Once picoserve is done with a connection, and the peer stops sending, the
\* task gets to the next accept, whatever the peer and the network do.
ConnectionEnds ==
    <>[][~DataArrives]_httpVars =>
        (place \in {"discard", "flush_call", "flush", "abort", "abort_flush"}
            ~> place \in {"accept_call", "panicked"})
=============================================================================
