--------------------------- MODULE HttpTaskProofs ---------------------------
(***************************************************************************)
(* http_task implements SocketFutures, so it inherits what is proved there;*)
(* and the ways a connection can end, for any buffer sizes.                *)
(***************************************************************************)
EXTENDS HttpTask, SocketFuturesProofs

Over   == {"Closed", "TimeWait"}
Ending == {"Closed", "TimeWait", "Closing", "LastAck"}
Ours   == Ending \cup {"FinWait1", "FinWait2"}

\* A socket past the peer's FIN remembers it.
FinKnown ==
    sock.state \in {"CloseWait", "Closing", "LastAck", "TimeWait"} => sock.fin

\* How far the socket is closed at each place of the task.
ClosedEnough ==
    /\ place = "discard" => sock.state \in Ours
    /\ place \in {"flush_call", "flush"} => sock.state \in Ending
    /\ place \in {"abort", "abort_flush"} => sock.state = "Closed"
    /\ place = "accept_call" /\ result \notin {"ReadTimeout", "WriteTimeout"} =>
           sock.state \in Over
    /\ place = "accept_call" /\ result = "Aborted" =>
           sock.state = "Closed" /\ ~sock.tuple

SameConnection ==
    /\ sock'.state = sock.state
    /\ sock'.tuple = sock.tuple
    /\ sock'.fin = sock.fin
    /\ sock'.listening = sock.listening

\* A task in accept is listening or has met its peer.
AcceptWaits ==
    /\ sock.state = "Listen" => sock.listening /\ ~sock.tuple
    /\ place = "accept" =>
           met \/ (sock.state \in {"Listen", "SynReceived"} /\ sock.listening)
    /\ place = "serve" => met

-----------------------------------------------------------------------------
\* The step of the refinement: each action of the task is one of its futures.
LEMMA HttpStepIsFuturesStep == HttpNext => [Next]_vars
<1> SUFFICES ASSUME HttpNext PROVE Next \/ UNCHANGED vars
    OBVIOUS
<1> USE DEF Next, Call, Poll, Futures
<1>1. CASE AcceptCall \/ AcceptPanics \/ Accepted
    BY <1>1 DEF AcceptCall, AcceptPanics, Accepted
<1>2. CASE ServeCall \/ ServePolled \/ ServeTimeout \/ ServeOk \/ ServeErr
    BY <1>2 DEF ServeCall, ServePolled, ServeTimeout, ServeOk, ServeErr
<1>3. CASE DiscardData \/ DiscardEof \/ DiscardReset \/ DiscardFlushed \/ DiscardTimeout
    BY <1>3
    DEF DiscardData, DiscardEof, DiscardReset, DiscardFlushed, DiscardTimeout
<1>4. CASE FlushCall \/ FlushDone \/ FlushTimeout
    BY <1>4 DEF FlushCall, FlushDone, FlushTimeout
<1>5. CASE StillPending \/ GoesToSleep \/ Resumes \/ TimerExpires \/ HttpNetwork
    BY <1>5 DEF StillPending, GoesToSleep, Resumes, TimerExpires, HttpNetwork
<1> QED
    BY <1>1, <1>2, <1>3, <1>4, <1>5 DEF HttpNext, HttpStep, Closing

\* http_task is one of the tasks SocketFutures is about: every step of it is a
\* call or a poll of socket.rs's futures, or leaves the socket alone.
THEOREM HttpImplementsFutures == HttpSpec => Spec
<1>1. HttpInit => Init
    BY DEF HttpInit
<1>2. [HttpNext]_httpVars => [Next]_vars
    BY HttpStepIsFuturesStep DEF httpVars, vars
<1> QED
    BY <1>1, <1>2, PTL DEF HttpSpec, Spec

\* While http_task sleeps, what it waits for has not happened.
THEOREM HttpWakeupsNotLost == HttpSpec => []NoLostWake
BY HttpImplementsFutures, WakeupsNotLost, PTL

\* What SocketFutures says of its variables holds of http's.
LEMMA HttpTyped == HttpSpec => []TypeOK
BY HttpImplementsFutures, TypeCorrect, PTL

\* The task's own variables, and where the timer may run.
ControlType ==
    /\ place \in Places
    /\ timer \in {"off", "set"} \cup TimerOver
    /\ result \in Results
    /\ timer # "off" => awaited # {}
    /\ place = "accept" => timer = "off"
    /\ met \in BOOLEAN

\* The inductive step: run_with_timeout's timer goes with the future.
LEMMA ControlNext == ControlType /\ [HttpNext]_httpVars => ControlType'
<1> SUFFICES ASSUME ControlType, [HttpNext]_httpVars PROVE ControlType'
    OBVIOUS
<1> USE DEF ControlType, Places, Results, Goto, Ends, control, Await, TimerOver
<1>1. CASE AcceptCall
    BY <1>1 DEF AcceptCall, CallAccept, Free
<1>2. CASE AcceptPanics
    BY <1>2 DEF AcceptPanics, vars
<1>3. CASE Accepted
    BY <1>3 DEF Accepted
<1>4. CASE ServeCall
    BY <1>4 DEF ServeCall
<1>5. CASE ServePolled \/ ServeTimeout
    BY <1>5 DEF ServePolled, ServeTimeout, Cancel
<1>6. CASE ServeOk
    BY <1>6 DEF ServeOk, CallShutdown
<1>7. CASE ServeErr
    BY <1>7 DEF ServeErr, CallAbort
<1>8. CASE DiscardData
    BY <1>8 DEF DiscardData
<1>9. CASE DiscardEof \/ DiscardReset \/ DiscardTimeout
    BY <1>9 DEF DiscardEof, DiscardReset, DiscardTimeout
<1>10. CASE DiscardFlushed
    BY <1>10 DEF DiscardFlushed
<1>11. CASE FlushCall
    BY <1>11 DEF FlushCall
<1>12. CASE FlushDone \/ FlushTimeout
    BY <1>12 DEF FlushDone, FlushTimeout
<1>13. CASE StillPending
    BY <1>13 DEF StillPending, PollPending
<1>14. CASE GoesToSleep \/ Resumes
    BY <1>14 DEF GoesToSleep, Resumes, Sleep, Resume
<1>15. CASE TimerExpires
    BY <1>15 DEF TimerExpires, TimerWakes
<1>16. CASE HttpNetwork
    BY <1>16 DEF HttpNetwork, Network
<1>17. CASE UNCHANGED httpVars
    BY <1>17 DEF httpVars
<1> QED
    BY <1>1, <1>2, <1>3, <1>4, <1>5, <1>6, <1>7, <1>8, <1>9, <1>10, <1>11, <1>12,
       <1>13, <1>14, <1>15, <1>16, <1>17
    DEF HttpNext, HttpStep, Closing

\* http_task's variables keep their types, and no timer outlives the future
\* that run_with_timeout started it for.
THEOREM HttpTypeCorrect == HttpSpec => []HttpTypeOK
<1>1. HttpInit => ControlType
    BY DEF HttpInit, ControlType, Places, Results
<1>2. TypeOK /\ ControlType => HttpTypeOK
    BY DEF HttpTypeOK, ControlType
<1> QED
    BY <1>1, <1>2, ControlNext, HttpTyped, PTL DEF HttpSpec

-----------------------------------------------------------------------------
(***************************************************************************)
(* How a connection ends.                                                  *)
(***************************************************************************)

\* The network only moves a socket that is being closed further on.
LEMMA NetworkCloses ==
    ASSUME SocketTypeOK, NetworkStep, FinKnown
    PROVE  /\ FinKnown'
           /\ sock.state \in Ours => sock'.state \in Ours
           /\ sock.state \in Ending => sock'.state \in Ending
           /\ sock.state \in Over => sock'.state \in Over
           /\ sock.state = "Closed" => sock'.state = "Closed"
           /\ sock.state = "Closed" /\ ~sock.tuple => ~sock'.tuple
<1> USE DEF FinKnown, Ours, Ending, Over, SocketTypeOK, Sockets, Becomes, SetState
<1>1. CASE SynArrives
    BY <1>1 DEF SynArrives
<1>2. CASE SynSentAnswered
    BY <1>2 DEF SynSentAnswered
<1>3. CASE SynAcked
    BY <1>3 DEF SynAcked
<1>4. CASE DataArrives
    BY <1>4 DEF DataArrives
<1>5. CASE FinArrives
    BY <1>5 DEF FinArrives
<1>6. CASE DataAcked
    BY <1>6 DEF DataAcked
<1>7. CASE FinAcked
    BY <1>7 DEF FinAcked
<1>8. CASE RstArrives
    BY <1>8 DEF RstArrives
<1>9. CASE TimedOut
    BY <1>9 DEF TimedOut
<1>10. CASE RstSent
    BY <1>10 DEF RstSent
<1>11. CASE TimeWaitOver
    BY <1>11 DEF TimeWaitOver, Fresh
<1> QED
    BY <1>1, <1>2, <1>3, <1>4, <1>5, <1>6, <1>7, <1>8, <1>9, <1>10, <1>11
    DEF NetworkStep

\* close() puts a socket in any state on its way to closed.
LEMMA CloseCloses ==
    ASSUME SocketTypeOK, Close, FinKnown
    PROVE  FinKnown' /\ sock'.state \in Ours
BY
DEF Close, SetState, Becomes, FinKnown, Ours, Ending, SocketTypeOK, Sockets, States

\* A poll that returns Ready moves octets, nothing else.
LEMMA PollKeeps ==
    ASSUME SocketTypeOK, NEW f \in Futures, PollReady(f) PROVE SameConnection
<1>1. CASE UNCHANGED sock
    BY <1>1 DEF SameConnection
<1>2. CASE \E n : sock' = [sock EXCEPT !.rx = n]
    BY <1>2 DEF SameConnection, SocketTypeOK, Sockets
<1>3. CASE \E n : sock' = [sock EXCEPT !.tx = n]
    BY <1>3 DEF SameConnection, SocketTypeOK, Sockets
<1>4. Effect(f)
    BY DEF PollReady
<1> QED
    BY <1>1, <1>2, <1>3, <1>4 DEF Effect

\* So does every step of the task that polls a future to its end.
LEMMA PollStepsKeep ==
    ASSUME SocketTypeOK,
           \/ Accepted \/ ServePolled \/ DiscardData \/ DiscardEof \/ DiscardReset
           \/ DiscardFlushed \/ FlushDone
    PROVE  SameConnection
<1>1. \E f \in {"accept", "read", "write", "flush"} : PollReady(f)
    BY DEF Accepted, ServePolled, DiscardData, DiscardEof, DiscardReset,
       DiscardFlushed, FlushDone
<1>2. PICK f \in {"accept", "read", "write", "flush"} : PollReady(f)
    BY <1>1
<1>3. f \in Futures
    BY DEF Futures
<1> QED
    BY <1>2, <1>3, PollKeeps

\* The inductive step: shutdown and abort close the socket as far as they must.
LEMMA ClosedEnoughNext ==
    TypeOK /\ FinKnown /\ ClosedEnough /\ [HttpNext]_httpVars
        => FinKnown' /\ ClosedEnough'
<1> SUFFICES ASSUME TypeOK, FinKnown, ClosedEnough, [HttpNext]_httpVars
             PROVE  FinKnown' /\ ClosedEnough'
    OBVIOUS
<1>0. SocketTypeOK
    BY DEF TypeOK
<1> USE DEF Goto, control
<1>1. CASE AcceptCall
    BY <1>0, <1>1 DEF AcceptCall, CallAccept, Listen, Becomes, Fresh, FinKnown,
       ClosedEnough, SocketTypeOK, Sockets
<1>2. CASE AcceptPanics
    BY <1>2 DEF AcceptPanics, vars, FinKnown, ClosedEnough
<1>3. CASE Accepted
    BY <1>0, <1>3, PollStepsKeep
    DEF SameConnection, Accepted, FinKnown, ClosedEnough
<1>4. CASE ServeCall
    BY <1>4 DEF ServeCall, CallFuture, FinKnown, ClosedEnough
<1>5. CASE ServePolled
    BY <1>0, <1>5, PollStepsKeep
    DEF SameConnection, ServePolled, FinKnown, ClosedEnough
<1>6. CASE ServeTimeout
    BY <1>6 DEF ServeTimeout, Cancel, FinKnown, ClosedEnough
<1>7. CASE ServeOk
    BY <1>0, <1>7, CloseCloses DEF ServeOk, CallShutdown, ClosedEnough
<1>8. CASE ServeErr
    BY <1>0, <1>8 DEF ServeErr, CallAbort, Abort, SetState, Becomes, FinKnown,
       ClosedEnough, SocketTypeOK, Sockets
<1>9. CASE DiscardData
    BY <1>0, <1>9, PollStepsKeep
    DEF SameConnection, DiscardData, FinKnown, ClosedEnough
<1>10. CASE DiscardEof
    <2>1. ~MayRecv
        BY <1>10 DEF DiscardEof, PollReady, Ready
    <2>2. sock.state \in Ending
        BY <1>10, <2>1 DEF DiscardEof, MayRecv, ClosedEnough, Ours, Ending
    <2> QED
        BY <1>0, <1>10, <2>2, PollStepsKeep
        DEF SameConnection, DiscardEof, FinKnown, ClosedEnough
<1>11. CASE DiscardReset
    <2>1. ~MayRecv
        BY <1>11 DEF DiscardReset, PollReady, Ready
    <2>2. sock.state = "Closed"
        BY <1>11, <2>1
        DEF DiscardReset, MayRecv, ClosedEnough, Ours, Ending, FinKnown
    <2> QED
        BY <1>0, <1>11, <2>2, PollStepsKeep
        DEF SameConnection, DiscardReset, Ends, FinKnown, ClosedEnough, Over
<1>12. CASE DiscardFlushed
    BY <1>0, <1>12, PollStepsKeep
    DEF SameConnection, DiscardFlushed, FinKnown, ClosedEnough
<1>13. CASE DiscardTimeout
    BY <1>13 DEF DiscardTimeout, Cancel, Ends, FinKnown, ClosedEnough
<1>14. CASE FlushCall
    BY <1>14 DEF FlushCall, CallFuture, FinKnown, ClosedEnough
<1>15. CASE FlushDone
    <2>1. ~FinPending /\ ~RstPending
        BY <1>15 DEF FlushDone, PollReady, Ready
    <2>2. place = "flush" => sock.state \in Over
        BY <2>1 DEF FinPending, ClosedEnough, Ending, Over
    <2>3. place = "abort_flush" => sock.state = "Closed" /\ ~sock.tuple
        BY <2>1 DEF RstPending, ClosedEnough
    <2>4. FinKnown'
        BY <1>0, <1>15, PollStepsKeep DEF SameConnection, FlushDone, FinKnown
    <2> QED
        BY <1>0, <1>15, <2>2, <2>3, <2>4, PollStepsKeep
        DEF SameConnection, FlushDone, Ends, ClosedEnough, Over
<1>16. CASE FlushTimeout
    BY <1>16 DEF FlushTimeout, Cancel, Ends, FinKnown, ClosedEnough, Over
<1>17. CASE StillPending
    BY <1>17 DEF StillPending, PollPending, FinKnown, ClosedEnough
<1>18. CASE GoesToSleep \/ Resumes \/ TimerExpires
    BY <1>18 DEF GoesToSleep, Sleep, Resumes, Resume, TimerExpires, TimerWakes,
       FinKnown, ClosedEnough
<1>19. CASE HttpNetwork
    BY <1>0, <1>19, NetworkCloses DEF HttpNetwork, Network, ClosedEnough
<1>20. CASE UNCHANGED httpVars
    BY <1>20 DEF httpVars, FinKnown, ClosedEnough
<1> QED
    BY <1>1, <1>2, <1>3, <1>4, <1>5, <1>6, <1>7, <1>8, <1>9, <1>10, <1>11, <1>12,
       <1>13, <1>14, <1>15, <1>16, <1>17, <1>18, <1>19, <1>20
    DEF HttpNext, HttpStep, Closing

\* The socket is closed far enough at every place of the task.
LEMMA ConnectionsClose == HttpSpec => [](FinKnown /\ ClosedEnough)
<1>1. HttpInit => FinKnown /\ ClosedEnough
    BY DEF HttpInit, Init, SocketInit, Fresh, FinKnown, ClosedEnough, Over
<1> QED
    BY <1>1, ClosedEnoughNext, HttpTyped, PTL DEF HttpSpec

\* When abort has returned Ok the peer has been told of it.
THEOREM AbortReachesPeer == HttpSpec => []AbortNotifiesPeer
<1>1. ClosedEnough => AbortNotifiesPeer
    BY DEF ClosedEnough, AbortNotifiesPeer, IsOpen
<1> QED
    BY <1>1, ConnectionsClose, PTL

\* The unwrap on accept fails only after one of the two timeouts of shutdown.
THEOREM PanicNeedsTimeout == HttpSpec => []PanicOnlyAfterTimeout
<1>1. HttpInit => PanicOnlyAfterTimeout
    BY DEF HttpInit, PanicOnlyAfterTimeout
<1>2. ClosedEnough /\ PanicOnlyAfterTimeout /\ [HttpNext]_httpVars
        => PanicOnlyAfterTimeout'
    <2> SUFFICES ASSUME ClosedEnough, PanicOnlyAfterTimeout, [HttpNext]_httpVars
                 PROVE  PanicOnlyAfterTimeout'
        OBVIOUS
    <2> USE DEF PanicOnlyAfterTimeout, Goto, Ends, control
    <2>1. CASE AcceptPanics
        BY <2>1 DEF AcceptPanics, ListenOk, IsOpen, ClosedEnough, Over
    <2>2. CASE AcceptCall \/ Accepted \/ ServeCall \/ ServePolled \/ ServeTimeout
               \/ ServeOk \/ ServeErr
        BY <2>2 DEF AcceptCall, Accepted, ServeCall, ServePolled, ServeTimeout,
           ServeOk, ServeErr
    <2>3. CASE Closing
        BY <2>3 DEF Closing, DiscardData, DiscardEof, DiscardReset, DiscardFlushed,
           DiscardTimeout, FlushCall, FlushDone, FlushTimeout
    <2>4. CASE StillPending \/ GoesToSleep \/ Resumes \/ TimerExpires \/ HttpNetwork
        BY <2>4 DEF StillPending, GoesToSleep, Resumes, TimerExpires, HttpNetwork
    <2>5. CASE UNCHANGED httpVars
        BY <2>5 DEF httpVars
    <2> QED
        BY <2>1, <2>2, <2>3, <2>4, <2>5 DEF HttpNext, HttpStep
<1> QED
    BY <1>1, <1>2, ConnectionsClose, PTL DEF HttpSpec

\* The network leaves a connection that is over delivered, or closes it.
LEMMA NetworkDelivers ==
    ASSUME SocketTypeOK, NetworkStep, sock.state \in Over,
           sock.tx = 0 \/ sock.state = "Closed"
    PROVE  sock'.tx = 0 \/ sock'.state = "Closed"
<1> USE DEF Over, SocketTypeOK, Sockets, Becomes, SetState
<1>1. CASE RstArrives \/ TimedOut
    BY <1>1 DEF RstArrives, TimedOut
<1>2. CASE RstSent
    BY <1>2 DEF RstSent
<1>3. CASE TimeWaitOver
    BY <1>3 DEF TimeWaitOver, Fresh
<1>4. ~SynArrives /\ ~SynSentAnswered /\ ~SynAcked /\ ~DataArrives /\ ~FinArrives
      /\ ~DataAcked /\ ~FinAcked
    BY DEF SynArrives, SynSentAnswered, SynAcked, DataArrives, FinArrives, DataAcked,
       FinAcked
<1> QED
    BY <1>1, <1>2, <1>3, <1>4 DEF NetworkStep

\* A shutdown that returned Ok has delivered the response, or the connection was
\* reset.
THEOREM ShutdownIsDelivery == HttpSpec => []ShutdownDelivers
<1>1. HttpInit => ShutdownDelivers
    BY DEF HttpInit, ShutdownDelivers
<1>2. TypeOK /\ ClosedEnough /\ ShutdownDelivers /\ [HttpNext]_httpVars
        => ShutdownDelivers'
    <2> SUFFICES ASSUME TypeOK, ClosedEnough, ShutdownDelivers, [HttpNext]_httpVars
                 PROVE  ShutdownDelivers'
        OBVIOUS
    <2>0. SocketTypeOK
        BY DEF TypeOK
    <2> USE DEF ShutdownDelivers, Goto, Ends, control
    <2>1. CASE AcceptCall \/ Accepted \/ ServeCall \/ ServePolled \/ ServeTimeout
               \/ ServeOk \/ ServeErr
        BY <2>1 DEF AcceptCall, Accepted, ServeCall, ServePolled, ServeTimeout,
           ServeOk, ServeErr
    <2>2. CASE DiscardData \/ DiscardEof \/ DiscardReset \/ DiscardFlushed
               \/ DiscardTimeout \/ FlushCall \/ FlushTimeout
        BY <2>2 DEF DiscardData, DiscardEof, DiscardReset, DiscardFlushed,
           DiscardTimeout, FlushCall, FlushTimeout
    <2>3. CASE FlushDone
        <3>1. ~DataPending /\ UNCHANGED sock
            BY <2>3 DEF FlushDone, PollReady, Ready, Effect
        <3> QED
            BY <2>0, <3>1 DEF DataPending, SocketTypeOK, Sockets
    <2>4. CASE StillPending
        BY <2>4 DEF StillPending, PollPending
    <2>5. CASE AcceptPanics \/ GoesToSleep \/ Resumes \/ TimerExpires
        BY <2>5 DEF AcceptPanics, vars, GoesToSleep, Sleep, Resumes, Resume,
           TimerExpires, TimerWakes
    <2>6. CASE HttpNetwork
        BY <2>0, <2>6, NetworkDelivers DEF HttpNetwork, Network, ClosedEnough
    <2>7. CASE UNCHANGED httpVars
        BY <2>7 DEF httpVars
    <2> QED
        BY <2>1, <2>2, <2>3, <2>4, <2>5, <2>6, <2>7 DEF HttpNext, HttpStep, Closing
<1> QED
    BY <1>1, <1>2, ConnectionsClose, HttpTyped, PTL DEF HttpSpec

-----------------------------------------------------------------------------
(***************************************************************************)
(* What accept hands over.                                                 *)
(***************************************************************************)
\* A handshake that fails goes back to listening, one that succeeds is met.
LEMMA NetworkMeets ==
    ASSUME ~Timeout, SocketTypeOK, AcceptWaits, HttpNetwork
    PROVE  AcceptWaits'
<1> USE
DEF AcceptWaits, HttpNetwork, Network, SocketTypeOK, Sockets, Becomes, SetState
<1>1. CASE SynArrives
    BY <1>1 DEF SynArrives
<1>2. CASE SynSentAnswered
    BY <1>2 DEF SynSentAnswered
<1>3. CASE SynAcked
    BY <1>3 DEF SynAcked
<1>4. CASE DataArrives
    BY <1>4 DEF DataArrives
<1>5. CASE FinArrives
    BY <1>5 DEF FinArrives
<1>6. CASE DataAcked
    BY <1>6 DEF DataAcked
<1>7. CASE FinAcked
    BY <1>7 DEF FinAcked
<1>8. CASE RstArrives
    BY <1>8 DEF RstArrives
<1>9. CASE RstSent
    BY <1>9 DEF RstSent
<1>10. CASE TimeWaitOver
    BY <1>10 DEF TimeWaitOver, Fresh
<1> QED
    BY <1>1, <1>2, <1>3, <1>4, <1>5, <1>6, <1>7, <1>8, <1>9, <1>10
    DEF NetworkStep, TimedOut

\* The inductive step for the whole task.
LEMMA AcceptWaitsNext ==
    ASSUME ~Timeout
    PROVE  TypeOK /\ AcceptWaits /\ [HttpNext]_httpVars => AcceptWaits'
<1> SUFFICES ASSUME TypeOK, AcceptWaits, [HttpNext]_httpVars
             PROVE  AcceptWaits'
    OBVIOUS
<1>0. SocketTypeOK
    BY DEF TypeOK
<1> USE DEF Goto, Ends, control
<1>1. CASE AcceptCall
    BY <1>0, <1>1 DEF AcceptCall, CallAccept, Listen, Becomes, Fresh, AcceptWaits,
       SocketTypeOK, Sockets
<1>2. CASE AcceptPanics
    BY <1>2 DEF AcceptPanics, vars, AcceptWaits
<1>3. CASE Accepted
    <2>1. sock.state \notin {"Listen", "SynReceived"}
        BY <1>3 DEF Accepted, PollReady, Ready
    <2> QED
        BY <1>0, <1>3, <2>1, PollStepsKeep DEF SameConnection, Accepted, AcceptWaits
<1>4. CASE ServeCall \/ ServeTimeout
    BY <1>4 DEF ServeCall, CallFuture, ServeTimeout, Cancel, AcceptWaits
<1>5. CASE ServePolled
    BY <1>0, <1>5, PollStepsKeep DEF SameConnection, ServePolled, AcceptWaits
<1>6. CASE ServeOk
    BY <1>0, <1>6 DEF ServeOk, CallShutdown, Close, SetState, Becomes, AcceptWaits,
       SocketTypeOK, Sockets
<1>7. CASE ServeErr
    BY <1>0, <1>7 DEF ServeErr, CallAbort, Abort, SetState, Becomes, AcceptWaits,
       SocketTypeOK, Sockets
<1>8. CASE DiscardData \/ DiscardEof \/ DiscardReset \/ DiscardFlushed \/ FlushDone
    BY <1>0, <1>8, PollStepsKeep
    DEF SameConnection, DiscardData, DiscardEof, DiscardReset,
       DiscardFlushed, FlushDone, AcceptWaits
<1>9. CASE DiscardTimeout \/ FlushTimeout \/ FlushCall
    BY <1>9
    DEF DiscardTimeout, FlushTimeout, FlushCall, Cancel, CallFuture, AcceptWaits
<1>10. CASE StillPending
    BY <1>10 DEF StillPending, PollPending, AcceptWaits
<1>11. CASE GoesToSleep \/ Resumes \/ TimerExpires
    BY <1>11 DEF GoesToSleep, Sleep, Resumes, Resume, TimerExpires, TimerWakes,
       AcceptWaits
<1>12. CASE HttpNetwork
    BY <1>0, <1>12, NetworkMeets
<1>13. CASE UNCHANGED httpVars
    BY <1>13 DEF httpVars, AcceptWaits
<1> QED
    BY <1>1, <1>2, <1>3, <1>4, <1>5, <1>6, <1>7, <1>8, <1>9, <1>10, <1>11, <1>12, <1>13
    DEF HttpNext, HttpStep, Closing

\* Without a timeout on the socket accept hands over only connections whose
\* handshake was completed.
THEOREM AcceptHandsOverConnections ==
    ASSUME ~Timeout
    PROVE  HttpSpec => []AcceptedIsConnected
<1>1. HttpInit => AcceptWaits
    BY DEF HttpInit, Init, SocketInit, Fresh, AcceptWaits
<1>2. TypeOK /\ AcceptWaits /\ [HttpNext]_httpVars => AcceptWaits'
    BY AcceptWaitsNext
<1>3. AcceptWaits => AcceptedIsConnected
    BY DEF AcceptWaits, AcceptedIsConnected
<1> QED
    BY <1>1, <1>2, <1>3, HttpTyped, PTL DEF HttpSpec

-----------------------------------------------------------------------------
(***************************************************************************)
(* Liveness, from the fairness of HttpFairSpec. That a task that is awake  *)
(* has a step to take is a hypothesis (AwakeTaskSteps): ENABLED is beyond  *)
(* the prover, and TLC checks it.                                          *)
(***************************************************************************)

\* What the task waits for at each place, and that a timer over in a running
\* poll has left its mark on the task.
Waits ==
    /\ pc # "gap"
    /\ pc = "asleep" => todo = {} /\ timer # "seen"
    /\ place \in {"accept_call", "panicked", "flush_call", "abort"} =>
           pc = "run" /\ awaited = {}
    /\ place = "accept" => awaited = {"accept"}
    /\ place \in {"flush", "abort_flush"} => awaited = {"flush"} /\ timer # "off"
    /\ timer = "expired" => woken

\* The inductive step of Waits.
LEMMA WaitsNext ==
    TypeOK /\ Waits /\ [HttpNext]_httpVars => Waits'
<1> SUFFICES ASSUME TypeOK, Waits, [HttpNext]_httpVars PROVE Waits'
    OBVIOUS
<1> USE DEF TypeOK, Waits, Goto, Ends, control, Await, TimerOver
<1>1. CASE AcceptCall
    BY <1>1 DEF AcceptCall, CallAccept, Free, Listen, Becomes, Wake
<1>2. CASE AcceptPanics
    BY <1>2 DEF AcceptPanics, vars, Free
<1>3. CASE Accepted
    BY <1>3 DEF Accepted, PollReady
<1>4. CASE ServeCall
    BY <1>4 DEF ServeCall, CallFuture, Free
<1>5. CASE ServePolled \/ ServeTimeout
    BY <1>5 DEF ServePolled, ServeTimeout, Cancel, PollReady
<1>6. CASE ServeOk
    BY <1>6 DEF ServeOk, CallShutdown, Free
<1>7. CASE ServeErr
    BY <1>7 DEF ServeErr, CallAbort, Free, Abort, SetState, Becomes, Wake
<1>8. CASE DiscardData \/ DiscardFlushed
    BY <1>8 DEF DiscardData, DiscardFlushed, PollReady
<1>9. CASE DiscardEof \/ DiscardReset
    BY <1>9 DEF DiscardEof, DiscardReset, PollReady
<1>10. CASE DiscardTimeout \/ FlushTimeout
    BY <1>10 DEF DiscardTimeout, FlushTimeout, Cancel
<1>11. CASE FlushCall
    BY <1>11 DEF FlushCall, CallFuture, Free
<1>12. CASE FlushDone
    BY <1>12 DEF FlushDone, PollReady
<1>13. CASE StillPending
    BY <1>13 DEF StillPending, PollPending
<1>14. CASE GoesToSleep
    BY <1>14 DEF GoesToSleep, Sleep
<1>15. CASE Resumes
    BY <1>15 DEF Resumes, Resume
<1>16. CASE TimerExpires
    BY <1>16 DEF TimerExpires, TimerWakes
<1>17. CASE HttpNetwork
    <2>1. woken => woken'
        BY <1>17 DEF HttpNetwork, Network, NetworkStep, SynArrives, SynSentAnswered,
           SynAcked, DataArrives, FinArrives, DataAcked, FinAcked, RstArrives,
           TimedOut, RstSent, TimeWaitOver, SetState, Becomes, Wake
    <2> QED
        BY <1>17, <2>1 DEF HttpNetwork, Network
<1>18. CASE UNCHANGED httpVars
    BY <1>18 DEF httpVars
<1> QED
    BY <1>1, <1>2, <1>3, <1>4, <1>5, <1>6, <1>7, <1>8, <1>9, <1>10, <1>11, <1>12,
       <1>13, <1>14, <1>15, <1>16, <1>17, <1>18
    DEF HttpNext, HttpStep, Closing

\* What the task waits for is as its place says.
LEMMA HttpWaits == HttpSpec => []Waits
<1>1. HttpInit => Waits
    BY DEF HttpInit, Init, Waits
<1> QED
    BY <1>1, WaitsNext, HttpTyped, PTL DEF HttpSpec

\* A peer that was met keeps accept ready, even if it is gone again.
MetIsReady ==
    place = "accept" /\ met =>
        sock.state \notin {"Listen", "SynSent", "SynReceived"}

\* The network leads no socket from a connection into a handshake.
LEMMA NetworkStartsNoHandshake ==
    ASSUME SocketTypeOK, NetworkStep,
           sock.state \notin {"Listen", "SynSent", "SynReceived"}
    PROVE  sock'.state \notin {"Listen", "SynSent", "SynReceived"}
<1> USE DEF SocketTypeOK, Sockets, Becomes, SetState
<1>1. ~SynArrives /\ ~SynSentAnswered /\ ~SynAcked
    BY DEF SynArrives, SynSentAnswered, SynAcked
<1>2. CASE DataArrives \/ DataAcked
    BY <1>2 DEF DataArrives, DataAcked
<1>3. CASE FinArrives
    BY <1>3 DEF FinArrives
<1>4. CASE FinAcked
    BY <1>4 DEF FinAcked
<1>5. CASE RstArrives \/ TimedOut
    BY <1>5 DEF RstArrives, TimedOut
<1>6. CASE RstSent
    BY <1>6 DEF RstSent
<1>7. CASE TimeWaitOver
    BY <1>7 DEF TimeWaitOver, Fresh
<1> QED
    BY <1>1, <1>2, <1>3, <1>4, <1>5, <1>6, <1>7 DEF NetworkStep

\* The inductive step of MetIsReady: the network leads no socket back to a
\* handshake, but for the one that was not completed.
LEMMA MetIsReadyNext ==
    TypeOK /\ MetIsReady /\ [HttpNext]_httpVars => MetIsReady'
<1> SUFFICES ASSUME TypeOK, MetIsReady, [HttpNext]_httpVars PROVE MetIsReady'
    OBVIOUS
<1>0. SocketTypeOK
    BY DEF TypeOK
<1> USE DEF MetIsReady, Goto, Ends, control
<1>1. CASE AcceptCall \/ AcceptPanics \/ Accepted
    BY <1>1 DEF AcceptCall, AcceptPanics, Accepted
<1>2. CASE ServeCall \/ ServePolled \/ ServeTimeout \/ ServeOk \/ ServeErr
    BY <1>2 DEF ServeCall, ServePolled, ServeTimeout, ServeOk, ServeErr
<1>3. CASE Closing
    BY <1>3 DEF Closing, DiscardData, DiscardEof, DiscardReset, DiscardFlushed,
       DiscardTimeout, FlushCall, FlushDone, FlushTimeout
<1>4. CASE StillPending \/ GoesToSleep \/ Resumes \/ TimerExpires
    BY <1>4 DEF StillPending, PollPending, GoesToSleep, Sleep, Resumes, Resume,
       TimerExpires, TimerWakes
<1>5. CASE HttpNetwork
    <2> SUFFICES ASSUME place = "accept", met'
                 PROVE  sock'.state \notin {"Listen", "SynSent", "SynReceived"}
        BY <1>5 DEF HttpNetwork
    <2>1. \/ met
          \/ sock'.state \in {"Established", "CloseWait"}
        BY <1>5 DEF HttpNetwork
    <2>2. CASE met
        <3>1. sock.state \notin {"Listen", "SynSent", "SynReceived"}
            BY <2>2
        <3> QED
            BY <1>0, <1>5, <3>1, NetworkStartsNoHandshake DEF HttpNetwork, Network
    <2> QED
        BY <2>1, <2>2
<1>6. CASE UNCHANGED httpVars
    BY <1>6 DEF httpVars
<1> QED
    BY <1>1, <1>2, <1>3, <1>4, <1>5, <1>6 DEF HttpNext, HttpStep

\* The three places of the executor's loop a task in accept can be in.
Met == place = "accept" /\ met
MetPolled == Met /\ pc = "run" /\ todo = {}
MetAsleep == Met /\ pc = "asleep"
MetPolls == Met /\ pc = "run" /\ todo = {"accept"}

\* A step of the task takes it from each of them to the next.
LEMMA MetSteps ==
    ASSUME TypeOK, Waits, MetIsReady, Met, HttpStep
    PROVE  /\ MetPolled => MetAsleep'
           /\ MetAsleep => MetPolls'
           /\ MetPolls => (place = "serve")'
<1> USE DEF Met, Waits, control
<1>1. awaited = {"accept"} /\ Ready("accept")
    BY DEF MetIsReady, Ready
<1>2. Accepted \/ StillPending \/ GoesToSleep \/ Resumes
    BY DEF HttpStep, Closing, AcceptCall, AcceptPanics, ServeCall, ServePolled,
       ServeTimeout, ServeOk, ServeErr, DiscardData, DiscardEof, DiscardReset,
       DiscardFlushed, DiscardTimeout, FlushCall, FlushDone, FlushTimeout
<1>3. CASE Accepted
    BY <1>3 DEF Accepted, PollReady, Goto, MetPolled, MetAsleep, MetPolls
<1>4. ~StillPending
    BY <1>1 DEF StillPending, PollPending, TypeOK
<1>5. CASE GoesToSleep
    BY <1>5 DEF GoesToSleep, Sleep, MetPolled, MetAsleep, MetPolls
<1>6. CASE Resumes
    BY <1>1, <1>6 DEF Resumes, Resume, MetPolled, MetAsleep, MetPolls
<1> QED
    BY <1>2, <1>3, <1>4, <1>5, <1>6

\* Nothing else moves it.
LEMMA MetStays ==
    ASSUME Met, [HttpNext]_httpVars, ~HttpStep
    PROVE  Met' /\ UNCHANGED << pc, todo >>
<1>1. CASE TimerExpires
    BY <1>1 DEF TimerExpires, TimerWakes, Met
<1>2. CASE HttpNetwork
    BY <1>2 DEF HttpNetwork, Network, Met
<1>3. CASE UNCHANGED httpVars
    BY <1>3 DEF httpVars, Met
<1> QED
    BY <1>1, <1>2, <1>3 DEF HttpNext

\* A client that completed its handshake is handed to picoserve: the wake-up
\* is not lost, and accept stays ready until the task has run.
THEOREM HandshakesAreServed ==
    HttpFairSpec /\ []AwakeTaskSteps => HandshakeServed
<1> DEFINE Inv == TypeOK /\ Waits /\ MetIsReady /\ NoLostWake
<1>1. HttpSpec => []Inv
    <2>1. HttpInit => MetIsReady
        BY DEF HttpInit, MetIsReady
    <2>2. HttpSpec => []MetIsReady
        BY <2>1, MetIsReadyNext, HttpTyped, PTL DEF HttpSpec
    <2> QED
        BY <2>2, HttpTyped, HttpWaits, HttpWakeupsNotLost, PTL
<1>2. Inv /\ Met => MetPolled \/ MetAsleep \/ MetPolls
    BY DEF TypeOK, Waits, Met, MetPolled, MetAsleep, MetPolls
<1>3. Inv /\ Met => Awake
    <2> SUFFICES ASSUME Inv, Met, pc = "asleep" PROVE woken
        BY DEF Awake, Met
    <2>1. "accept" \in (awaited \ todo) \ {"disconnect"}
        BY DEF Waits, Met
    <2>2. Ready("accept")
        BY DEF MetIsReady, Met, Ready
    <2> QED
        BY <2>1, <2>2 DEF NoLostWake
<1>4. Inv /\ MetPolled /\ [HttpNext]_httpVars => MetPolled' \/ MetAsleep'
    BY MetSteps, MetStays DEF MetPolled
<1>5. Inv /\ MetPolled /\ <<HttpStep>>_httpVars => MetAsleep'
    BY MetSteps DEF MetPolled
<1>6. Inv /\ MetAsleep /\ [HttpNext]_httpVars => MetAsleep' \/ MetPolls'
    BY MetSteps, MetStays DEF MetAsleep
<1>7. Inv /\ MetAsleep /\ <<HttpStep>>_httpVars => MetPolls'
    BY MetSteps DEF MetAsleep
<1>8. Inv /\ MetPolls /\ [HttpNext]_httpVars => MetPolls' \/ (place = "serve")'
    BY MetSteps, MetStays DEF MetPolls
<1>9. Inv /\ MetPolls /\ <<HttpStep>>_httpVars => (place = "serve")'
    BY MetSteps DEF MetPolls
<1>10. MetPolled \/ MetAsleep \/ MetPolls => Met
    BY DEF MetPolled, MetAsleep, MetPolls
<1> HIDE DEF Inv
<1>11. HttpFairSpec /\ []AwakeTaskSteps => (MetPolled ~> MetAsleep)
    BY <1>1, <1>3, <1>4, <1>5, <1>10, PTL DEF HttpFairSpec, HttpSpec, AwakeTaskSteps
<1>12. HttpFairSpec /\ []AwakeTaskSteps => (MetAsleep ~> MetPolls)
    BY <1>1, <1>3, <1>6, <1>7, <1>10, PTL DEF HttpFairSpec, HttpSpec, AwakeTaskSteps
<1>13. HttpFairSpec /\ []AwakeTaskSteps => (MetPolls ~> place = "serve")
    BY <1>1, <1>3, <1>8, <1>9, <1>10, PTL DEF HttpFairSpec, HttpSpec, AwakeTaskSteps
<1>14. HttpFairSpec => []Inv
    BY <1>1, PTL DEF HttpFairSpec
<1>15. HttpFairSpec /\ []AwakeTaskSteps => (Met ~> place = "serve")
    BY <1>2, <1>11, <1>12, <1>13, <1>14, PTL
<1> QED
    BY <1>15 DEF HandshakeServed, Met

\* The last flush of a connection, by its timer and the executor's loop.
FlushCalled == place \in {"flush_call", "abort"}
Flushes(t) == place \in {"flush", "abort_flush"} /\ timer = t
FlushPolls(t) == Flushes(t) /\ pc = "run" /\ todo = {"flush"}
FlushPolled(t) == Flushes(t) /\ pc = "run" /\ todo = {}
FlushAsleep(t) == Flushes(t) /\ pc = "asleep"
FlushOver == place \in {"accept_call", "panicked"}

\* A step of the task ends the flush or takes it on: a timer that expired during
\* a poll is seen in the next one, and that poll does not end in a sleep.
LEMMA FlushSteps ==
    ASSUME TypeOK, Waits, HttpStep, NEW t \in {"set"} \cup TimerOver
    PROVE  /\ FlushCalled => (Flushes("set"))'
           /\ Flushes("set") => (Flushes("set"))' \/ FlushOver'
           /\ FlushPolls(t) => FlushPolled(t)' \/ FlushOver'
           /\ FlushPolled("expired") => (FlushAsleep("expired"))' \/ FlushOver'
           /\ FlushAsleep("expired") => (FlushPolls("seen"))'
           /\ FlushPolled("seen") => FlushOver'
<1> USE DEF FlushCalled, Flushes, FlushPolls, FlushPolled, FlushAsleep, FlushOver,
        Waits, control, TimerOver
<1>1. CASE FlushCall
    BY <1>1 DEF FlushCall, CallFuture, Free, Goto
<1>2. CASE FlushDone
    BY <1>2 DEF FlushDone, PollReady, Ends, Goto
<1>3. CASE FlushTimeout
    BY <1>3 DEF FlushTimeout, Cancel, Ends, Goto
<1>4. CASE StillPending
    BY <1>4 DEF StillPending, PollPending, TypeOK
<1>5. CASE GoesToSleep
    BY <1>5 DEF GoesToSleep, Sleep
<1>6. CASE Resumes
    BY <1>6 DEF Resumes, Resume
<1>7. CASE AcceptCall \/ AcceptPanics \/ Accepted \/ ServeCall \/ ServePolled
           \/ ServeTimeout \/ ServeOk \/ ServeErr
    BY <1>7 DEF AcceptCall, AcceptPanics, Accepted, ServeCall, ServePolled,
       ServeTimeout, ServeOk, ServeErr
<1>8. CASE DiscardData \/ DiscardEof \/ DiscardReset \/ DiscardFlushed
           \/ DiscardTimeout
    BY <1>8 DEF DiscardData, DiscardEof, DiscardReset, DiscardFlushed, DiscardTimeout
<1> QED
    BY <1>1, <1>2, <1>3, <1>4, <1>5, <1>6, <1>7, <1>8 DEF HttpStep, Closing

\* Of the rest only the timer matters to it.
LEMMA FlushStays ==
    ASSUME [HttpNext]_httpVars, ~HttpStep
    PROVE  /\ UNCHANGED << place, pc, todo >>
           /\ UNCHANGED timer \/ (timer = "set" /\ timer' = "expired")
<1>1. CASE TimerExpires
    BY <1>1 DEF TimerExpires, TimerWakes
<1>2. CASE HttpNetwork
    BY <1>2 DEF HttpNetwork, Network
<1>3. CASE UNCHANGED httpVars
    BY <1>3 DEF httpVars
<1> QED
    BY <1>1, <1>2, <1>3 DEF HttpNext

\* The flushes that end shutdown and abort end whatever the peer does: their
\* timer expires, and the next poll either finds the flush done or gives it up.
THEOREM FlushesEnd == HttpFairSpec /\ []AwakeTaskSteps => FlushEnds
<1> DEFINE Inv == TypeOK /\ HttpTypeOK /\ Waits
           Fair == HttpFairSpec /\ []AwakeTaskSteps
<1>1. HttpFairSpec => []Inv /\ [][HttpNext]_httpVars
    BY HttpTyped, HttpTypeCorrect, HttpWaits, PTL DEF HttpFairSpec, HttpSpec
<1> USE DEF TimerOver
<1>2. Inv /\ Flushes("expired") =>
          FlushPolls("expired") \/ FlushPolled("expired") \/ FlushAsleep("expired")
    BY DEF TypeOK, Waits, Flushes, FlushPolls, FlushPolled, FlushAsleep
<1>3. /\ Inv
      /\ \/ FlushCalled \/ FlushPolls("expired") \/ FlushPolled("expired")
         \/ FlushPolls("seen") \/ FlushPolled("seen")
      => Awake
    BY DEF Waits, FlushCalled, Flushes, FlushPolls, FlushPolled, Awake
<1>4. Inv /\ FlushAsleep("expired") => Awake
    BY DEF Waits, Flushes, FlushAsleep, Awake
<1>5. Fair => (FlushCalled ~> Flushes("set"))
    <2>1. Inv /\ FlushCalled /\ [HttpNext]_httpVars => FlushCalled' \/ (Flushes("set"))'
        BY FlushSteps, FlushStays DEF FlushCalled
    <2>2. Inv /\ FlushCalled /\ <<HttpStep>>_httpVars => (Flushes("set"))'
        BY FlushSteps
    <2>3. Inv /\ FlushCalled => Awake
        BY <1>3
    <2> QED
        BY <1>1, <2>1, <2>2, <2>3, PTL DEF HttpFairSpec, AwakeTaskSteps
<1>6. Fair => (Flushes("set") ~> Flushes("expired") \/ FlushOver)
    <2>1. Inv /\ Flushes("set") /\ [HttpNext]_httpVars
              => (Flushes("set"))' \/ (Flushes("expired"))' \/ FlushOver'
        BY FlushSteps, FlushStays DEF Flushes
    <2>2. Flushes("set") /\ <<TimerExpires>>_httpVars => (Flushes("expired"))'
        BY DEF TimerExpires, Flushes
    <2>3. Flushes("set") => timer = "set"
        BY DEF Flushes
    <2> QED
        BY <1>1, <2>1, <2>2, <2>3, PTL DEF HttpFairSpec, AwakeTaskSteps
<1>7. Fair => (FlushPolls("expired") ~> FlushPolled("expired") \/ FlushOver)
    <2>1. Inv /\ FlushPolls("expired") /\ [HttpNext]_httpVars
              => (FlushPolls("expired"))' \/ (FlushPolled("expired"))' \/ FlushOver'
        BY FlushSteps, FlushStays DEF Flushes, FlushPolls
    <2>2. Inv /\ FlushPolls("expired") /\ <<HttpStep>>_httpVars
              => (FlushPolled("expired"))' \/ FlushOver'
        BY FlushSteps
    <2> QED
        BY <1>1, <1>3, <2>1, <2>2, PTL DEF HttpFairSpec, AwakeTaskSteps
<1>8. Fair => (FlushPolled("expired") ~> FlushAsleep("expired") \/ FlushOver)
    <2>1. Inv /\ FlushPolled("expired") /\ [HttpNext]_httpVars
              => (FlushPolled("expired"))' \/ (FlushAsleep("expired"))' \/ FlushOver'
        BY FlushSteps, FlushStays DEF Flushes, FlushPolled
    <2>2. Inv /\ FlushPolled("expired") /\ <<HttpStep>>_httpVars
              => (FlushAsleep("expired"))' \/ FlushOver'
        BY FlushSteps
    <2> QED
        BY <1>1, <1>3, <2>1, <2>2, PTL DEF HttpFairSpec, AwakeTaskSteps
<1>9. Fair => (FlushAsleep("expired") ~> FlushPolls("seen"))
    <2>1. Inv /\ FlushAsleep("expired") /\ [HttpNext]_httpVars
              => (FlushAsleep("expired"))' \/ (FlushPolls("seen"))'
        BY FlushSteps, FlushStays DEF Flushes, FlushAsleep
    <2>2. Inv /\ FlushAsleep("expired") /\ <<HttpStep>>_httpVars => (FlushPolls("seen"))'
        BY FlushSteps
    <2> QED
        BY <1>1, <1>4, <2>1, <2>2, PTL DEF HttpFairSpec, AwakeTaskSteps
<1>10. Fair => (FlushPolls("seen") ~> FlushPolled("seen") \/ FlushOver)
    <2>1. Inv /\ FlushPolls("seen") /\ [HttpNext]_httpVars
              => (FlushPolls("seen"))' \/ (FlushPolled("seen"))' \/ FlushOver'
        BY FlushSteps, FlushStays DEF Flushes, FlushPolls
    <2>2. Inv /\ FlushPolls("seen") /\ <<HttpStep>>_httpVars
              => (FlushPolled("seen"))' \/ FlushOver'
        BY FlushSteps
    <2> QED
        BY <1>1, <1>3, <2>1, <2>2, PTL DEF HttpFairSpec, AwakeTaskSteps
<1>11. Fair => (FlushPolled("seen") ~> FlushOver)
    <2>1. Inv /\ FlushPolled("seen") /\ [HttpNext]_httpVars
              => (FlushPolled("seen"))' \/ FlushOver'
        BY FlushSteps, FlushStays DEF Flushes, FlushPolled
    <2>2. Inv /\ FlushPolled("seen") /\ <<HttpStep>>_httpVars => FlushOver'
        BY FlushSteps
    <2> QED
        BY <1>1, <1>3, <2>1, <2>2, PTL DEF HttpFairSpec, AwakeTaskSteps
<1>12. Inv /\ place \in {"flush_call", "flush", "abort", "abort_flush"} =>
           FlushCalled \/ Flushes("set") \/ Flushes("expired") \/ FlushPolls("seen")
               \/ FlushPolled("seen")
    BY DEF TypeOK, HttpTypeOK, Waits, FlushCalled, Flushes, FlushPolls, FlushPolled
<1> HIDE DEF Inv
<1>13. Fair => (place \in {"flush_call", "flush", "abort", "abort_flush"} ~> FlushOver)
    BY <1>1, <1>2, <1>5, <1>6, <1>7, <1>8, <1>9, <1>10, <1>11, <1>12, PTL
<1> QED
    BY <1>13 DEF FlushEnds, FlushOver
=============================================================================
