------------------------ MODULE SocketFuturesProofs ------------------------
(***************************************************************************)
(* No future of socket.rs but disconnect loses a wake-up, for any buffer   *)
(* sizes, with or without a timeout on the socket.                         *)
(*                                                                         *)
(* NoLostWake is not inductive: it does not say why a task that waits will *)
(* be woken later. The strengthening says it: its waker is in the slot its *)
(* future chose, and what it waits for has not happened.                   *)
(***************************************************************************)
EXTENDS SocketFutures, TLAPS

Registered ==
    \A f \in (awaited \ todo) \ {"disconnect"} :
        woken \/ (Slot(f) \in wakers /\ ~Ready(f))

NotListening == "connect" \in awaited => sock.state # "Listen" /\ ~sock.listening

-----------------------------------------------------------------------------
(***************************************************************************)
(* Type correctness.                                                       *)
(***************************************************************************)
LEMMA FreshType == Fresh \in Sockets
BY CapAssumption DEF Fresh, Sockets, States

\* The network's steps keep the socket's type.
LEMMA NetworkType == SocketTypeOK /\ NetworkStep => SocketTypeOK'
<1> SUFFICES ASSUME SocketTypeOK, NetworkStep PROVE SocketTypeOK'
    OBVIOUS
<1> USE CapAssumption DEF SocketTypeOK, Becomes, SetState, Wake, Sockets, States
<1>1. CASE SynArrives
    BY <1>1 DEF SynArrives
<1>2. CASE SynSentAnswered
    BY <1>2 DEF SynSentAnswered
<1>3. CASE SynAcked
    BY <1>3 DEF SynAcked
<1>4. CASE DataArrives
    BY <1>4 DEF DataArrives
<1>5. CASE FinArrives
    BY <1>5 DEF FinArrives
<1>6. CASE DataAcked
    BY <1>6 DEF DataAcked
<1>7. CASE FinAcked
    BY <1>7 DEF FinAcked
<1>8. CASE RstArrives
    BY <1>8 DEF RstArrives
<1>9. CASE TimedOut
    BY <1>9 DEF TimedOut
<1>10. CASE RstSent
    BY <1>10 DEF RstSent
<1>11. CASE TimeWaitOver
    BY <1>11, FreshType DEF TimeWaitOver
<1> QED
    BY <1>1, <1>2, <1>3, <1>4, <1>5, <1>6, <1>7, <1>8, <1>9, <1>10, <1>11
    DEF NetworkStep

\* The inductive step of type correctness.
LEMMA TypeNext == TypeOK /\ [Next]_vars => TypeOK'
<1> SUFFICES ASSUME TypeOK, [Next]_vars PROVE TypeOK'
    OBVIOUS
<1> USE DEF TypeOK, Await
<1>1. ASSUME Becomes([sock EXCEPT !.state = "Closed"]) PROVE SocketTypeOK'
    BY <1>1 DEF SocketTypeOK, Becomes, Wake, Sockets, States
<1>2. ASSUME Close PROVE SocketTypeOK'
    BY <1>2 DEF Close, SocketTypeOK, SetState, Becomes, Wake, Sockets, States
<1>3. CASE CallFuture
    BY <1>3 DEF CallFuture, SocketTypeOK
<1>4. CASE CallConnect
    <2>1. SocketTypeOK'
        BY <1>4, FreshType
        DEF CallConnect, Connect, SocketTypeOK, Becomes, Wake, Sockets, States
    <2> QED
        BY <1>4, <2>1 DEF CallConnect, Futures
<1>5. CASE CallAccept
    <2>1. SocketTypeOK'
        BY <1>5, FreshType
        DEF CallAccept, Listen, SocketTypeOK, Becomes, Wake, Sockets, States
    <2> QED
        BY <1>5, <2>1 DEF CallAccept, Futures
<1>6. CASE CallDisconnect
    BY <1>6, <1>2 DEF CallDisconnect, Futures
<1>7. CASE CallShutdown
    BY <1>7, <1>2 DEF CallShutdown, Futures
<1>8. CASE CallAbort
    BY <1>8, <1>1 DEF CallAbort, Abort, SetState
<1>9. ASSUME NEW f \in Futures, PollReady(f) PROVE TypeOK'
    <2>1. sock' \in Sockets
        BY <1>9, CapAssumption DEF PollReady, Effect, SocketTypeOK, Sockets
    <2> QED
        BY <1>9, <2>1 DEF PollReady, SocketTypeOK
<1>10. ASSUME NEW f \in Futures, PollPending(f) PROVE TypeOK'
    BY <1>10 DEF PollPending, SocketTypeOK, Slot
<1>11. CASE DisconnectOpen
    BY <1>11 DEF DisconnectOpen, SocketTypeOK
<1>12. CASE DisconnectRegister
    BY <1>12 DEF DisconnectRegister, SocketTypeOK, Slot
<1>13. CASE Cancel
    BY <1>13 DEF Cancel, SocketTypeOK
<1>14. CASE Sleep
    BY <1>14 DEF Sleep, SocketTypeOK
<1>15. CASE Resume
    BY <1>15 DEF Resume, SocketTypeOK
<1>16. CASE TimerWakes
    BY <1>16 DEF TimerWakes, SocketTypeOK
<1>17. CASE Network
    BY <1>17, NetworkType DEF Network
<1>18. CASE UNCHANGED vars
    BY <1>18 DEF vars, SocketTypeOK
<1> QED
    BY <1>3, <1>4, <1>5, <1>6, <1>7, <1>8, <1>9, <1>10, <1>11, <1>12, <1>13, <1>14,
       <1>15, <1>16, <1>17, <1>18
    DEF Next, Call, Poll

\* Every reachable state is well typed; in particular neither buffer of the
\* socket ever overflows.
THEOREM TypeCorrect == Spec => []TypeOK
<1>1. Init => TypeOK
    BY FreshType DEF Init, SocketInit, TypeOK, SocketTypeOK
<1> QED
    BY <1>1, TypeNext, PTL DEF Spec

-----------------------------------------------------------------------------
(***************************************************************************)
(* Wake-ups.                                                               *)
(***************************************************************************)

\* What the network does to the socket either wakes the task or leaves its
\* waker where it is and its future as it was.
LEMMA NetworkWakes ==
    ASSUME SocketTypeOK, NetworkStep, NEW f \in Futures \ {"disconnect"},
           woken \/ (Slot(f) \in wakers /\ ~Ready(f))
    PROVE  woken' \/ (Slot(f) \in wakers' /\ ~Ready(f)')
<1>1. Slot(f) \in {"recv", "send"}
    BY DEF Slot
<1>2. CASE woken
    BY <1>2
    DEF NetworkStep, SynArrives, SynSentAnswered, SynAcked, DataArrives, FinArrives,
        DataAcked, FinAcked, RstArrives, TimedOut, RstSent, TimeWaitOver, Becomes,
        SetState, Wake
<1>3. CASE \E s \in Sockets : Becomes(s)
    BY <1>1, <1>2, <1>3 DEF Becomes, Wake
<1>4. CASE DataArrives
    <2>1. CASE Slot(f) = "recv"
        BY <1>2, <1>4, <2>1 DEF DataArrives, Wake
    <2>2. CASE Slot(f) = "send"
        <3>1. Slot(f) \in wakers => Slot(f) \in wakers'
            BY <1>4, <2>2 DEF DataArrives, Wake
        <3>2. ~Ready(f) => ~Ready(f)'
            BY <1>4, <2>2
            DEF DataArrives, SocketTypeOK, Sockets, Slot, Ready, Futures, CanRecv,
                MayRecv, CanSend, MaySend, DataPending, FinPending, RstPending, IsOpen
        <3> QED
            BY <1>2, <3>1, <3>2
    <2> QED
        BY <1>1, <2>1, <2>2
<1>5. CASE DataAcked \/ RstSent
    <2>1. CASE Slot(f) = "send"
        BY <1>2, <1>5, <2>1 DEF DataAcked, RstSent, Wake
    <2>2. CASE Slot(f) = "recv"
        <3>1. Slot(f) \in wakers => Slot(f) \in wakers'
            BY <1>5, <2>2 DEF DataAcked, RstSent, Wake
        <3>2. ~Ready(f) => ~Ready(f)'
            BY <1>5, <2>2
            DEF DataAcked, RstSent, SocketTypeOK, Sockets, Slot, Ready, Futures,
                CanRecv, MayRecv
        <3> QED
            BY <1>2, <3>1, <3>2
    <2> QED
        BY <1>1, <2>1, <2>2
<1>6. (\E s \in Sockets : Becomes(s)) \/ DataArrives \/ DataAcked \/ RstSent
    <2>1. SocketTypeOK'
        BY NetworkType
    <2>2. sock' \in Sockets
        BY <2>1 DEF SocketTypeOK
    <2> QED
        BY <2>2
        DEF NetworkStep, SynArrives, SynSentAnswered, SynAcked, FinArrives, FinAcked,
            RstArrives, TimedOut, TimeWaitOver, Becomes, SetState
<1> QED
    BY <1>3, <1>4, <1>5, <1>6

\* A read or a write does not make another future Ready.
LEMMA EffectKeeps ==
    ASSUME SocketTypeOK, NEW f \in Futures, NEW g \in Futures \ {"disconnect"},
           Effect(f), ~Ready(g)
    PROVE  ~Ready(g)'
<1>1. CASE UNCHANGED sock
    BY <1>1
    DEF Ready, Futures, CanRecv, MayRecv, CanSend, MaySend, DataPending, FinPending,
        RstPending, IsOpen
<1>2. CASE CanRecv /\ \E n \in 0..(sock.rx - 1) : sock' = [sock EXCEPT !.rx = n]
    BY <1>2
    DEF SocketTypeOK, Sockets, Ready, Futures, CanRecv, MayRecv, CanSend, MaySend,
        DataPending, FinPending, RstPending, IsOpen
<1>3. CASE CanSend /\ \E n \in (sock.tx + 1)..TxCap : sock' = [sock EXCEPT !.tx = n]
    <2>1. PICK n \in (sock.tx + 1)..TxCap : sock' = [sock EXCEPT !.tx = n]
        BY <1>3
    <2>2. /\ sock'.state = sock.state /\ sock'.rx = sock.rx /\ sock'.tuple = sock.tuple
          /\ sock'.tx = n /\ n > 0
        BY <2>1, CapAssumption DEF SocketTypeOK, Sockets
    <2>3. CASE g \in {"poll_write_ready", "write", "write_with"}
        BY <1>3, <2>3 DEF Ready
    <2>4. CASE g = "flush"
        BY <1>3, <2>2, <2>4
        DEF Ready, CanSend, MaySend, DataPending
    <2>5. CASE g \in {"poll_read_ready", "read", "read_with", "connect", "accept"}
        BY <2>2, <2>5 DEF Ready, CanRecv, MayRecv
    <2>6. CASE g \in {"read_empty", "write_empty"}
        BY <2>2, <2>6 DEF Ready, MaySend
    <2> QED
        BY <2>3, <2>4, <2>5, <2>6 DEF Futures
<1> QED
    BY <1>1, <1>2, <1>3 DEF Effect

\* The inductive step: a pending future stays registered or the task is woken.
LEMMA RegisteredNext == TypeOK /\ Registered /\ [Next]_vars => Registered'
<1> SUFFICES ASSUME TypeOK, Registered, [Next]_vars,
                    NEW g \in ((awaited \ todo) \ {"disconnect"})'
             PROVE  (woken \/ (Slot(g) \in wakers /\ ~Ready(g)))'
    BY DEF Registered
<1>0. g \in awaited' /\ g \notin todo' /\ g # "disconnect" /\ g \in Futures
    BY TypeNext DEF TypeOK
<1>r. UNCHANGED sock => (Ready(g)' <=> Ready(g)) /\ Slot(g)' = Slot(g)
    BY DEF Ready, Slot, CanRecv, MayRecv, CanSend, MaySend, DataPending, FinPending,
           RstPending, IsOpen
<1>k. ASSUME awaited' = awaited, todo' = todo, UNCHANGED << sock, wakers, woken >>
      PROVE  (woken \/ (Slot(g) \in wakers /\ ~Ready(g)))'
    BY <1>0, <1>r, <1>k DEF Registered
<1>1. CASE CallFuture \/ CallConnect \/ CallAccept \/ CallDisconnect \/ CallShutdown
    BY <1>0, <1>1
    DEF CallFuture, CallConnect, CallAccept, CallDisconnect, CallShutdown, Await
<1>2. CASE CallAbort \/ Cancel
    BY <1>0, <1>2 DEF CallAbort, Cancel, Free, Await
<1>3. ASSUME NEW f \in Futures, PollReady(f)
      PROVE  (woken \/ (Slot(g) \in wakers /\ ~Ready(g)))'
    <2>1. (g \in awaited /\ g \notin todo) \/ g = f
        BY <1>0, <1>3 DEF PollReady, Await
    <2>2. g # f
        BY <1>0, <1>3 DEF PollReady, Await
    <2>3. woken \/ (Slot(g) \in wakers /\ ~Ready(g))
        BY <1>0, <2>1, <2>2 DEF Registered
    <2>4. ~Ready(g) => ~Ready(g)'
        BY <1>0, <1>3, EffectKeeps DEF PollReady, TypeOK
    <2> QED
        BY <1>3, <2>3, <2>4 DEF PollReady, Slot
<1>4. ASSUME NEW f \in Futures, PollPending(f)
      PROVE  (woken \/ (Slot(g) \in wakers /\ ~Ready(g)))'
    <2>1. CASE g = f
        BY <1>4, <1>r, <2>1 DEF PollPending, Slot
    <2>2. CASE g # f
        BY <1>0, <1>4, <1>r, <2>2 DEF PollPending, Registered, Slot
    <2> QED
        BY <2>1, <2>2
<1>5. CASE DisconnectOpen
    BY <1>5, <1>k DEF DisconnectOpen
<1>6. CASE DisconnectRegister
    BY <1>0, <1>6, <1>r DEF DisconnectRegister, Registered, Slot
<1>7. CASE Sleep
    BY <1>7, <1>k DEF Sleep
<1>8. CASE Resume
    BY <1>0, <1>8 DEF Resume
<1>9. CASE TimerWakes
    BY <1>9 DEF TimerWakes
<1>10. CASE Network
    <2>1. woken \/ (Slot(g) \in wakers /\ ~Ready(g))
        BY <1>0, <1>10 DEF Network, Registered
    <2> QED
        BY <1>0, <1>10, <2>1, NetworkWakes DEF Network, TypeOK, Slot
<1>11. CASE UNCHANGED vars
    BY <1>11, <1>k DEF vars
<1> QED
    BY <1>1, <1>2, <1>3, <1>4, <1>5, <1>6, <1>7, <1>8, <1>9, <1>10, <1>11
    DEF Next, Call, Poll

\* Every future of socket.rs but disconnect is woken when it becomes Ready,
\* whatever the poller does between two locks of a poll and however futures
\* are combined, dropped and called again.
THEOREM WakeupsNotLost == Spec => []NoLostWake
<1>1. Init => Registered
    BY DEF Init, Registered
<1>2. Registered => NoLostWake
    BY DEF Registered, NoLostWake
<1> QED
    BY <1>1, <1>2, RegisteredNext, TypeCorrect, PTL DEF Spec

-----------------------------------------------------------------------------
(***************************************************************************)
(* The unreachable!() in connect.                                          *)
(***************************************************************************)
LEMMA NotListeningNext == TypeOK /\ NotListening /\ [Next]_vars => NotListening'
<1> SUFFICES ASSUME TypeOK, NotListening, [Next]_vars, "connect" \in awaited'
             PROVE  sock'.state # "Listen" /\ ~sock'.listening
    BY DEF NotListening
<1>1. CASE CallConnect
    BY <1>1 DEF CallConnect, Connect, Becomes, Fresh
<1>2. CASE CallFuture \/ CallAccept \/ CallDisconnect \/ CallShutdown \/ CallAbort
    BY <1>2
    DEF CallFuture, CallAccept, CallDisconnect, CallShutdown, CallAbort, Await, Free,
        Futures
<1>3. ASSUME NEW f \in Futures, PollReady(f)
      PROVE  sock'.state # "Listen" /\ ~sock'.listening
    BY <1>3 DEF PollReady, Await, Effect, NotListening, TypeOK, SocketTypeOK, Sockets
<1>4. ASSUME awaited' = awaited \/ awaited' = {}, UNCHANGED sock
      PROVE  sock'.state # "Listen" /\ ~sock'.listening
    BY <1>4 DEF NotListening
<1>5. CASE Network
    <2>1. sock.state # "Listen" /\ ~sock.listening
        BY <1>5 DEF Network, NotListening
    <2>2. CASE SynArrives \/ SynSentAnswered \/ SynAcked
        BY <2>1, <2>2
        DEF SynArrives, SynSentAnswered, SynAcked, Becomes, SetState, TypeOK,
            SocketTypeOK, Sockets
    <2>3. CASE DataArrives \/ DataAcked \/ RstSent
        BY <2>1, <2>3 DEF DataArrives, DataAcked, RstSent, TypeOK, SocketTypeOK, Sockets
    <2>4. CASE FinArrives
        BY <2>1, <2>4 DEF FinArrives, Becomes, TypeOK, SocketTypeOK, Sockets
    <2>5. CASE FinAcked \/ TimedOut
        BY <2>1, <2>5
        DEF FinAcked, TimedOut, Becomes, SetState, TypeOK, SocketTypeOK, Sockets
    <2>6. CASE RstArrives
        BY <2>1, <2>6 DEF RstArrives, Becomes, TypeOK, SocketTypeOK, Sockets
    <2>7. CASE TimeWaitOver
        BY <2>7 DEF TimeWaitOver, Becomes, Fresh
    <2> QED
        BY <1>5, <2>2, <2>3, <2>4, <2>5, <2>6, <2>7 DEF Network, NetworkStep
<1> QED
    BY <1>1, <1>2, <1>3, <1>4, <1>5
    DEF Next, Call, Poll, PollPending, DisconnectOpen, DisconnectRegister, Cancel,
        Sleep, Resume, TimerWakes, Await, vars

\* The unreachable!() of connect is unreachable, also when the peer's SYN
\* crosses ours and is followed by a RST.
THEOREM UnreachableIsUnreachable == Spec => []ConnectNeverListens
<1>1. Init => NotListening
    BY DEF Init, NotListening
<1>2. NotListening => ConnectNeverListens
    BY DEF NotListening, ConnectNeverListens
<1> QED
    BY <1>1, <1>2, NotListeningNext, TypeCorrect, PTL DEF Spec

=============================================================================
