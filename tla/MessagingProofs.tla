-------------------------- MODULE MessagingProofs --------------------------
(***************************************************************************)
(* For any number of dispatchers, senders, connection attempts and faults: *)
(* one goroutine at a time reopens the destination, and what results is    *)
(* one dispatcher.                                                         *)
(***************************************************************************)
EXTENDS Messaging, TLAPS

USE MessagingAssumption

(***************************************************************************)
(* conn.reconnect begins with no attempt made, so the last one is the one  *)
(* that makes connection_attempts.                                         *)
(***************************************************************************)
Dialing == dials < ConnectionAttempts \/ listener = "stopped"

Inv == TypeOK /\ Dialing /\ OneDispatcher /\ OneReconnects

(***************************************************************************)
(* The invariant holds when the destination has been created.              *)
(***************************************************************************)
LEMMA InvInit == Init => Inv
<1>. SUFFICES ASSUME Init PROVE Inv
  OBVIOUS
<1>1. PICK first \in Dispatchers :
        pc = [w \in Workers |-> IF w = first THEN "select" ELSE "idle"]
  BY DEF Init
<1>2. first \in Workers /\ Running = {first} /\ Reopening = {} /\ Waiting = {}
  BY <1>1 DEF Running, Reopening, Waiting, Workers
<1>3. TypeOK
  <2>1. pc \in [Workers -> {"idle", "select"}]
    BY <1>1
  <2>2. /\ dials \in 0..ConnectionAttempts /\ faults \in 0..MaxFaults
        /\ m \in Workers \cup {NoWorker}
    BY DEF Init
  <2>3. watch \in [Workers -> Nat] /\ held \in [Workers -> Nat]
    BY DEF Init
  <2>4. kind \in {"consumer", "producer"} /\ channel \in Nat /\ barrier \in Nat
    BY DEF Init
  <2>5. connection \in BOOLEAN /\ isOpen \in BOOLEAN /\ sessClosed \in BOOLEAN
        /\ exited \in BOOLEAN /\ closed \in BOOLEAN
    BY DEF Init
  <2>. QED  BY <2>1, <2>2, <2>3, <2>4, <2>5 DEF Init, TypeOK
<1>4. Dialing
  BY DEF Init, Dialing
<1>5. OneDispatcher
  BY <1>2 DEF Init, OneDispatcher
<1>6. OneReconnects
  BY <1>2 DEF Init, OneReconnects
<1>. QED  BY <1>3, <1>4, <1>5, <1>6 DEF Inv

(***************************************************************************)
(* The broker and the closeListener touch no worker.                       *)
(***************************************************************************)
LEMMA SessionStep ==
    ASSUME Inv, ConnectionLost \/ ChannelException \/ Listener
    PROVE  Inv'
<1>1. UNCHANGED <<kind, destvars>>
  BY DEF ConnectionLost, ChannelException, Listener, CloseListener, DialSucceeds,
         DialFails, OpenChannel, OpenChannelFails, Broadcast
<1>2. /\ UNCHANGED <<closed, m, pc>>
      /\ Running' = Running /\ Reopening' = Reopening /\ Waiting' = Waiting
  BY <1>1 DEF destvars, Running, Reopening, Waiting
<1>3. OneDispatcher' /\ OneReconnects'
  BY <1>2 DEF Inv, OneDispatcher, OneReconnects
<1>4. TypeOK' /\ Dialing'
  <2>. USE <1>1 DEF Inv, TypeOK, Dialing, destvars
  <2>1. CASE ConnectionLost
    <3>1. faults' \in 0..MaxFaults
      BY <2>1 DEF ConnectionLost
    <3>2. connection' \in BOOLEAN /\ isOpen' \in BOOLEAN
      BY <2>1 DEF ConnectionLost
    <3>. QED  BY <2>1, <3>1, <3>2 DEF ConnectionLost
  <2>2. CASE ChannelException
    <3>1. faults' \in 0..MaxFaults
      BY <2>2 DEF ChannelException
    <3>2. isOpen' \in BOOLEAN
      BY <2>2 DEF ChannelException
    <3>. QED  BY <2>2, <3>1, <3>2 DEF ChannelException
  <2>3. CASE CloseListener
    BY <2>3 DEF CloseListener
  <2>4. CASE DialSucceeds
    BY <2>4 DEF DialSucceeds
  <2>5. CASE DialFails
    <3>1. dials' \in 0..ConnectionAttempts /\ Dialing'
      BY <2>5 DEF DialFails
    <3>2. sessClosed' \in BOOLEAN /\ exited' \in BOOLEAN
      BY <2>5 DEF DialFails
    <3>. QED  BY <2>5, <3>1, <3>2 DEF DialFails
  <2>6. CASE OpenChannel
    BY <2>6 DEF OpenChannel
  <2>7. CASE OpenChannelFails
    BY <2>7 DEF OpenChannelFails
  <2>8. CASE Broadcast
    BY <2>8 DEF Broadcast
  <2>. QED  BY <2>1, <2>2, <2>3, <2>4, <2>5, <2>6, <2>7, <2>8 DEF Listener
<1>. QED  BY <1>3, <1>4 DEF Inv

(***************************************************************************)
(* Type correctness of the steps of dispatchers and senders.               *)
(***************************************************************************)
LEMMA WorkerTypeOK ==
    ASSUME Inv, NEW w \in Workers, Dispatch(w) \/ Send(w) \/ Worker(w)
    PROVE  TypeOK' /\ Dialing'
<1>. USE DEF Inv, TypeOK, Dialing, sessvars
<1>1. CASE Dispatch(w)
  BY <1>1 DEF Dispatch, Goto
<1>2. CASE Send(w)
  BY <1>2 DEF Send, Goto
<1>3. CASE Loop(w)
  BY <1>3 DEF Loop, Goto, Workers
<1>4. CASE Lock(w)
  BY <1>4 DEF Lock, Goto
<1>5. CASE WaitClosed(w)
  BY <1>5 DEF WaitClosed, Goto
<1>6. CASE WaitReturns(w)
  BY <1>6 DEF WaitReturns, Goto
<1>7. CASE AcquireBarrier(w)
  BY <1>7 DEF AcquireBarrier, Goto
<1>8. CASE WakeUp(w)
  BY <1>8 DEF WakeUp, Goto
<1>9. CASE \E v \in Dispatchers : Reopen(w, v)
  BY <1>9 DEF Reopen, Workers
<1>10. CASE Publish(w)
  BY <1>10 DEF Publish, Goto
<1>. QED  BY <1>1, <1>2, <1>3, <1>4, <1>5, <1>6, <1>7, <1>8, <1>9, <1>10 DEF Worker

(***************************************************************************)
(* A worker that goes between places outside of the select and the reopen, *)
(* and keeps its standing as a waiter, moves nothing that the invariant    *)
(* counts.                                                                 *)
(***************************************************************************)
LEMMA QuietStep ==
    ASSUME Inv, NEW w \in Workers, NEW from, NEW dest, Goto(w, from, dest),
           UNCHANGED <<closed, m>>,
           from \notin {"select", "reopen"}, dest \notin {"select", "reopen"},
           from \in {"check", "acquire", "sleep"} <=> dest \in {"check", "acquire", "sleep"}
    PROVE  OneDispatcher' /\ OneReconnects'
<1>. USE DEF Inv, TypeOK, Goto
<1>1. Running' = Running /\ Reopening' = Reopening /\ Waiting' = Waiting
  BY DEF Running, Reopening, Waiting, Workers
<1>. QED  BY <1>1 DEF OneDispatcher, OneReconnects

(***************************************************************************)
(* The steps of dispatchers and senders keep the invariant.                *)
(***************************************************************************)
LEMMA WorkerStep ==
    ASSUME Inv, NEW w \in Workers,
           (w \in Dispatchers /\ Dispatch(w)) \/ Send(w) \/ Worker(w)
    PROVE  Inv'
<1>1. TypeOK' /\ Dialing'
  BY WorkerTypeOK
<1>2. OneDispatcher' /\ OneReconnects'
  <2>1. CASE w \in Dispatchers /\ Dispatch(w)
    <3>. USE <2>1 DEF Inv, TypeOK, Goto, Dispatch
    <3>1. w \in Running /\ Running' = Running \ {w}
      BY DEF Running, Workers
    <3>2. Reopening' = Reopening /\ Waiting' = Waiting /\ closed' /\ m' = m
      BY DEF Reopening, Waiting
    <3>. QED  BY <3>1, <3>2 DEF OneDispatcher, OneReconnects
  <2>2. CASE Send(w)
    BY <2>2, QuietStep DEF Send
  <2>3. CASE Loop(w)
    <3>1. PICK dest \in {"lock", "publish", "stopped"} : Goto(w, "loop", dest)
      BY <2>3 DEF Loop, Workers
    <3>. QED  BY <2>3, <3>1, QuietStep DEF Loop
  <2>4. CASE Lock(w)
    <3>1. CASE closed
      <4>. USE <2>4, <3>1 DEF Inv, TypeOK, Goto, Lock
      <4>1. Running' = Running /\ Reopening' = Reopening
        BY DEF Running, Reopening, Workers
      <4>2. Waiting' = Waiting \cup {w} /\ m = NoWorker /\ m' = w /\ closed'
        BY DEF Waiting
      <4>3. Waiting = {} /\ Reopening = {}
        BY <4>2 DEF OneReconnects, Waiting, Reopening
      <4>. QED  BY <4>1, <4>2, <4>3 DEF OneDispatcher, OneReconnects
    <3>2. CASE ~closed
      BY <2>4, <3>2, QuietStep DEF Lock
    <3>. QED  BY <3>1, <3>2
  <2>5. CASE WaitClosed(w)
    BY <2>5, QuietStep DEF WaitClosed
  <2>6. CASE WaitReturns(w)
    <3>. USE <2>6 DEF Inv, TypeOK, Goto, WaitReturns
    <3>1. w \in Waiting /\ m = w /\ closed
      BY DEF Waiting, OneReconnects
    <3>2. Waiting = {w} /\ Running = {} /\ Reopening = {}
      BY <3>1 DEF OneDispatcher, OneReconnects, Waiting, Reopening
    <3>3. Waiting' = {} /\ Running' = {} /\ Reopening' = {w} /\ ~closed' /\ m' = w
      BY <3>1, <3>2 DEF Running, Reopening, Waiting, Workers
    <3>. QED  BY <3>3 DEF OneDispatcher, OneReconnects
  <2>7. CASE AcquireBarrier(w)
    BY <2>7, QuietStep DEF AcquireBarrier
  <2>8. CASE WakeUp(w)
    BY <2>8, QuietStep DEF WakeUp
  <2>9. ASSUME NEW v \in Dispatchers, Reopen(w, v)
        PROVE  OneDispatcher' /\ OneReconnects'
    <3>. USE <2>9 DEF Inv, TypeOK, Reopen
    <3>1. w \in Reopening /\ m = w /\ v \in Workers /\ v # w
      BY DEF Reopening, OneReconnects, Workers
    <3>2. Reopening = {w} /\ Running = {} /\ ~closed /\ Waiting = {}
      BY <3>1 DEF OneDispatcher, OneReconnects
    <3>3. Reopening' = {} /\ Running' = {v} /\ ~closed' /\ Waiting' = {} /\ m' = NoWorker
      BY <3>1, <3>2 DEF Running, Reopening, Waiting, Workers
    <3>. QED  BY <3>3 DEF OneDispatcher, OneReconnects
  <2>10. CASE Publish(w)
    BY <2>10, QuietStep DEF Publish
  <2>. QED
    BY <2>1, <2>2, <2>3, <2>4, <2>5, <2>6, <2>7, <2>8, <2>9, <2>10 DEF Worker
<1>. QED  BY <1>1, <1>2 DEF Inv

LEMMA InvNext == Inv /\ [Next]_vars => Inv'
<1>. SUFFICES ASSUME Inv, [Next]_vars PROVE Inv'
  OBVIOUS
<1>1. CASE Next
  <2>1. CASE ConnectionLost \/ ChannelException \/ Listener
    BY <2>1, SessionStep
  <2>2. CASE \E w \in Dispatchers : Dispatch(w)
    BY <2>2, WorkerStep DEF Workers
  <2>3. CASE \E w \in Workers : Send(w) \/ Worker(w)
    BY <2>3, WorkerStep
  <2>. QED  BY <1>1, <2>1, <2>2, <2>3 DEF Next
<1>2. CASE UNCHANGED vars
  <2>1. Running' = Running /\ Reopening' = Reopening /\ Waiting' = Waiting
    BY <1>2 DEF vars, destvars, Running, Reopening, Waiting
  <2>. QED
    BY <1>2, <2>1 DEF vars, sessvars, destvars, Inv, TypeOK, Dialing, OneDispatcher,
                      OneReconnects
<1>. QED  BY <1>1, <1>2

(***************************************************************************)
(* Inv is an invariant of the program.                                     *)
(***************************************************************************)
THEOREM Invariant == Spec => []Inv
<1>. QED  BY InvInit, InvNext, PTL DEF Spec

(***************************************************************************)
(* Every variable stays within its type, and no more attempts are made to  *)
(* connect than connection_attempts.                                       *)
(***************************************************************************)
THEOREM TypeCorrect == Spec => []TypeOK
<1>1. Inv => TypeOK
  BY DEF Inv
<1>. QED  BY Invariant, <1>1, PTL

(***************************************************************************)
(* However many senders and old dispatchers find the destination closed,   *)
(* there is one dispatcher, or one to be started (amqp091.go:1160-1178,    *)
(* 1395-1405).                                                             *)
(***************************************************************************)
THEOREM DispatcherUnique == Spec => []OneDispatcher
<1>1. Inv => OneDispatcher
  BY DEF Inv
<1>. QED  BY Invariant, <1>1, PTL

(***************************************************************************)
(* The worker that waits for the Session or reopens the destination holds  *)
(* dst.m, and waits only while the destination is closed                   *)
(* (amqp091.go:384-399, 1163-1166, 1397-1399).                             *)
(***************************************************************************)
THEOREM ReconnectorUnique == Spec => []OneReconnects
<1>1. Inv => OneReconnects
  BY DEF Inv
<1>. QED  BY Invariant, <1>1, PTL
-----------------------------------------------------------------------------
(***************************************************************************)
(* A closeListener ends only when it has launched the next, or with the    *)
(* Session marked closed, and nobody holds a barrier that is yet to be     *)
(* made.                                                                   *)
(***************************************************************************)
ListenersLast ==
    /\ listener = "stopped" => sessClosed
    /\ \A w \in Workers : held[w] <= barrier

LEMMA ListenersLastStep ==
    ASSUME TypeOK, ListenersLast, [Next]_vars
    PROVE  ListenersLast'
<1>. USE DEF TypeOK, ListenersLast
<1>1. CASE ConnectionLost \/ ChannelException
  BY <1>1 DEF ConnectionLost, ChannelException, destvars
<1>2. CASE Listener
  <2>1. listener' = "stopped" => sessClosed'
    <3>1. CASE CloseListener
      BY <3>1 DEF CloseListener
    <3>2. CASE DialSucceeds \/ DialFails
      BY <3>2 DEF DialSucceeds, DialFails
    <3>3. CASE OpenChannel \/ OpenChannelFails \/ Broadcast
      BY <3>3 DEF OpenChannel, OpenChannelFails, Broadcast
    <3>. QED  BY <1>2, <3>1, <3>2, <3>3 DEF Listener
  <2>2. held' = held /\ (barrier' = barrier \/ barrier' = barrier + 1)
    BY <1>2 DEF Listener, CloseListener, DialSucceeds, DialFails, OpenChannel,
                OpenChannelFails, Broadcast, destvars
  <2>3. \A w \in Workers : held'[w] <= barrier'
    BY <2>2
  <2>. QED  BY <2>1, <2>3
<1>3. ASSUME NEW w \in Workers, AcquireBarrier(w) PROVE ListenersLast'
  BY <1>3 DEF AcquireBarrier, sessvars
<1>4. ASSUME UNCHANGED <<sessvars, held>> PROVE ListenersLast'
  BY <1>4 DEF sessvars
<1>5. ASSUME NEW w \in Workers, Dispatch(w) \/ Send(w) \/ Worker(w), ~AcquireBarrier(w)
      PROVE  UNCHANGED <<sessvars, held>>
  BY <1>5 DEF Dispatch, Send, Worker, Loop, Lock, WaitClosed, WaitReturns, WakeUp, Reopen,
              Publish
<1>. QED  BY <1>1, <1>2, <1>3, <1>4, <1>5 DEF Next, vars, destvars, Workers

(***************************************************************************)
(* Whoever sleeps in Wait will be woken, unless the Session is given up or *)
(* was open when the barrier was taken: no reconnection ends without its   *)
(* broadcast and a closeListener for the next (amqp091.go:305-348,         *)
(* 384-399, 405-422).                                                      *)
(***************************************************************************)
THEOREM SleepersWillWake == Spec => []SleepersAwaited
<1>1. Init => ListenersLast
  BY DEF Init, ListenersLast
<1>2. TypeOK /\ ListenersLast /\ [Next]_vars => ListenersLast'
  BY ListenersLastStep
<1>3. TypeOK /\ ListenersLast => SleepersAwaited
  BY DEF TypeOK, ListenersLast, SleepersAwaited, Oversleeps
<1>. QED  BY <1>1, <1>2, <1>3, TypeCorrect, PTL DEF Spec
-----------------------------------------------------------------------------
(***************************************************************************)
(* A channel is opened only when the last one has closed, and a Session    *)
(* that is marked closed has no channel and nobody to open one.            *)
(***************************************************************************)
SessionAgrees ==
    /\ listener \in {"dial", "channel"} => ~isOpen
    /\ sessClosed => ~isOpen /\ listener = "stopped"

LEMMA SessionAgreesStep ==
    ASSUME TypeOK, SessionAgrees, [Next]_vars
    PROVE  SessionAgrees'
<1>. USE DEF SessionAgrees
<1>1. CASE ConnectionLost \/ ChannelException
  BY <1>1 DEF ConnectionLost, ChannelException
<1>2. CASE Listener
  <2>1. CASE CloseListener
    BY <2>1 DEF CloseListener
  <2>2. CASE DialSucceeds \/ DialFails
    BY <2>2 DEF DialSucceeds, DialFails
  <2>3. CASE OpenChannel \/ OpenChannelFails \/ Broadcast
    BY <2>3 DEF OpenChannel, OpenChannelFails, Broadcast
  <2>. QED  BY <1>2, <2>1, <2>2, <2>3 DEF Listener
<1>3. CASE UNCHANGED sessvars
  BY <1>3 DEF sessvars
<1>4. ASSUME NEW w \in Workers, Dispatch(w) \/ Send(w) \/ Worker(w)
      PROVE  UNCHANGED sessvars
  BY <1>4 DEF Dispatch, Send, Worker, Loop, Lock, WaitClosed, WaitReturns, AcquireBarrier,
              WakeUp, Reopen, Publish
<1>. QED  BY <1>1, <1>2, <1>3, <1>4 DEF Next, vars, Workers

(***************************************************************************)
(* The channels that dispatchers listen on: one at most.                   *)
(***************************************************************************)
Served == {watch[w] : w \in Running}

LEMMA ServedOne ==
    ASSUME OneDispatcher, NEW w \in Running
    PROVE  Served = {watch[w]} /\ Reopening = {}
BY DEF OneDispatcher, Served

(***************************************************************************)
(* The broker and the closeListener are the Session of Destination.        *)
(***************************************************************************)
LEMMA SessionRefines ==
    ASSUME Inv, SessionAgrees, ConnectionLost \/ ChannelException \/ Listener
    PROVE  [Promise!Next]_(Promise!vars)
<1>. USE DEF Inv, TypeOK, SessionAgrees
<1>1. UNCHANGED <<Served, (Reopening # {})>>
  <2>1. UNCHANGED destvars
    BY DEF ConnectionLost, ChannelException, Listener, CloseListener, DialSucceeds,
           DialFails, OpenChannel, OpenChannelFails, Broadcast
  <2>. QED  BY <2>1 DEF destvars, Served, Running, Reopening
<1>2. CASE ConnectionLost \/ ChannelException
  <2>1. ~isOpen' /\ UNCHANGED <<channel, sessClosed>>
    BY <1>2 DEF ConnectionLost, ChannelException
  <2>2. CASE isOpen
    <3>1. session = "up" /\ session' = "down"
      BY <2>1, <2>2 DEF session
    <3>. QED  BY <1>1, <2>1, <3>1 DEF Promise!Next, Promise!Lose, Served
  <2>3. CASE ~isOpen
    <3>1. session' = session
      BY <2>1, <2>3 DEF session
    <3>. QED  BY <1>1, <2>1, <3>1 DEF Promise!vars, Served
  <2>. QED  BY <2>2, <2>3
<1>3. CASE OpenChannel
  <2>1. session = "down" /\ session' = "up" /\ channel' = channel + 1
    BY <1>3 DEF OpenChannel, session
  <2>. QED  BY <1>1, <2>1 DEF Promise!Next, Promise!Recover, Served
<1>4. ASSUME sessClosed' # sessClosed, DialFails \/ OpenChannelFails
      PROVE  Promise!Next
  <2>1. session = "down" /\ session' = "gone" /\ channel' = channel
    BY <1>4 DEF DialFails, OpenChannelFails, session
  <2>. QED  BY <1>1, <2>1 DEF Promise!Next, Promise!GiveUp, Served
<1>5. ASSUME \/ CloseListener \/ DialSucceeds \/ Broadcast
             \/ sessClosed' = sessClosed /\ (DialFails \/ OpenChannelFails)
      PROVE  UNCHANGED Promise!vars
  <2>1. UNCHANGED <<isOpen, sessClosed, channel>>
    BY <1>5 DEF CloseListener, DialSucceeds, Broadcast, DialFails, OpenChannelFails
  <2>. QED  BY <1>1, <2>1 DEF Promise!vars, Served, session
<1>. QED  BY <1>2, <1>3, <1>4, <1>5 DEF Listener

(***************************************************************************)
(* A worker whose step leaves the dispatchers, and who reopens, alone is   *)
(* invisible.                                                              *)
(***************************************************************************)
LEMMA QuietRefines ==
    ASSUME Inv, NEW w \in Workers, NEW from, NEW dest, Goto(w, from, dest),
           UNCHANGED <<sessvars, watch>>,
           from \notin {"select", "reopen"}, dest \notin {"select", "reopen"}
    PROVE  UNCHANGED Promise!vars
<1>1. Running' = Running /\ Reopening' = Reopening
  BY DEF Inv, TypeOK, Goto, Running, Reopening, Workers
<1>. QED  BY <1>1 DEF Promise!vars, sessvars, session

(***************************************************************************)
(* The dispatcher, the lock and Wait make the rest of Destination.         *)
(***************************************************************************)
LEMMA WorkerRefines ==
    ASSUME Inv, NEW w \in Workers,
           (w \in Dispatchers /\ Dispatch(w)) \/ Send(w) \/ Worker(w)
    PROVE  [Promise!Next]_(Promise!vars)
<1>s. UNCHANGED sessvars => UNCHANGED <<session, channel>>
  BY DEF sessvars, session
<1>1. CASE w \in Dispatchers /\ Dispatch(w)
  <2>1. w \in Running /\ Running' = Running \ {w} /\ Reopening' = Reopening
    BY <1>1 DEF Dispatch, Goto, Running, Reopening, Inv, TypeOK, Workers
  <2>2. Served = {watch[w]} /\ Running' = {} /\ Served' = {}
    BY <2>1, ServedOne DEF Inv, OneDispatcher, Served
  <2>3. session # "up" \/ watch[w] # channel
    BY <1>1 DEF Dispatch, session
  <2>. QED  BY <1>1, <1>s, <2>1, <2>2, <2>3
            DEF Dispatch, Promise!Next, Promise!Close, Served
<1>2. CASE WaitReturns(w)
  <2>1. w \in Waiting /\ closed
    BY <1>2 DEF WaitReturns, Goto, Waiting, Inv, OneReconnects
  <2>2. Running = {} /\ Reopening = {} /\ m = w
    BY <2>1 DEF Inv, OneDispatcher, OneReconnects
  <2>3. Running' = {} /\ w \in Reopening'
    BY <1>2, <2>2 DEF WaitReturns, Goto, Running, Reopening, Inv, TypeOK, Workers
  <2>4. session # "down"
    BY <1>2 DEF WaitReturns, session
  <2>. QED  BY <1>2, <1>s, <2>2, <2>3, <2>4
            DEF WaitReturns, Promise!Next, Promise!Reopen
<1>3. ASSUME NEW v \in Dispatchers, Reopen(w, v) PROVE Promise!Next
  <2>1. w \in Reopening /\ v \in Workers /\ v # w
    BY <1>3 DEF Reopen, Reopening, Workers
  <2>2. Reopening = {w} /\ Running = {}
    BY <2>1 DEF Inv, OneDispatcher
  <2>3. Reopening' = {} /\ Running' = {v} /\ watch'[v] = channel
    <3>. USE DEF Inv, TypeOK, Reopen
    <3>1. pc' = [pc EXCEPT ![w] = "loop", ![v] = "select"] /\ watch'[v] = channel
      BY <1>3, <2>1
    <3>2. Reopening' = {}
      BY <2>1, <2>2, <3>1 DEF Reopening
    <3>3. Running' = {v}
      BY <1>3, <2>1, <2>2, <3>1 DEF Running, Workers
    <3>. QED  BY <3>1, <3>2, <3>3
  <2>4. Served' = {channel}
    BY <2>3 DEF Served
  <2>. QED  BY <1>3, <1>s, <2>1, <2>3, <2>4
            DEF Reopen, Promise!Next, Promise!Serve, Served
<1>4. CASE Send(w)
  BY <1>4, QuietRefines DEF Send
<1>5. CASE Loop(w)
  <2>1. PICK dest \in {"lock", "publish", "stopped"} : Goto(w, "loop", dest)
    BY <1>5 DEF Loop, Workers
  <2>. QED  BY <1>5, <2>1, QuietRefines DEF Loop
<1>6. CASE Lock(w)
  <2>1. PICK dest \in {"check", "loop"} : Goto(w, "lock", dest)
    BY <1>6 DEF Lock
  <2>. QED  BY <1>6, <2>1, QuietRefines DEF Lock
<1>7. CASE WaitClosed(w)
  BY <1>7, QuietRefines DEF WaitClosed
<1>8. CASE AcquireBarrier(w)
  BY <1>8, QuietRefines DEF AcquireBarrier
<1>9. CASE WakeUp(w)
  BY <1>9, QuietRefines DEF WakeUp
<1>10. CASE Publish(w)
  BY <1>10, QuietRefines DEF Publish
<1>. QED
  BY <1>1, <1>2, <1>3, <1>4, <1>5, <1>6, <1>7, <1>8, <1>9, <1>10 DEF Worker

(***************************************************************************)
(* However many senders and old dispatchers race for a destination that    *)
(* has closed, and however often connections are lost meanwhile, what its  *)
(* owner sees is Destination (amqp091.go:305-348, 384-399, 405-422,        *)
(* 1160-1178, 1395-1405).                                                  *)
(***************************************************************************)
THEOREM DestinationImplemented == Spec => ImplementsDestination
<1>1. Init => Promise!Init /\ SessionAgrees
  <2>. SUFFICES ASSUME Init PROVE Promise!Init /\ SessionAgrees
    OBVIOUS
  <2>1. PICK first \in Dispatchers :
          pc = [w \in Workers |-> IF w = first THEN "select" ELSE "idle"]
    BY DEF Init
  <2>2. Running = {first} /\ Reopening = {} /\ watch[first] = 0
    BY <2>1 DEF Init, Running, Reopening, Workers
  <2>. QED  BY <2>2 DEF Init, Promise!Init, SessionAgrees, session
<1>2. Inv /\ SessionAgrees /\ [Next]_vars => SessionAgrees'
  BY SessionAgreesStep DEF Inv
<1>3. Inv /\ SessionAgrees /\ [Next]_vars => [Promise!Next]_(Promise!vars)
  <2>. SUFFICES ASSUME Inv, SessionAgrees, [Next]_vars
                PROVE  [Promise!Next]_(Promise!vars)
    OBVIOUS
  <2>1. CASE ConnectionLost \/ ChannelException \/ Listener
    BY <2>1, SessionRefines
  <2>2. ASSUME NEW w \in Workers,
               (w \in Dispatchers /\ Dispatch(w)) \/ Send(w) \/ Worker(w)
        PROVE  [Promise!Next]_(Promise!vars)
    BY <2>2, WorkerRefines
  <2>3. CASE UNCHANGED vars
    BY <2>3 DEF vars, sessvars, destvars, Promise!vars, session, Running, Reopening
  <2>. QED  BY <2>1, <2>2, <2>3 DEF Next, Workers
<1>. QED  BY <1>1, <1>2, <1>3, Invariant, PTL DEF Spec, ImplementsDestination, Promise!Spec
=============================================================================
