----------------------------- MODULE Messaging -----------------------------
(***************************************************************************)
(* Transparent reconnection (pkg/messaging/amqp091.go): a Connection and   *)
(* its Session, the closeListener goroutine that opens both again, and one *)
(* Consumer or Producer of the Session, with the dispatcher goroutine that *)
(* notices that the AMQP channel has closed and the goroutines that wait   *)
(* for the Session and open the destination again.  Pools have one         *)
(* connection and one channel, as the daemon and the Lambda Server use     *)
(* them.                                                                   *)
(*                                                                         *)
(* AMQP channels are numbered.  So are barriers, the Go channels that wake *)
(* waiters: those below the current one have been closed.                  *)
(***************************************************************************)
EXTENDS Naturals, FiniteSets

CONSTANTS
    Dispatchers,         \* dispatcher goroutines, to be started one by one
    Senders,             \* goroutines that call Producer.Send
    NoWorker,            \* neither
    ConnectionAttempts,  \* connection_attempts of the URI
    MaxFaults            \* bound: how often the broker closes something

Workers == Dispatchers \cup Senders

ASSUME MessagingAssumption ==
    /\ Dispatchers \cap Senders = {}
    /\ NoWorker \notin Workers
    /\ ConnectionAttempts \in Nat \ {0}
    /\ MaxFaults \in Nat
    /\ \E w \in Dispatchers : TRUE

VARIABLES
    kind,        \* whether the destination is a Consumer or a Producer
    connection,  \* whether connections[0] is open
    dials,       \* attempts of the present conn.reconnect that have failed
    channel,     \* number of channels[0]
    isOpen,      \* whether channels[0] is open: ~sess.IsClosed()
    sessClosed,  \* sess.closed
    barrier,     \* number of the barrier in the barrier store
    listener,    \* where closeListener is
    exited,      \* conn.err was sent to the closeListeners: the program exits
    closed,      \* dst.closed
    m,           \* the worker that holds dst.m
    pc,          \* pc[w]: where worker w is
    watch,       \* watch[w]: the channel whose close dispatcher w listens for
    held,        \* held[w]: the barrier w has acquired
    faults       \* how many faults there have been

sessvars == <<connection, dials, channel, isOpen, sessClosed, barrier, listener, exited>>
destvars == <<closed, m, pc, watch, held>>
vars     == <<kind, sessvars, destvars, faults>>

TypeOK ==
    /\ kind \in {"consumer", "producer"}
    /\ connection \in BOOLEAN
    /\ dials \in 0..ConnectionAttempts
    /\ channel \in Nat
    /\ isOpen \in BOOLEAN
    /\ sessClosed \in BOOLEAN
    /\ barrier \in Nat
    /\ listener \in {"listen", "dial", "channel", "broadcast", "stopped"}
    /\ exited \in BOOLEAN
    /\ closed \in BOOLEAN
    /\ m \in Workers \cup {NoWorker}
    /\ pc \in [Workers -> {"idle", "select", "loop", "lock", "check", "acquire", "sleep",
                           "reopen", "publish", "stopped"}]
    /\ watch \in [Workers -> Nat]
    /\ held \in [Workers -> Nat]
    /\ faults \in 0..MaxFaults

\* The destination has been created and its first dispatcher runs.
Init ==
    /\ kind \in {"consumer", "producer"}
    /\ connection = TRUE
    /\ dials = 0
    /\ channel = 0
    /\ isOpen = TRUE
    /\ sessClosed = FALSE
    /\ barrier = 0
    /\ listener = "listen"
    /\ exited = FALSE
    /\ closed = FALSE
    /\ m = NoWorker
    /\ \E first \in Dispatchers :
          pc = [w \in Workers |-> IF w = first THEN "select" ELSE "idle"]
    /\ watch = [w \in Workers |-> 0]
    /\ held = [w \in Workers |-> 0]
    /\ faults = 0
-----------------------------------------------------------------------------
(***************************************************************************)
(* The broker closes connections and channels.                             *)
(***************************************************************************)

ConnectionLost ==
    /\ faults < MaxFaults
    /\ connection
    /\ connection' = FALSE
    /\ isOpen' = FALSE
    /\ faults' = faults + 1
    /\ UNCHANGED <<kind, dials, channel, sessClosed, barrier, listener, exited, destvars>>

ChannelException ==
    /\ faults < MaxFaults
    /\ isOpen
    /\ isOpen' = FALSE
    /\ faults' = faults + 1
    /\ UNCHANGED <<kind, connection, dials, channel, sessClosed, barrier, listener,
                   exited, destvars>>
-----------------------------------------------------------------------------
(***************************************************************************)
(* closeListener and the two reconnect methods it calls.                   *)
(***************************************************************************)

\* The channel has closed: sess.reconnect, unless the Session is closed.
CloseListener ==
    /\ listener = "listen"
    /\ ~isOpen
    /\ listener' = CASE sessClosed                -> "stopped"
                     [] ~sessClosed /\ connection  -> "channel"
                     [] ~sessClosed /\ ~connection -> "dial"
    /\ UNCHANGED <<kind, connection, dials, channel, isOpen, sessClosed, barrier, exited,
                   destvars, faults>>

\* conn.reconnect: DialConfig succeeds.
DialSucceeds ==
    /\ listener = "dial"
    /\ connection' = TRUE
    /\ dials' = 0
    /\ listener' = "channel"
    /\ UNCHANGED <<kind, channel, isOpen, sessClosed, barrier, exited, destvars, faults>>

\* Mutant of DialFails: one attempt too many.
DialFailsOnceMore ==
    /\ listener = "dial"
    /\ dials' = dials + 1
    /\ \/ /\ dials < ConnectionAttempts
          /\ UNCHANGED <<sessClosed, listener, exited>>
       \/ /\ dials = ConnectionAttempts
          /\ exited' = TRUE
          /\ sessClosed' = TRUE
          /\ listener' = "stopped"
    /\ UNCHANGED <<kind, connection, channel, isOpen, barrier, destvars, faults>>

\* DialConfig fails.  After the last attempt the listeners of CloseNotify are
\* told, and the programs exit.
DialFails ==
    /\ listener = "dial"
    /\ dials' = dials + 1
    /\ \/ /\ dials + 1 < ConnectionAttempts
          /\ UNCHANGED <<sessClosed, listener, exited>>
       \/ /\ dials + 1 = ConnectionAttempts
          /\ exited' = TRUE
          /\ sessClosed' = TRUE
          /\ listener' = "stopped"
    /\ UNCHANGED <<kind, connection, channel, isOpen, barrier, destvars, faults>>

\* connections[0].Channel() opens a channel.
OpenChannel ==
    /\ listener = "channel"
    /\ connection
    /\ channel' = channel + 1
    /\ isOpen' = TRUE
    /\ listener' = "broadcast"
    /\ UNCHANGED <<kind, connection, dials, sessClosed, barrier, exited, destvars, faults>>

\* It fails: the connection has been lost again.
OpenChannelFails ==
    /\ listener = "channel"
    /\ ~connection
    /\ sessClosed' = TRUE
    /\ listener' = "stopped"
    /\ UNCHANGED <<kind, connection, dials, channel, isOpen, barrier, exited, destvars,
                   faults>>

\* Mutant of Broadcast: closeListener is not launched again.
BroadcastOnce ==
    /\ listener = "broadcast"
    /\ barrier' = barrier + 1
    /\ listener' = "stopped"
    /\ UNCHANGED <<kind, connection, dials, channel, isOpen, sessClosed, exited, destvars,
                   faults>>

\* The waiters are woken and a new barrier stored.  The next closeListener has
\* been launched.
Broadcast ==
    /\ listener = "broadcast"
    /\ barrier' = barrier + 1
    /\ listener' = "listen"
    /\ UNCHANGED <<kind, connection, dials, channel, isOpen, sessClosed, exited, destvars,
                   faults>>

Listener ==
    \/ CloseListener
    \/ DialSucceeds
    \/ DialFails
    \/ OpenChannel
    \/ OpenChannelFails
    \/ Broadcast
-----------------------------------------------------------------------------
(***************************************************************************)
(* The dispatcher, and the loop that opens the destination again: the end  *)
(* of Consumer.start's goroutine, and Producer.Send.                       *)
(***************************************************************************)

\* Worker w goes from one place to another.
Goto(w, from, dest) ==
    /\ pc[w] = from
    /\ pc' = [pc EXCEPT ![w] = dest]

\* case err := <-cl: a Consumer's dispatcher goes on to open it again, unless
\* the Session is closed; a Producer's leaves that to the next Send.
Dispatch(w) ==
    /\ watch[w] # channel \/ ~isOpen
    /\ closed' = TRUE
    /\ Goto(w, "select", IF kind = "consumer" /\ ~sessClosed THEN "loop" ELSE "stopped")
    /\ UNCHANGED <<kind, sessvars, m, watch, held, faults>>

\* Send is called.
Send(w) ==
    /\ kind = "producer"
    /\ w \in Senders
    /\ Goto(w, "idle", "loop")
    /\ UNCHANGED <<kind, sessvars, closed, m, watch, held, faults>>

\* for dst.closed
Loop(w) ==
    /\ Goto(w, "loop", CASE closed                      -> "lock"
                         [] ~closed /\ w \in Senders    -> "publish"
                         [] ~closed /\ w \in Dispatchers -> "stopped")
    /\ UNCHANGED <<kind, sessvars, closed, m, watch, held, faults>>

\* Mutant of Lock: closed is not read again under the lock.
LockUnchecked(w) ==
    /\ m = NoWorker
    /\ m' = w
    /\ Goto(w, "lock", "check")
    /\ UNCHANGED <<kind, sessvars, closed, watch, held, faults>>

\* dst.m is locked; if the destination is open by then it is unlocked again.
Lock(w) ==
    /\ m = NoWorker
    /\ m' = IF closed THEN w ELSE NoWorker
    /\ Goto(w, "lock", IF closed THEN "check" ELSE "loop")
    /\ UNCHANGED <<kind, sessvars, closed, watch, held, faults>>

\* sess.Wait has to wait.
WaitClosed(w) ==
    /\ ~isOpen /\ ~sessClosed
    /\ Goto(w, "check", "acquire")
    /\ UNCHANGED <<kind, sessvars, closed, m, watch, held, faults>>

\* sess.Wait returns, and dst.reconnect resets closed.
WaitReturns(w) ==
    /\ isOpen \/ sessClosed
    /\ Goto(w, "check", "reopen")
    /\ closed' = FALSE
    /\ UNCHANGED <<kind, sessvars, m, watch, held, faults>>

\* The barrier is acquired from the store, and released.
AcquireBarrier(w) ==
    /\ Goto(w, "acquire", "sleep")
    /\ held' = [held EXCEPT ![w] = barrier]
    /\ UNCHANGED <<kind, sessvars, closed, m, watch, faults>>

\* Mutant of WakeUp: Wait does not look at the Session again, as with an if in
\* place of the loop.
WakeUpOnce(w) ==
    /\ held[w] < barrier
    /\ Goto(w, "sleep", "reopen")
    /\ closed' = FALSE
    /\ UNCHANGED <<kind, sessvars, m, watch, held, faults>>

\* <-b returns once the barrier is closed.
WakeUp(w) ==
    /\ held[w] < barrier
    /\ Goto(w, "sleep", "check")
    /\ UNCHANGED <<kind, sessvars, closed, m, watch, held, faults>>

\* Mutant of Reopen: an early return without the unlock.
ReopenKeepsLock(w, v) ==
    /\ pc[w] = "reopen"
    /\ pc[v] \in {"idle", "stopped"}
    /\ pc' = [pc EXCEPT ![w] = "loop", ![v] = "select"]
    /\ watch' = [watch EXCEPT ![v] = channel]
    /\ UNCHANGED <<kind, sessvars, closed, m, held, faults>>

\* open and start: a new dispatcher v listens on the channel there is now, which
\* may have closed again; the errors of open are ignored.
Reopen(w, v) ==
    /\ pc[w] = "reopen"
    /\ pc[v] \in {"idle", "stopped"}
    /\ pc' = [pc EXCEPT ![w] = "loop", ![v] = "select"]
    /\ watch' = [watch EXCEPT ![v] = channel]
    /\ m' = NoWorker
    /\ UNCHANGED <<kind, sessvars, closed, held, faults>>

\* publish, whose error is ignored.
Publish(w) ==
    /\ Goto(w, "publish", "idle")
    /\ UNCHANGED <<kind, sessvars, closed, m, watch, held, faults>>

\* The loop of worker w.
Worker(w) ==
    \/ Loop(w)
    \/ Lock(w)
    \/ WaitClosed(w)
    \/ WaitReturns(w)
    \/ AcquireBarrier(w)
    \/ WakeUp(w)
    \/ \E v \in Dispatchers : Reopen(w, v)
    \/ Publish(w)
-----------------------------------------------------------------------------
Next ==
    /\ ~exited
    /\ \/ ConnectionLost
       \/ ChannelException
       \/ Listener
       \/ \E w \in Dispatchers : Dispatch(w)
       \/ \E w \in Workers : Send(w) \/ Worker(w)

Spec == Init /\ [][Next]_vars

(***************************************************************************)
(* Every goroutine that can go on does, and DialConfig and Channel return. *)
(* sync.Mutex does not starve a waiter, and the dispatcher's select does   *)
(* not ignore the close event.                                             *)
(***************************************************************************)
FairSpec ==
    /\ Spec
    /\ WF_vars(~exited /\ Listener)
    /\ \A w \in Dispatchers : WF_vars(~exited /\ Dispatch(w))
    /\ \A w \in Workers : WF_vars(~exited /\ Worker(w)) /\ SF_vars(~exited /\ Lock(w))
-----------------------------------------------------------------------------
(***************************************************************************)
(* Properties.                                                             *)
(***************************************************************************)

Running   == {w \in Dispatchers : pc[w] = "select"}
Reopening == {w \in Workers : pc[w] = "reopen"}
Waiting   == {w \in Workers : pc[w] \in {"check", "acquire", "sleep"}}

\* One dispatcher, however many goroutines find the destination closed: it runs,
\* or it has set closed and somebody has to open the destination, or somebody
\* is about to start the next (amqp091.go:1160-1178, 1395-1405).  Two would
\* consume the queue twice; none would leave it unread.
OneDispatcher ==
    /\ \A v, w \in Running : v = w
    /\ \A v, w \in Reopening : v = w
    /\ Running # {} => ~closed /\ Reopening = {}
    /\ Reopening # {} => ~closed
    /\ Running = {} /\ Reopening = {} => closed

\* Whoever waits for the Session or opens the destination again holds dst.m,
\* and what it waits for is a destination that is closed
\* (amqp091.go:384-399, 1163-1166, 1397-1399).
OneReconnects ==
    /\ \A w \in Workers : m = w <=> w \in Waiting \cup Reopening
    /\ Waiting # {} => closed

\* A waiter that has slept through a broadcast: the Session is open, and the
\* barrier that the waiter holds will be closed when it is opened again.
Oversleeps(w) ==
    /\ pc[w] = "sleep"
    /\ held[w] = barrier
    /\ isOpen
    /\ listener = "listen"

\* A waiter that sleeps has its barrier closed, or somebody will close it: a
\* reconnection is under way or about to be noticed.  The exceptions are a Session
\* that has been given up, and a waiter that oversleeps (amqp091.go:305-348,
\* 384-399, 405-422).
SleepersAwaited ==
    \A w \in Workers : pc[w] = "sleep" =>
        \/ held[w] < barrier
        \/ listener \in {"dial", "channel", "broadcast"}
        \/ listener = "listen" /\ ~isOpen
        \/ sessClosed
        \/ Oversleeps(w)

\* A Session that is lost comes back, or the program is told, or the Session is
\* marked closed: each closeListener launches the next (amqp091.go:305-348,
\* 405-422).
SessionRecovers == ~isOpen ~> (isOpen \/ sessClosed)

\* A reconnection of the destination comes to an end, unless its waiter
\* oversleeps or the Session is given up (amqp091.go:384-399, 1160-1178,
\* 1395-1405).
ReopenEnds ==
    \A w \in Workers :
        m = w ~> (m # w \/ sessClosed \/ Oversleeps(w))

\* The Session as a destination sees it.
session ==
    CASE isOpen               -> "up"
      [] ~isOpen /\ sessClosed -> "gone"
      [] OTHER                -> "down"

\* The goroutines of a destination implement Destination: every close is
\* followed by at most one reopening, of one goroutine, on a Session that is back
\* or given up, and no dispatcher is stopped while its channel is live
\* (amqp091.go:305-348, 384-399, 405-422, 1160-1178, 1395-1405).
Promise == INSTANCE Destination WITH
    session   <- session,
    channel   <- channel,
    served    <- {watch[w] : w \in Running},
    reopening <- (Reopening # {})

ImplementsDestination == Promise!Spec
-----------------------------------------------------------------------------
(***************************************************************************)
(* Claims of the repository that the code does not keep.                   *)
(***************************************************************************)

\* "Will block until Connection and Session are connected"
\* (amqp091.go:1166, of reconnect, that is Wait), and not after that.
NobodyOversleeps == \A w \in Workers : ~Oversleeps(w)
=============================================================================
