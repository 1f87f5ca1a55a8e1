----------------------------- MODULE RPCServer -----------------------------
(***************************************************************************)
(* The AMQP-RPC side of the Runtime API Daemons                            *)
(* (pkg/invokeapi/rpcserver.go) and the broker between them and the Lambda *)
(* Server: the request queue of one Function, which several daemons        *)
(* consume, and the reply queue of the Lambda Server.  RPCInvoker composes *)
(* this module with the invoke calls that publish the requests.            *)
(*                                                                         *)
(* The broker is external: it is modelled from how the code declares its   *)
(* queues.  The request queue is declared auto-delete, so it is gone, with *)
(* what it holds, once its last consumer is.  Unacknowledged deliveries of *)
(* a consumer that is lost go back to the queue.                           *)
(***************************************************************************)
EXTENDS Naturals, FiniteSets

CONSTANTS
    Requests,   \* calls of RPCInvoker.invoke
    Servers,    \* Runtime API Daemons of the Function
    NoServer,   \* not a server
    Capacity,   \* prefetch of the consumer: 5 * MAX_CONCURRENCY
    MaxFaults   \* bound: how many connections, messages or daemons are lost

ASSUME RPCAssumption ==
    /\ IsFiniteSet(Requests)
    /\ IsFiniteSet(Servers)
    /\ NoServer \notin Servers
    /\ Capacity \in Nat \ {0}
    /\ MaxFaults \in Nat

VARIABLES
    queued,      \* requests in the Function's queue
    link,        \* link[s]: whether s has a consumer on the queue
    epoch,       \* epoch[s]: how many consumer connections of s have been lost
    unacked,     \* unacked[s]: requests delivered on the connection s has now
    handlers,    \* rpcHandler goroutines
    replyQueue,  \* the reply queue the Lambda Server consumes: 0 is its first
    replyUp,     \* whether the Lambda Server has a consumer on it
    replies,     \* replies in it
    faults,      \* how many faults there have been
    fate         \* history: what became of each request; "executed" once a
                 \* daemon's invoke has returned for it

servervars == <<queued, link, epoch, unacked, handlers, replyQueue, replyUp,
                replies, faults, fate>>

\* A delivery of a request, and the goroutine that handles it.
Deliveries == [request : Requests, server : Servers, epoch : 0..MaxFaults]
Handlers   == [delivery : Deliveries, pc : {"invoke", "reply", "ack", "hung"}]

HandlersOf(s) == {h \in handlers : h.delivery.server = s}

ServerTypeOK ==
    /\ queued \in SUBSET Requests
    /\ link \in [Servers -> BOOLEAN]
    /\ epoch \in [Servers -> 0..MaxFaults]
    /\ unacked \in [Servers -> SUBSET Requests]
    /\ handlers \in SUBSET Handlers
    /\ replyQueue \in Nat
    /\ replyUp \in BOOLEAN
    /\ replies \in SUBSET Deliveries
    /\ faults \in 0..MaxFaults
    /\ fate \in [Requests -> {"none", "queued", "returned", "lost", "executed"}]

ServerInit ==
    /\ queued = {}
    /\ link = [s \in Servers |-> FALSE]
    /\ epoch = [s \in Servers |-> 0]
    /\ unacked = [s \in Servers |-> {}]
    /\ handlers = {}
    /\ replyQueue = 0
    /\ replyUp = TRUE
    /\ replies = {}
    /\ faults = 0
    /\ fate = [i \in Requests |-> "none"]

QueueExists == \E s \in Servers : link[s]

Fault ==
    /\ faults < MaxFaults
    /\ faults' = faults + 1
-----------------------------------------------------------------------------
(***************************************************************************)
(* Connections.                                                            *)
(***************************************************************************)

\* Consumer.open and start, when the daemon starts and after a reconnection:
\* the queue is declared, if need be, and consumed.
ConsumerOpens(s) ==
    /\ ~link[s]
    /\ link' = [link EXCEPT ![s] = TRUE]
    /\ UNCHANGED <<queued, epoch, unacked, handlers, replyQueue, replyUp, replies, faults, fate>>

\* The broker loses the consumer of s: what it has not acknowledged goes back
\* to the queue, or is gone with it.
Requeue(s) ==
    /\ Fault
    /\ link' = [link EXCEPT ![s] = FALSE]
    /\ epoch' = [epoch EXCEPT ![s] = @ + 1]
    /\ queued' = IF \E t \in Servers \ {s} : link[t] THEN queued \cup unacked[s] ELSE {}
    /\ unacked' = [unacked EXCEPT ![s] = {}]

\* The connection of a consumer fails.  Its handlers go on.
ConsumerLost(s) ==
    /\ link[s]
    /\ Requeue(s)
    /\ UNCHANGED <<handlers, replyQueue, replyUp, replies, fate>>

\* A daemon crashes, or exits because a connection could not be established
\* again.
DaemonExits(s) ==
    /\ Requeue(s)
    /\ handlers' = handlers \ HandlersOf(s)
    /\ UNCHANGED <<replyQueue, replyUp, replies, fate>>
-----------------------------------------------------------------------------
(***************************************************************************)
(* The main loop and rpcHandler.                                           *)
(***************************************************************************)

\* The broker delivers a request while the prefetch allows it, and the loop
\* starts a goroutine for it.
Deliver(s, i) ==
    /\ link[s]
    /\ i \in queued
    /\ Cardinality(unacked[s]) < Capacity
    /\ queued' = queued \ {i}
    /\ unacked' = [unacked EXCEPT ![s] = @ \cup {i}]
    /\ handlers' = handlers \cup
         {[delivery |-> [request |-> i, server |-> s, epoch |-> epoch[s]], pc |-> "invoke"]}
    /\ UNCHANGED <<link, epoch, replyQueue, replyUp, replies, faults, fate>>

\* Handler h goes on to pc.
HandlerAt(h, pc) == handlers' = (handlers \ {h}) \cup {[h EXCEPT !.pc = pc]}

\* RAPIInvoker.invoke returns: with an answer, or at its timeout.
InvokeReturns(h) ==
    /\ h.pc = "invoke"
    /\ HandlerAt(h, "reply")
    /\ fate' = [fate EXCEPT ![h.delivery.request] = "executed"]
    /\ UNCHANGED <<queued, link, epoch, unacked, replyQueue, replyUp, replies, faults>>

\* reply.Send to the ReplyTo of the request, the name of the first reply
\* queue.  The broker drops what it cannot route, and publish ignores the error
\* of a connection that has failed.
SendReply(h) ==
    /\ h.pc = "reply"
    /\ HandlerAt(h, "ack")
    /\ \/ /\ replies' = IF replyUp /\ replyQueue = 0 THEN replies \cup {h.delivery}
                                                     ELSE replies
          /\ UNCHANGED faults
       \/ /\ Fault
          /\ UNCHANGED replies
    /\ UNCHANGED <<queued, link, epoch, unacked, replyQueue, replyUp, fate>>

\* Mutant of Acknowledge: the request is acknowledged before it is invoked,
\* as with AutoAck.
AcknowledgeFirst(h) ==
    /\ h.pc # "reply"
    /\ handlers' = IF h.pc = "ack" THEN handlers \ {h} ELSE handlers
    /\ unacked' = IF h.delivery.epoch = epoch[h.delivery.server]
                    THEN [unacked EXCEPT ![h.delivery.server] = @ \ {h.delivery.request}]
                    ELSE unacked
    /\ UNCHANGED <<queued, link, epoch, replyQueue, replyUp, replies, faults, fate>>

\* Mutant of Acknowledge: forgotten.
AcknowledgeNever(h) ==
    /\ h.pc = "ack"
    /\ handlers' = handlers \ {h}
    /\ UNCHANGED <<queued, link, epoch, unacked, replyQueue, replyUp, replies, faults, fate>>

\* message.Acknowledge: it fails, unnoticed, on a connection that is gone.
Acknowledge(h) ==
    /\ h.pc = "ack"
    /\ handlers' = handlers \ {h}
    /\ unacked' = IF h.delivery.epoch = epoch[h.delivery.server]
                    THEN [unacked EXCEPT ![h.delivery.server] = @ \ {h.delivery.request}]
                    ELSE unacked
    /\ UNCHANGED <<queued, link, epoch, replyQueue, replyUp, replies, faults, fate>>

\* Handler h is where it may stay for ever.  invoke has no timeout while it is in
\* rapi.Init, where an instance waits for an Extension that never registers and
\* later invokes for its Once; reply.Send may sleep in Session.Wait, as Messaging
\* shows.
Hangs(h) ==
    /\ h.pc \in {"invoke", "reply"}
    /\ HandlerAt(h, "hung")
    /\ UNCHANGED <<queued, link, epoch, unacked, replyQueue, replyUp, replies, faults, fate>>

\* What handler h does next.
RPCHandler(h) == InvokeReturns(h) \/ SendReply(h) \/ Acknowledge(h)

\* What daemon s and its connections do.
Server(s) ==
    \/ ConsumerOpens(s)
    \/ ConsumerLost(s)
    \/ DaemonExits(s)
    \/ \E h \in HandlersOf(s) : RPCHandler(h) \/ Hangs(h)
    \/ \E i \in Requests : Deliver(s, i)
=============================================================================
