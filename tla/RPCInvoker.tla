----------------------------- MODULE RPCInvoker -----------------------------
(***************************************************************************)
(* The Lambda Server's RPCInvoker (pkg/invokeapi/rpcinvoker.go) composed   *)
(* with the broker and the daemons that serve the Function: invoke         *)
(* publishes a request, stores a response channel under its correlation id *)
(* and waits; for each reply, and each request the broker returns, a       *)
(* goroutine looks the channel up, removes it from the map and sends.      *)
(* The id is the one the client supplies, if it does (the HTTP header      *)
(* Amz-Sdk-Invocation-Id), so that a retry has the id of the first call.   *)
(***************************************************************************)
EXTENDS RPCServer

CONSTANTS
    None,  \* no request
    Cids,  \* correlation ids
    Cid    \* Cid[i]: the correlation id of request i

ASSUME CidAssumption ==
    /\ None \notin Requests
    /\ Cid \in [Requests -> Cids]

VARIABLES
    pc,               \* pc[i]: where call i of invoke is
    answer,           \* answer[i]: what it returned
    pendingRequests,  \* invoker.pendingRequests: id to the call whose channel it is
    arrived,          \* messages of rpcResponseHandler goroutines that start
    sending           \* those that send a message on the channel of a call

invokervars == <<pc, answer, pendingRequests, arrived, sending>>
vars        == <<servervars, invokervars>>

\* A request that the broker returns as unroutable.
ReturnOf(i) == [request |-> i, server |-> NoServer, epoch |-> 0]
Messages    == Deliveries \cup {ReturnOf(i) : i \in Requests}

\* A goroutine that sends message on the channel of call to.
Senders == [message : Messages, to : Requests]

Reply(kind, i) == [kind |-> kind, request |-> i]

Answers == [kind : {"none", "response", "unreachable", "ended"}, request : Requests \cup {None}]

\* Mutant of Result: the body of a returned request is not replaced.
ResultOfReturn(m) == Reply(IF m.server = NoServer THEN "request" ELSE "response", m.request)

\* What invoke returns when it receives m.
Result(m) == Reply(IF m.server = NoServer THEN "unreachable" ELSE "response", m.request)

TypeOK ==
    /\ ServerTypeOK
    /\ pc \in [Requests -> {"idle", "send", "store", "wait", "returned"}]
    /\ answer \in [Requests -> Answers]
    /\ pendingRequests \in [Cids -> Requests \cup {None}]
    /\ arrived \in SUBSET Messages
    /\ sending \in SUBSET Senders

Init ==
    /\ ServerInit
    /\ pc = [i \in Requests |-> "idle"]
    /\ answer = [i \in Requests |-> Reply("none", None)]
    /\ pendingRequests = [k \in Cids |-> None]
    /\ arrived = {}
    /\ sending = {}

Goto(i, from, dest) ==
    /\ pc[i] = from
    /\ pc' = [pc EXCEPT ![i] = dest]
-----------------------------------------------------------------------------
(***************************************************************************)
(* invoke.                                                                 *)
(***************************************************************************)

\* invoke is called and builds the request.
Invoke(i) ==
    /\ Goto(i, "idle", "send")
    /\ UNCHANGED <<servervars, answer, pendingRequests, arrived, sending>>

\* producer.Send: the broker queues the request, or returns it when no daemon
\* consumes the Function's queue; or the publication is lost with a connection.
Send(i) ==
    /\ Goto(i, "send", "store")
    /\ \/ /\ QueueExists
          /\ queued' = queued \cup {i}
          /\ fate' = [fate EXCEPT ![i] = "queued"]
          /\ UNCHANGED <<arrived, faults>>
       \/ /\ ~QueueExists
          /\ arrived' = arrived \cup {ReturnOf(i)}
          /\ fate' = [fate EXCEPT ![i] = "returned"]
          /\ UNCHANGED <<queued, faults>>
       \/ /\ Fault
          /\ UNCHANGED <<queued, arrived>>
          /\ fate' = [fate EXCEPT ![i] = "lost"]
    /\ UNCHANGED <<link, epoch, unacked, handlers, replyQueue, replyUp, replies, answer,
                   pendingRequests, sending>>

\* The response channel is stored under the id, in place of that of another call
\* with the same id.
Store(i) ==
    /\ Goto(i, "store", "wait")
    /\ pendingRequests' = [pendingRequests EXCEPT ![Cid[i]] = i]
    /\ UNCHANGED <<servervars, answer, arrived, sending>>

\* case <-responseChan: a rendezvous, as the channel has no buffer.
Receive(i, t) ==
    /\ Goto(i, "wait", "returned")
    /\ t \in sending
    /\ t.to = i
    /\ sending' = sending \ {t}
    /\ answer' = [answer EXCEPT ![i] = Result(t.message)]
    /\ UNCHANGED <<servervars, pendingRequests, arrived>>

\* Mutant of CtxDone: the entry is left in the map.
CtxDoneKeepsEntry(i) ==
    /\ Goto(i, "wait", "returned")
    /\ answer' = [answer EXCEPT ![i] = Reply("ended", None)]
    /\ UNCHANGED <<servervars, pendingRequests, arrived, sending>>

\* case <-ctx.Done(), at the timeout or when the client has gone: whatever is
\* stored under the id is deleted.  A handler that looks the entry up between
\* the select and the delete is where one is that did so just before the select:
\* the channel it sends on has no receiver any more.
CtxDone(i) ==
    /\ Goto(i, "wait", "returned")
    /\ pendingRequests' = [pendingRequests EXCEPT ![Cid[i]] = None]
    /\ answer' = [answer EXCEPT ![i] = Reply("ended", None)]
    /\ UNCHANGED <<servervars, arrived, sending>>
-----------------------------------------------------------------------------
(***************************************************************************)
(* The main loop and rpcResponseHandler.                                   *)
(***************************************************************************)

\* case m := <-msgs: a goroutine is started for a reply.
ReceiveReply(m) ==
    /\ replyUp
    /\ m \in replies
    /\ replies' = replies \ {m}
    /\ arrived' = arrived \cup {m}
    /\ UNCHANGED <<queued, link, epoch, unacked, handlers, replyQueue, replyUp, faults,
                   pc, answer, pendingRequests, sending, fate>>

\* The call whose channel is stored under the id of m.
CallOf(m) == pendingRequests[Cid[m.request]]

\* The goroutines that send once message m is sent on the channel of i.
Sending(m, i) == sending \cup {[message |-> m, to |-> i]}

\* Mutant of Lookup: the entry is not deleted.
LookupKeepsEntry(m) ==
    /\ m \in arrived
    /\ arrived' = arrived \ {m}
    /\ sending' = IF CallOf(m) = None THEN sending ELSE Sending(m, CallOf(m))
    /\ UNCHANGED <<servervars, pc, answer, pendingRequests>>

\* Mutant of Lookup: the send does not wait for a receiver, as in a select
\* with a default, and nobody may be there yet.
LookupDrops(m) ==
    /\ m \in arrived
    /\ arrived' = arrived \ {m}
    /\ pendingRequests' = [pendingRequests EXCEPT ![Cid[m.request]] = None]
    /\ UNCHANGED <<servervars, pc, answer, sending>>

\* Mutant of Lookup: replies are matched with calls in the order they arrive.
LookupUncorrelated(m) ==
    /\ m \in arrived
    /\ arrived' = arrived \ {m}
    /\ \E k \in Cids :
          /\ pendingRequests[k] # None
          /\ pendingRequests' = [pendingRequests EXCEPT ![k] = None]
          /\ sending' = Sending(m, pendingRequests[k])
    /\ UNCHANGED <<servervars, pc, answer>>

\* The channel stored under the id of m is looked up and its entry deleted, and
\* the goroutine goes on to send; without an entry the message is dropped.
Lookup(m) ==
    /\ m \in arrived
    /\ arrived' = arrived \ {m}
    /\ pendingRequests' = [pendingRequests EXCEPT ![Cid[m.request]] = None]
    /\ sending' = IF CallOf(m) = None THEN sending ELSE Sending(m, CallOf(m))
    /\ UNCHANGED <<servervars, pc, answer>>

\* The connection of the reply consumer fails; its queue is gone.
ReplyConsumerLost ==
    /\ Fault
    /\ replyUp
    /\ replyUp' = FALSE
    /\ replies' = {}
    /\ UNCHANGED <<queued, link, epoch, unacked, handlers, replyQueue, fate, invokervars>>

\* The consumer is opened again.  Its address is "", so the broker makes a new
\* queue with a new name.
ReplyConsumerReopens ==
    /\ ~replyUp
    /\ replyUp' = TRUE
    /\ replyQueue' = replyQueue + 1
    /\ UNCHANGED <<queued, link, epoch, unacked, handlers, replies, faults, fate, invokervars>>
-----------------------------------------------------------------------------
Call(i) ==
    \/ Invoke(i)
    \/ Send(i)
    \/ Store(i)
    \/ \E t \in sending : Receive(i, t)
    \/ CtxDone(i)

Next ==
    \/ \E i \in Requests : Call(i)
    \/ \E m \in replies : ReceiveReply(m)
    \/ \E m \in arrived : Lookup(m)
    \/ ReplyConsumerLost
    \/ ReplyConsumerReopens
    \/ (\E s \in Servers : Server(s)) /\ UNCHANGED invokervars

Spec == Init /\ [][Next]_vars

(***************************************************************************)
(* A handler that does not hang goes on, a daemon's consumer is opened     *)
(* again, and the broker's queue is first in first out, so that no request *)
(* is passed over for ever.  Nothing is assumed of the Lambda Server, nor  *)
(* that any handler gets past invoke or Send.                              *)
(***************************************************************************)
FairSpec ==
    /\ Spec
    /\ \A i \in Requests :
          SF_vars((\E s \in Servers : Deliver(s, i)) /\ UNCHANGED invokervars)
    /\ \A s \in Servers :
          /\ WF_vars(ConsumerOpens(s) /\ UNCHANGED invokervars)
          /\ WF_vars((\E h \in HandlersOf(s) : RPCHandler(h)) /\ UNCHANGED invokervars)
-----------------------------------------------------------------------------
(***************************************************************************)
(* Properties.                                                             *)
(***************************************************************************)

\* Every correlation id is used once, as when invoke generates them.
UniqueCids == \A i, j \in Requests : Cid[i] = Cid[j] => i = j

\* Only calls that wait have an entry in pendingRequests: neither a timeout nor
\* a late, lost or second reply leaves one behind, even when ids are used again
\* (rpcinvoker.go:280-304).
NoStaleEntry ==
    \A k \in Cids : pendingRequests[k] # None => pc[pendingRequests[k]] = "wait"

\* A request that is executed twice gets two replies, and a retry with the same
\* id more; one goroutine at most sends on the channel of a call, and none while
\* the channel is still in the map for another to find (rpcinvoker.go:129-146).
OneResponder ==
    /\ \A t, u \in sending : t.to = u.to => t = u
    /\ \A t \in sending : pendingRequests[Cid[t.to]] # t.to

\* A call that waits can be reached: its entry is in the map, or the goroutine
\* that took it out is sending to it (rpcinvoker.go:129-146, 278-304).  With an
\* id that a client uses again this fails: the retry's entry replaces that of the
\* first call, and the first call's end deletes that of the retry.
WaiterReachable ==
    \A i \in Requests : pc[i] = "wait" =>
        pendingRequests[Cid[i]] = i \/ \E t \in sending : t.to = i

\* The requests the broker is responsible for.
Held == queued \cup UNION {unacked[s] : s \in Servers}

\* The broker lets go of a request only when a handler has passed its reply to
\* Send, or when the auto-delete queue has gone with its last consumer
\* (rpcserver.go:117, 154-167).
AtLeastOnce ==
    [][\A i \in Held \ Held' :
          \/ ~QueueExists'
          \/ \E h \in handlers : h.delivery.request = i /\ h.pc = "ack"]_vars

\* How far the prefetch bounds the rpcHandler goroutines of a daemon.  The comment
\* at rpcserver.go:98-103 says that they are bounded to Capacity; but those of a
\* connection that is lost go on while the next one is delivered as many again,
\* so that each lost connection may add a prefetch (rpcserver.go:121-125, 167).
InFlightBounded ==
    \A s \in Servers : Cardinality(HandlersOf(s)) <= Capacity * (epoch[s] + 1)

\* No place in the prefetch leaks: each delivery that is not acknowledged on a
\* connection that s has now is with a handler, which acknowledges it at its end
\* (rpcserver.go:121-125, 154-167).
UnackedHandled ==
    \A s \in Servers : \A i \in unacked[s] :
        \E h \in handlers : h.delivery = [request |-> i, server |-> s, epoch |-> epoch[s]]

\* The deliveries that hang on the connection that s has now.
Stuck(s) ==
    {h.delivery.request : h \in {g \in HandlersOf(s) :
        g.pc = "hung" /\ g.delivery.epoch = epoch[s] /\ link[s]}}

\* Every daemon that is connected has its prefetch full of handlers that hang.
Jammed == \A s \in Servers : link[s] => Cardinality(Stuck(s)) = Capacity

\* The prefetch runs dry through handlers that hang, and through nothing else:
\* whatever connections are lost, a request that the broker holds is let go of,
\* unless its own handler hangs or no daemon has a place in its prefetch that is
\* not taken by one that does (rpcserver.go:125, 154-167).
QueueDrains ==
    \A i \in Requests : i \in Held ~>
        \/ i \notin Held
        \/ \E s \in Servers : i \in Stuck(s)
        \/ i \in queued /\ Jammed

\* The status of a call as its client sees it.
StatusOf(i) ==
    CASE pc[i] = "idle"     -> "idle"
      [] pc[i] = "returned" -> "answered"
      [] OTHER              -> "called"

status == [i \in Requests |-> StatusOf(i)]

\* The daemons and the Lambda Server implement RPCService: a response is that of
\* an execution of a request with the id of the call, of this very request unless
\* a client uses ids again, and what was refused is never executed
\* (rpcinvoker.go:112-160, 224-304 with rpcserver.go:117-167).
Service == INSTANCE RPCService WITH
    Requests <- Requests,
    None     <- None,
    Cid      <- Cid,
    status   <- status,
    fate     <- fate,
    answer   <- answer

ImplementsRPC == Service!Spec
-----------------------------------------------------------------------------
(***************************************************************************)
(* Claims of the repository that the code does not keep.                   *)
(***************************************************************************)

\* "allows reconnection to be made transparent to applications"
\* (amqp091.go:300): a reply that is sent while the Lambda Server has its
\* consumer, and that no fault hits, reaches the queue it consumes.
RepliesReachConsumer ==
    [][\A h \in handlers :
          (SendReply(h) /\ replyUp /\ faults' = faults) => h.delivery \in replies']_vars
=============================================================================
