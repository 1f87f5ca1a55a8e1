-------------------------- MODULE RPCInvokerProofs --------------------------
(***************************************************************************)
(* For any number of calls, of daemons and of faults, every prefetch and   *)
(* every choice of correlation ids: pendingRequests holds calls that wait, *)
(* nobody sends twice on one channel, the prefetch bounds the handlers by  *)
(* the connections there have been, and no request is let go of before it  *)
(* has been executed.  That a waiting call can be found, and is given no   *)
(* answer but its own, is proved for ids that are used once.               *)
(***************************************************************************)
EXTENDS RPCInvoker, FiniteSetTheorems, TLAPS

USE RPCAssumption, CidAssumption

(***************************************************************************)
(* A connection is lost by a fault.                                        *)
(***************************************************************************)
EpochsAreFaults == \A s \in Servers : epoch[s] <= faults

Typed == TypeOK /\ EpochsAreFaults

(***************************************************************************)
(* What the broker holds has been sent, and is held in one place.          *)
(***************************************************************************)
HeldOnce ==
    /\ \A i \in queued : pc[i] \notin {"idle", "send"}
    /\ \A s \in Servers : \A i \in unacked[s] : pc[i] \notin {"idle", "send"} /\ i \notin queued
    /\ \A s, t \in Servers : s # t => unacked[s] \cap unacked[t] = {}

(***************************************************************************)
(* A delivery has one handler.  Those of the connection a daemon has now   *)
(* are not acknowledged.                                                   *)
(***************************************************************************)
HandledOnce ==
    /\ \A g, h \in handlers : g.delivery = h.delivery => g = h
    /\ \A h \in handlers : h.delivery.epoch <= epoch[h.delivery.server]
    /\ \A h \in handlers : h.delivery.epoch = epoch[h.delivery.server] =>
          h.delivery.request \in unacked[h.delivery.server]

(***************************************************************************)
(* The deliveries of lost connections that handlers of s still work on,    *)
(* and those of the connection it has now.  Each connection that was lost  *)
(* left no more than a prefetch.                                           *)
(***************************************************************************)
Past(s)    == {h.delivery : h \in {g \in HandlersOf(s) : g.delivery.epoch # epoch[s]}}
Present(s) == {[request |-> i, server |-> s, epoch |-> epoch[s]] : i \in unacked[s]}

Prefetched ==
    \A s \in Servers :
        /\ Cardinality(unacked[s]) <= Capacity
        /\ IsFiniteSet(Past(s))
        /\ Cardinality(Past(s)) <= Capacity * epoch[s]

(***************************************************************************)
(* A channel is stored under the id of its call.                           *)
(***************************************************************************)
EntriesKeyed == \A k \in Cids : pendingRequests[k] # None => Cid[pendingRequests[k]] = k

(***************************************************************************)
(* Whoever sends took the entry of a call that waited.                     *)
(***************************************************************************)
SendersWereAwaited == \A t \in sending : pc[t.to] \in {"wait", "returned"}

Rendezvous == NoStaleEntry /\ OneResponder /\ EntriesKeyed /\ SendersWereAwaited

Inv == Typed /\ HeldOnce /\ HandledOnce /\ Prefetched /\ Rendezvous

LEMMA InvInit == Init => Inv
<1>. SUFFICES ASSUME Init PROVE Inv
  OBVIOUS
<1>. USE DEF Init, ServerInit
<1>1. Typed
  <2>1. faults \in 0..MaxFaults /\ replyQueue \in Nat /\ epoch \in [Servers -> 0..MaxFaults]
    OBVIOUS
  <2>2. link \in [Servers -> BOOLEAN] /\ replyUp \in BOOLEAN
    OBVIOUS
  <2>3. /\ answer \in [Requests -> Answers]
        /\ pendingRequests \in [Cids -> Requests \cup {None}]
    BY DEF Answers, Reply
  <2>. QED  BY <2>1, <2>2, <2>3 DEF Typed, TypeOK, ServerTypeOK, EpochsAreFaults
<1>2. HeldOnce /\ HandledOnce /\ Rendezvous
  BY DEF HeldOnce, HandledOnce, Rendezvous, NoStaleEntry, OneResponder, EntriesKeyed,
         SendersWereAwaited
<1>3. Prefetched
  <2>1. \A s \in Servers : Past(s) = {} /\ unacked[s] = {} /\ epoch[s] = 0
    BY DEF Past, HandlersOf
  <2>. QED  BY <2>1, FS_EmptySet DEF Prefetched
<1>. QED  BY <1>1, <1>2, <1>3 DEF Inv

(***************************************************************************)
(* A handler that goes on stays with its delivery.                         *)
(***************************************************************************)
LEMMA ToTheNextPlace ==
    ASSUME TypeOK, NEW h \in handlers, NEW place \in {"invoke", "reply", "ack", "hung"},
           HandlerAt(h, place)
    PROVE  /\ handlers' \subseteq Handlers
           /\ \A g \in handlers' : \E f \in handlers : f.delivery = g.delivery
           /\ UNCHANGED epoch => \A s \in Servers : Past(s)' = Past(s)
<1>. DEFINE g == [h EXCEPT !.pc = place]
<1>1. h \in Handlers /\ g \in Handlers /\ g.delivery = h.delivery
  BY DEF TypeOK, ServerTypeOK, Handlers
<1>2. handlers' = (handlers \ {h}) \cup {g}
  BY DEF HandlerAt
<1>3. handlers' \subseteq Handlers
  BY <1>1, <1>2 DEF TypeOK, ServerTypeOK
<1>4. \A f \in handlers' : \E k \in handlers : k.delivery = f.delivery
  BY <1>1, <1>2
<1>5. \A k \in handlers : \E f \in handlers' : k.delivery = f.delivery
  BY <1>1, <1>2
<1>6. ASSUME NEW s \in Servers, UNCHANGED epoch
      PROVE  Past(s)' = Past(s)
  BY <1>4, <1>5, <1>6 DEF Past, HandlersOf
<1>. QED  BY <1>3, <1>4, <1>6

(***************************************************************************)
(* Type correctness.                                                       *)
(***************************************************************************)
LEMMA ServerTyped ==
    ASSUME Typed, NEW s \in Servers, Server(s), UNCHANGED invokervars
    PROVE  Typed'
<1>. USE DEF Typed, TypeOK, ServerTypeOK, EpochsAreFaults, invokervars
<1>1. CASE ConsumerOpens(s)
  <2>1. link' \in [Servers -> BOOLEAN]
    BY <1>1 DEF ConsumerOpens
  <2>. QED  BY <1>1, <2>1 DEF ConsumerOpens
<1>2. ASSUME Requeue(s)
      PROVE  /\ link' \in [Servers -> BOOLEAN] /\ queued' \in SUBSET Requests
             /\ epoch' \in [Servers -> 0..MaxFaults] /\ faults' \in 0..MaxFaults
             /\ unacked' \in [Servers -> SUBSET Requests]
             /\ \A t \in Servers : epoch'[t] <= faults'
  <2>1. link' \in [Servers -> BOOLEAN]
    BY <1>2 DEF Requeue
  <2>2. unacked' \in [Servers -> SUBSET Requests] /\ queued' \in SUBSET Requests
    BY <1>2 DEF Requeue
  <2>3. /\ epoch' \in [Servers -> 0..MaxFaults] /\ faults' \in 0..MaxFaults
        /\ \A t \in Servers : epoch'[t] <= faults'
    BY <1>2 DEF Requeue, Fault
  <2>. QED  BY <2>1, <2>2, <2>3
<1>3. CASE ConsumerLost(s)
  BY <1>2, <1>3 DEF ConsumerLost
<1>4. CASE DaemonExits(s)
  BY <1>2, <1>4 DEF DaemonExits
<1>5. ASSUME NEW h \in HandlersOf(s), InvokeReturns(h)
      PROVE  Typed'
  BY <1>5, ToTheNextPlace DEF InvokeReturns, HandlersOf
<1>9. ASSUME NEW h \in HandlersOf(s), Hangs(h)
      PROVE  Typed'
  BY <1>9, ToTheNextPlace DEF Hangs, HandlersOf
<1>6. ASSUME NEW h \in HandlersOf(s), SendReply(h)
      PROVE  Typed'
  <2>1. h \in handlers /\ h.delivery \in Deliveries
    BY DEF HandlersOf, Handlers
  <2>2. handlers' \in SUBSET Handlers
    BY <1>6, <2>1, ToTheNextPlace DEF SendReply
  <2>3. replies' \in SUBSET Deliveries /\ faults' \in 0..MaxFaults
    BY <1>6, <2>1 DEF SendReply, Fault
  <2>4. EpochsAreFaults'
    BY <1>6 DEF SendReply, Fault
  <2>. QED  BY <1>6, <2>2, <2>3, <2>4 DEF SendReply
<1>7. ASSUME NEW h \in HandlersOf(s), Acknowledge(h)
      PROVE  Typed'
  <2>1. unacked' \in [Servers -> SUBSET Requests]
    BY <1>7 DEF Acknowledge
  <2>. QED  BY <1>7, <2>1 DEF Acknowledge
<1>8. ASSUME NEW i \in Requests, Deliver(s, i)
      PROVE  Typed'
  <2>1. unacked' \in [Servers -> SUBSET Requests] /\ queued' \in SUBSET Requests
    BY <1>8 DEF Deliver
  <2>2. handlers' \in SUBSET Handlers
    BY <1>8 DEF Deliver, Handlers, Deliveries
  <2>. QED  BY <1>8, <2>1, <2>2 DEF Deliver
<1>. QED  BY <1>1, <1>3, <1>4, <1>5, <1>6, <1>7, <1>8, <1>9 DEF Server, RPCHandler

LEMMA InvokerTyped ==
    ASSUME Typed,
           \/ \E i \in Requests : Call(i)
           \/ \E m \in replies : ReceiveReply(m)
           \/ \E m \in arrived : Lookup(m)
           \/ ReplyConsumerLost \/ ReplyConsumerReopens
    PROVE  Typed'
<1>. USE DEF Typed, TypeOK, ServerTypeOK, EpochsAreFaults, servervars, invokervars, Goto
<1>1. ASSUME NEW i \in Requests, Call(i)
      PROVE  Typed'
  <2>1. CASE Invoke(i)
    BY <2>1 DEF Invoke
  <2>2. CASE Send(i)
    <3>1. queued' \in SUBSET Requests /\ arrived' \in SUBSET Messages
      BY <2>2 DEF Send, Messages
    <3>2. faults' \in 0..MaxFaults /\ EpochsAreFaults'
      BY <2>2 DEF Send, Fault
    <3>. QED  BY <2>2, <3>1, <3>2 DEF Send
  <2>3. CASE Store(i)
    BY <2>3 DEF Store
  <2>4. CASE \E t \in sending : Receive(i, t)
    <3>1. PICK t \in sending : Receive(i, t)
      BY <2>4
    <3>2. t \in Senders /\ t.message.request \in Requests
      BY DEF Senders, Messages, Deliveries, ReturnOf
    <3>3. Result(t.message) \in Answers
      BY <3>2 DEF Result, Reply, Answers
    <3>. QED  BY <3>1, <3>3 DEF Receive
  <2>5. CASE CtxDone(i)
    <3>1. Reply("ended", None) \in Answers
      BY DEF Reply, Answers
    <3>. QED  BY <2>5, <3>1 DEF CtxDone
  <2>. QED  BY <1>1, <2>1, <2>2, <2>3, <2>4, <2>5 DEF Call
<1>2. ASSUME NEW m \in replies, ReceiveReply(m)
      PROVE  Typed'
  BY <1>2 DEF ReceiveReply, Messages
<1>3. ASSUME NEW m \in arrived, Lookup(m)
      PROVE  Typed'
  <2>1. sending' \subseteq Senders
    BY <1>3 DEF Lookup, CallOf, Sending, Senders, Messages, Deliveries, ReturnOf
  <2>. QED  BY <1>3, <2>1 DEF Lookup
<1>4. CASE ReplyConsumerLost
  <2>1. faults' \in 0..MaxFaults /\ EpochsAreFaults'
    BY <1>4 DEF ReplyConsumerLost, Fault
  <2>2. replyUp' \in BOOLEAN
    BY <1>4 DEF ReplyConsumerLost
  <2>. QED  BY <1>4, <2>1, <2>2 DEF ReplyConsumerLost
<1>5. CASE ReplyConsumerReopens
  <2>1. replyUp' \in BOOLEAN
    BY <1>5 DEF ReplyConsumerReopens
  <2>. QED  BY <1>5, <2>1 DEF ReplyConsumerReopens
<1>. QED  BY <1>1, <1>2, <1>3, <1>4, <1>5

(***************************************************************************)
(* The Lambda Server's steps, and those of the daemons, keep what is said  *)
(* of its calls.                                                           *)
(***************************************************************************)
LEMMA RendezvousStep ==
    ASSUME Typed, Rendezvous, [Next]_vars
    PROVE  Rendezvous'
<1>. USE DEF Typed, TypeOK, Rendezvous, NoStaleEntry, OneResponder, EntriesKeyed, SendersWereAwaited,
             Goto
<1>1. CASE UNCHANGED invokervars
  BY <1>1 DEF invokervars
<1>2. ASSUME NEW i \in Requests, Call(i)
      PROVE  Rendezvous'
  <2>1. CASE Invoke(i)
    BY <2>1 DEF Invoke
  <2>2. CASE Send(i)
    BY <2>2 DEF Send
  <2>3. CASE Store(i)
    BY <2>3 DEF Store
  <2>4. CASE \E t \in sending : Receive(i, t)
    BY <2>4 DEF Receive
  <2>5. CASE CtxDone(i)
    <3>1. /\ pendingRequests' = [pendingRequests EXCEPT ![Cid[i]] = None]
          /\ pc' = [pc EXCEPT ![i] = "returned"] /\ sending' = sending /\ Cid[i] \in Cids
      BY <2>5 DEF CtxDone
    <3>2. \A k \in Cids : pendingRequests'[k] # None =>
              k # Cid[i] /\ pendingRequests'[k] = pendingRequests[k]
      BY <3>1
    <3>3. NoStaleEntry' /\ EntriesKeyed'
      <4>1. ASSUME NEW k \in Cids, pendingRequests'[k] # None
            PROVE  /\ pendingRequests'[k] \in Requests
                   /\ pc[pendingRequests'[k]] = "wait" /\ pendingRequests'[k] # i
                   /\ Cid[pendingRequests'[k]] = k
        BY <3>2, <4>1
      <4>. QED  BY <3>1, <4>1
    <3>4. OneResponder'
      <4>1. \A t \in sending : t.to \in Requests /\ Cid[t.to] \in Cids
        BY DEF Senders
      <4>2. \A t \in sending : pendingRequests'[Cid[t.to]] # t.to
        BY <3>1, <4>1
      <4>. QED  BY <3>1, <4>2
    <3>5. SendersWereAwaited'
      BY <3>1 DEF Senders
    <3>. QED  BY <3>3, <3>4, <3>5
  <2>. QED  BY <1>2, <2>1, <2>2, <2>3, <2>4, <2>5 DEF Call
<1>3. ASSUME NEW m \in replies, ReceiveReply(m)
      PROVE  Rendezvous'
  BY <1>3 DEF ReceiveReply
<1>4. ASSUME NEW m \in arrived, Lookup(m)
      PROVE  Rendezvous'
  <2>0. m.request \in Requests
    BY DEF Messages, Deliveries, ReturnOf
  <2>1. CASE CallOf(m) # None
    <3>. DEFINE k == Cid[m.request]
                i == pendingRequests[k]
                new == [message |-> m, to |-> i]
    <3>1. /\ k \in Cids /\ i \in Requests /\ Cid[i] = k /\ pc[i] = "wait" /\ i # None
          /\ pendingRequests' = [pendingRequests EXCEPT ![k] = None]
          /\ sending' = sending \cup {new} /\ pc' = pc
      BY <1>4, <2>0, <2>1 DEF Lookup, CallOf, Sending
    <3>2. \A t \in sending : t.to # i /\ t.to \in Requests
      BY <3>1 DEF Senders
    <3>3. \A t \in sending' : pendingRequests'[Cid[t.to]] # t.to
      BY <3>1, <3>2
    <3>4. \A t, u \in sending' : t.to = u.to => t = u
      BY <3>1, <3>2
    <3>5. NoStaleEntry' /\ EntriesKeyed' /\ SendersWereAwaited'
      BY <3>1
    <3>. QED  BY <3>3, <3>4, <3>5
  <2>2. CASE CallOf(m) = None
    BY <1>4, <2>0, <2>2 DEF Lookup, CallOf
  <2>. QED  BY <2>1, <2>2
<1>. QED
  BY <1>1, <1>2, <1>3, <1>4 DEF Next, vars, ReplyConsumerLost, ReplyConsumerReopens

(***************************************************************************)
(* Steps of the Lambda Server other than a publication touch no request    *)
(* the broker holds and no handler.                                        *)
(***************************************************************************)
LEMMA HeldOnceStep ==
    ASSUME Typed, HeldOnce, Next
    PROVE  HeldOnce'
<1>. USE DEF Typed, TypeOK, ServerTypeOK, HeldOnce
<1>1. ASSUME NEW i \in Requests, Call(i)
      PROVE  HeldOnce'
  <2>1. CASE Invoke(i)
    BY <2>1 DEF Invoke, Goto, servervars
  <2>2. CASE Send(i)
    <3>1. i \notin queued /\ \A s \in Servers : i \notin unacked[s]
      BY <2>2 DEF Send, Goto
    <3>2. queued' \subseteq queued \cup {i} /\ unacked' = unacked
      BY <2>2 DEF Send
    <3>. QED  BY <2>2, <3>1, <3>2 DEF Send, Goto
  <2>3. CASE Store(i)
    BY <2>3 DEF Store, Goto, servervars
  <2>4. CASE \E t \in sending : Receive(i, t)
    BY <2>4 DEF Receive, Goto, servervars
  <2>5. CASE CtxDone(i)
    BY <2>5 DEF CtxDone, Goto, servervars
  <2>. QED  BY <1>1, <2>1, <2>2, <2>3, <2>4, <2>5 DEF Call
<1>2. ASSUME NEW s \in Servers, Server(s), UNCHANGED invokervars
      PROVE  HeldOnce'
  <2>. USE <1>2 DEF invokervars
  <2>1. CASE ConsumerOpens(s)
    BY <2>1 DEF ConsumerOpens
  <2>2. CASE Requeue(s)
    <3>1. unacked'[s] = {} /\ queued' \subseteq queued \cup unacked[s]
      BY <2>2 DEF Requeue
    <3>2. \A t \in Servers : t # s => unacked'[t] = unacked[t]
      BY <2>2 DEF Requeue
    <3>. QED  BY <3>1, <3>2
  <2>3. ASSUME NEW h \in HandlersOf(s), RPCHandler(h) \/ Hangs(h)
        PROVE  HeldOnce'
    <3>1. queued' = queued /\ \A t \in Servers : unacked'[t] \subseteq unacked[t]
      BY <2>3 DEF RPCHandler, InvokeReturns, SendReply, Acknowledge, Hangs
    <3>. QED  BY <3>1
  <2>4. ASSUME NEW i \in Requests, Deliver(s, i)
        PROVE  HeldOnce'
    <3>1. i \in queued /\ queued' = queued \ {i} /\ unacked'[s] = unacked[s] \cup {i}
      BY <2>4 DEF Deliver
    <3>2. \A t \in Servers : t # s => unacked'[t] = unacked[t]
      BY <2>4 DEF Deliver
    <3>. QED  BY <3>1, <3>2
  <2>. QED  BY <2>1, <2>2, <2>3, <2>4 DEF Server, ConsumerLost, DaemonExits
<1>3. CASE \/ \E m \in replies : ReceiveReply(m)
           \/ \E m \in arrived : Lookup(m)
           \/ ReplyConsumerLost \/ ReplyConsumerReopens
  BY <1>3 DEF ReceiveReply, Lookup, ReplyConsumerLost, ReplyConsumerReopens, servervars,
              invokervars
<1>. QED  BY <1>1, <1>2, <1>3 DEF Next

(***************************************************************************)
(* The steps that are not a daemon's.                                      *)
(***************************************************************************)
LEMMA HandlersUntouched ==
    ASSUME Next, ~\E s \in Servers : Server(s)
    PROVE  UNCHANGED <<handlers, unacked, epoch>>
BY DEF Next, Call, Invoke, Send, Store, Receive, CtxDone, ReceiveReply, Lookup,
       ReplyConsumerLost, ReplyConsumerReopens, servervars

(***************************************************************************)
(* A delivery that is made has no handler yet: the request was queued, so  *)
(* it is not unacknowledged.                                               *)
(***************************************************************************)
LEMMA HandledOnceStep ==
    ASSUME Typed, HeldOnce, HandledOnce, NEW s \in Servers, Server(s)
    PROVE  HandledOnce'
<1>. USE DEF Typed, TypeOK, ServerTypeOK, HandledOnce
<1>1. CASE ConsumerOpens(s)
  BY <1>1 DEF ConsumerOpens
<1>2. CASE ConsumerLost(s) \/ DaemonExits(s)
  <2>1. handlers' \subseteq handlers
    BY <1>2 DEF ConsumerLost, DaemonExits
  <2>2. epoch' = [epoch EXCEPT ![s] = @ + 1] /\ unacked' = [unacked EXCEPT ![s] = {}]
    BY <1>2 DEF ConsumerLost, DaemonExits, Requeue
  <2>3. \A h \in handlers : h.delivery.epoch \in Nat /\ h.delivery.server \in Servers
    BY DEF Handlers, Deliveries
  <2>. QED  BY <2>1, <2>2, <2>3
<1>3. ASSUME NEW h \in HandlersOf(s), NEW place \in {"invoke", "reply", "ack", "hung"},
             HandlerAt(h, place), UNCHANGED <<epoch, unacked>>
      PROVE  HandledOnce'
  <2>. DEFINE g == [h EXCEPT !.pc = place]
  <2>1. h \in handlers /\ g.delivery = h.delivery
    BY DEF HandlersOf, Handlers
  <2>2. handlers' = (handlers \ {h}) \cup {g}
    BY <1>3 DEF HandlerAt
  <2>3. \A f \in handlers \ {h} : f.delivery # g.delivery
    BY <2>1
  <2>4. \A f, k \in handlers' : f.delivery = k.delivery => f = k
    BY <2>2, <2>3
  <2>5. \A f \in handlers' : \E k \in handlers : k.delivery = f.delivery
    BY <2>1, <2>2
  <2>. QED  BY <1>3, <2>4, <2>5
<1>4. ASSUME NEW h \in HandlersOf(s), Acknowledge(h)
      PROVE  HandledOnce'
  <2>1. h \in handlers /\ h.delivery \in Deliveries /\ h.delivery.server = s
    BY DEF HandlersOf, Handlers
  <2>2. handlers' = handlers \ {h} /\ epoch' = epoch
    BY <1>4 DEF Acknowledge
  <2>3. ASSUME NEW f \in handlers', f.delivery.epoch = epoch[f.delivery.server]
        PROVE  f.delivery.request \in unacked'[f.delivery.server]
    <3>1. f \in handlers /\ f.delivery # h.delivery /\ f.delivery \in Deliveries
      BY <2>1, <2>2 DEF Handlers
    <3>2. f.delivery.request \in unacked[f.delivery.server]
      BY <2>3, <3>1
    <3>3. CASE h.delivery.epoch = epoch[s] /\ f.delivery.server = s
      <4>1. f.delivery.request # h.delivery.request
        BY <2>1, <2>3, <3>1, <3>3 DEF Deliveries
      <4>. QED  BY <1>4, <2>1, <3>2, <3>3, <4>1 DEF Acknowledge
    <3>4. CASE h.delivery.epoch # epoch[s] \/ f.delivery.server # s
      <4>1. f.delivery.server \in Servers
        BY <3>1 DEF Deliveries
      <4>. QED  BY <1>4, <2>1, <3>2, <3>4, <4>1 DEF Acknowledge
    <3>. QED  BY <3>3, <3>4
  <2>. QED  BY <2>2, <2>3
<1>5. ASSUME NEW i \in Requests, Deliver(s, i)
      PROVE  HandledOnce'
  <2>. DEFINE new == [delivery |-> [request |-> i, server |-> s, epoch |-> epoch[s]],
                      pc |-> "invoke"]
  <2>1. handlers' = handlers \cup {new} /\ epoch' = epoch /\ i \notin unacked[s]
    BY <1>5 DEF Deliver, HeldOnce
  <2>2. /\ unacked'[s] = unacked[s] \cup {i}
        /\ \A t \in Servers : unacked[t] \subseteq unacked'[t]
    BY <1>5 DEF Deliver
  <2>3. \A h \in handlers : h.delivery # new.delivery
    BY <2>1
  <2>4. \A h \in handlers : h.delivery.server \in Servers
    BY DEF Handlers, Deliveries
  <2>5. new.delivery.epoch <= epoch[s]
    OBVIOUS
  <2>. QED  BY <2>1, <2>2, <2>3, <2>4, <2>5
<1>. QED
  BY <1>1, <1>2, <1>3, <1>4, <1>5 DEF Server, RPCHandler, InvokeReturns, SendReply, Hangs

(***************************************************************************)
(* There are as many present deliveries as requests not acknowledged.      *)
(***************************************************************************)
LEMMA PresentBounded ==
    ASSUME Typed, Prefetched, NEW s \in Servers
    PROVE  /\ IsFiniteSet(Present(s)) /\ Cardinality(Present(s)) \in Nat
           /\ Cardinality(Present(s)) <= Capacity
<1>. DEFINE delivery == [i \in unacked[s] |->
                           [request |-> i, server |-> s, epoch |-> epoch[s]]]
<1>1. IsFiniteSet(unacked[s]) /\ Cardinality(unacked[s]) \in Nat
  BY FS_Subset, FS_CardinalityType DEF Typed, TypeOK, ServerTypeOK
<1>2. delivery \in Surjection(unacked[s], Present(s))
  BY DEF Surjection, Present
<1>. HIDE DEF delivery
<1>3. IsFiniteSet(Present(s)) /\ Cardinality(Present(s)) <= Cardinality(unacked[s])
  BY <1>1, <1>2, FS_Surjection, Zenon
<1>4. Cardinality(Present(s)) \in Nat
  BY <1>3, FS_CardinalityType
<1>. QED  BY <1>1, <1>3, <1>4 DEF Prefetched

(***************************************************************************)
(* What the handlers of s work on.                                         *)
(***************************************************************************)
LEMMA PastOrPresent ==
    ASSUME Typed, HandledOnce, NEW s \in Servers, NEW h \in HandlersOf(s)
    PROVE  h.delivery \in Past(s) \cup Present(s)
<1>1. h \in handlers /\ h.delivery \in Deliveries /\ h.delivery.server = s
  BY DEF HandlersOf, Typed, TypeOK, ServerTypeOK, Handlers
<1>2. CASE h.delivery.epoch # epoch[s]
  BY <1>2 DEF Past
<1>3. CASE h.delivery.epoch = epoch[s]
  <2>1. h.delivery.request \in unacked[s]
    BY <1>1, <1>3 DEF HandledOnce
  <2>2. h.delivery = [request |-> h.delivery.request, server |-> s, epoch |-> epoch[s]]
    BY <1>1, <1>3 DEF Deliveries
  <2>. QED  BY <2>1, <2>2 DEF Present
<1>. QED  BY <1>2, <1>3

LEMMA PastAndPresent ==
    ASSUME Typed, Prefetched, NEW s \in Servers
    PROVE  /\ IsFiniteSet(Past(s) \cup Present(s))
           /\ Cardinality(Past(s) \cup Present(s)) \in Nat
           /\ Cardinality(Past(s) \cup Present(s)) <= Capacity * (epoch[s] + 1)
<1>1. IsFiniteSet(Past(s)) /\ IsFiniteSet(Present(s)) /\ Cardinality(Present(s)) <= Capacity
  BY PresentBounded DEF Prefetched
<1>2. /\ IsFiniteSet(Past(s) \cup Present(s))
      /\ Cardinality(Past(s) \cup Present(s)) =
            Cardinality(Past(s)) + Cardinality(Present(s)) - Cardinality(Past(s) \cap Present(s))
  BY <1>1, FS_Union, Zenon
<1>3. IsFiniteSet(Past(s) \cap Present(s))
  BY <1>1, FS_Intersection
<1>4. /\ Cardinality(Past(s)) \in Nat /\ Cardinality(Present(s)) \in Nat
      /\ Cardinality(Past(s) \cap Present(s)) \in Nat
      /\ Cardinality(Past(s) \cup Present(s)) \in Nat
  BY <1>1, <1>2, <1>3, FS_CardinalityType
<1>5. Cardinality(Past(s)) <= Capacity * epoch[s]
  BY DEF Prefetched
<1>6. epoch[s] \in Nat
  BY DEF Typed, TypeOK, ServerTypeOK
<1>7. Capacity * (epoch[s] + 1) = Capacity * epoch[s] + Capacity /\ Capacity * epoch[s] \in Nat
  BY <1>6
<1>. QED  BY <1>1, <1>2, <1>4, <1>5, <1>7

(***************************************************************************)
(* A delivery is made while the prefetch allows one more.  When the        *)
(* connection is lost, what was present joins what is past.                *)
(***************************************************************************)
LEMMA PrefetchedStep ==
    ASSUME Typed, Typed', HandledOnce, Prefetched, NEW s \in Servers, Server(s)
    PROVE  Prefetched'
<1>. USE DEF Typed, TypeOK, ServerTypeOK
<1>1. \A t \in Servers : IsFiniteSet(unacked[t]) /\ Cardinality(unacked[t]) \in Nat
  BY FS_Subset, FS_CardinalityType
<1>2. ASSUME NEW t \in Servers, unacked'[t] \subseteq unacked[t]
      PROVE  Cardinality(unacked'[t]) <= Capacity
  <2>1. Cardinality(unacked'[t]) <= Cardinality(unacked[t])
    BY <1>1, <1>2, FS_Subset
  <2>2. Cardinality(unacked'[t]) \in Nat
    BY <1>1, <1>2, FS_Subset, FS_CardinalityType
  <2>. QED  BY <1>1, <2>1, <2>2 DEF Prefetched
<1>3. ASSUME NEW t \in Servers, epoch'[t] = epoch[t], Past(t)' \subseteq Past(t)
      PROVE  IsFiniteSet(Past(t)') /\ Cardinality(Past(t)') <= Capacity * epoch'[t]
  <2>1. /\ IsFiniteSet(Past(t)') /\ Cardinality(Past(t)') <= Cardinality(Past(t))
        /\ Cardinality(Past(t)') \in Nat /\ Cardinality(Past(t)) \in Nat
    BY <1>3, FS_Subset, FS_CardinalityType DEF Prefetched
  <2>2. Cardinality(Past(t)) <= Capacity * epoch[t] /\ Capacity * epoch[t] \in Nat
    BY DEF Prefetched
  <2>. QED  BY <1>3, <2>1, <2>2
<1>4. CASE ConsumerOpens(s)
  <2>1. UNCHANGED <<unacked, epoch, handlers>>
    BY <1>4 DEF ConsumerOpens
  <2>. QED  BY <2>1 DEF Prefetched, Past, HandlersOf
<1>5. CASE ConsumerLost(s) \/ DaemonExits(s)
  <2>1. /\ handlers' \subseteq handlers /\ epoch' = [epoch EXCEPT ![s] = @ + 1]
        /\ \A t \in Servers : unacked'[t] \subseteq unacked[t]
    BY <1>5 DEF ConsumerLost, DaemonExits, Requeue
  <2>2. ASSUME NEW t \in Servers, t # s
        PROVE  epoch'[t] = epoch[t] /\ Past(t)' \subseteq Past(t)
    BY <2>1, <2>2 DEF Past, HandlersOf
  <2>3. Past(s)' \subseteq Past(s) \cup Present(s)
    BY <2>1, PastOrPresent DEF Past, HandlersOf
  <2>4. epoch'[s] = epoch[s] + 1
    BY <2>1
  <2>5. IsFiniteSet(Past(s)') /\ Cardinality(Past(s)') <= Capacity * epoch'[s]
    <3>1. /\ IsFiniteSet(Past(s)')
          /\ Cardinality(Past(s)') <= Cardinality(Past(s) \cup Present(s))
      BY <2>3, PastAndPresent, FS_Subset
    <3>2. Cardinality(Past(s)') \in Nat
      BY <3>1, FS_CardinalityType
    <3>3. /\ Cardinality(Past(s) \cup Present(s)) \in Nat
          /\ Cardinality(Past(s) \cup Present(s)) <= Capacity * epoch'[s]
      BY <2>4, PastAndPresent
    <3>4. Capacity * epoch'[s] \in Nat
      BY <2>4
    <3>. QED  BY <3>1, <3>2, <3>3, <3>4
  <2>6. ASSUME NEW t \in Servers
        PROVE  /\ Cardinality(unacked'[t]) <= Capacity
               /\ IsFiniteSet(Past(t)') /\ Cardinality(Past(t)') <= Capacity * epoch'[t]
    <3>1. CASE t = s
      BY <1>2, <2>1, <2>5, <3>1
    <3>2. CASE t # s
      BY <1>2, <1>3, <2>1, <2>2, <3>2
    <3>. QED  BY <3>1, <3>2
  <2>. QED  BY <2>6 DEF Prefetched
<1>6. ASSUME NEW h \in HandlersOf(s), InvokeReturns(h) \/ SendReply(h) \/ Hangs(h)
      PROVE  Prefetched'
  <2>1. /\ h \in handlers /\ UNCHANGED <<unacked, epoch>>
        /\ \E place \in {"reply", "ack", "hung"} : HandlerAt(h, place)
    BY <1>6 DEF HandlersOf, InvokeReturns, SendReply, Hangs
  <2>2. \A t \in Servers : Past(t)' = Past(t)
    BY <2>1, ToTheNextPlace
  <2>. QED  BY <2>1, <2>2 DEF Prefetched
<1>7. ASSUME NEW h \in HandlersOf(s), Acknowledge(h)
      PROVE  Prefetched'
  <2>1. /\ handlers' \subseteq handlers /\ epoch' = epoch
        /\ \A t \in Servers : unacked'[t] \subseteq unacked[t]
    BY <1>7 DEF Acknowledge
  <2>2. \A t \in Servers : Past(t)' \subseteq Past(t)
    BY <2>1 DEF Past, HandlersOf
  <2>3. ASSUME NEW t \in Servers
        PROVE  /\ Cardinality(unacked'[t]) <= Capacity
               /\ IsFiniteSet(Past(t)') /\ Cardinality(Past(t)') <= Capacity * epoch'[t]
    BY <1>2, <1>3, <2>1, <2>2
  <2>. QED  BY <2>3 DEF Prefetched
<1>8. ASSUME NEW i \in Requests, Deliver(s, i)
      PROVE  Prefetched'
  <2>1. /\ epoch' = epoch
        /\ handlers' = handlers \cup
              {[delivery |-> [request |-> i, server |-> s, epoch |-> epoch[s]],
                pc |-> "invoke"]}
    BY <1>8 DEF Deliver
  <2>2. /\ unacked'[s] = unacked[s] \cup {i}
        /\ \A t \in Servers : t # s => unacked'[t] = unacked[t]
    BY <1>8 DEF Deliver
  <2>3. Cardinality(unacked'[s]) <= Capacity
    <3>1. Cardinality(unacked[s]) < Capacity
      BY <1>8 DEF Deliver
    <3>2. IsFiniteSet(unacked[s]) /\ Cardinality(unacked[s]) \in Nat
      BY <1>1
    <3>3. Cardinality(unacked[s] \cup {i}) =
             IF i \in unacked[s] THEN Cardinality(unacked[s]) ELSE Cardinality(unacked[s]) + 1
      BY <3>2, FS_AddElement, Zenon
    <3>. QED  BY <2>2, <3>1, <3>2, <3>3
  <2>4. \A t \in Servers : Past(t)' \subseteq Past(t)
    BY <2>1 DEF Past, HandlersOf
  <2>5. ASSUME NEW t \in Servers
        PROVE  /\ Cardinality(unacked'[t]) <= Capacity
               /\ IsFiniteSet(Past(t)') /\ Cardinality(Past(t)') <= Capacity * epoch'[t]
    <3>1. CASE t = s
      BY <1>3, <2>1, <2>3, <2>4, <3>1
    <3>2. CASE t # s
      BY <1>2, <1>3, <2>1, <2>2, <2>4, <3>2
    <3>. QED  BY <3>1, <3>2
  <2>. QED  BY <2>5 DEF Prefetched
<1>. QED  BY <1>4, <1>5, <1>6, <1>7, <1>8 DEF Server, RPCHandler

LEMMA InvNext == Inv /\ [Next]_vars => Inv'
<1>. SUFFICES ASSUME Inv, [Next]_vars PROVE Inv'
  OBVIOUS
<1>. USE DEF Inv
<1>1. CASE Next
  <2>1. Typed'
    BY <1>1, ServerTyped, InvokerTyped DEF Next
  <2>2. HeldOnce' /\ Rendezvous'
    BY <1>1, HeldOnceStep, RendezvousStep
  <2>3. CASE \E s \in Servers : Server(s)
    BY <2>1, <2>2, <2>3, HandledOnceStep, PrefetchedStep
  <2>4. CASE ~\E s \in Servers : Server(s)
    <3>1. UNCHANGED <<handlers, unacked, epoch>>
      BY <1>1, <2>4, HandlersUntouched
    <3>2. HandledOnce'
      BY <3>1 DEF HandledOnce
    <3>3. Prefetched'
      BY <3>1 DEF Prefetched, Past, HandlersOf
    <3>. QED  BY <2>1, <2>2, <3>2, <3>3
  <2>. QED  BY <2>3, <2>4
<1>2. CASE UNCHANGED vars
  <2>. USE <1>2 DEF vars, servervars, invokervars
  <2>1. Typed' /\ HeldOnce'
    BY DEF Typed, TypeOK, ServerTypeOK, EpochsAreFaults, HeldOnce
  <2>2. HandledOnce' /\ Rendezvous'
    BY RendezvousStep DEF HandledOnce
  <2>3. Prefetched'
    BY DEF Prefetched, Past, HandlersOf
  <2>. QED  BY <2>1, <2>2, <2>3
<1>. QED  BY <1>1, <1>2

(***************************************************************************)
(* Inv is an invariant of the Lambda Server, the broker and the daemons.   *)
(***************************************************************************)
THEOREM Invariant == Spec => []Inv
<1>. QED  BY InvInit, InvNext, PTL DEF Spec

(***************************************************************************)
(* Every variable stays within its type: invoke answers with a response,   *)
(* an error or nothing but at its timeout.                                 *)
(***************************************************************************)
THEOREM TypeCorrect == Spec => []TypeOK
<1>1. Inv => TypeOK
  BY DEF Inv, Typed
<1>. QED  BY Invariant, <1>1, PTL

(***************************************************************************)
(* No timeout, and no late, lost or second reply, leaves an entry in       *)
(* pendingRequests (rpcinvoker.go:280-304).                                *)
(***************************************************************************)
THEOREM EntriesRemoved == Spec => []NoStaleEntry
<1>1. Inv => NoStaleEntry
  BY DEF Inv, Rendezvous
<1>. QED  BY Invariant, <1>1, PTL

(***************************************************************************)
(* Executed as often as may be, a request has one goroutine that sends on  *)
(* its response channel (rpcinvoker.go:129-146).                           *)
(***************************************************************************)
THEOREM ResponderUnique == Spec => []OneResponder
<1>1. Inv => OneResponder
  BY DEF Inv, Rendezvous
<1>. QED  BY Invariant, <1>1, PTL

(***************************************************************************)
(* A call that waits has an entry in pendingRequests, or a goroutine       *)
(* sends to it, when no other call has its id (rpcinvoker.go:129-146,      *)
(* 278-304).                                                               *)
(***************************************************************************)
THEOREM WaitersFound == ASSUME UniqueCids PROVE Spec => []WaiterReachable
<1>1. Init => WaiterReachable
  BY DEF Init, WaiterReachable
<1>2. Inv /\ WaiterReachable /\ [Next]_vars => WaiterReachable'
  <2>. SUFFICES ASSUME Inv, WaiterReachable, [Next]_vars PROVE WaiterReachable'
    OBVIOUS
  <2>. USE DEF Inv, Typed, TypeOK, WaiterReachable, Goto
  <2>1. CASE UNCHANGED invokervars
    BY <2>1 DEF invokervars
  <2>2. ASSUME NEW i \in Requests, Call(i) PROVE WaiterReachable'
    <3>1. CASE Invoke(i) \/ Send(i)
      BY <3>1 DEF Invoke, Send
    <3>2. CASE Store(i)
      BY <3>2 DEF Store, UniqueCids
    <3>3. ASSUME NEW t \in sending, Receive(i, t) PROVE WaiterReachable'
      BY <3>3 DEF Receive
    <3>4. CASE CtxDone(i)
      BY <3>4 DEF CtxDone, UniqueCids
    <3>. QED  BY <2>2, <3>1, <3>2, <3>3, <3>4 DEF Call
  <2>3. CASE \E m \in replies : ReceiveReply(m)
    BY <2>3 DEF ReceiveReply
  <2>4. ASSUME NEW m \in arrived, Lookup(m) PROVE WaiterReachable'
    <3>1. m.request \in Requests
      BY DEF Messages, Deliveries, ReturnOf
    <3>2. ASSUME NEW i \in Requests, pc'[i] = "wait"
          PROVE  pendingRequests'[Cid[i]] = i \/ \E t \in sending' : t.to = i
      <4>1. CASE \E t \in sending : t.to = i
        BY <2>4, <4>1 DEF Lookup, Sending
      <4>2. CASE pendingRequests[Cid[i]] = i /\ Cid[i] = Cid[m.request]
        <5>1. CallOf(m) = i /\ i # None
          BY <4>2 DEF CallOf
        <5>2. [message |-> m, to |-> i] \in sending'
          BY <2>4, <5>1 DEF Lookup, Sending
        <5>. QED  BY <5>2
      <4>3. CASE pendingRequests[Cid[i]] = i /\ Cid[i] # Cid[m.request]
        BY <2>4, <3>1, <4>3 DEF Lookup
      <4>. QED  BY <2>4, <3>2, <4>1, <4>2, <4>3 DEF Lookup
    <3>. QED  BY <3>2
  <2>. QED
    BY <2>1, <2>2, <2>3, <2>4
    DEF Next, vars, ReplyConsumerLost, ReplyConsumerReopens
<1>. QED  BY <1>1, <1>2, Invariant, PTL DEF Spec

(***************************************************************************)
(* A daemon has no more handlers than a prefetch for each connection it    *)
(* has had (rpcserver.go:98-103, 121-125): each works on a delivery of its *)
(* own.                                                                    *)
(***************************************************************************)
THEOREM PrefetchBounds == Spec => []InFlightBounded
<1>1. ASSUME Inv, NEW s \in Servers
      PROVE  Cardinality(HandlersOf(s)) <= Capacity * (epoch[s] + 1)
  <2>. DEFINE deliveries == Past(s) \cup Present(s)
              delivery == [h \in HandlersOf(s) |-> h.delivery]
  <2>. USE <1>1 DEF Inv
  <2>1. /\ IsFiniteSet(deliveries) /\ Cardinality(deliveries) \in Nat
        /\ Cardinality(deliveries) <= Capacity * (epoch[s] + 1)
    BY PastAndPresent
  <2>2. ASSUME NEW g \in HandlersOf(s), NEW h \in HandlersOf(s), g.delivery = h.delivery
        PROVE  g = h
    BY <2>2 DEF HandledOnce, HandlersOf
  <2>3. \A h \in HandlersOf(s) : h.delivery \in deliveries
    BY PastOrPresent
  <2>. HIDE DEF deliveries
  <2>4. delivery \in Injection(HandlersOf(s), deliveries)
    BY <2>2, <2>3 DEF Injection, IsInjective
  <2>. HIDE DEF delivery
  <2>5. /\ IsFiniteSet(HandlersOf(s))
        /\ Cardinality(HandlersOf(s)) <= Cardinality(deliveries)
    BY <2>1, <2>4, FS_Injection, Zenon
  <2>6. Cardinality(HandlersOf(s)) \in Nat
    BY <2>5, FS_CardinalityType
  <2>7. Capacity * (epoch[s] + 1) \in Nat
    BY DEF Typed, TypeOK, ServerTypeOK
  <2>. QED  BY <2>1, <2>5, <2>6, <2>7
<1>2. Inv => InFlightBounded
  BY <1>1 DEF InFlightBounded
<1>. QED  BY Invariant, <1>2, PTL

(***************************************************************************)
(* What AtLeastOnce says of a step.  It follows from the types: every step *)
(* moves a request from one holder to another, or is one of the two ways.  *)
(***************************************************************************)
LetGo ==
    \A i \in Held \ Held' :
        \/ ~QueueExists'
        \/ \E h \in handlers : h.delivery.request = i /\ h.pc = "ack"

LEMMA LetGoStep ==
    ASSUME Typed, [Next]_vars
    PROVE  LetGo
<1>. USE DEF Typed, TypeOK, ServerTypeOK
<1>1. ASSUME queued \subseteq queued', unacked' = unacked
      PROVE  LetGo
  BY <1>1 DEF LetGo, Held
<1>2. ASSUME NEW i \in Requests, Call(i)
      PROVE  LetGo
  BY <1>1, <1>2 DEF Call, Invoke, Send, Store, Receive, CtxDone, servervars
<1>3. ASSUME NEW s \in Servers, Server(s)
      PROVE  LetGo
  <2>1. CASE ConsumerOpens(s)
    BY <1>1, <2>1 DEF ConsumerOpens
  <2>2. CASE Requeue(s)
    <3>1. CASE \E t \in Servers \ {s} : link[t]
      <4>1. queued' = queued \cup unacked[s] /\ unacked' = [unacked EXCEPT ![s] = {}]
        BY <2>2, <3>1 DEF Requeue
      <4>2. Held \subseteq Held'
        BY <4>1 DEF Held
      <4>. QED  BY <4>2 DEF LetGo
    <3>2. CASE ~\E t \in Servers \ {s} : link[t]
      <4>1. ~QueueExists'
        BY <2>2, <3>2 DEF Requeue, QueueExists
      <4>. QED  BY <4>1 DEF LetGo
    <3>. QED  BY <3>1, <3>2
  <2>3. ASSUME NEW h \in HandlersOf(s), InvokeReturns(h) \/ SendReply(h) \/ Hangs(h)
        PROVE  LetGo
    BY <1>1, <2>3 DEF InvokeReturns, SendReply, Hangs
  <2>4. ASSUME NEW h \in HandlersOf(s), Acknowledge(h)
        PROVE  LetGo
    <3>1. h \in handlers /\ h.pc = "ack" /\ queued' = queued
      BY <2>4 DEF HandlersOf, Acknowledge
    <3>2. \A t \in Servers : unacked[t] \subseteq unacked'[t] \cup {h.delivery.request}
      BY <2>4 DEF Acknowledge
    <3>3. Held \subseteq Held' \cup {h.delivery.request}
      BY <3>1, <3>2 DEF Held
    <3>. QED  BY <3>1, <3>3 DEF LetGo
  <2>5. ASSUME NEW i \in Requests, Deliver(s, i)
        PROVE  LetGo
    <3>1. queued' = queued \ {i} /\ unacked' = [unacked EXCEPT ![s] = @ \cup {i}]
      BY <2>5 DEF Deliver
    <3>2. Held \subseteq Held'
      BY <3>1 DEF Held
    <3>. QED  BY <3>2 DEF LetGo
  <2>. QED  BY <1>3, <2>1, <2>2, <2>3, <2>4, <2>5 DEF Server, RPCHandler, ConsumerLost, DaemonExits
<1>4. CASE \/ \E m \in replies : ReceiveReply(m)
           \/ \E m \in arrived : Lookup(m)
           \/ ReplyConsumerLost \/ ReplyConsumerReopens \/ UNCHANGED vars
  BY <1>1, <1>4 DEF ReceiveReply, Lookup, ReplyConsumerLost, ReplyConsumerReopens, vars,
                    servervars
<1>. QED  BY <1>2, <1>3, <1>4 DEF Next

(***************************************************************************)
(* A request leaves the broker when it has been executed and answered, or  *)
(* with its queue (rpcserver.go:117, 154-167): a lost connection or daemon *)
(* moves what it held to the queue.                                        *)
(***************************************************************************)
THEOREM ExecutedAtLeastOnce == Spec => AtLeastOnce
<1>1. Inv /\ [Next]_vars => LetGo
  BY LetGoStep DEF Inv
<1>. QED  BY Invariant, <1>1, PTL DEF Spec, AtLeastOnce, LetGo
-----------------------------------------------------------------------------
(***************************************************************************)
(* A step that acknowledges nothing and keeps handlers at their deliveries *)
(* leaks nothing.                                                          *)
(***************************************************************************)
LEMMA UnackedFrame ==
    ASSUME UnackedHandled, UNCHANGED epoch,
           \A s \in Servers : unacked'[s] \subseteq unacked[s],
           \A h \in handlers : \E g \in handlers' : g.delivery = h.delivery
    PROVE  UnackedHandled'
BY DEF UnackedHandled

LEMMA UnackedStep ==
    ASSUME TypeOK, UnackedHandled, NEW s \in Servers, Server(s)
    PROVE  UnackedHandled'
<1>. USE DEF TypeOK, ServerTypeOK
<1>1. CASE ConsumerOpens(s)
  BY <1>1, UnackedFrame DEF ConsumerOpens
<1>2. CASE ConsumerLost(s) \/ DaemonExits(s)
  <2>1. /\ unacked' = [unacked EXCEPT ![s] = {}]
        /\ \A t \in Servers : t # s => epoch'[t] = epoch[t]
        /\ \A h \in handlers : h.delivery.server # s => h \in handlers'
    BY <1>2 DEF ConsumerLost, DaemonExits, Requeue, HandlersOf
  <2>2. ASSUME NEW t \in Servers, NEW i \in unacked'[t]
        PROVE  \E h \in handlers' :
                  h.delivery = [request |-> i, server |-> t, epoch |-> epoch'[t]]
    <3>1. t # s /\ i \in unacked[t]
      BY <2>1, <2>2
    <3>2. PICK h \in handlers :
             h.delivery = [request |-> i, server |-> t, epoch |-> epoch[t]]
      BY <3>1 DEF UnackedHandled
    <3>3. h.delivery.server = t
      BY <3>2
    <3>. QED  BY <2>1, <3>1, <3>2, <3>3
  <2>. QED  BY <2>2 DEF UnackedHandled
<1>3. ASSUME NEW h \in HandlersOf(s), InvokeReturns(h) \/ SendReply(h) \/ Hangs(h)
      PROVE  UnackedHandled'
  <2>1. PICK place \in {"reply", "ack", "hung"} : HandlerAt(h, place)
    BY <1>3 DEF InvokeReturns, SendReply, Hangs
  <2>2. h \in Handlers /\ [h EXCEPT !.pc = place].delivery = h.delivery
    BY DEF HandlersOf, Handlers
  <2>3. \A f \in handlers : \E g \in handlers' : g.delivery = f.delivery
    BY <2>1, <2>2 DEF HandlerAt
  <2>. QED  BY <1>3, <2>3, UnackedFrame DEF InvokeReturns, SendReply, Hangs
<1>4. ASSUME NEW h \in HandlersOf(s), Acknowledge(h) PROVE UnackedHandled'
  <2>1. handlers' = handlers \ {h} /\ epoch' = epoch
    BY <1>4 DEF Acknowledge
  <2>2. ASSUME NEW t \in Servers, NEW i \in unacked'[t]
        PROVE  \E g \in handlers' :
                  g.delivery = [request |-> i, server |-> t, epoch |-> epoch'[t]]
    <3>1. i \in unacked[t]
      BY <1>4, <2>2 DEF Acknowledge
    <3>2. PICK g \in handlers :
             g.delivery = [request |-> i, server |-> t, epoch |-> epoch[t]]
      BY <3>1 DEF UnackedHandled
    <3>3. g # h
      BY <1>4, <2>2, <3>2 DEF Acknowledge
    <3>. QED  BY <2>1, <3>2, <3>3
  <2>. QED  BY <2>2 DEF UnackedHandled
<1>5. ASSUME NEW i \in Requests, Deliver(s, i) PROVE UnackedHandled'
  <2>1. /\ handlers' = handlers \cup
              {[delivery |-> [request |-> i, server |-> s, epoch |-> epoch[s]],
                pc |-> "invoke"]}
        /\ unacked' = [unacked EXCEPT ![s] = @ \cup {i}] /\ epoch' = epoch
    BY <1>5 DEF Deliver
  <2>2. ASSUME NEW t \in Servers, NEW j \in unacked'[t]
        PROVE  \E g \in handlers' :
                  g.delivery = [request |-> j, server |-> t, epoch |-> epoch'[t]]
    <3>1. CASE j \in unacked[t]
      BY <2>1, <3>1 DEF UnackedHandled
    <3>2. CASE j \notin unacked[t]
      <4>1. t = s /\ j = i
        BY <2>1, <2>2, <3>2
      <4>. DEFINE new == [delivery |-> [request |-> i, server |-> s, epoch |-> epoch[s]],
                          pc |-> "invoke"]
      <4>2. new \in handlers' /\ epoch'[t] = epoch[s]
        BY <2>1, <4>1
      <4>. QED  BY <4>1, <4>2
    <3>. QED  BY <3>1, <3>2
  <2>. QED  BY <2>2 DEF UnackedHandled
<1>. QED  BY <1>1, <1>2, <1>3, <1>4, <1>5 DEF Server, RPCHandler

(***************************************************************************)
(* Every delivery that takes a place in the prefetch of a connection has   *)
(* the handler that will give it back (rpcserver.go:121-125, 154-167).     *)
(***************************************************************************)
THEOREM PrefetchNotLeaked == Spec => []UnackedHandled
<1>1. Init => UnackedHandled
  BY DEF Init, ServerInit, UnackedHandled
<1>2. TypeOK /\ UnackedHandled /\ [Next]_vars => UnackedHandled'
  <2>1. UNCHANGED <<handlers, unacked, epoch>> /\ UnackedHandled => UnackedHandled'
    BY DEF UnackedHandled
  <2>2. UNCHANGED vars => UNCHANGED <<handlers, unacked, epoch>>
    BY DEF vars, servervars
  <2>. QED  BY <2>1, <2>2, UnackedStep, HandlersUntouched
<1>. QED  BY <1>1, <1>2, TypeCorrect, PTL DEF Spec
-----------------------------------------------------------------------------
(***************************************************************************)
(* Where a request or a message of it may be, by what became of the        *)
(* request: the broker and the daemons hold only what was queued, a reply  *)
(* is of an execution, and a returned request is nowhere else.             *)
(***************************************************************************)
WellFated(m) == fate[m.request] = IF m.server = NoServer THEN "returned" ELSE "executed"

Sent == {t.message : t \in sending}

Accepted(i) == fate[i] \in {"queued", "executed"}

FateAgrees ==
    /\ \A i \in Requests : fate[i] = "none" <=> pc[i] \in {"idle", "send"}
    /\ \A i \in queued : Accepted(i)
    /\ \A s \in Servers : \A i \in unacked[s] : Accepted(i)
    /\ \A h \in handlers : Accepted(h.delivery.request)
    /\ \A h \in handlers : h.pc \in {"reply", "ack"} => fate[h.delivery.request] = "executed"
    /\ \A m \in replies \cup arrived \cup Sent : WellFated(m)
    /\ \A t \in sending : Cid[t.message.request] = Cid[t.to]

LEMMA FateInit == Init => FateAgrees
<1>1. Init => Sent = {}
  BY DEF Init, Sent
<1>. QED  BY <1>1 DEF Init, ServerInit, FateAgrees

(***************************************************************************)
(* Messages are about requests.                                            *)
(***************************************************************************)
LEMMA MessageTypes ==
    ASSUME TypeOK
    PROVE  /\ \A m \in replies \cup arrived \cup Sent : m.request \in Requests
           /\ \A t \in sending : t.message \in Sent /\ t.to \in Requests
BY DEF TypeOK, ServerTypeOK, Messages, Deliveries, ReturnOf, Sent, Senders

(***************************************************************************)
(* A step that leaves fate alone and adds no request and no message where  *)
(* none was keeps FateAgrees.                                              *)
(***************************************************************************)
LEMMA FateFrame ==
    ASSUME TypeOK, FateAgrees, UNCHANGED fate,
           \A i \in Requests : pc'[i] \in {"idle", "send"} <=> pc[i] \in {"idle", "send"},
           \A i \in queued' : i \in queued \/ \E s \in Servers : i \in unacked[s],
           \A s \in Servers : \A i \in unacked'[s] : i \in queued \/ i \in unacked[s],
           \A h \in handlers' : \/ h \in handlers
                                \/ h.delivery.request \in queued /\ h.pc = "invoke",
           \A m \in replies' \cup arrived' \cup Sent' :
                m \in replies \cup arrived \cup Sent,
           \A t \in sending' : Cid[t.message.request] = Cid[t.to]
    PROVE  FateAgrees'
<1>1. \A i \in Requests : fate'[i] = "none" <=> pc'[i] \in {"idle", "send"}
  BY DEF FateAgrees
<1>2. \A i \in Requests : Accepted(i)' <=> Accepted(i)
  BY DEF Accepted
<1>3. queued \subseteq Requests /\ \A s \in Servers : unacked[s] \subseteq Requests
  BY DEF TypeOK, ServerTypeOK
<1>4. \A i \in queued' : Accepted(i)'
  BY <1>2, <1>3 DEF FateAgrees
<1>5. \A s \in Servers : \A i \in unacked'[s] : Accepted(i)'
  BY <1>2, <1>3 DEF FateAgrees
<1>6. \A h \in handlers' : Accepted(h.delivery.request)'
  BY <1>3 DEF FateAgrees, Accepted
<1>7. \A h \in handlers' : h.pc \in {"reply", "ack"} => fate'[h.delivery.request] = "executed"
  BY DEF FateAgrees
<1>8. \A m \in replies' \cup arrived' \cup Sent' : WellFated(m)'
  BY DEF FateAgrees, WellFated
<1>. QED  BY <1>1, <1>4, <1>5, <1>6, <1>7, <1>8 DEF FateAgrees

LEMMA FateServerFrame ==
    ASSUME TypeOK, FateAgrees, UNCHANGED <<fate, invokervars>>,
           \A i \in queued' : i \in queued \/ \E s \in Servers : i \in unacked[s],
           \A s \in Servers : \A i \in unacked'[s] : i \in queued \/ i \in unacked[s],
           \A h \in handlers' : \/ h \in handlers
                                \/ h.delivery.request \in queued /\ h.pc = "invoke",
           replies' = replies
    PROVE  FateAgrees'
<1>1. UNCHANGED <<pc, arrived, sending, Sent>>
  BY DEF invokervars, Sent
<1>2. \A t \in sending' : Cid[t.message.request] = Cid[t.to]
  BY <1>1 DEF FateAgrees
<1>. QED  BY <1>1, <1>2, FateFrame

LEMMA FateServer ==
    ASSUME TypeOK, FateAgrees, NEW s \in Servers, Server(s), UNCHANGED invokervars
    PROVE  FateAgrees'
<1>. USE DEF invokervars
<1>0. UNCHANGED <<pc, arrived, sending, Sent>>
  BY DEF Sent
<1>m. /\ \A m \in replies \cup arrived \cup Sent : m.request \in Requests
      /\ \A t \in sending' : Cid[t.message.request] = Cid[t.to]
  BY <1>0, MessageTypes DEF FateAgrees
<1>1. CASE ConsumerOpens(s)
  BY <1>1, FateServerFrame DEF ConsumerOpens
<1>2. CASE ConsumerLost(s) \/ DaemonExits(s)
  <2>1. /\ queued' \subseteq queued \cup unacked[s]
        /\ unacked' = [unacked EXCEPT ![s] = {}]
        /\ handlers' \subseteq handlers
        /\ UNCHANGED <<fate, replies>>
    BY <1>2 DEF ConsumerLost, DaemonExits, Requeue
  <2>2. \A t \in Servers : unacked'[t] \subseteq unacked[t]
    BY <2>1 DEF TypeOK, ServerTypeOK
  <2>. QED  BY <2>1, <2>2, FateServerFrame
<1>3. ASSUME NEW h \in HandlersOf(s), InvokeReturns(h) PROVE FateAgrees'
  <2>. DEFINE g == [h EXCEPT !.pc = "reply"]
              i == h.delivery.request
  <2>1. /\ h \in handlers /\ h \in Handlers /\ i \in Requests
        /\ g.delivery = h.delivery /\ g.pc = "reply"
    BY DEF HandlersOf, TypeOK, ServerTypeOK, Handlers, Deliveries
  <2>2. /\ handlers' = (handlers \ {h}) \cup {g}
        /\ fate' = [fate EXCEPT ![i] = "executed"]
        /\ UNCHANGED <<queued, unacked, replies>>
    BY <1>3 DEF InvokeReturns, HandlerAt
  <2>3. Accepted(i) /\ fate'[i] = "executed" /\ fate[i] # "none" /\ fate[i] # "returned"
    BY <2>1, <2>2 DEF FateAgrees, Accepted, TypeOK, ServerTypeOK
  <2>4. \A j \in Requests : j # i => fate'[j] = fate[j]
    BY <2>2 DEF TypeOK, ServerTypeOK
  <2>. HIDE DEF g, i
  <2>5. \A j \in Requests : Accepted(j) => Accepted(j)'
    BY <2>3, <2>4 DEF Accepted
  <2>6. \A j \in Requests : fate'[j] = "none" <=> pc'[j] \in {"idle", "send"}
    BY <2>1, <2>3, <2>4 DEF FateAgrees
  <2>7. ASSUME NEW m \in replies' \cup arrived' \cup Sent' PROVE WellFated(m)'
    <3>1. WellFated(m) /\ m.request \in Requests
      BY <1>0, <1>m, <2>2 DEF FateAgrees
    <3>2. CASE m.request = i
      BY <2>3, <3>1, <3>2 DEF WellFated
    <3>3. CASE m.request # i
      BY <2>4, <3>1, <3>3 DEF WellFated
    <3>. QED  BY <3>2, <3>3
  <2>8. \A j \in queued' : Accepted(j)'
    BY <2>2, <2>5 DEF FateAgrees, TypeOK, ServerTypeOK
  <2>9. \A t \in Servers : \A j \in unacked'[t] : Accepted(j)'
    BY <2>2, <2>5 DEF FateAgrees, TypeOK, ServerTypeOK
  <2>10. ASSUME NEW f \in handlers'
         PROVE  /\ Accepted(f.delivery.request)'
                /\ f.pc \in {"reply", "ack"} => fate'[f.delivery.request] = "executed"
    <3>1. CASE f.delivery.request = i
      BY <2>3, <3>1 DEF Accepted
    <3>2. CASE f.delivery.request # i
      <4>1. f \in handlers /\ f.delivery.request \in Requests
        BY <2>1, <2>2, <3>2 DEF TypeOK, ServerTypeOK, Handlers, Deliveries, i
      <4>. QED  BY <2>4, <2>5, <3>2, <4>1 DEF FateAgrees
    <3>. QED  BY <3>1, <3>2
  <2>. QED  BY <1>m, <2>6, <2>7, <2>8, <2>9, <2>10 DEF FateAgrees
<1>4. ASSUME NEW h \in HandlersOf(s), SendReply(h) PROVE FateAgrees'
  <2>. DEFINE g == [h EXCEPT !.pc = "ack"]
  <2>1. /\ h \in handlers /\ h \in Handlers /\ h.delivery \in Deliveries
        /\ g.delivery = h.delivery /\ h.pc = "reply"
    BY <1>4 DEF HandlersOf, TypeOK, ServerTypeOK, Handlers, SendReply
  <2>2. /\ handlers' = (handlers \ {h}) \cup {g}
        /\ replies' \subseteq replies \cup {h.delivery}
        /\ UNCHANGED <<queued, unacked, fate>>
    BY <1>4 DEF SendReply, HandlerAt
  <2>3. fate[h.delivery.request] = "executed" /\ h.delivery.server # NoServer
    BY <2>1 DEF FateAgrees, Deliveries
  <2>. HIDE DEF g
  <2>4. WellFated(h.delivery)
    BY <2>3 DEF WellFated
  <2>5. \A m \in replies' \cup arrived' \cup Sent' : WellFated(m)'
    BY <1>0, <2>2, <2>4 DEF FateAgrees, WellFated
  <2>6. \A f \in handlers' : /\ Accepted(f.delivery.request)'
                             /\ f.pc \in {"reply", "ack"} => fate'[f.delivery.request] = "executed"
    BY <2>1, <2>2, <2>3 DEF FateAgrees, Accepted
  <2>. QED  BY <1>0, <1>m, <2>2, <2>5, <2>6 DEF FateAgrees, Accepted
<1>5. ASSUME NEW h \in HandlersOf(s), Acknowledge(h) PROVE FateAgrees'
  <2>1. /\ handlers' \subseteq handlers /\ UNCHANGED <<fate, queued, replies>>
        /\ \A t \in Servers : unacked'[t] \subseteq unacked[t]
    BY <1>5 DEF Acknowledge, TypeOK, ServerTypeOK
  <2>. QED  BY <2>1, FateServerFrame
<1>6. ASSUME NEW i \in Requests, Deliver(s, i) PROVE FateAgrees'
  <2>1. /\ i \in queued /\ queued' \subseteq queued /\ UNCHANGED <<fate, replies>>
        /\ \A t \in Servers : unacked'[t] \subseteq unacked[t] \cup {i}
        /\ handlers' = handlers \cup
              {[delivery |-> [request |-> i, server |-> s, epoch |-> epoch[s]],
                pc |-> "invoke"]}
    BY <1>6 DEF Deliver, TypeOK, ServerTypeOK
  <2>. QED  BY <2>1, FateServerFrame
<1>7. ASSUME NEW h \in HandlersOf(s), Hangs(h) PROVE FateAgrees'
  <2>. DEFINE g == [h EXCEPT !.pc = "hung"]
  <2>1. /\ h \in handlers /\ h \in Handlers
        /\ g.delivery = h.delivery /\ g.pc = "hung" /\ h.delivery.request \in Requests
    BY DEF HandlersOf, TypeOK, ServerTypeOK, Handlers, Deliveries
  <2>2. /\ handlers' = (handlers \ {h}) \cup {g}
        /\ UNCHANGED <<queued, unacked, replies, fate>>
    BY <1>7 DEF Hangs, HandlerAt
  <2>. HIDE DEF g
  <2>3. \A f \in handlers' : /\ Accepted(f.delivery.request)'
                             /\ f.pc \in {"reply", "ack"} => fate'[f.delivery.request] = "executed"
    BY <2>1, <2>2 DEF FateAgrees, Accepted
  <2>. QED  BY <1>0, <1>m, <2>2, <2>3 DEF FateAgrees, Accepted, WellFated
<1>. QED  BY <1>1, <1>2, <1>3, <1>4, <1>5, <1>6, <1>7 DEF Server, RPCHandler

LEMMA FateInvoker ==
    ASSUME Inv, TypeOK, FateAgrees, Next, ~\E s \in Servers : Server(s) /\ UNCHANGED invokervars
    PROVE  FateAgrees'
<1>1. ASSUME NEW i \in Requests, Send(i) PROVE FateAgrees'
  <2>1. /\ fate[i] = "none" /\ pc[i] = "send"
        /\ pc' = [pc EXCEPT ![i] = "store"]
        /\ UNCHANGED <<unacked, handlers, replies, sending, Sent>>
    BY <1>1 DEF Send, Goto, FateAgrees, Sent
  <2>2. PICK f \in {"queued", "returned", "lost"} :
          /\ fate' = [fate EXCEPT ![i] = f]
          /\ queued' = queued \/ (queued' = queued \cup {i} /\ f = "queued")
          /\ arrived' = arrived \/ (arrived' = arrived \cup {ReturnOf(i)} /\ f = "returned")
    BY <1>1 DEF Send
  <2>3. fate'[i] = f /\ \A j \in Requests : j # i => fate'[j] = fate[j]
    BY <2>2 DEF TypeOK, ServerTypeOK
  <2>4. \A j \in Requests : Accepted(j) => Accepted(j)' /\ j # i
    BY <2>1, <2>3 DEF Accepted
  <2>5. \A j \in Requests : fate'[j] = "none" <=> pc'[j] \in {"idle", "send"}
    BY <2>1, <2>3 DEF FateAgrees, TypeOK
  <2>6. ASSUME NEW m \in replies' \cup arrived' \cup Sent' PROVE WellFated(m)'
    <3>1. CASE m \in replies \cup arrived \cup Sent
      <4>1. WellFated(m) /\ m.request \in Requests
        BY <3>1, MessageTypes DEF FateAgrees
      <4>2. m.request # i
        BY <2>1, <4>1 DEF WellFated
      <4>. QED  BY <2>3, <4>1, <4>2 DEF WellFated
    <3>2. CASE m = ReturnOf(i) /\ f = "returned"
      BY <2>3, <3>2 DEF WellFated, ReturnOf
    <3>. QED  BY <2>1, <2>2, <3>1, <3>2
  <2>7. \A j \in queued' : Accepted(j)'
    BY <2>2, <2>3, <2>4 DEF FateAgrees, TypeOK, ServerTypeOK, Accepted
  <2>8. \A s \in Servers : \A j \in unacked'[s] : Accepted(j)'
    BY <2>1, <2>4 DEF FateAgrees, TypeOK, ServerTypeOK
  <2>9. ASSUME NEW h \in handlers'
        PROVE  /\ Accepted(h.delivery.request)'
               /\ h.pc \in {"reply", "ack"} => fate'[h.delivery.request] = "executed"
    <3>1. h \in handlers /\ h.delivery.request \in Requests
      BY <2>1 DEF TypeOK, ServerTypeOK, Handlers, Deliveries
    <3>. QED  BY <2>3, <2>4, <3>1 DEF FateAgrees
  <2>10. \A t \in sending' : Cid[t.message.request] = Cid[t.to]
    BY <2>1 DEF FateAgrees
  <2>. QED  BY <2>5, <2>6, <2>7, <2>8, <2>9, <2>10 DEF FateAgrees
<1>2. ASSUME NEW i \in Requests, Call(i), ~Send(i) PROVE FateAgrees'
  <2>1. UNCHANGED servervars /\ arrived' = arrived /\ sending' \subseteq sending
    BY <1>2 DEF Call, Invoke, Store, Receive, CtxDone
  <2>2. \A j \in Requests : pc'[j] \in {"idle", "send"} <=> pc[j] \in {"idle", "send"}
    BY <1>2 DEF Call, Invoke, Store, Receive, CtxDone, Goto, TypeOK
  <2>3. Sent' \subseteq Sent /\ \A t \in sending' : Cid[t.message.request] = Cid[t.to]
    BY <2>1 DEF FateAgrees, Sent
  <2>. QED  BY <2>1, <2>2, <2>3, FateFrame DEF servervars
<1>3. CASE \/ \E m \in replies : ReceiveReply(m)
           \/ \E m \in arrived : Lookup(m)
           \/ ReplyConsumerLost \/ ReplyConsumerReopens
  <2>1. UNCHANGED <<fate, pc, queued, unacked, handlers>>
    BY <1>3 DEF ReceiveReply, Lookup, ReplyConsumerLost, ReplyConsumerReopens, servervars,
                invokervars
  <2>2. \A m \in replies' \cup arrived' : m \in replies \cup arrived
    BY <1>3 DEF ReceiveReply, Lookup, ReplyConsumerLost, ReplyConsumerReopens, servervars,
                invokervars
  <2>3. ASSUME NEW t \in sending'
        PROVE  /\ t.message \in arrived \cup Sent
               /\ Cid[t.message.request] = Cid[t.to]
    <3>1. CASE t \in sending
      BY <3>1 DEF FateAgrees, Sent
    <3>2. CASE t \notin sending
      <4>1. PICK m \in arrived : Lookup(m)
        BY <1>3, <3>2 DEF ReceiveReply, ReplyConsumerLost, ReplyConsumerReopens, invokervars
      <4>2. t = [message |-> m, to |-> CallOf(m)] /\ CallOf(m) # None
        BY <2>3, <3>2, <4>1 DEF Lookup, Sending
      <4>3. Cid[m.request] \in Cids
        BY <4>1, MessageTypes
      <4>4. Cid[CallOf(m)] = Cid[m.request]
        BY <4>2, <4>3 DEF CallOf, Inv, Rendezvous, EntriesKeyed
      <4>. QED  BY <4>1, <4>2, <4>4
    <3>. QED  BY <3>1, <3>2
  <2>4. \A m \in Sent' : m \in arrived \cup Sent
    BY <2>3 DEF Sent
  <2>. QED  BY <2>1, <2>2, <2>3, <2>4, FateFrame
<1>. QED  BY <1>1, <1>2, <1>3 DEF Next

(***************************************************************************)
(* Steps refine.  Only the call that moves changes its status.             *)
(***************************************************************************)
LEMMA RPCCallRefines ==
    ASSUME Inv, FateAgrees, NEW i \in Requests, Call(i)
    PROVE  [Service!Next]_<<status, fate, answer>>
<1>. USE DEF Inv, Typed, TypeOK, ServerTypeOK
<1>0. status' = [status EXCEPT ![i] = StatusOf(i)']
  <2>1. \A j \in Requests : j # i => pc'[j] = pc[j]
    BY DEF Call, Invoke, Send, Store, Receive, CtxDone, Goto
  <2>2. \A j \in Requests : j # i => StatusOf(j)' = StatusOf(j)
    BY <2>1 DEF StatusOf
  <2>. QED  BY <2>2 DEF status
<1>s. status[i] = StatusOf(i) /\ status \in [Requests -> {StatusOf(j) : j \in Requests}]
  BY DEF status
<1>1. CASE Invoke(i)
  <2>1. StatusOf(i) = "idle" /\ StatusOf(i)' = "called" /\ UNCHANGED <<fate, answer>>
    BY <1>1 DEF Invoke, Goto, StatusOf, servervars
  <2>. QED  BY <1>0, <1>s, <2>1 DEF Service!Next, Service!Call
<1>2. CASE Send(i)
  <2>1. /\ StatusOf(i) = "called" /\ StatusOf(i)' = "called" /\ UNCHANGED answer
        /\ fate[i] = "none"
    BY <1>2 DEF Send, Goto, StatusOf, FateAgrees
  <2>2. \E f \in {"queued", "returned", "lost"} : fate' = [fate EXCEPT ![i] = f]
    BY <1>2 DEF Send
  <2>3. status' = status
    BY <1>0, <1>s, <2>1
  <2>. QED  BY <1>s, <2>1, <2>2, <2>3 DEF Service!Next, Service!Publish
<1>3. CASE Store(i)
  <2>1. StatusOf(i)' = StatusOf(i) /\ UNCHANGED <<fate, answer>>
    BY <1>3 DEF Store, Goto, StatusOf, servervars
  <2>. QED  BY <1>0, <1>s, <2>1
<1>4. ASSUME NEW t \in sending, Receive(i, t) PROVE Service!Next
  <2>1. /\ StatusOf(i) = "called" /\ StatusOf(i)' = "answered" /\ UNCHANGED fate
        /\ answer' = [answer EXCEPT ![i] = Result(t.message)] /\ t.to = i /\ fate[i] # "none"
    BY <1>4 DEF Receive, Goto, StatusOf, servervars, FateAgrees
  <2>2. Result(t.message) \in Service!Allowed(i)
    <3>1. /\ WellFated(t.message) /\ t.message.request \in Requests
          /\ Cid[t.message.request] = Cid[i]
      BY <2>1, MessageTypes DEF FateAgrees
    <3>. QED  BY <3>1 DEF WellFated, Result, Reply, Service!Allowed, Service!Namesakes,
                          Service!Reply
  <2>. QED  BY <1>0, <1>s, <2>1, <2>2 DEF Service!Next, Service!Answer
<1>5. CASE CtxDone(i)
  <2>1. /\ StatusOf(i) = "called" /\ StatusOf(i)' = "answered" /\ UNCHANGED fate
        /\ answer' = [answer EXCEPT ![i] = Reply("ended", None)] /\ fate[i] # "none"
    BY <1>5 DEF CtxDone, Goto, StatusOf, servervars, FateAgrees
  <2>2. Reply("ended", None) \in Service!Allowed(i)
    BY DEF Service!Allowed, Service!Reply, Reply
  <2>. QED  BY <1>0, <1>s, <2>1, <2>2 DEF Service!Next, Service!Answer
<1>. QED  BY <1>1, <1>2, <1>3, <1>4, <1>5 DEF Call

LEMMA RPCServerRefines ==
    ASSUME Inv, FateAgrees, NEW s \in Servers, Server(s), UNCHANGED invokervars
    PROVE  [Service!Next]_<<status, fate, answer>>
<1>1. UNCHANGED <<status, answer>>
  BY DEF invokervars, status, StatusOf
<1>2. ASSUME NEW h \in HandlersOf(s), InvokeReturns(h)
      PROVE  [Service!Next]_<<status, fate, answer>>
  <2>1. PICK i \in Requests : i = h.delivery.request
    BY DEF HandlersOf, Inv, Typed, TypeOK, ServerTypeOK, Handlers, Deliveries
  <2>2. fate' = [fate EXCEPT ![i] = "executed"] /\ fate[i] \in {"queued", "executed"}
    BY <1>2, <2>1 DEF InvokeReturns, HandlersOf, FateAgrees, Accepted
  <2>3. CASE fate[i] = "queued"
    BY <1>1, <2>2, <2>3 DEF Service!Next, Service!Execute
  <2>4. CASE fate[i] = "executed"
    BY <1>1, <2>2, <2>4 DEF Inv, Typed, TypeOK, ServerTypeOK
  <2>. QED  BY <2>2, <2>3, <2>4
<1>3. ASSUME ~\E h \in HandlersOf(s) : InvokeReturns(h) PROVE UNCHANGED fate
  BY <1>3 DEF Server, ConsumerOpens, ConsumerLost, DaemonExits, RPCHandler, SendReply,
              Acknowledge, Deliver, Hangs
<1>. QED  BY <1>1, <1>2, <1>3

(***************************************************************************)
(* The Lambda Server, the broker and the daemons implement RPCService,     *)
(* whatever connections, messages and daemons are lost and whatever ids    *)
(* are used again: a response comes of an execution of a request with the  *)
(* id of the call, and a request that a client is told could not be        *)
(* delivered was not and never will be executed (rpcinvoker.go:112-160,    *)
(* 224-304; rpcserver.go:117-167).                                         *)
(***************************************************************************)
THEOREM RPCImplemented == Spec => ImplementsRPC
<1>1. Init => Service!Init
  BY DEF Init, ServerInit, Service!Init, Service!Reply, Reply, status, StatusOf
<1>2. Inv /\ FateAgrees /\ [Next]_vars => FateAgrees'
  <2>1. UNCHANGED vars /\ Inv /\ FateAgrees => FateAgrees'
    BY FateServerFrame DEF vars, servervars, Inv, Typed
  <2>. QED  BY <2>1, FateServer, FateInvoker DEF Inv, Typed
<1>3. Inv /\ FateAgrees /\ [Next]_vars => [Service!Next]_<<status, fate, answer>>
  <2>. SUFFICES ASSUME Inv, FateAgrees, [Next]_vars
                PROVE  [Service!Next]_<<status, fate, answer>>
    OBVIOUS
  <2>1. ASSUME NEW i \in Requests, Call(i) PROVE [Service!Next]_<<status, fate, answer>>
    BY <2>1, RPCCallRefines
  <2>2. ASSUME NEW s \in Servers, Server(s), UNCHANGED invokervars
        PROVE  [Service!Next]_<<status, fate, answer>>
    BY <2>2, RPCServerRefines
  <2>3. CASE \/ \E m \in replies : ReceiveReply(m)
             \/ \E m \in arrived : Lookup(m)
             \/ ReplyConsumerLost \/ ReplyConsumerReopens \/ UNCHANGED vars
    <3>1. UNCHANGED <<pc, fate, answer>>
      BY <2>3 DEF ReceiveReply, Lookup, ReplyConsumerLost, ReplyConsumerReopens, vars,
                  servervars, invokervars
    <3>. QED  BY <3>1 DEF status, StatusOf
  <2>. QED  BY <2>1, <2>2, <2>3 DEF Next
<1>. QED  BY <1>1, <1>2, <1>3, FateInit, Invariant, PTL
          DEF Spec, ImplementsRPC, Service!Spec

(***************************************************************************)
(* What was answered came of a request with the id of the call.            *)
(***************************************************************************)
AnswersById ==
    \A i \in Requests : answer[i].kind \in {"response", "unreachable"} =>
        answer[i].request \in Requests /\ Cid[answer[i].request] = Cid[i]

(***************************************************************************)
(* With correlation ids that are used once, the response or the error that *)
(* a call returns is that of its own request (rpcinvoker.go:129-146,       *)
(* 278-285), however many times, and after whatever losses, requests are   *)
(* executed.                                                               *)
(***************************************************************************)
THEOREM AnswersOwn ==
    ASSUME UniqueCids
    PROVE  Spec => [](\A i \in Requests : answer[i].kind \in {"response", "unreachable"} =>
                                            answer[i].request = i)
<1>1. Init => AnswersById
  BY DEF Init, AnswersById, Reply
<1>2. TypeOK /\ AnswersById /\ [Service!Next]_<<status, fate, answer>> => AnswersById'
  <2>. SUFFICES ASSUME TypeOK, AnswersById, Service!Next PROVE AnswersById'
    BY DEF AnswersById
  <2>1. CASE UNCHANGED answer
    BY <2>1 DEF AnswersById
  <2>2. ASSUME NEW i \in Requests, NEW a \in Service!Allowed(i),
               answer' = [answer EXCEPT ![i] = a]
        PROVE  AnswersById'
    <3>1. a.kind \in {"response", "unreachable"} =>
             a.request \in Requests /\ Cid[a.request] = Cid[i]
      BY DEF Service!Allowed, Service!Namesakes, Service!Reply
    <3>. QED  BY <2>2, <3>1 DEF AnswersById, TypeOK
  <2>. QED  BY <2>1, <2>2 DEF Service!Next, Service!Call, Service!Publish, Service!Execute,
                              Service!Answer
<1>3. AnswersById => \A i \in Requests : answer[i].kind \in {"response", "unreachable"} =>
                                            answer[i].request = i
  BY DEF AnswersById, UniqueCids
<1>. QED  BY <1>1, <1>2, <1>3, RPCImplemented, TypeCorrect, PTL
          DEF Spec, ImplementsRPC, Service!Spec
=============================================================================
