------------------------- MODULE RAPIInvokerProofs -------------------------
(***************************************************************************)
(* For every set of requests, of correlation ids and of instances, and     *)
(* however ids are used again: a response handler never blocks on its      *)
(* channel, and invoke and the Runtime API implement InvokeService.  When  *)
(* ids are unique, the response of a Runtime finds the call that waits.    *)
(***************************************************************************)
EXTENDS RAPIInvoker, TLAPS

USE RAPIAssumption

(***************************************************************************)
(* A request that no next handler has received is nowhere in the server,   *)
(* and what has been received was received once.  A call that still offers *)
(* its request has not been received and has no response.                  *)
(***************************************************************************)
Delivered ==
    /\ \A i \in Requests : deliveries[i] \in {0, 1}
    /\ \A i \in Requests : pc[i] \in {"idle", "try", "init", "send"} =>
          deliveries[i] = 0 /\ response[i] = <<>>
    /\ \A r \in Instances : work[r] # None => deliveries[work[r]] = 1
    /\ \A r \in Instances : to[r] # None => deliveries[to[r]] = 1
    /\ \A k \in Cids : pendingRequests[k] # None =>
          deliveries[pendingRequests[k]] = 1 /\ Cid[pendingRequests[k]] = k

(***************************************************************************)
(* A handler that has a request to store or to answer names one.           *)
(***************************************************************************)
Holding ==
    \A r \in Instances :
        /\ conn[r] = "received" => work[r] \in Requests
        /\ conn[r] = "responding" => to[r] \in Requests /\ work[r] \in Requests

Inv == TypeOK /\ Delivered /\ Holding /\ OneSender

LEMMA InvInit == Init => Inv
<1>. SUFFICES ASSUME Init PROVE Inv
  OBVIOUS
<1>. USE DEF Init, RAPIInit
<1>1. RAPITypeOK
  BY DEF RAPITypeOK
<1>2. TypeOK
  BY <1>1 DEF TypeOK, Answers, Reply
<1>3. Delivered /\ Holding
  BY DEF Delivered, Holding
<1>4. OneSender
  BY DEF OneSender, SoleSender, Receiving, Responding
<1>. QED  BY <1>2, <1>3, <1>4 DEF Inv

(***************************************************************************)
(* What a client makes call i of invoke do.                                *)
(***************************************************************************)
Call(i) ==
    \/ Invoke(i)
    \/ InvokeBadContext(i)
    \/ \E why \in {"timeout", "cancelled"} : CtxDone(i, why)
    \/ InvokeStep(i)
    \/ InitReturns(i)

(***************************************************************************)
(* Type correctness of a step.                                             *)
(***************************************************************************)
LEMMA InstanceType ==
    ASSUME TypeOK, Holding, NEW r \in Instances, Instance(r), UNCHANGED invokevars
    PROVE  TypeOK'
<1>. USE DEF TypeOK, RAPITypeOK, invokevars, Holding
<1>1. CASE RuntimeExit(r)
  BY <1>1 DEF RuntimeExit
<1>2. CASE UnregisterLambdaRuntime(r)
  BY <1>2 DEF UnregisterLambdaRuntime
<1>3. CASE CallNext(r)
  BY <1>3 DEF CallNext
<1>4. CASE StoreRequest(r)
  BY <1>4 DEF StoreRequest
<1>5. CASE NextDone(r)
  BY <1>5 DEF NextDone
<1>6. CASE NextShutdown(r)
  BY <1>6 DEF NextShutdown
<1>7. CASE TerminateIdleInstance(r)
  BY <1>7 DEF TerminateIdleInstance
<1>8. CASE PostResponse(r)
  BY <1>8 DEF PostResponse
<1>9. CASE SendResponse(r)
  BY <1>9 DEF SendResponse, Body, Responses, Reply
<1>10. CASE PostInitError(r)
  BY <1>10 DEF PostInitError
<1>. QED  BY <1>1, <1>2, <1>3, <1>4, <1>5, <1>6, <1>7, <1>8, <1>9, <1>10 DEF Instance

LEMMA CallType ==
    ASSUME TypeOK, NEW i \in Requests, Call(i)
    PROVE  TypeOK'
<1>. USE DEF TypeOK, RAPITypeOK, rapivars, Answers, Reply
<1>1. CASE Invoke(i)
  BY <1>1 DEF Invoke, Goto
<1>2. CASE InvokeBadContext(i)
  BY <1>2 DEF InvokeBadContext, Goto, Return
<1>3. ASSUME NEW why \in {"timeout", "cancelled"}, CtxDone(i, why) PROVE TypeOK'
  BY <1>3 DEF CtxDone
<1>4. ASSUME NEW r \in Instances, NEW from \in {"try", "send"}, Send(i, r, from)
      PROVE  TypeOK'
  BY <1>4 DEF Send, Goto, ReceiveInvocation
<1>5. ASSUME NEW from \in {"try", "send"}, GiveUp(i, from) PROVE TypeOK'
  BY <1>5 DEF GiveUp, Goto
<1>6. CASE NoneIdle(i)
  BY <1>6 DEF NoneIdle, Goto
<1>7. CASE InitReturns(i)
  BY <1>7 DEF InitReturns, Goto, Launch
<1>8. CASE ForwardInitError(i)
  BY <1>8 DEF ForwardInitError, Goto, Responses
<1>9. CASE ReceiveResponse(i)
  BY <1>9 DEF ReceiveResponse, Goto, Return, Responses
<1>10. CASE Cancelled(i)
  BY <1>10 DEF Cancelled, Goto, DeleteRequest, Return
<1>. QED  BY <1>1, <1>2, <1>3, <1>4, <1>5, <1>6, <1>7, <1>8, <1>9, <1>10 DEF Call, InvokeStep

(***************************************************************************)
(* Delivered and Holding are kept.                                         *)
(***************************************************************************)
LEMMA InstanceDelivered ==
    ASSUME TypeOK, Delivered, Holding, NEW r \in Instances, Instance(r),
           UNCHANGED invokevars
    PROVE  Delivered' /\ Holding'
<1>. USE DEF TypeOK, RAPITypeOK, invokevars, Delivered, Holding
<1>1. CASE RuntimeExit(r)
  BY <1>1 DEF RuntimeExit
<1>2. CASE UnregisterLambdaRuntime(r)
  BY <1>2 DEF UnregisterLambdaRuntime
<1>3. CASE CallNext(r)
  BY <1>3 DEF CallNext
<1>4. CASE StoreRequest(r)
  BY <1>4 DEF StoreRequest
<1>5. CASE NextDone(r)
  BY <1>5 DEF NextDone
<1>6. CASE NextShutdown(r)
  BY <1>6 DEF NextShutdown
<1>7. CASE TerminateIdleInstance(r)
  BY <1>7 DEF TerminateIdleInstance
<1>8. CASE PostResponse(r)
  BY <1>8 DEF PostResponse
<1>9. CASE SendResponse(r)
  BY <1>9 DEF SendResponse
<1>10. CASE PostInitError(r)
  BY <1>10 DEF PostInitError
<1>. QED  BY <1>1, <1>2, <1>3, <1>4, <1>5, <1>6, <1>7, <1>8, <1>9, <1>10 DEF Instance

LEMMA CallDelivered ==
    ASSUME TypeOK, Delivered, Holding, NEW i \in Requests, Call(i)
    PROVE  Delivered' /\ Holding'
<1>. USE DEF TypeOK, RAPITypeOK, rapivars, Delivered, Holding
<1>1. CASE Invoke(i)
  BY <1>1 DEF Invoke, Goto
<1>2. CASE InvokeBadContext(i)
  BY <1>2 DEF InvokeBadContext, Goto, Return
<1>3. ASSUME NEW why \in {"timeout", "cancelled"}, CtxDone(i, why) PROVE (Delivered /\ Holding)'
  BY <1>3 DEF CtxDone
<1>4. ASSUME NEW r \in Instances, NEW from \in {"try", "send"}, Send(i, r, from)
      PROVE  (Delivered /\ Holding)'
  BY <1>4 DEF Send, Goto, ReceiveInvocation
<1>5. ASSUME NEW from \in {"try", "send"}, GiveUp(i, from) PROVE (Delivered /\ Holding)'
  BY <1>5 DEF GiveUp, Goto
<1>6. CASE NoneIdle(i)
  BY <1>6 DEF NoneIdle, Goto
<1>7. CASE InitReturns(i)
  <2>1. CASE UNCHANGED rapivars
    BY <1>7, <2>1 DEF InitReturns, Goto
  <2>2. ASSUME NEW r \in Instances, Launch(r) PROVE (Delivered /\ Holding)'
    BY <1>7, <2>2 DEF InitReturns, Goto, Launch
  <2>. QED  BY <1>7, <2>1, <2>2 DEF InitReturns
<1>8. CASE ForwardInitError(i)
  BY <1>8 DEF ForwardInitError, Goto
<1>9. CASE ReceiveResponse(i)
  BY <1>9 DEF ReceiveResponse, Goto, Return
<1>10. CASE Cancelled(i)
  BY <1>10 DEF Cancelled, Goto, DeleteRequest, Return
<1>. QED  BY <1>1, <1>2, <1>3, <1>4, <1>5, <1>6, <1>7, <1>8, <1>9, <1>10 DEF Call, InvokeStep

(***************************************************************************)
(* OneSender is kept: the right to send passes from a next handler to the  *)
(* map, from there to a response handler, and ends in the channel.         *)
(***************************************************************************)
LEMMA InstanceOneSender ==
    ASSUME Inv, NEW r \in Instances, Instance(r), UNCHANGED invokevars
    PROVE  OneSender'
<1>. USE DEF Inv, TypeOK, RAPITypeOK, invokevars, Delivered, Holding, OneSender,
             SoleSender, Receiving, Responding
<1>1. CASE RuntimeExit(r)
  BY <1>1 DEF RuntimeExit
<1>2. CASE UnregisterLambdaRuntime(r)
  BY <1>2 DEF UnregisterLambdaRuntime
<1>3. CASE CallNext(r)
  BY <1>3 DEF CallNext
<1>4. CASE StoreRequest(r)
  <2>0. PICK i \in Requests : i = work[r]
    BY <1>4 DEF StoreRequest
  <2>1. r \in Receiving(i) /\ i \in Requests
    BY <1>4, <2>0 DEF StoreRequest
  <2>2. UNCHANGED <<work, to, response>>
    BY <1>4 DEF StoreRequest
  <2>3. \A j \in Requests : Receiving(j)' = Receiving(j) \ {r}
    BY <1>4 DEF StoreRequest
  <2>4. \A j \in Requests : Responding(j)' = Responding(j)
    BY <1>4 DEF StoreRequest
  <2>5. \A j \in Requests : pendingRequests'[Cid[j]] = j =>
                              j = i \/ pendingRequests[Cid[j]] = j
    BY <1>4, <2>0 DEF StoreRequest
  <2>6. Receiving(i)' = {}
    BY <2>1, <2>2, <2>3
  <2>o. OneSender
    BY DEF Inv
  <2>. HIDE DEF Inv, TypeOK, RAPITypeOK, Delivered, Holding, Receiving, Responding
  <2>. SUFFICES ASSUME NEW j \in Requests PROVE SoleSender(j)'
    BY DEF OneSender
  <2>a. SoleSender(i) /\ SoleSender(j)
    BY <2>1, <2>o DEF OneSender
  <2>b. CASE j = i
    BY <2>1, <2>2, <2>3, <2>4, <2>5, <2>6, <2>a, <2>b
  <2>c. CASE j # i
    BY <2>1, <2>2, <2>3, <2>4, <2>5, <2>6, <2>a, <2>c
  <2>. QED  BY <2>b, <2>c
<1>5. CASE NextDone(r)
  BY <1>5 DEF NextDone
<1>6. CASE NextShutdown(r)
  BY <1>6 DEF NextShutdown
<1>7. CASE TerminateIdleInstance(r)
  BY <1>7 DEF TerminateIdleInstance
<1>8. CASE PostResponse(r)
  <2>0. PICK i \in Requests : i = pendingRequests[Cid[work[r]]]
    BY <1>8 DEF PostResponse
  <2>1. i \in Requests /\ Cid[i] = Cid[work[r]] /\ Cid[i] \in Cids
    BY <1>8, <2>0 DEF PostResponse
  <2>2. UNCHANGED <<work, response>>
    BY <1>8 DEF PostResponse
  <2>3. \A j \in Requests : Receiving(j)' = Receiving(j)
    BY <1>8 DEF PostResponse
  <2>4. \A j \in Requests : Responding(j)' = IF j = i THEN Responding(j) \cup {r}
                                                    ELSE Responding(j)
    BY <1>8, <2>0 DEF PostResponse
  <2>5. \A j \in Requests : pendingRequests'[Cid[j]] = j =>
                              j # i /\ pendingRequests[Cid[j]] = j
    BY <1>8, <2>0, <2>1 DEF PostResponse
  <2>6. pendingRequests[Cid[i]] = i
    BY <2>0, <2>1
  <2>o. OneSender
    BY DEF Inv
  <2>. HIDE DEF Inv, TypeOK, RAPITypeOK, Delivered, Holding, Receiving, Responding
  <2>. SUFFICES ASSUME NEW j \in Requests PROVE SoleSender(j)'
    BY DEF OneSender
  <2>a. SoleSender(i) /\ SoleSender(j)
    BY <2>1, <2>o DEF OneSender
  <2>b. CASE j = i
    BY <2>1, <2>2, <2>3, <2>4, <2>5, <2>6, <2>a, <2>b
  <2>c. CASE j # i
    BY <2>1, <2>2, <2>3, <2>4, <2>5, <2>6, <2>a, <2>c
  <2>. QED  BY <2>b, <2>c
<1>9. CASE SendResponse(r)
  BY <1>9 DEF SendResponse
<1>10. CASE PostInitError(r)
  BY <1>10 DEF PostInitError
<1>. QED  BY <1>1, <1>2, <1>3, <1>4, <1>5, <1>6, <1>7, <1>8, <1>9, <1>10 DEF Instance

LEMMA CallOneSender ==
    ASSUME Inv, NEW i \in Requests, Call(i)
    PROVE  OneSender'
<1>. USE DEF Inv, TypeOK, RAPITypeOK, rapivars, Delivered, Holding, OneSender,
             SoleSender, Receiving, Responding
<1>1. CASE Invoke(i)
  BY <1>1 DEF Invoke, Goto
<1>2. CASE InvokeBadContext(i)
  BY <1>2 DEF InvokeBadContext, Goto, Return
<1>3. ASSUME NEW why \in {"timeout", "cancelled"}, CtxDone(i, why) PROVE OneSender'
  BY <1>3 DEF CtxDone
<1>4. ASSUME NEW r \in Instances, NEW from \in {"try", "send"}, Send(i, r, from)
      PROVE  OneSender'
  <2>1. /\ deliveries[i] = 0 /\ response[i] = <<>>
        /\ pendingRequests[Cid[i]] # i
        /\ \A q \in Instances : work[q] # i /\ to[q] # i
    BY <1>4 DEF Send, Goto
  <2>2. UNCHANGED <<pendingRequests, response>>
    BY <1>4 DEF Send, ReceiveInvocation
  <2>3. \A q \in Instances : work'[q] = IF q = r THEN i ELSE work[q]
    BY <1>4 DEF Send, ReceiveInvocation
  <2>4. \A j \in Requests : Receiving(j)' = IF j = i THEN {r} ELSE Receiving(j) \ {r}
    BY <1>4, <2>1 DEF Send, ReceiveInvocation
  <2>5. \A j \in Requests : Responding(j)' = Responding(j)
    BY <1>4 DEF Send, ReceiveInvocation
  <2>6. Responding(i) = {}
    BY <2>1
  <2>o. OneSender
    BY DEF Inv
  <2>. HIDE DEF Inv, TypeOK, RAPITypeOK, Delivered, Holding, Receiving, Responding
  <2>. SUFFICES ASSUME NEW j \in Requests PROVE SoleSender(j)'
    BY DEF OneSender
  <2>a. SoleSender(i) /\ SoleSender(j)
    BY <2>1, <2>o DEF OneSender
  <2>b. CASE j = i
    BY <2>1, <2>2, <2>3, <2>4, <2>5, <2>6, <2>a, <2>b
  <2>c. CASE j # i
    BY <2>1, <2>2, <2>3, <2>4, <2>5, <2>6, <2>a, <2>c
  <2>. QED  BY <2>b, <2>c
<1>5. ASSUME NEW from \in {"try", "send"}, GiveUp(i, from) PROVE OneSender'
  BY <1>5 DEF GiveUp, Goto
<1>6. CASE NoneIdle(i)
  BY <1>6 DEF NoneIdle, Goto
<1>7. CASE InitReturns(i)
  <2>1. CASE UNCHANGED rapivars
    BY <1>7, <2>1 DEF InitReturns, Goto
  <2>2. ASSUME NEW r \in Instances, Launch(r) PROVE OneSender'
    <3>1. UNCHANGED <<pendingRequests, response>>
      BY <2>2 DEF Launch
    <3>2. \A q \in Instances : work'[q] = IF q = r THEN None ELSE work[q]
      BY <2>2 DEF Launch
    <3>3. \A j \in Requests : /\ Receiving(j)' \subseteq Receiving(j)
                              /\ Responding(j)' = Responding(j)
      BY <2>2 DEF Launch
    <3>. HIDE DEF Receiving, Responding
    <3>. QED  BY <3>1, <3>2, <3>3
  <2>. QED  BY <1>7, <2>1, <2>2 DEF InitReturns
<1>8. CASE ForwardInitError(i)
  <2>1. /\ deliveries[i] = 0
        /\ pendingRequests[Cid[i]] # i
        /\ \A q \in Instances : work[q] # i /\ to[q] # i
    <3>1. pc[i] = "send"
      BY <1>8 DEF ForwardInitError, Goto
    <3>2. deliveries[i] = 0
      BY <3>1
    <3>3. i # None /\ Cid[i] \in Cids
      OBVIOUS
    <3>4. ASSUME pendingRequests[Cid[i]] = i PROVE FALSE
      <4>1. deliveries[pendingRequests[Cid[i]]] = 1
        BY <3>3, <3>4, Zenon
      <4>. QED  BY <3>2, <3>4, <4>1
    <3>5. ASSUME NEW q \in Instances PROVE work[q] # i /\ to[q] # i
      <4>1. work[q] # None => deliveries[work[q]] = 1
        BY Zenon
      <4>2. to[q] # None => deliveries[to[q]] = 1
        BY Zenon
      <4>. QED  BY <3>2, <3>3, <4>1, <4>2
    <3>. QED  BY <3>2, <3>4, <3>5
  <2>2. UNCHANGED <<pendingRequests, work>>
    BY <1>8 DEF ForwardInitError
  <2>3. \A j \in Requests : j # i => response'[j] = response[j]
    BY <1>8 DEF ForwardInitError
  <2>4. \A j \in Requests : /\ Receiving(j)' = Receiving(j)
                            /\ Responding(j)' = Responding(j)
    BY <1>8 DEF ForwardInitError
  <2>5. Receiving(i) = {} /\ Responding(i) = {}
    BY <2>1
  <2>. HIDE DEF Receiving, Responding
  <2>. QED  BY <2>1, <2>2, <2>3, <2>4, <2>5
<1>9. CASE ReceiveResponse(i)
  BY <1>9 DEF ReceiveResponse, Goto, Return
<1>10. CASE Cancelled(i)
  <2>1. UNCHANGED <<work, response>>
    BY <1>10 DEF Cancelled
  <2>2. \A j \in Requests : pendingRequests'[Cid[j]] = j => pendingRequests[Cid[j]] = j
    BY <1>10 DEF Cancelled, DeleteRequest
  <2>3. \A j \in Requests : /\ Receiving(j)' = Receiving(j)
                            /\ Responding(j)' = Responding(j)
    BY <1>10 DEF Cancelled
  <2>. HIDE DEF Receiving, Responding
  <2>. QED  BY <2>1, <2>2, <2>3
<1>. HIDE DEF Inv, TypeOK, RAPITypeOK, rapivars, Delivered, Holding, OneSender,
              SoleSender, Receiving, Responding
<1>. QED  BY <1>1, <1>2, <1>3, <1>4, <1>5, <1>6, <1>7, <1>8, <1>9, <1>10 DEF Call, InvokeStep
(***************************************************************************)
(* Inv is inductive.                                                       *)
(***************************************************************************)
LEMMA InvStep == Inv /\ [Next]_vars => Inv'
<1>. SUFFICES ASSUME Inv, [Next]_vars PROVE Inv'
  OBVIOUS
<1>1. ASSUME NEW i \in Requests, Call(i) PROVE Inv'
  BY <1>1, CallType, CallDelivered, CallOneSender DEF Inv
<1>2. ASSUME NEW r \in Instances, Instance(r), UNCHANGED invokevars PROVE Inv'
  BY <1>2, InstanceType, InstanceDelivered, InstanceOneSender DEF Inv
<1>3. CASE TimePasses /\ UNCHANGED invokevars
  BY <1>3 DEF Inv, TimePasses, invokevars, TypeOK, RAPITypeOK, Delivered, Holding,
              OneSender, SoleSender, Receiving, Responding
<1>4. CASE UNCHANGED vars
  BY <1>4 DEF Inv, vars, rapivars, invokevars, TypeOK, RAPITypeOK, Delivered, Holding,
              OneSender, SoleSender, Receiving, Responding
<1>. QED  BY <1>1, <1>2, <1>3, <1>4 DEF Next, Call

(***************************************************************************)
(* Inv is an invariant of the daemon.                                      *)
(***************************************************************************)
THEOREM Invariant == Spec => []Inv
BY InvInit, InvStep, PTL DEF Spec

(***************************************************************************)
(* Type correctness of invoke and of the Runtime API handlers: no Response *)
(* channel ever holds more than the one item of its buffer.                *)
(***************************************************************************)
THEOREM TypeCorrect == Spec => []TypeOK
<1>1. Inv => TypeOK
  BY DEF Inv
<1>. QED  BY <1>1, Invariant, PTL

(***************************************************************************)
(* The right to send on a Response channel is in one place at a time.      *)
(***************************************************************************)
THEOREM SenderUnique == Spec => []OneSender
<1>1. Inv => OneSender
  BY DEF Inv
<1>. QED  BY <1>1, Invariant, PTL

(***************************************************************************)
(* The handler of response (runtimeapi.go:298-327) never blocks in its     *)
(* send, whatever ids the clients use and however often a Runtime posts.   *)
(***************************************************************************)
THEOREM NeverBlocks == Spec => []ResponseChanNeverBlocks
<1>1. Inv => ResponseChanNeverBlocks
  BY DEF Inv, Holding, OneSender, SoleSender, Responding, ResponseChanNeverBlocks
<1>. QED  BY <1>1, Invariant, PTL
-----------------------------------------------------------------------------
(***************************************************************************)
(* The channel a response handler looked up is that of a call with the id  *)
(* of the request its Runtime was given, and what a channel holds is an    *)
(* answer InvokeService allows.                                            *)
(***************************************************************************)
Allows(i) ==
    \/ deliveries[i] = 0 /\ response[i] = <<Reply("initError", None)>>
    \/ /\ deliveries[i] = 1
       /\ \E j \in Requests, k \in {"function", "partial"} :
             Cid[j] = Cid[i] /\ deliveries[j] = 1 /\ response[i] = <<Reply(k, j)>>

OwnResponses ==
    /\ \A r \in Instances : conn[r] = "responding" => Cid[to[r]] = Cid[work[r]]
    /\ \A i \in Requests : response[i] # <<>> => Allows(i)

LEMMA OwnInit == Init => OwnResponses
BY DEF Init, RAPIInit, OwnResponses, Allows

(***************************************************************************)
(* A step that leaves the channels alone, and starts no response handler,  *)
(* keeps OwnResponses; so does one that empties a channel.                 *)
(***************************************************************************)
LEMMA OwnFrame ==
    ASSUME OwnResponses,
           UNCHANGED deliveries,
           \A i \in Requests : response'[i] = response[i] \/ response'[i] = <<>>,
           \A r \in Instances : conn'[r] = "responding" =>
                 conn[r] = "responding" /\ to'[r] = to[r] /\ work'[r] = work[r]
    PROVE  OwnResponses'
<1>1. ASSUME NEW i \in Requests, response'[i] # <<>> PROVE Allows(i)'
  <2>1. Allows(i) /\ response'[i] = response[i]
    BY <1>1 DEF OwnResponses
  <2>. QED  BY <2>1 DEF Allows
<1>2. \A r \in Instances : conn'[r] = "responding" => Cid[to'[r]] = Cid[work'[r]]
  BY DEF OwnResponses
<1>. QED  BY <1>1, <1>2 DEF OwnResponses

LEMMA OwnStep ==
    ASSUME Inv, OwnResponses, [Next]_vars
    PROVE  OwnResponses'
<1>. USE DEF Inv, TypeOK, RAPITypeOK, Holding
<1>1. ASSUME NEW r \in Instances, Instance(r), UNCHANGED invokevars
      PROVE  OwnResponses'
  <2>. USE <1>1 DEF invokevars
  <2>1. CASE PostResponse(r)
    <3>1. \A i \in Requests : response'[i] # <<>> => Allows(i)'
      BY <2>1 DEF PostResponse, OwnResponses, Allows
    <3>2. Cid[to'[r]] = Cid[work'[r]]
      BY <2>1 DEF PostResponse, Delivered
    <3>3. \A q \in Instances : q # r =>
                conn'[q] = conn[q] /\ to'[q] = to[q] /\ work'[q] = work[q]
      BY <2>1 DEF PostResponse
    <3>. QED  BY <3>1, <3>2, <3>3 DEF OwnResponses
  <2>2. CASE SendResponse(r)
    <3>1. PICK k \in {"function", "partial"} :
                  response' = [response EXCEPT ![to[r]] = <<Reply(k, work[r])>>]
      BY <2>2 DEF SendResponse, Body
    <3>2. /\ to[r] \in Requests /\ work[r] \in Requests /\ Cid[to[r]] = Cid[work[r]]
          /\ deliveries[to[r]] = 1 /\ deliveries[work[r]] = 1
      BY <2>2 DEF SendResponse, OwnResponses, Delivered
    <3>3. PICK t \in Requests : t = to[r]
      BY <3>2
    <3>4. /\ response'[t] = <<Reply(k, work[r])>>
          /\ deliveries'[t] = 1 /\ deliveries'[work[r]] = 1
      BY <3>1, <3>2, <3>3
    <3>5. Allows(t)'
      BY <3>2, <3>3, <3>4 DEF Allows
    <3>6. ASSUME NEW i \in Requests, i # t, response'[i] # <<>> PROVE Allows(i)'
      <4>1. response'[i] = response[i]
        BY <3>1, <3>2, <3>3, <3>6
      <4>. QED  BY <3>6, <4>1 DEF OwnResponses, Allows
    <3>7. \A q \in Instances : conn'[q] = "responding" => Cid[to'[q]] = Cid[work'[q]]
      BY <2>2 DEF SendResponse, OwnResponses
    <3>. HIDE DEF Inv, TypeOK, RAPITypeOK, Holding
    <3>. QED  BY <3>5, <3>6, <3>7 DEF OwnResponses
  <2>3. CASE \/ StoreRequest(r) \/ CallNext(r) \/ NextDone(r) \/ NextShutdown(r)
             \/ TerminateIdleInstance(r) \/ RuntimeExit(r)
             \/ UnregisterLambdaRuntime(r) \/ PostInitError(r)
    <3>1. UNCHANGED <<response, deliveries>>
      BY <2>3 DEF StoreRequest, CallNext, NextDone, NextShutdown, TerminateIdleInstance,
                  RuntimeExit, UnregisterLambdaRuntime, PostInitError
    <3>2. \A q \in Instances : conn'[q] = "responding" =>
                conn[q] = "responding" /\ to'[q] = to[q] /\ work'[q] = work[q]
      BY <2>3 DEF StoreRequest, CallNext, NextDone, NextShutdown, TerminateIdleInstance,
                  RuntimeExit, UnregisterLambdaRuntime, PostInitError
    <3>. QED  BY <3>1, <3>2, OwnFrame
  <2>. QED  BY <2>1, <2>2, <2>3 DEF Instance
<1>2. ASSUME NEW i \in Requests, Call(i) PROVE OwnResponses'
  <2>1. CASE \/ Invoke(i) \/ InvokeBadContext(i) \/ NoneIdle(i) \/ Cancelled(i)
             \/ ReceiveResponse(i)
             \/ \E why \in {"timeout", "cancelled"} : CtxDone(i, why)
             \/ \E from \in {"try", "send"} : GiveUp(i, from)
    <3>1. UNCHANGED <<conn, to, work, deliveries>>
      BY <2>1 DEF Invoke, InvokeBadContext, NoneIdle, Cancelled, ReceiveResponse, Return,
                  CtxDone, GiveUp, rapivars
    <3>2. \A j \in Requests : response'[j] = response[j] \/ response'[j] = <<>>
      BY <2>1 DEF Invoke, InvokeBadContext, NoneIdle, Cancelled, ReceiveResponse, Return,
                  CtxDone, GiveUp, rapivars
    <3>. QED  BY <3>1, <3>2, OwnFrame
  <2>2. CASE InitReturns(i)
    <3>1. UNCHANGED <<response, deliveries>>
      BY <2>2 DEF InitReturns, Launch, rapivars
    <3>2. \A q \in Instances : conn'[q] = "responding" =>
                conn[q] = "responding" /\ to'[q] = to[q] /\ work'[q] = work[q]
      BY <2>2 DEF InitReturns, Launch, rapivars
    <3>. QED  BY <3>1, <3>2, OwnFrame
  <2>3. ASSUME NEW r \in Instances, NEW from \in {"try", "send"}, Send(i, r, from)
        PROVE  OwnResponses'
    <3>1. /\ UNCHANGED response /\ response[i] = <<>> /\ deliveries[i] = 0
          /\ deliveries' = [deliveries EXCEPT ![i] = 1]
      <4>1. /\ UNCHANGED response /\ pc[i] \in {"try", "send"}
            /\ deliveries' = [deliveries EXCEPT ![i] = @ + 1]
        BY <2>3 DEF Send, Goto, ReceiveInvocation
      <4>2. response[i] = <<>> /\ deliveries[i] = 0
        BY <4>1 DEF Delivered
      <4>. QED  BY <4>1, <4>2
    <3>2. ASSUME NEW j \in Requests, response'[j] # <<>> PROVE Allows(j)'
      <4>1. Allows(j) /\ j # i
        BY <3>1, <3>2 DEF OwnResponses
      <4>. QED  BY <3>1, <4>1 DEF Allows
    <3>3. \A q \in Instances : conn'[q] = "responding" =>
                conn[q] = "responding" /\ to'[q] = to[q] /\ work'[q] = work[q]
      BY <2>3 DEF Send, ReceiveInvocation
    <3>. QED  BY <3>2, <3>3 DEF OwnResponses
  <2>4. CASE ForwardInitError(i)
    <3>1. /\ deliveries[i] = 0
          /\ response' = [response EXCEPT ![i] = <<Reply("initError", None)>>]
          /\ UNCHANGED <<conn, to, work, deliveries>>
      BY <2>4 DEF ForwardInitError, Goto, Delivered
    <3>2. Allows(i)'
      BY <3>1 DEF Allows
    <3>3. ASSUME NEW j \in Requests, j # i, response'[j] # <<>> PROVE Allows(j)'
      BY <3>1, <3>3 DEF OwnResponses, Allows
    <3>. QED  BY <3>1, <3>2, <3>3 DEF OwnResponses
  <2>. QED  BY <1>2, <2>1, <2>2, <2>3, <2>4 DEF Call, InvokeStep
<1>3. CASE (TimePasses /\ UNCHANGED invokevars) \/ UNCHANGED vars
  <2>1. UNCHANGED <<response, deliveries, conn, to, work>>
    BY <1>3 DEF TimePasses, vars, rapivars, invokevars
  <2>. QED  BY <2>1, OwnFrame
<1>. QED  BY <1>1, <1>2, <1>3 DEF Next, Call

(***************************************************************************)
(* A step that moves only call i changes only the status of i.             *)
(***************************************************************************)
LEMMA StatusStep ==
    ASSUME NEW i \in Requests, \A j \in Requests : j # i => pc'[j] = pc[j]
    PROVE  status' = [status EXCEPT ![i] = StatusOf(i)']
<1>1. \A j \in Requests : j # i => StatusOf(j)' = StatusOf(j)
  BY DEF StatusOf
<1>. QED  BY <1>1 DEF status

(***************************************************************************)
(* What a channel holds is an answer that InvokeService allows.            *)
(***************************************************************************)
LEMMA ResponseAllowed ==
    ASSUME Inv, OwnResponses, NEW i \in Requests, response[i] # <<>>,
           status[i] = "offered"
    PROVE  Head(response[i]) \in Service!Allowed(i)
<1>1. CASE deliveries[i] = 0 /\ response[i] = <<Reply("initError", None)>>
  BY <1>1 DEF Service!Allowed, Reply, Service!Reply
<1>2. ASSUME deliveries[i] = 1,
             NEW j \in Requests, NEW k \in {"function", "partial"},
             Cid[j] = Cid[i] /\ deliveries[j] = 1 /\ response[i] = <<Reply(k, j)>>
      PROVE  Head(response[i]) \in Service!Allowed(i)
  <2>1. j \in Service!Answering(i)
    BY <1>2 DEF Service!Answering
  <2>2. Head(response[i]) = Service!Reply(k, j)
    BY <1>2 DEF Reply, Service!Reply
  <2>. QED  BY <2>1, <2>2 DEF Service!Allowed
<1>. QED  BY <1>1, <1>2 DEF OwnResponses, Allows

(***************************************************************************)
(* Every step of a call is a step of InvokeService, or invisible to it.    *)
(***************************************************************************)
LEMMA CallRefines ==
    ASSUME Inv, OwnResponses, NEW i \in Requests, Call(i)
    PROVE  [Service!Next]_<<status, deliveries, answer>>
<1>. USE DEF Inv, TypeOK
<1>0. status' = [status EXCEPT ![i] = StatusOf(i)']
  <2>1. \A j \in Requests : j # i => pc'[j] = pc[j]
    BY DEF Call, Invoke, InvokeBadContext, CtxDone, InvokeStep, Send, GiveUp, NoneIdle,
           InitReturns, ForwardInitError, ReceiveResponse, Cancelled, Goto, Return
  <2>. QED  BY <2>1, StatusStep
<1>s. status[i] = StatusOf(i) /\ status \in [Requests -> {StatusOf(j) : j \in Requests}]
  BY DEF status
<1>1. CASE Invoke(i)
  <2>1. StatusOf(i) = "new" /\ StatusOf(i)' = "offered" /\ UNCHANGED <<deliveries, answer>>
    BY <1>1 DEF Invoke, Goto, StatusOf
  <2>. QED  BY <1>0, <1>s, <2>1 DEF Service!Next, Service!Offer
<1>2. CASE InvokeBadContext(i)
  <2>1. /\ StatusOf(i) = "new" /\ StatusOf(i)' = "answered" /\ UNCHANGED deliveries
        /\ answer' = [answer EXCEPT ![i] = Service!Reply("badContext", i)]
    BY <1>2 DEF InvokeBadContext, Goto, Return, StatusOf, Reply, Service!Reply
  <2>2. Service!Reply("badContext", i) \in Service!Allowed(i)
    BY <1>s, <2>1 DEF Service!Allowed
  <2>. QED  BY <1>0, <1>s, <2>1, <2>2 DEF Service!Next, Service!Answer
<1>3. ASSUME NEW r \in Instances, NEW from \in {"try", "send"}, Send(i, r, from)
      PROVE  Service!Next
  <2>1. /\ StatusOf(i) = "offered" /\ StatusOf(i)' = "offered" /\ UNCHANGED answer
        /\ deliveries[i] = 0 /\ deliveries' = [deliveries EXCEPT ![i] = 1]
    <3>1. /\ pc[i] \in {"try", "send"} /\ pc'[i] = "wait" /\ UNCHANGED answer
          /\ deliveries' = [deliveries EXCEPT ![i] = @ + 1]
      BY <1>3 DEF Send, Goto
    <3>2. deliveries[i] = 0
      BY <3>1 DEF Delivered
    <3>. QED  BY <3>1, <3>2 DEF StatusOf
  <2>2. status' = status
    BY <1>0, <1>s, <2>1
  <2>. QED  BY <1>s, <2>1, <2>2 DEF Service!Next, Service!Take
<1>4. CASE ReceiveResponse(i)
  <2>1. /\ StatusOf(i) = "offered" /\ StatusOf(i)' = "answered" /\ UNCHANGED deliveries
        /\ answer' = [answer EXCEPT ![i] = Head(response[i])]
    BY <1>4 DEF ReceiveResponse, Goto, Return, StatusOf
  <2>2. Head(response[i]) \in Service!Allowed(i)
    BY <1>4, <1>s, <2>1, ResponseAllowed DEF ReceiveResponse
  <2>. QED  BY <1>0, <2>1, <2>2 DEF Service!Next, Service!Answer
<1>5. CASE Cancelled(i)
  <2>1. /\ StatusOf(i) = "offered" /\ StatusOf(i)' = "answered" /\ UNCHANGED deliveries
        /\ ctx[i] \in {"timeout", "cancelled"}
        /\ answer' = [answer EXCEPT ![i] = Service!Reply(ctx[i], i)]
    BY <1>5 DEF Cancelled, Goto, Return, StatusOf, Reply, Service!Reply
  <2>2. Service!Reply(ctx[i], i) \in Service!Allowed(i)
    BY <1>s, <2>1 DEF Service!Allowed
  <2>. QED  BY <1>0, <1>s, <2>1, <2>2 DEF Service!Next, Service!Answer
<1>6. ASSUME \/ \E why \in {"timeout", "cancelled"} : CtxDone(i, why)
             \/ \E from \in {"try", "send"} : GiveUp(i, from)
             \/ NoneIdle(i) \/ InitReturns(i) \/ ForwardInitError(i)
      PROVE  UNCHANGED <<status, deliveries, answer>>
  <2>1. StatusOf(i)' = StatusOf(i) /\ UNCHANGED <<deliveries, answer>>
    <3>1. ASSUME NEW from \in {"try", "send"}, GiveUp(i, from)
          PROVE  StatusOf(i)' = StatusOf(i) /\ UNCHANGED <<deliveries, answer>>
      BY <3>1 DEF GiveUp, Goto, StatusOf
    <3>. QED  BY <1>6, <3>1 DEF CtxDone, NoneIdle, InitReturns, ForwardInitError, Goto, StatusOf
  <2>. QED  BY <1>0, <1>s, <2>1
<1>. QED  BY <1>1, <1>2, <1>3, <1>4, <1>5, <1>6 DEF Call, InvokeStep

(***************************************************************************)
(* However clients use correlation ids, invoke and the Runtime API         *)
(* handlers implement InvokeService: each request is given to at most one  *)
(* Runtime, once, and what invoke returns is the Function's answer to a    *)
(* request with its id, an initialisation error when no Runtime has its    *)
(* request, or the end of its context.                                     *)
(***************************************************************************)
THEOREM Refinement == Spec => ImplementsService
<1>1. Init => Service!Init
  BY DEF Init, Service!Init, status, StatusOf, Reply, Service!Reply
<1>2. Inv /\ OwnResponses /\ [Next]_vars => [Service!Next]_<<status, deliveries, answer>>
  <2>. SUFFICES ASSUME Inv, OwnResponses, [Next]_vars
                PROVE  [Service!Next]_<<status, deliveries, answer>>
    OBVIOUS
  <2>1. ASSUME NEW i \in Requests, Call(i)
        PROVE  [Service!Next]_<<status, deliveries, answer>>
    BY <2>1, CallRefines
  <2>2. CASE UNCHANGED invokevars
    BY <2>2 DEF invokevars, status, StatusOf
  <2>. QED  BY <2>1, <2>2 DEF Next, Call, vars
<1>3. Inv /\ OwnResponses /\ [Next]_vars => OwnResponses'
  BY OwnStep
<1>. QED  BY <1>1, <1>2, <1>3, OwnInit, Invariant, PTL
          DEF Spec, ImplementsService, Service!Spec

(***************************************************************************)
(* What a call returns of a Function is the answer to a request with the   *)
(* id of the call.                                                         *)
(***************************************************************************)
AnswersById ==
    \A i \in Requests : answer[i].kind \in {"function", "partial"} =>
        answer[i].request \in Requests /\ Cid[answer[i].request] = Cid[i]

LEMMA AnswerById ==
    ASSUME NEW i \in Requests, NEW a \in Service!Allowed(i),
           a.kind \in {"function", "partial"}
    PROVE  a.request \in Requests /\ Cid[a.request] = Cid[i]
<1>1. PICK j \in Service!Answering(i), k \in {"function", "partial"} : a = Service!Reply(k, j)
  BY DEF Service!Allowed, Service!Reply
<1>. QED  BY <1>1 DEF Service!Answering, Service!Reply

(***************************************************************************)
(* When correlation ids are unique, as those that invoke generates, a      *)
(* client is never given the answer to another client's request.           *)
(***************************************************************************)
THEOREM AnswersOwn ==
    ASSUME UniqueCids
    PROVE  Spec => [](\A i \in Requests : answer[i].kind \in {"function", "partial"} =>
                                            answer[i].request = i)
<1>1. Init => AnswersById
  BY DEF Init, AnswersById, Reply
<1>2. TypeOK /\ AnswersById /\ [Service!Next]_<<status, deliveries, answer>> => AnswersById'
  <2>. SUFFICES ASSUME TypeOK, AnswersById, Service!Next PROVE AnswersById'
    BY DEF AnswersById
  <2>1. CASE UNCHANGED answer
    BY <2>1 DEF AnswersById
  <2>2. ASSUME NEW i \in Requests, NEW a \in Service!Allowed(i),
               answer' = [answer EXCEPT ![i] = a]
        PROVE  AnswersById'
    BY <2>2, AnswerById DEF AnswersById, TypeOK
  <2>. QED  BY <2>1, <2>2 DEF Service!Next, Service!Offer, Service!Take, Service!Answer
<1>3. AnswersById => \A i \in Requests : answer[i].kind \in {"function", "partial"} =>
                                            answer[i].request = i
  BY DEF AnswersById, UniqueCids
<1>. QED  BY <1>1, <1>2, <1>3, Refinement, TypeCorrect, PTL
          DEF Spec, ImplementsService, Service!Spec
-----------------------------------------------------------------------------
(***************************************************************************)
(* With unique ids nothing takes the right to send on the channel of a     *)
(* waiting call away: it is with one of those that OneSender names.        *)
(***************************************************************************)
Findable(i) ==
    \/ Receiving(i) # {}
    \/ pendingRequests[Cid[i]] = i
    \/ Responding(i) # {}
    \/ response[i] # <<>>

WaitersFindable ==
    \A i \in Requests : pc[i] = "wait" /\ deliveries[i] = 1 => Findable(i)

LEMMA FindableInstance ==
    ASSUME UniqueCids, Inv, WaitersFindable, NEW r \in Instances, Instance(r),
           UNCHANGED invokevars
    PROVE  WaitersFindable'
<1>. USE DEF Inv, TypeOK, RAPITypeOK, Holding, invokevars
<1>1. SUFFICES ASSUME NEW i \in Requests, Findable(i)
               PROVE  Findable(i)'
  BY DEF WaitersFindable
<1>. USE <1>1 DEF Findable
<1>2. CASE StoreRequest(r)
  <2>1. CASE work[r] = i
    BY <1>2, <2>1 DEF StoreRequest
  <2>2. CASE work[r] # i
    <3>1. Cid[work[r]] # Cid[i]
      BY <1>2, <2>2 DEF StoreRequest, UniqueCids
    <3>2. pendingRequests'[Cid[i]] = pendingRequests[Cid[i]] /\ response' = response
      BY <1>2, <3>1 DEF StoreRequest
    <3>3. Receiving(i)' = Receiving(i) /\ Responding(i)' = Responding(i)
      BY <1>2, <2>2 DEF StoreRequest, Receiving, Responding
    <3>. QED  BY <3>2, <3>3
  <2>. QED  BY <2>1, <2>2
<1>3. CASE PostResponse(r)
  <2>1. Receiving(i)' = Receiving(i) /\ Responding(i) \subseteq Responding(i)'
    BY <1>3 DEF PostResponse, Receiving, Responding
  <2>2. response' = response
    BY <1>3 DEF PostResponse
  <2>3. pendingRequests[Cid[i]] = i => pendingRequests'[Cid[i]] = i \/ r \in Responding(i)'
    BY <1>3 DEF PostResponse, Responding
  <2>. QED  BY <2>1, <2>2, <2>3
<1>4. CASE SendResponse(r)
  <2>1. Receiving(i)' = Receiving(i) /\ pendingRequests' = pendingRequests
    BY <1>4 DEF SendResponse, Receiving
  <2>2. Responding(i) # {} => Responding(i)' # {} \/ response'[i] # <<>>
    BY <1>4 DEF SendResponse, Responding
  <2>3. response[i] # <<>> => response'[i] # <<>>
    BY <1>4 DEF SendResponse
  <2>. QED  BY <2>1, <2>2, <2>3
<1>5. CASE \/ CallNext(r) \/ NextDone(r) \/ NextShutdown(r) \/ TerminateIdleInstance(r)
           \/ RuntimeExit(r) \/ UnregisterLambdaRuntime(r) \/ PostInitError(r)
  <2>1. Receiving(i) \subseteq Receiving(i)' /\ Responding(i) \subseteq Responding(i)'
    BY <1>5 DEF CallNext, NextDone, NextShutdown, TerminateIdleInstance, RuntimeExit,
                UnregisterLambdaRuntime, PostInitError, Receiving, Responding
  <2>2. UNCHANGED <<pendingRequests, response>>
    BY <1>5 DEF CallNext, NextDone, NextShutdown, TerminateIdleInstance, RuntimeExit,
                UnregisterLambdaRuntime, PostInitError
  <2>. QED  BY <2>1, <2>2
<1>. QED  BY <1>2, <1>3, <1>4, <1>5 DEF Instance

LEMMA FindableCall ==
    ASSUME UniqueCids, Inv, WaitersFindable, NEW j \in Requests, Call(j)
    PROVE  WaitersFindable'
<1>. USE DEF Inv, TypeOK, RAPITypeOK, Delivered, WaitersFindable, rapivars
<1>1. ASSUME UNCHANGED <<conn, work, to, pendingRequests, response>>
      PROVE  \A i \in Requests : Findable(i)' = Findable(i)
  BY <1>1 DEF Findable, Receiving, Responding
<1>2. CASE Invoke(j) \/ InvokeBadContext(j) \/ NoneIdle(j)
           \/ \E why \in {"timeout", "cancelled"} : CtxDone(j, why)
  BY <1>1, <1>2 DEF Invoke, InvokeBadContext, NoneIdle, CtxDone, Goto, Return
<1>3. ASSUME NEW r \in Instances, NEW from \in {"try", "send"}, Send(j, r, from)
      PROVE  WaitersFindable'
  <2>1. r \in Receiving(j)' /\ UNCHANGED <<pendingRequests, response>>
    BY <1>3 DEF Send, ReceiveInvocation, Receiving
  <2>2. \A i \in Requests : Receiving(i) \subseteq Receiving(i)' /\ Responding(i) = Responding(i)'
    BY <1>3 DEF Send, ReceiveInvocation, Receiving, Responding
  <2>3. \A i \in Requests : i # j => pc'[i] = pc[i] /\ deliveries'[i] = deliveries[i]
    BY <1>3 DEF Send, Goto
  <2>4. Findable(j)' /\ \A i \in Requests : Findable(i) => Findable(i)'
    BY <2>1, <2>2 DEF Findable
  <2>. HIDE DEF Inv, TypeOK, RAPITypeOK, Delivered
  <2>. QED  BY <2>3, <2>4
<1>4. ASSUME NEW from \in {"try", "send"}, GiveUp(j, from)
      PROVE  WaitersFindable'
  BY <1>1, <1>4 DEF GiveUp, Goto
<1>5. CASE InitReturns(j)
  <2>1. \A i \in Requests : Receiving(i) \subseteq Receiving(i)' /\ Responding(i) = Responding(i)'
    BY <1>5 DEF InitReturns, Launch, Receiving, Responding
  <2>2. UNCHANGED <<pendingRequests, response, deliveries>>
    BY <1>5 DEF InitReturns, Launch
  <2>3. \A i \in Requests : pc'[i] = "wait" => pc[i] = "wait"
    BY <1>5 DEF InitReturns, Goto
  <2>4. \A i \in Requests : Findable(i) => Findable(i)'
    BY <2>1, <2>2 DEF Findable
  <2>. HIDE DEF Inv, TypeOK, RAPITypeOK, Delivered
  <2>. QED  BY <2>2, <2>3, <2>4
<1>6. CASE ForwardInitError(j)
  <2>1. deliveries[j] = 0 /\ UNCHANGED <<conn, work, to, pendingRequests, deliveries>>
    BY <1>6 DEF ForwardInitError, Goto
  <2>2. \A i \in Requests : i # j => pc'[i] = pc[i] /\ response'[i] = response[i]
    BY <1>6 DEF ForwardInitError, Goto
  <2>3. \A i \in Requests : i # j => Receiving(i)' = Receiving(i) /\ Responding(i)' = Responding(i)
    BY <2>1 DEF Receiving, Responding
  <2>4. \A i \in Requests : i # j => (Findable(i) => Findable(i)')
    BY <2>1, <2>2, <2>3 DEF Findable
  <2>. HIDE DEF Inv, TypeOK, RAPITypeOK, Delivered
  <2>. QED  BY <2>1, <2>2, <2>4
<1>7. CASE ReceiveResponse(j)
  <2>1. UNCHANGED <<conn, work, to, pendingRequests, deliveries>> /\ pc'[j] = "returned"
    BY <1>7 DEF ReceiveResponse, Goto, Return
  <2>2. \A i \in Requests : i # j => pc'[i] = pc[i] /\ response'[i] = response[i]
    BY <1>7 DEF ReceiveResponse, Goto
  <2>3. \A i \in Requests : i # j => Receiving(i)' = Receiving(i) /\ Responding(i)' = Responding(i)
    BY <2>1 DEF Receiving, Responding
  <2>4. \A i \in Requests : i # j => (Findable(i) => Findable(i)')
    BY <2>1, <2>2, <2>3 DEF Findable
  <2>. HIDE DEF Inv, TypeOK, RAPITypeOK, Delivered
  <2>. QED  BY <2>1, <2>2, <2>4
<1>8. CASE Cancelled(j)
  <2>1. UNCHANGED <<conn, work, to, response, deliveries>> /\ pc'[j] = "returned"
    BY <1>8 DEF Cancelled, Goto, Return
  <2>2. \A i \in Requests : i # j => /\ pc'[i] = pc[i]
                                    /\ pendingRequests'[Cid[i]] = pendingRequests[Cid[i]]
    BY <1>8 DEF Cancelled, Goto, DeleteRequest, UniqueCids
  <2>3. \A i \in Requests : i # j => Receiving(i)' = Receiving(i) /\ Responding(i)' = Responding(i)
    BY <2>1 DEF Receiving, Responding
  <2>4. \A i \in Requests : i # j => (Findable(i) => Findable(i)')
    BY <2>1, <2>2, <2>3 DEF Findable
  <2>. HIDE DEF Inv, TypeOK, RAPITypeOK, Delivered
  <2>. QED  BY <2>1, <2>2, <2>4
<1>. QED  BY <1>2, <1>3, <1>4, <1>5, <1>6, <1>7, <1>8 DEF Call, InvokeStep

(***************************************************************************)
(* When correlation ids are unique, the response of a Runtime that has the *)
(* request of a waiting call finds that call (runtimeapi.go:223, 310-311;  *)
(* rapiinvoker.go:239-246), whatever other calls and Runtimes do.          *)
(***************************************************************************)
THEOREM WaitersFound == ASSUME UniqueCids PROVE Spec => []WaiterReachable
<1>1. Init => WaitersFindable
  BY DEF Init, WaitersFindable
<1>2. Inv /\ WaitersFindable /\ [Next]_vars => WaitersFindable'
  <2>. SUFFICES ASSUME Inv, WaitersFindable, [Next]_vars PROVE WaitersFindable'
    OBVIOUS
  <2>1. ASSUME NEW i \in Requests, Call(i) PROVE WaitersFindable'
    BY <2>1, FindableCall
  <2>2. ASSUME NEW r \in Instances, Instance(r), UNCHANGED invokevars PROVE WaitersFindable'
    BY <2>2, FindableInstance
  <2>3. CASE (TimePasses /\ UNCHANGED invokevars) \/ UNCHANGED vars
    BY <2>3 DEF TimePasses, vars, rapivars, invokevars, WaitersFindable, Findable,
                Receiving, Responding
  <2>. QED  BY <2>1, <2>2, <2>3 DEF Next, Call
<1>3. Inv /\ WaitersFindable => WaiterReachable
  <2>. SUFFICES ASSUME Inv, WaitersFindable, NEW i \in Requests, NEW r \in Instances,
                       pc[i] = "wait", work[r] = i, conn[r] = "none"
                PROVE  \/ pendingRequests[Cid[i]] = i
                       \/ response[i] # <<>>
                       \/ \E q \in Instances : conn[q] = "responding" /\ to[q] = i
    BY DEF WaiterReachable
  <2>1. deliveries[i] = 1
    BY DEF Inv, Delivered
  <2>2. Receiving(i) = {}
    BY DEF Inv, OneSender, SoleSender, Receiving
  <2>3. Findable(i)
    BY <2>1 DEF WaitersFindable
  <2>. QED  BY <2>2, <2>3 DEF Findable, Responding
<1>. QED  BY <1>1, <1>2, <1>3, Invariant, PTL DEF Spec
=============================================================================
