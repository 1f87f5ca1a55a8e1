----------------------------- MODULE RuntimeAPI -----------------------------
(***************************************************************************)
(* The Runtime API server (pkg/runtimeapi/runtimeapi.go): the handlers     *)
(* next, response and initerror that Runtime instances call, the map       *)
(* pendingRequests from request ids to Response channels, and the          *)
(* termination of idle instances.  RAPIInvoker composes this module with   *)
(* the invoke calls that feed it.                                          *)
(*                                                                         *)
(* A request stands for one call of invoke and for the Response channel    *)
(* that call creates.  Each Runtime instance has one connection, on which  *)
(* at most one handler runs; a handler goes on running when the instance   *)
(* dies.  Time is abstract: a deadline may pass at any moment.             *)
(***************************************************************************)
EXTENDS Naturals, Sequences, FiniteSets

CONSTANTS
    Requests,       \* calls of invoke
    None,           \* no request
    Cids,           \* correlation ids
    Cid,            \* Cid[i]: the correlation id of request i
    Instances,      \* Runtime instances
    MaxConcurrency  \* MAX_CONCURRENCY

ASSUME RAPIAssumption ==
    /\ None \notin Requests
    /\ Cid \in [Requests -> Cids]
    /\ IsFiniteSet(Instances)
    /\ MaxConcurrency \in Nat \ {0}

VARIABLES
    proc,             \* proc[r]: "down", "up", or "dead" and not yet unregistered
    conn,             \* conn[r]: the handler that runs for r, and where it is
    work,             \* work[r]: the request r was given last
    to,               \* to[r]: the channel the response handler of r looked up
    pendingRequests,  \* rapi.pendingRequests: id to channel
    response,         \* response[i]: the buffer of invocation.Response
    InitError,        \* TRUE iff rapi.InitError holds its one item
    shutdown,         \* TRUE iff rapi.shutdown holds its one item
    idle              \* TRUE iff rapi.timestamp is older than idleTimeout

rapivars == <<proc, conn, work, to, pendingRequests, response, InitError,
              shutdown, idle>>

Reply(kind, i) == [kind |-> kind, request |-> i]
Responses == [kind : {"function", "partial"}, request : Requests]
               \cup {Reply("initError", None)}

RAPITypeOK ==
    /\ proc \in [Instances -> {"down", "up", "dead"}]
    /\ conn \in [Instances -> {"none", "next", "received", "terminate", "responding"}]
    /\ work \in [Instances -> Requests \cup {None}]
    /\ to \in [Instances -> Requests \cup {None}]
    /\ pendingRequests \in [Cids -> Requests \cup {None}]
    /\ response \in [Requests -> {<<>>} \cup {<<m>> : m \in Responses}]
    /\ InitError \in BOOLEAN
    /\ shutdown \in BOOLEAN
    /\ idle \in BOOLEAN

RAPIInit ==
    /\ proc = [r \in Instances |-> "down"]
    /\ conn = [r \in Instances |-> "none"]
    /\ work = [r \in Instances |-> None]
    /\ to = [r \in Instances |-> None]
    /\ pendingRequests = [k \in Cids |-> None]
    /\ response = [i \in Requests |-> <<>>]
    /\ InitError = FALSE
    /\ shutdown = FALSE
    /\ idle = FALSE

\* rapi.lambdaCount: the registered instances, the dead ones included until
\* they are reaped.
lambdaCount == Cardinality({r \in Instances : proc[r] # "down"})

\* The ids that are in the map.
Pending == {k \in Cids : pendingRequests[k] # None}
-----------------------------------------------------------------------------
(***************************************************************************)
(* Instances come and go.  LambdaPool has the details of both.             *)
(***************************************************************************)

\* A Runtime is started and registered; RegisterLambdaRuntime sets timestamp.
Launch(r) ==
    /\ proc[r] = "down"
    /\ conn[r] = "none"
    /\ lambdaCount < MaxConcurrency
    /\ proc' = [proc EXCEPT ![r] = "up"]
    /\ work' = [work EXCEPT ![r] = None]
    /\ idle' = FALSE
    /\ UNCHANGED <<conn, to, pendingRequests, response, InitError, shutdown>>

\* A Runtime crashes or exits.
RuntimeExit(r) ==
    /\ proc[r] = "up"
    /\ proc' = [proc EXCEPT ![r] = "dead"]
    /\ UNCHANGED <<conn, work, to, pendingRequests, response, InitError, shutdown, idle>>

\* It is reaped and UnregisterLambdaRuntime is called.
UnregisterLambdaRuntime(r) ==
    /\ proc[r] = "dead"
    /\ proc' = [proc EXCEPT ![r] = "down"]
    /\ UNCHANGED <<conn, work, to, pendingRequests, response, InitError, shutdown, idle>>

\* More than idleTimeout has passed since timestamp was set.
TimePasses ==
    /\ ~idle
    /\ idle' = TRUE
    /\ UNCHANGED <<proc, conn, work, to, pendingRequests, response, InitError, shutdown>>
-----------------------------------------------------------------------------
(***************************************************************************)
(* The next handler.                                                       *)
(***************************************************************************)

\* A Runtime asks for its next invocation, whether or not it answered the last.
CallNext(r) ==
    /\ proc[r] = "up"
    /\ conn[r] = "none"
    /\ conn' = [conn EXCEPT ![r] = "next"]
    /\ work' = [work EXCEPT ![r] = None]
    /\ UNCHANGED <<proc, to, pendingRequests, response, InitError, shutdown, idle>>

\* case invocation := <-rapi.Invocations, the other half of invoke's send.
\* Extensions are then told of the invocation, which may take any time.
ReceiveInvocation(r, i) ==
    /\ conn[r] = "next"
    /\ conn' = [conn EXCEPT ![r] = "received"]
    /\ work' = [work EXCEPT ![r] = i]
    /\ UNCHANGED <<proc, to, pendingRequests, response, InitError, shutdown, idle>>

\* The critical section: store the channel, refresh timestamp when every
\* instance is busy, otherwise signal shutdown when it is too old.  The
\* handler then writes the invocation to the Runtime and returns.
StoreRequest(r) ==
    /\ conn[r] = "received"
    /\ pendingRequests' = [pendingRequests EXCEPT ![Cid[work[r]]] = work[r]]
    /\ shutdown' = (shutdown \/ (idle /\ Cardinality(Pending') # lambdaCount))
    /\ idle' = FALSE
    /\ conn' = [conn EXCEPT ![r] = "none"]
    /\ UNCHANGED <<proc, work, to, response, InitError>>

\* case <-ctx.Done(): the idle timeout of this request, or its connection closed.
NextDone(r) ==
    /\ conn[r] = "next"
    /\ conn' = [conn EXCEPT ![r] = "terminate"]
    /\ UNCHANGED <<proc, work, to, pendingRequests, response, InitError, shutdown, idle>>

\* case <-rapi.shutdown.
NextShutdown(r) ==
    /\ conn[r] = "next"
    /\ shutdown
    /\ shutdown' = FALSE
    /\ conn' = [conn EXCEPT ![r] = "terminate"]
    /\ UNCHANGED <<proc, work, to, pendingRequests, response, InitError, idle>>

\* terminateIdleInstance, with no Extension registered: the process group of
\* the caller is killed, unless its pid cannot be found.
TerminateIdleInstance(r) ==
    /\ conn[r] = "terminate"
    /\ conn' = [conn EXCEPT ![r] = "none"]
    /\ \/ proc[r] = "up" /\ proc' = [proc EXCEPT ![r] = "dead"]
       \/ UNCHANGED proc
    /\ UNCHANGED <<work, to, pendingRequests, response, InitError, shutdown, idle>>
-----------------------------------------------------------------------------
(***************************************************************************)
(* The response and initerror handlers, and DeleteRequest.                 *)
(***************************************************************************)

\* Mutant of PostResponse: the entry is left in the map.
PostResponseKeepsEntry(r) ==
    /\ proc[r] = "up"
    /\ conn[r] = "none"
    /\ work[r] # None
    /\ pendingRequests[Cid[work[r]]] # None
    /\ to' = [to EXCEPT ![r] = pendingRequests[Cid[work[r]]]]
    /\ conn' = [conn EXCEPT ![r] = "responding"]
    /\ UNCHANGED <<proc, work, pendingRequests, response, InitError, shutdown, idle>>

\* A Runtime posts the response, or the error, of the request it was given:
\* the channel is looked up and its entry deleted.  A Runtime may post twice;
\* a post that finds no entry changes nothing.
PostResponse(r) ==
    /\ proc[r] = "up"
    /\ conn[r] = "none"
    /\ work[r] # None
    /\ pendingRequests[Cid[work[r]]] # None
    /\ to' = [to EXCEPT ![r] = pendingRequests[Cid[work[r]]]]
    /\ pendingRequests' = [pendingRequests EXCEPT ![Cid[work[r]]] = None]
    /\ conn' = [conn EXCEPT ![r] = "responding"]
    /\ UNCHANGED <<proc, work, response, InitError, shutdown, idle>>

\* What io.ReadAll, whose error is ignored, returns of the body: perhaps only
\* a part of it when the Runtime has died.
Body(r) ==
    {Reply("function", work[r])}
      \cup IF proc[r] = "up" THEN {} ELSE {Reply("partial", work[r])}

\* responses <- response, which waits while the buffer of one item is full.
SendResponse(r) ==
    /\ conn[r] = "responding"
    /\ response[to[r]] = <<>>
    /\ \E body \in Body(r) : response' = [response EXCEPT ![to[r]] = <<body>>]
    /\ conn' = [conn EXCEPT ![r] = "none"]
    /\ to' = [to EXCEPT ![r] = None]
    /\ UNCHANGED <<proc, work, pendingRequests, InitError, shutdown, idle>>

\* A Runtime posts an initialisation error, dropped when InitError is full,
\* and exits.
PostInitError(r) ==
    /\ proc[r] = "up"
    /\ conn[r] = "none"
    /\ work[r] = None
    /\ InitError' = TRUE
    /\ proc' = [proc EXCEPT ![r] = "dead"]
    /\ UNCHANGED <<conn, work, to, pendingRequests, response, shutdown, idle>>

\* Mutant of DeleteRequest: the map is cleared.
DeleteAllRequests(i) == pendingRequests' = [k \in Cids |-> None]

\* DeleteRequest(id): whatever channel the id leads to is removed.
DeleteRequest(i) == pendingRequests' = [pendingRequests EXCEPT ![Cid[i]] = None]

\* What instances and the handlers of their connections do by themselves.
Instance(r) ==
    \/ RuntimeExit(r)
    \/ UnregisterLambdaRuntime(r)
    \/ CallNext(r)
    \/ StoreRequest(r)
    \/ NextDone(r)
    \/ NextShutdown(r)
    \/ TerminateIdleInstance(r)
    \/ PostResponse(r)
    \/ SendResponse(r)
    \/ PostInitError(r)
=============================================================================
