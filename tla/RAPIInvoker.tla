---------------------------- MODULE RAPIInvoker ----------------------------
(***************************************************************************)
(* RAPIInvoker.invoke (pkg/invokeapi/rapiinvoker.go) composed with the     *)
(* Runtime API server: each call of invoke offers its request on the       *)
(* unbuffered channel rapi.Invocations, may launch an instance, and waits  *)
(* for a response, an initialisation error or the end of its context.      *)
(* InvokeService says what this amounts to for a client.                   *)
(***************************************************************************)
EXTENDS RuntimeAPI

VARIABLES
    pc,         \* pc[i]: where call i of invoke is
    ctx,        \* ctx[i]: the context of call i: live, or why it is done
    answer,     \* answer[i]: what call i returned
    deliveries  \* history: how often a next handler has received request i

invokevars == <<pc, ctx, answer, deliveries>>
vars       == <<rapivars, invokevars>>

Answers ==
    [kind : {"none", "function", "partial", "initError", "badContext", "timeout",
             "cancelled"}, request : Requests \cup {None}]

TypeOK ==
    /\ RAPITypeOK
    /\ pc \in [Requests -> {"idle", "try", "init", "send", "wait", "returned"}]
    /\ ctx \in [Requests -> {"live", "timeout", "cancelled"}]
    /\ answer \in [Requests -> Answers]
    /\ deliveries \in [Requests -> Nat]

Init ==
    /\ RAPIInit
    /\ pc = [i \in Requests |-> "idle"]
    /\ ctx = [i \in Requests |-> "live"]
    /\ answer = [i \in Requests |-> Reply("none", None)]
    /\ deliveries = [i \in Requests |-> 0]
-----------------------------------------------------------------------------
\* Control of call i goes from one place of invoke to another.
Goto(i, from, dest) ==
    /\ pc[i] = from
    /\ pc' = [pc EXCEPT ![i] = dest]

\* Call i returns a.
Return(i, a) ==
    /\ answer' = [answer EXCEPT ![i] = a]
    /\ UNCHANGED <<ctx, deliveries>>

\* invoke is called, with a context that ends no later than the timeout.
Invoke(i) ==
    /\ Goto(i, "idle", "try")
    /\ UNCHANGED <<rapivars, ctx, answer, deliveries>>

\* The early return for a client context that is not Base64.
InvokeBadContext(i) ==
    /\ Goto(i, "idle", "returned")
    /\ Return(i, Reply("badContext", i))
    /\ UNCHANGED rapivars

\* The timeout passes, or the client closes its connection.
CtxDone(i, why) ==
    /\ pc[i] \notin {"idle", "returned"}
    /\ ctx[i] = "live"
    /\ ctx' = [ctx EXCEPT ![i] = why]
    /\ UNCHANGED <<rapivars, pc, answer, deliveries>>

\* Mutant of Send: the select that sent the request is tried again.
SendAgain(i, r, from) ==
    /\ pc[i] = from
    /\ pc' = [pc EXCEPT ![i] = IF from = "try" THEN "send" ELSE "wait"]
    /\ ReceiveInvocation(r, i)
    /\ deliveries' = [deliveries EXCEPT ![i] = @ + 1]
    /\ UNCHANGED <<ctx, answer>>

\* rapi.Invocations <- invocation meets a next handler that receives.
Send(i, r, from) ==
    /\ Goto(i, from, "wait")
    /\ ReceiveInvocation(r, i)
    /\ deliveries' = [deliveries EXCEPT ![i] = @ + 1]
    /\ UNCHANGED <<ctx, answer>>

\* Mutant of GiveUp: the blocking send has no case for ctx.Done().
GiveUpFirstOnly(i, from) ==
    /\ ctx[i] # "live"
    /\ from = "try"
    /\ Goto(i, from, "wait")
    /\ UNCHANGED <<rapivars, ctx, answer, deliveries>>

\* case <-ctx.Done() of the selects that offer the request.
GiveUp(i, from) ==
    /\ ctx[i] # "live"
    /\ Goto(i, from, "wait")
    /\ UNCHANGED <<rapivars, ctx, answer, deliveries>>

\* The default branch, taken only when neither of the others is ready.
NoneIdle(i) ==
    /\ ctx[i] = "live"
    /\ \A r \in Instances : conn[r] # "next"
    /\ Goto(i, "try", "init")
    /\ UNCHANGED <<rapivars, ctx, answer, deliveries>>

\* rapi.Init returns: it has launched an instance or passed through.  It may
\* never do so: init waits for an Extension that does not register, without a
\* timeout and without looking at ctx, and others wait for its Once.
InitReturns(i) ==
    /\ Goto(i, "init", "send")
    /\ (\E r \in Instances : Launch(r)) \/ UNCHANGED rapivars
    /\ UNCHANGED <<ctx, answer, deliveries>>

\* Mutant of ForwardInitError: the last select receives from InitError too.
ForwardInitErrorLate(i) ==
    /\ pc[i] \in {"send", "wait"}
    /\ pc' = [pc EXCEPT ![i] = "wait"]
    /\ InitError
    /\ InitError' = FALSE
    /\ response' = [response EXCEPT ![i] = <<Reply("initError", None)>>]
    /\ UNCHANGED <<proc, conn, work, to, pendingRequests, shutdown, idle, ctx, answer,
                   deliveries>>

\* An initialisation error is forwarded to the Response channel.
ForwardInitError(i) ==
    /\ Goto(i, "send", "wait")
    /\ InitError
    /\ InitError' = FALSE
    /\ response' = [response EXCEPT ![i] = <<Reply("initError", None)>>]
    /\ UNCHANGED <<proc, conn, work, to, pendingRequests, shutdown, idle, ctx, answer,
                   deliveries>>

\* case invocationResponse := <-invocation.Response.
ReceiveResponse(i) ==
    /\ Goto(i, "wait", "returned")
    /\ response[i] # <<>>
    /\ response' = [response EXCEPT ![i] = <<>>]
    /\ Return(i, Head(response[i]))
    /\ UNCHANGED <<proc, conn, work, to, pendingRequests, InitError, shutdown, idle>>

\* Mutant of Cancelled: ctx.Done() wins over a context that is live.
CancelledEarly(i) ==
    /\ Goto(i, "wait", "returned")
    /\ DeleteRequest(i)
    /\ Return(i, Reply(ctx[i], i))
    /\ UNCHANGED <<proc, conn, work, to, response, InitError, shutdown, idle>>

\* case <-ctx.Done() of the last select: the entry is deleted.  Whether the
\* lock is taken right after the select or later makes no difference, as a
\* context that is done stays done.
Cancelled(i) ==
    /\ Goto(i, "wait", "returned")
    /\ ctx[i] # "live"
    /\ DeleteRequest(i)
    /\ Return(i, Reply(ctx[i], i))
    /\ UNCHANGED <<proc, conn, work, to, response, InitError, shutdown, idle>>

\* The steps of a call that has begun, but for the return of rapi.Init.
InvokeStep(i) ==
    \/ \E r \in Instances, from \in {"try", "send"} : Send(i, r, from)
    \/ \E from \in {"try", "send"} : GiveUp(i, from)
    \/ NoneIdle(i)
    \/ ForwardInitError(i)
    \/ ReceiveResponse(i)
    \/ Cancelled(i)

Next ==
    \/ \E i \in Requests :
          \/ Invoke(i)
          \/ InvokeBadContext(i)
          \/ \E why \in {"timeout", "cancelled"} : CtxDone(i, why)
          \/ InvokeStep(i)
          \/ InitReturns(i)
    \/ (TimePasses \/ \E r \in Instances : Instance(r)) /\ UNCHANGED invokevars

Spec == Init /\ [][Next]_vars

(***************************************************************************)
(* A call that can go on does, and its timer fires.  Nothing is assumed of *)
(* rapi.Init, of Runtimes or of the handlers they call.                    *)
(***************************************************************************)
FairSpec ==
    /\ Spec
    /\ \A i \in Requests : WF_vars(InvokeStep(i)) /\ WF_vars(CtxDone(i, "timeout"))
-----------------------------------------------------------------------------
(***************************************************************************)
(* Properties.                                                             *)
(***************************************************************************)

\* Every correlation id is used once, as when invoke generates them.
UniqueCids == \A i, j \in Requests : Cid[i] = Cid[j] => i = j

\* The buffer of one item is enough (rapiinvoker.go:169): a response handler
\* never waits for room, even when its invoke call has gone, a Runtime posts
\* twice, or an id is used by two calls.
ResponseChanNeverBlocks ==
    \A r \in Instances : conn[r] = "responding" => response[to[r]] = <<>>

\* Handlers that have yet to store the channel of request i, or to send to it.
Receiving(i)  == {r \in Instances : conn[r] = "received" /\ work[r] = i}
Responding(i) == {r \in Instances : conn[r] = "responding" /\ to[r] = i}

\* Request i is worked on by one instance, and the right to send on its channel
\* is in one place: with the next handler that received i, in the map, with the
\* response handler that took the entry out, or used up.
SoleSender(i) ==
    /\ \A r, q \in Instances : work[r] = i /\ work[q] = i => r = q
    /\ \A r, q \in Responding(i) : r = q
    /\ Receiving(i) # {} => pendingRequests[Cid[i]] # i /\ Responding(i) = {}
    /\ pendingRequests[Cid[i]] = i => Responding(i) = {}
    /\ response[i] # <<>> => /\ Receiving(i) = {}
                            /\ pendingRequests[Cid[i]] # i
                            /\ Responding(i) = {}

\* Why no response handler blocks: no request ever has two senders, even when
\* ids are used again (runtimeapi.go:197-223, 310-318).
OneSender == \A i \in Requests : SoleSender(i)

\* While a call waits and a Runtime has its request, a response of that
\* Runtime will find the call: its entry is in pendingRequests, a response
\* handler has looked it up, or the response is in the channel
\* (runtimeapi.go:223, 310-311; "until the invoked Function responds whereupon
\* this method will return with the Function response", rapiinvoker.go:110-114).
WaiterReachable ==
    \A i \in Requests, r \in Instances :
        (pc[i] = "wait" /\ work[r] = i /\ conn[r] = "none") =>
            \/ pendingRequests[Cid[i]] = i
            \/ response[i] # <<>>
            \/ \E q \in Instances : conn[q] = "responding" /\ to[q] = i

\* A call of invoke returns, whatever Runtimes do, unless rapi.Init holds it up:
\* its selects end at the timeout (rapiinvoker.go:181-246).  The comment at
\* rapiinvoker.go:115-116 says that invoke blocks for the full timeout at most;
\* in rapi.Init, which has no timeout, it may block for ever.
ReturnsUnlessInInit ==
    \A i \in Requests : pc[i] # "idle" ~> pc[i] \in {"returned", "init"}

\* The status of a call as its client sees it.
StatusOf(i) ==
    CASE pc[i] = "returned" -> "answered"
      [] pc[i] = "idle"     -> "new"
      [] OTHER              -> "offered"

status == [i \in Requests |-> StatusOf(i)]

\* The daemon implements InvokeService: a request reaches at most one Runtime,
\* once, and its answer is what a Runtime made of a request with its id: its
\* own, unless a client uses ids again (rapiinvoker.go:117-260 with
\* runtimeapi.go:197-327).
Service == INSTANCE InvokeService WITH
    Requests <- Requests,
    None     <- None,
    Cid      <- Cid,
    status   <- status,
    given    <- deliveries,
    answer   <- answer

ImplementsService == Service!Spec
=============================================================================
