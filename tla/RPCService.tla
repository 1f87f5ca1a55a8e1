----------------------------- MODULE RPCService -----------------------------
(***************************************************************************)
(* What invocation over AMQP promises a client of the Lambda Server,       *)
(* without queues, connections or daemons.  A request may be executed, and *)
(* executed again, even after its call has returned; but a response is     *)
(* that of an execution of a request with the id of this one, which for an *)
(* id used once is this request, and a request that is refused, because no *)
(* daemon serves the Function, is never executed, so that the client may   *)
(* safely repeat it under an id of its own.  Of a call whose context ends  *)
(* nothing is known.                                                       *)
(***************************************************************************)
CONSTANTS
    Requests,  \* calls of invoke
    None,      \* no request
    Cid        \* Cid[i]: the correlation id of request i

VARIABLES
    status,  \* status[i]: "idle", "called" or "answered"
    fate,    \* fate[i]: what became of the request
    answer   \* answer[i]: what invoke returned

Reply(kind, i) == [kind |-> kind, request |-> i]

Init ==
    /\ status = [i \in Requests |-> "idle"]
    /\ fate = [i \in Requests |-> "none"]
    /\ answer = [i \in Requests |-> Reply("none", None)]

\* A client calls invoke.
Call(i) ==
    /\ status[i] = "idle"
    /\ status' = [status EXCEPT ![i] = "called"]
    /\ UNCHANGED <<fate, answer>>

\* The request is accepted, refused or lost.
Publish(i) ==
    /\ status[i] = "called"
    /\ fate[i] = "none"
    /\ \E f \in {"queued", "returned", "lost"} : fate' = [fate EXCEPT ![i] = f]
    /\ UNCHANGED <<status, answer>>

\* A request that was accepted is executed, whether or not its call waits.
Execute(i) ==
    /\ fate[i] = "queued"
    /\ fate' = [fate EXCEPT ![i] = "executed"]
    /\ UNCHANGED <<status, answer>>

\* The requests with the id of request i of which f became.
Namesakes(i, f) == {j \in Requests : Cid[j] = Cid[i] /\ fate[j] = f}

\* The answers invoke may return once its request has been published.
Allowed(i) ==
    {Reply("response", j) : j \in Namesakes(i, "executed")}
      \cup {Reply("unreachable", j) : j \in Namesakes(i, "returned")}
      \cup {Reply("ended", None)}

\* invoke returns.
Answer(i) ==
    /\ status[i] = "called"
    /\ fate[i] # "none"
    /\ status' = [status EXCEPT ![i] = "answered"]
    /\ \E a \in Allowed(i) : answer' = [answer EXCEPT ![i] = a]
    /\ UNCHANGED fate

Next == \E i \in Requests : Call(i) \/ Publish(i) \/ Execute(i) \/ Answer(i)

Spec == Init /\ [][Next]_<<status, fate, answer>>
=============================================================================
