--------------------------- MODULE InvokeService ---------------------------
(***************************************************************************)
(* What the daemon promises its clients, without Runtimes, channels or     *)
(* timers: an invocation is handed to a Runtime at most once, it gets at   *)
(* most one answer, and the answer is what the Function made of a request  *)
(* with the id of this one, which for ids used once is this request, an    *)
(* error of the Runtime's initialisation, or the end of the context.       *)
(***************************************************************************)
EXTENDS Naturals

CONSTANTS
    Requests,  \* calls of invoke
    None,      \* no request
    Cid        \* Cid[i]: the correlation id of request i

VARIABLES
    status,  \* status[i]: "new", "offered" or "answered"
    given,   \* given[i]: how often request i has been handed to a Runtime
    answer   \* answer[i]: what invoke returned

Reply(kind, i) == [kind |-> kind, request |-> i]

Init ==
    /\ status = [i \in Requests |-> "new"]
    /\ given = [i \in Requests |-> 0]
    /\ answer = [i \in Requests |-> Reply("none", None)]

\* A client calls invoke.
Offer(i) ==
    /\ status[i] = "new"
    /\ status' = [status EXCEPT ![i] = "offered"]
    /\ UNCHANGED <<given, answer>>

\* A Runtime is given the request.
Take(i) ==
    /\ status[i] = "offered"
    /\ given[i] = 0
    /\ given' = [given EXCEPT ![i] = 1]
    /\ UNCHANGED <<status, answer>>

\* The requests whose result may reach call i: those with its id that a
\* Runtime was given, once call i's own request has been given to one.
Answering(i) == {j \in Requests : Cid[j] = Cid[i] /\ given[j] = 1 /\ given[i] = 1}

\* The answers invoke may return, by how far the request has come.
Allowed(i) ==
    CASE status[i] = "new"     -> {Reply("badContext", i)}
      [] status[i] = "offered" ->
            {Reply(k, i) : k \in {"timeout", "cancelled"}}
              \cup {Reply(k, j) : k \in {"function", "partial"}, j \in Answering(i)}
              \cup {a \in {Reply("initError", None)} : given[i] = 0}
      [] OTHER                 -> {}

\* invoke returns.
Answer(i) ==
    /\ \E a \in Allowed(i) : answer' = [answer EXCEPT ![i] = a]
    /\ status' = [status EXCEPT ![i] = "answered"]
    /\ UNCHANGED given

Next == \E i \in Requests : Offer(i) \/ Take(i) \/ Answer(i)

Spec == Init /\ [][Next]_<<status, given, answer>>
=============================================================================
