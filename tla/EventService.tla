---------------------------- MODULE EventService ----------------------------
(***************************************************************************)
(* What the Extensions API promises: Extensions belong to one instance, or *)
(* are strays, which belong to none.  An instance offers one event at a    *)
(* time, to Extensions of its own or, when it is taken for a stray itself, *)
(* to strays, and never to those of another.  Each that has subscribed     *)
(* takes it before the instance goes on, and takes it once; only a stray   *)
(* may be told to shut down by several instances.                          *)
(***************************************************************************)
CONSTANTS
    Instances,   \* Runtime instances
    Extensions,  \* Extensions
    Events,      \* the events there are
    None,        \* no event
    KindOf(_)    \* the kind of an event, as Extensions subscribe to it

VARIABLES
    members,     \* members[g]: the Extensions of instance g
    strays,      \* the Extensions of no instance
    subscribed,  \* subscribed[k]: the Extensions that take events of kind k
    event,       \* event[g]: the event that g offers, or None
    audience,    \* audience[g]: the Extensions it has yet to be offered to
    got          \* got[x]: the events Extension x has taken

vars == <<members, strays, subscribed, event, audience, got>>

Init ==
    /\ members = [g \in Instances |-> {}]
    /\ strays = {}
    /\ subscribed = [k \in {"INVOKE", "SHUTDOWN"} |-> {}]
    /\ event = [g \in Instances |-> None]
    /\ audience = [g \in Instances |-> {}]
    /\ got = [x \in Extensions |-> {}]

\* Extension x joins an instance, or the strays, for good.
Join(x) ==
    /\ x \notin strays /\ \A g \in Instances : x \notin members[g]
    /\ \/ /\ \E g \in Instances : members' = [members EXCEPT ![g] = @ \cup {x}]
          /\ UNCHANGED strays
       \/ strays' = strays \cup {x} /\ UNCHANGED members

\* An Extension joins, subscribes to some kinds of events, or both.
Enrol(x) ==
    /\ UNCHANGED <<event, audience, got>>
    /\ UNCHANGED <<members, strays>> \/ Join(x)
    /\ \E kinds \in SUBSET DOMAIN subscribed :
          subscribed' = [k \in DOMAIN subscribed |->
                            IF k \in kinds THEN subscribed[k] \cup {x} ELSE subscribed[k]]

\* Instance g offers e to members it has, or to strays.
Offer(g, e) ==
    /\ event[g] = None
    /\ event' = [event EXCEPT ![g] = e]
    /\ \E some \in (SUBSET members[g]) \cup (SUBSET strays) :
          audience' = [audience EXCEPT ![g] = some]
    /\ UNCHANGED <<members, strays, subscribed, got>>

\* Extension x takes the event, which it has not had before, unless it is a stray
\* that is told to shut down.
Take(g, x) ==
    /\ x \in audience[g]
    /\ x \in subscribed[KindOf(event[g])]
    /\ event[g] \in got[x] => x \in strays /\ KindOf(event[g]) = "SHUTDOWN"
    /\ got' = [got EXCEPT ![x] = @ \cup {event[g]}]
    /\ audience' = [audience EXCEPT ![g] = @ \ {x}]
    /\ UNCHANGED <<members, strays, subscribed, event>>

\* Extension x is passed over, as it has not subscribed.
PassOver(g, x) ==
    /\ x \in audience[g]
    /\ x \notin subscribed[KindOf(event[g])]
    /\ audience' = [audience EXCEPT ![g] = @ \ {x}]
    /\ UNCHANGED <<members, strays, subscribed, event, got>>

\* Everybody has been told: instance g goes on.
Complete(g) ==
    /\ audience[g] = {}
    /\ event' = [event EXCEPT ![g] = None]
    /\ UNCHANGED <<members, strays, subscribed, audience, got>>

Next ==
    \/ \E x \in Extensions : Enrol(x)
    \/ \E g \in Instances :
          \/ \E e \in Events : Offer(g, e)
          \/ \E x \in Extensions : Take(g, x) \/ PassOver(g, x)
          \/ Complete(g)

Spec == Init /\ [][Next]_vars
=============================================================================
