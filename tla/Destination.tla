---------------------------- MODULE Destination ----------------------------
(***************************************************************************)
(* What transparent reconnection promises the owner of a Consumer or a     *)
(* Producer, without goroutines, locks or barriers: the destination is     *)
(* served by at most one dispatcher, on one AMQP channel; it is closed     *)
(* only when that channel is not the live one; and each time it is closed  *)
(* it is opened at most once, and not before the Session is back or has    *)
(* been given up.  A Session that is given up stays so.                    *)
(***************************************************************************)
EXTENDS Naturals

VARIABLES
    session,    \* "up", "down" or, for ever, "gone"
    channel,    \* the number of the channel the Session has, or had last
    served,     \* the channel the dispatcher listens on, if there is one
    reopening   \* whether the destination is being opened again

vars == <<session, channel, served, reopening>>

Init ==
    /\ session = "up"
    /\ channel = 0
    /\ served = {0}
    /\ reopening = FALSE

\* The channel closes, with its connection or by itself.
Lose ==
    /\ session = "up"
    /\ session' = "down"
    /\ UNCHANGED <<channel, served, reopening>>

\* The Session gets another channel.
Recover ==
    /\ session = "down"
    /\ session' = "up"
    /\ channel' = channel + 1
    /\ UNCHANGED <<served, reopening>>

\* No connection or no channel can be had.
GiveUp ==
    /\ session = "down"
    /\ session' = "gone"
    /\ UNCHANGED <<channel, served, reopening>>

\* The dispatcher sees that its channel is not the live one, and ends.
Close ==
    /\ \E c \in served : session # "up" \/ c # channel
    /\ served' = {}
    /\ UNCHANGED <<session, channel, reopening>>

\* Somebody opens the destination again.
Reopen ==
    /\ served = {}
    /\ ~reopening
    /\ session # "down"
    /\ reopening' = TRUE
    /\ UNCHANGED <<session, channel, served>>

\* A dispatcher starts, on the channel there is by then.
Serve ==
    /\ reopening
    /\ reopening' = FALSE
    /\ served' = {channel}
    /\ UNCHANGED <<session, channel>>

Next == Lose \/ Recover \/ GiveUp \/ Close \/ Reopen \/ Serve

Spec == Init /\ [][Next]_vars
=============================================================================
