--------------------------- MODULE ProcessManager ---------------------------
(***************************************************************************)
(* The ProcessManager of the Runtime API Daemon                            *)
(* (pkg/process/process-manager.go): the table of managed Lambda Runtime   *)
(* processes, the delivery of SIGCHLD and of termination signals through   *)
(* sigchan, and HandleSignals, the loop main() blocks in until the daemon  *)
(* exits.  LambdaPool composes this module with rapi.Init, which starts    *)
(* the processes.                                                          *)
(*                                                                         *)
(* A pid is an element of Procs.  Wait4 returns a pid to the state "none", *)
(* from which it can be started again, so that finitely many pids stand    *)
(* for the endless supply of a real system.                                *)
(***************************************************************************)
EXTENDS Naturals, Sequences, FiniteSets

CONSTANTS
    Procs,        \* the pids
    NoPid,        \* not a pid
    SigCapacity,  \* the capacity of sigchan (128 in the code)
    MaxTerms      \* bound: how many termination signals are sent to the daemon

ASSUME PMAssumption ==
    /\ IsFiniteSet(Procs)
    /\ NoPid \notin Procs
    /\ SigCapacity \in Nat \ {0}
    /\ MaxTerms \in Nat

VARIABLES
    proc,       \* proc[p]: what the kernel knows of child p
    processes,  \* pm.processes: the pids that have been registered
    pending,    \* signals raised, not yet relayed to sigchan (repeats coalesce)
    sigchan,    \* pm.sigchan
    handler,    \* where HandleSignals is, or how the daemon ended
    wpid,       \* the pid the last Wait4 returned
    timeoutCh,  \* TRUE iff timeoutCh is not nil: a termination deadline is set
    killSent,   \* killSent of HandleSignals
    terms       \* number of termination signals sent so far

pmvars == <<proc, processes, pending, sigchan, handler, wpid, timeoutCh,
            killSent, terms>>

Signals   == {"CHLD", "TERM"}
Live      == {p \in Procs : proc[p] \in {"running", "terminating", "killed"}}
Zombies   == {p \in Procs : proc[p] = "zombie"}
Alive     == handler \notin {"exited", "crashed"}

PMTypeOK ==
    /\ proc \in [Procs -> {"none", "running", "terminating", "killed", "zombie"}]
    /\ processes \in SUBSET Procs
    /\ pending \in SUBSET Signals
    /\ sigchan \in Seq(Signals)
    /\ Len(sigchan) <= SigCapacity
    /\ handler \in {"select", "wait4", "unregister", "exited", "crashed"}
    /\ wpid \in Procs \cup {NoPid}
    /\ timeoutCh \in BOOLEAN
    /\ killSent \in BOOLEAN
    /\ terms \in 0..MaxTerms

PMInit ==
    /\ proc = [p \in Procs |-> "none"]
    /\ processes = {}
    /\ pending = {}
    /\ sigchan = <<>>
    /\ handler = "select"
    /\ wpid = NoPid
    /\ timeoutCh = FALSE
    /\ killSent = FALSE
    /\ terms = 0
-----------------------------------------------------------------------------
(***************************************************************************)
(* The kernel: children exit when they like, the operator sends signals,   *)
(* and os/signal relays a raised signal to sigchan with a send that drops  *)
(* it when the channel is full.                                            *)
(***************************************************************************)

\* A child exits: it becomes a zombie and SIGCHLD is raised.
Exit(p) ==
    /\ Alive
    /\ p \in Live
    /\ proc' = [proc EXCEPT ![p] = "zombie"]
    /\ pending' = pending \cup {"CHLD"}
    /\ UNCHANGED <<processes, sigchan, handler, wpid, timeoutCh, killSent, terms>>

\* SIGTERM, SIGINT or SIGQUIT is sent to the daemon.
SendTerm ==
    /\ Alive
    /\ terms < MaxTerms
    /\ terms' = terms + 1
    /\ pending' = pending \cup {"TERM"}
    /\ UNCHANGED <<proc, processes, sigchan, handler, wpid, timeoutCh, killSent>>

\* signal.Notify: a raised signal is relayed to sigchan, or dropped.
Notify(s) ==
    /\ Alive
    /\ s \in pending
    /\ pending' = pending \ {s}
    /\ sigchan' = IF Len(sigchan) < SigCapacity THEN Append(sigchan, s) ELSE sigchan
    /\ UNCHANGED <<proc, processes, handler, wpid, timeoutCh, killSent, terms>>
-----------------------------------------------------------------------------
(***************************************************************************)
(* HandleSignals.                                                          *)
(***************************************************************************)

\* The states of the children in S after a signal sent to their groups.
Signalled(S, state) ==
    [p \in Procs |-> IF p \in S \cap Live /\ proc[p] # "killed" THEN state ELSE proc[p]]

\* mp.Terminate() of every registered process.
TerminateAll == proc' = Signalled(processes, "terminating")

\* mp.Kill() of every registered process.
KillAll == proc' = Signalled(processes, "killed")

\* case syscall.SIGCHLD: enter the Wait4 loop.
HandleSIGCHLD ==
    /\ handler = "select"
    /\ sigchan # <<>>
    /\ Head(sigchan) = "CHLD"
    /\ sigchan' = Tail(sigchan)
    /\ handler' = "wait4"
    /\ UNCHANGED <<proc, processes, pending, wpid, timeoutCh, killSent, terms>>

\* Mutant of Reap: one Wait4 for each SIGCHLD instead of the loop.
ReapOnce(p) ==
    /\ handler = "wait4"
    /\ p \in Zombies
    /\ proc' = [proc EXCEPT ![p] = "none"]
    /\ wpid' = p
    /\ handler' = "select"
    /\ UNCHANGED <<processes, pending, sigchan, timeoutCh, killSent, terms>>

\* A Wait4 that reaps child p.
Reap(p) ==
    /\ handler = "wait4"
    /\ p \in Zombies
    /\ proc' = [proc EXCEPT ![p] = "none"]
    /\ wpid' = p
    /\ handler' = "unregister"
    /\ UNCHANGED <<processes, pending, sigchan, timeoutCh, killSent, terms>>

\* A Wait4 that finds no exited child ends the loop.
NothingToReap ==
    /\ handler = "wait4"
    /\ Zombies = {}
    /\ handler' = "select"
    /\ UNCHANGED <<proc, processes, pending, sigchan, wpid, timeoutCh, killSent, terms>>

\* pm.Unregister(wpid), and the check that follows it: once no process is
\* left and termination was signalled the daemon exits.  Terminate() reaches
\* only the peers of the dead process in its group, which are not modelled
\* here.
Unregister ==
    /\ handler = "unregister"
    /\ processes' = processes \ {wpid}
    /\ handler' = IF processes' = {} /\ timeoutCh THEN "exited" ELSE "wait4"
    /\ wpid' = NoPid
    /\ UNCHANGED <<proc, pending, sigchan, timeoutCh, killSent, terms>>

\* A termination signal: exit at once when nothing is registered, otherwise
\* SIGTERM everyone and set a deadline.
HandleTerm ==
    /\ handler = "select"
    /\ sigchan # <<>>
    /\ Head(sigchan) = "TERM"
    /\ sigchan' = Tail(sigchan)
    /\ \/ /\ processes = {}
          /\ handler' = "exited"
          /\ UNCHANGED <<proc, timeoutCh>>
       \/ /\ processes # {}
          /\ TerminateAll
          /\ timeoutCh' = TRUE
          /\ UNCHANGED handler
    /\ UNCHANGED <<processes, pending, wpid, killSent, terms>>

\* Mutant of Timeout: killSent is never set, the deadline starts over for ever.
TimeoutForever ==
    /\ handler = "select"
    /\ timeoutCh
    /\ \/ /\ killSent
          /\ handler' = "exited"
          /\ UNCHANGED <<proc, killSent>>
       \/ /\ ~killSent
          /\ KillAll
          /\ UNCHANGED <<handler, killSent>>
    /\ UNCHANGED <<processes, pending, sigchan, wpid, timeoutCh, terms>>

\* case <-timeoutCh: the first time SIGKILL everyone and set the deadline
\* again, the second time give up and exit.
Timeout ==
    /\ handler = "select"
    /\ timeoutCh
    /\ \/ /\ killSent
          /\ handler' = "exited"
          /\ UNCHANGED <<proc, killSent>>
       \/ /\ ~killSent
          /\ KillAll
          /\ killSent' = TRUE
          /\ UNCHANGED handler
    /\ UNCHANGED <<processes, pending, sigchan, wpid, timeoutCh, terms>>
=============================================================================
