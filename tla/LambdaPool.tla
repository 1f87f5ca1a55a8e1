----------------------------- MODULE LambdaPool -----------------------------
(***************************************************************************)
(* How the daemon launches Lambda Runtime instances on demand.  An invoke  *)
(* that finds no idle instance calls rapi.Init (pkg/runtimeapi/            *)
(* runtimeapi.go), which reads lambdaCount, picks the sync.Once of that    *)
(* index and runs RAPIInvoker.init (pkg/invokeapi/rapiinvoker.go) under    *)
(* it.  init starts a process and registers it with the ProcessManager,    *)
(* whose callbacks set lambdaCount and, when a process is reaped, replace  *)
(* a sync.Once by a fresh one.  None of these steps excludes the others:   *)
(* they interleave here as the goroutines of the daemon interleave.        *)
(*                                                                         *)
(* The sync.Once values are two sets of indexes: done (its flag is set)    *)
(* and locked (its mutex is held).                                         *)
(***************************************************************************)
EXTENDS ProcessManager

CONSTANTS
    Callers,         \* goroutines that call invoke, each one call at a time
    RPCCallers,      \* those of them run by rpcHandler, where a panic is fatal
    MaxConcurrency,  \* MAX_CONCURRENCY, the length of rapi.initialisers
    StartMayFail     \* whether Cmd.Start may return an error

ASSUME PoolAssumption ==
    /\ IsFiniteSet(Callers)
    /\ RPCCallers \subseteq Callers
    /\ MaxConcurrency \in Nat \ {0}
    /\ StartMayFail \in BOOLEAN

VARIABLES
    lambdaCount,  \* rapi.lambdaCount
    done,         \* indexes of the initialisers whose Once is done
    locked,       \* indexes of the initialisers whose Once holds its mutex
    pc,           \* where each caller is
    slot,         \* the index each caller has read
    child,        \* the process each caller has started
    failed        \* history: whether a Cmd.Start has failed

poolvars == <<lambdaCount, done, locked, pc, slot, child, failed>>
vars     == <<pmvars, poolvars>>

Slots == 0..(MaxConcurrency - 1)

TypeOK ==
    /\ PMTypeOK
    /\ lambdaCount \in Nat
    /\ done \in SUBSET Slots
    /\ locked \in SUBSET Slots
    /\ pc \in [Callers -> {"idle", "do", "start", "register", "finish"}]
    /\ slot \in [Callers -> Slots]
    /\ child \in [Callers -> Procs \cup {NoPid}]
    /\ failed \in BOOLEAN

Init ==
    /\ PMInit
    /\ lambdaCount = 0
    /\ done = {}
    /\ locked = {}
    /\ pc = [c \in Callers |-> "idle"]
    /\ slot = [c \in Callers |-> 0]
    /\ child = [c \in Callers |-> NoPid]
    /\ failed = FALSE
-----------------------------------------------------------------------------
(***************************************************************************)
(* rapi.Init.                                                              *)
(***************************************************************************)

\* Mutant of InitialiserIndex: not clamped.
UnclampedIndex == lambdaCount

\* The index of the initialiser to use, clamped to the slice.
InitialiserIndex ==
    IF lambdaCount > MaxConcurrency - 1 THEN MaxConcurrency - 1 ELSE lambdaCount

\* Read the index under the read lock, then release the lock.
ReadIndex(c) ==
    /\ Alive
    /\ pc[c] = "idle"
    /\ slot' = [slot EXCEPT ![c] = InitialiserIndex]
    /\ pc' = [pc EXCEPT ![c] = "do"]
    /\ UNCHANGED <<pmvars, lambdaCount, done, locked, child, failed>>

\* once.Do on a Once that is done returns.
OncePass(c) ==
    /\ Alive
    /\ pc[c] = "do"
    /\ slot[c] \in done
    /\ pc' = [pc EXCEPT ![c] = "idle"]
    /\ UNCHANGED <<pmvars, lambdaCount, done, locked, slot, child, failed>>

\* Mutant of OnceEnter: an atomic flag set after init in place of a sync.Once.
OnceEnterUnlocked(c) ==
    /\ Alive
    /\ pc[c] = "do"
    /\ slot[c] \notin done
    /\ locked' = locked \cup {slot[c]}
    /\ pc' = [pc EXCEPT ![c] = "start"]
    /\ UNCHANGED <<pmvars, lambdaCount, done, slot, child, failed>>

\* once.Do on a fresh Once takes its mutex and calls init; a caller that
\* finds the mutex held waits.
OnceEnter(c) ==
    /\ Alive
    /\ pc[c] = "do"
    /\ slot[c] \notin done
    /\ slot[c] \notin locked
    /\ locked' = locked \cup {slot[c]}
    /\ pc' = [pc EXCEPT ![c] = "start"]
    /\ UNCHANGED <<pmvars, lambdaCount, done, slot, child, failed>>

\* The end of once.Do, also when init panics: the flag is set and the mutex
\* unlocked.  Unlocking a mutex that is not locked is a fatal error.
CompleteOnce(c, dies) ==
    /\ done' = done \cup {slot[c]}
    /\ locked' = locked \ {slot[c]}
    /\ handler' = IF dies \/ slot[c] \notin locked THEN "crashed" ELSE handler
    /\ pc' = [pc EXCEPT ![c] = "idle"]
    /\ UNCHANGED <<proc, processes, pending, sigchan, wpid, timeoutCh, killSent,
                   terms, lambdaCount, slot>>

\* A pid the kernel can hand out: nobody holds the process that had it.
Unused(p) ==
    /\ proc[p] = "none"
    /\ p \notin processes
    /\ \A c \in Callers : pc[c] = "register" => child[c] # p
-----------------------------------------------------------------------------
(***************************************************************************)
(* RAPIInvoker.init.                                                       *)
(***************************************************************************)

\* Cmd.Start forks the Runtime process.
CmdStart(c, p) ==
    /\ Alive
    /\ pc[c] = "start"
    /\ Unused(p)
    /\ proc' = [proc EXCEPT ![p] = "running"]
    /\ child' = [child EXCEPT ![c] = p]
    /\ pc' = [pc EXCEPT ![c] = "register"]
    /\ UNCHANGED <<processes, pending, sigchan, handler, wpid, timeoutCh, killSent,
                   terms, lambdaCount, done, locked, slot, failed>>

\* Cmd.Start fails.  init logs it and goes on to runtime.Pid(), which
\* dereferences the nil Process: init panics.  net/http recovers the panic
\* of a caller that serves an HTTP request.
CmdStartFails(c) ==
    /\ Alive
    /\ StartMayFail
    /\ pc[c] = "start"
    /\ CompleteOnce(c, c \in RPCCallers)
    /\ failed' = TRUE
    /\ UNCHANGED child

\* Mutant of Register: the Runtime is started with StartUnmanaged.
RegisterSkipped(c) ==
    /\ Alive
    /\ pc[c] = "register"
    /\ pc' = [pc EXCEPT ![c] = "finish"]
    /\ UNCHANGED <<pmvars, lambdaCount, done, locked, slot, child, failed>>

\* pm.Register and its callback RegisterLambdaRuntime, under pm's lock.
Register(c) ==
    /\ Alive
    /\ pc[c] = "register"
    /\ processes' = processes \cup {child[c]}
    /\ lambdaCount' = Cardinality(processes')
    /\ pc' = [pc EXCEPT ![c] = "finish"]
    /\ UNCHANGED <<proc, pending, sigchan, handler, wpid, timeoutCh, killSent,
                   terms, done, locked, slot, child, failed>>

\* init returns, after an arbitrary delay when it waits for Extensions.
InitReturns(c) ==
    /\ Alive
    /\ pc[c] = "finish"
    /\ CompleteOnce(c, FALSE)
    /\ child' = [child EXCEPT ![c] = NoPid]
    /\ UNCHANGED failed

\* Mutant of UnregisterLambdaRuntime: resets the index before the decrement.
ResetOldIndex(nproc) ==
    /\ lambdaCount' = nproc
    /\ done' = done \ {nproc + 1}
    /\ locked' = locked \ {nproc + 1}

\* Mutant of UnregisterLambdaRuntime: resets every index at or above nproc.
ResetTail(nproc) ==
    /\ lambdaCount' = nproc
    /\ done' = done \cap 0..(nproc - 1)
    /\ locked' = locked \cap 0..(nproc - 1)

\* The callback UnregisterLambdaRuntime: a fresh Once at index nproc.
UnregisterLambdaRuntime(nproc) ==
    /\ lambdaCount' = nproc
    /\ done' = done \ {nproc}
    /\ locked' = locked \ {nproc}

\* pm.Unregister with its callback, which runs only for a registered pid.
UnregisterProcess ==
    /\ Unregister
    /\ \/ /\ wpid \in processes
          /\ UnregisterLambdaRuntime(Cardinality(processes \ {wpid}))
       \/ /\ wpid \notin processes
          /\ UNCHANGED <<lambdaCount, done, locked>>
    /\ UNCHANGED <<pc, slot, child, failed>>
-----------------------------------------------------------------------------
Kernel ==
    /\ \/ \E p \in Procs : Exit(p)
       \/ SendTerm
       \/ \E s \in Signals : Notify(s)
    /\ UNCHANGED poolvars

Call(c) ==
    \/ ReadIndex(c)
    \/ OncePass(c)
    \/ OnceEnter(c)
    \/ \E p \in Procs : CmdStart(c, p)
    \/ CmdStartFails(c)
    \/ Register(c)
    \/ InitReturns(c)

HandleSignals ==
    \/ /\ \/ HandleSIGCHLD
          \/ \E p \in Procs : Reap(p)
          \/ NothingToReap
          \/ HandleTerm
          \/ Timeout
       /\ UNCHANGED poolvars
    \/ UnregisterProcess

Next ==
    \/ Kernel
    \/ \E c \in Callers : Call(c)
    \/ HandleSignals

Spec == Init /\ [][Next]_vars

(***************************************************************************)
(* os/signal's relay goroutine and the goroutine in HandleSignals are      *)
(* scheduled.  When a signal and the deadline are both ready select picks  *)
(* one at random, so a deadline that keeps being ready is taken.  Nothing  *)
(* is assumed of the callers or of when a child exits.                     *)
(***************************************************************************)
FairSpec ==
    /\ Spec
    /\ \A s \in Signals : WF_vars(Notify(s) /\ UNCHANGED poolvars)
    /\ WF_vars(HandleSignals)
    /\ SF_vars(Timeout /\ UNCHANGED poolvars)
-----------------------------------------------------------------------------
(***************************************************************************)
(* Properties.                                                             *)
(***************************************************************************)

\* The callers whose init holds a sync.Once but has not registered a process.
Starting == {c \in Callers : pc[c] \in {"start", "register"}}

\* The capacity argument: each registered process, and each init that may
\* still register one, is paid for by a sync.Once that is done or locked.  A
\* reset gives up one Once for the one process that it removes, so stale
\* indexes in rapi.Init (runtimeapi.go:78-93) can lose capacity, never gain it.
Capacity ==
    Cardinality(processes) + Cardinality(Starting) <= Cardinality(done \cup locked)

\* p has been handed to its caller by Cmd.Start and is not yet registered.
Started(p) == \E c \in Callers : pc[c] = "register" /\ child[c] = p

\* Every process that exists is in pm.processes or about to be registered by
\* the caller that started it, and a pid that Wait4 has reaped stays so, and is
\* not handed out again, until Unregister has removed it
\* (process-manager.go:100-131, 255-264, 325-345).
Accounted ==
    /\ \A p \in Live \cup Zombies : p \in processes \/ Started(p)
    /\ handler = "unregister" =>
         /\ wpid \in Procs
         /\ proc[wpid] = "none"
         /\ wpid \in processes \/ Started(wpid)
    /\ \A c \in Callers : pc[c] = "register" => child[c] \in Procs

\* No interleaving of rapi.Init, Register and Unregister runs more than
\* MAX_CONCURRENCY Runtime processes, those started but not yet registered
\* and those not yet reaped included (rapiinvoker.go:186-210).
InstancesBounded == Cardinality(Live \cup Zombies) <= MaxConcurrency

\* UnregisterLambdaRuntime indexes initialisers with the number of processes
\* that remain (runtimeapi.go:112): it must be in range whenever a process is
\* registered, or HandleSignals panics and the daemon stops.
ResetIndexInRange ==
    processes # {} => Cardinality(processes) - 1 \in Slots

\* Nothing is going on: every call has returned and every signal is handled.
Quiet ==
    /\ handler = "select"
    /\ pending = {}
    /\ sigchan = <<>>
    /\ \A c \in Callers : pc[c] = "idle"

\* When no child is left, "the next invocation" can launch one
\* (runtimeapi.go:109-111): the Once it will use is not used up.  There are two
\* exceptions, and no third: a Cmd.Start that failed left a Once done with no
\* process to reset it (rapiinvoker.go:297-301), and a child that was reaped
\* before its Register left an entry that nobody removes (process-manager.go:343).
\* Either may keep the daemon without a Runtime for good.
StuckOnlyByFault ==
    (Quiet /\ Live \cup Zombies = {} /\ InitialiserIndex \in done) =>
        failed \/ processes # {}

\* Signals are no count of exits, and may be dropped (SigCapacity), yet an exit
\* is never forgotten: while an exited child has not been reaped, SIGCHLD is
\* still to be relayed, some signal is queued and will wake HandleSignals, the
\* Wait4 loop is running, or a termination deadline will end the daemon
\* (process-manager.go:211-214, 243-275).
ExitsNoticed ==
    (Alive /\ Zombies # {}) =>
        \/ "CHLD" \in pending
        \/ sigchan # <<>>
        \/ handler \in {"wait4", "unregister"}
        \/ timeoutCh

\* The Wait4 loop comes to its end again and again: children are not launched
\* and do not exit as fast as Wait4 reaps them.
LoopEnds == []<>(handler \notin {"wait4", "unregister"})

\* Every exited child is reaped, or the daemon stops, however SIGCHLDs
\* coalesce or are dropped on the way (process-manager.go:211-214, 243-275).
ZombiesReaped ==
    LoopEnds => \A p \in Procs : p \in Zombies ~> (p \notin Zombies \/ ~Alive)

\* Once a termination signal is queued the daemon stops, whatever its children
\* do and however many new ones are launched (process-manager.go:276-300).
ShutdownCompletes ==
    LoopEnds => ((\E i \in DOMAIN sigchan : sigchan[i] = "TERM") ~> ~Alive)
-----------------------------------------------------------------------------
(***************************************************************************)
(* A claim of the repository that the code does not keep.                  *)
(***************************************************************************)

\* "launch a new Lambda instance until max concurrency is reached"
\* (rapiinvoker.go:188-189): below the maximum the next invoke finds a Once
\* that can fire.
LaunchableBelowMax ==
    (Quiet /\ lambdaCount < MaxConcurrency) => lambdaCount \notin done
=============================================================================
