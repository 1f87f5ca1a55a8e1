-------------------------- MODULE LambdaPoolProofs --------------------------
(***************************************************************************)
(* For every MAX_CONCURRENCY, every number of callers and every supply of  *)
(* pids: the daemon never has more than MAX_CONCURRENCY Runtime processes, *)
(* and the index that UnregisterLambdaRuntime resets is in range.          *)
(***************************************************************************)
EXTENDS LambdaPool, FiniteSetTheorems, TLAPS

USE PMAssumption, PoolAssumption

(***************************************************************************)
(* Every set whose cardinality is taken is finite.                         *)
(***************************************************************************)
LEMMA SetsFinite ==
    ASSUME TypeOK
    PROVE  /\ IsFiniteSet(processes)
           /\ IsFiniteSet(Starting)
           /\ IsFiniteSet(done \cup locked)
           /\ IsFiniteSet(Slots)
           /\ Cardinality(Slots) = MaxConcurrency
           /\ Cardinality(processes) \in Nat
           /\ Cardinality(Starting) \in Nat
           /\ Cardinality(done \cup locked) \in Nat
<1>1. IsFiniteSet(processes)
  BY FS_Subset DEF TypeOK, PMTypeOK
<1>2. IsFiniteSet(Starting)
  <2>1. Starting \subseteq Callers
    BY DEF Starting
  <2>. QED  BY <2>1, FS_Subset
<1>3. IsFiniteSet(Slots) /\ Cardinality(Slots) = MaxConcurrency
  BY FS_Interval DEF Slots
<1>4. IsFiniteSet(done \cup locked)
  <2>1. done \cup locked \subseteq Slots
    BY DEF TypeOK
  <2>. QED  BY <2>1, <1>3, FS_Subset
<1>. QED  BY <1>1, <1>2, <1>3, <1>4, FS_CardinalityType

(***************************************************************************)
(* The inductive invariant.                                                *)
(***************************************************************************)
PoolInv == TypeOK /\ Accounted /\ Capacity

(***************************************************************************)
(* The invariant holds before anything has been launched.                  *)
(***************************************************************************)
LEMMA PoolInvInit == Init => PoolInv
<1>. SUFFICES ASSUME Init PROVE PoolInv
  OBVIOUS
<1>1. TypeOK
  <2>1. PMTypeOK
    <3>1. sigchan \in Seq(Signals) /\ Len(sigchan) <= SigCapacity
      BY DEF Init, PMInit
    <3>2. terms \in 0..MaxTerms
      BY DEF Init, PMInit
    <3>. QED  BY <3>1, <3>2, Zenon DEF Init, PMInit, PMTypeOK
  <2>2. 0 \in Slots /\ lambdaCount \in Nat
    BY DEF Init, Slots
  <2>. QED  BY <2>1, <2>2 DEF Init, TypeOK
<1>2. Accounted
  BY DEF Init, PMInit, Accounted, Live, Zombies
<1>3. Capacity
  <2>1. processes = {} /\ Starting = {} /\ done \cup locked = {}
    BY DEF Init, PMInit, Starting
  <2>. QED  BY <2>1, FS_EmptySet DEF Capacity
<1>. QED  BY <1>1, <1>2, <1>3 DEF PoolInv

(***************************************************************************)
(* Type correctness of a step.  Register needs Accounted: what a caller    *)
(* registers is a pid.                                                     *)
(***************************************************************************)
LEMMA KernelType == ASSUME TypeOK, Kernel PROVE TypeOK'
<1>. USE DEF TypeOK, PMTypeOK, poolvars
<1>1. ASSUME NEW p \in Procs, Exit(p) PROVE TypeOK'
  BY <1>1 DEF Exit, Signals, Kernel
<1>2. CASE SendTerm
  BY <1>2 DEF SendTerm, Signals, Kernel
<1>3. ASSUME NEW s \in Signals, Notify(s) PROVE TypeOK'
  BY <1>3 DEF Notify, Kernel
<1>. QED  BY <1>1, <1>2, <1>3 DEF Kernel

LEMMA CallType ==
    ASSUME TypeOK, Accounted, NEW c \in Callers, Call(c)
    PROVE  TypeOK'
<1>. USE DEF TypeOK, PMTypeOK, pmvars
<1>1. CASE ReadIndex(c)
  BY <1>1 DEF ReadIndex, InitialiserIndex, Slots
<1>2. CASE OncePass(c)
  BY <1>2 DEF OncePass
<1>3. CASE OnceEnter(c)
  BY <1>3 DEF OnceEnter
<1>4. ASSUME NEW p \in Procs, CmdStart(c, p) PROVE TypeOK'
  BY <1>4 DEF CmdStart
<1>5. CASE CmdStartFails(c)
  BY <1>5 DEF CmdStartFails, CompleteOnce
<1>6. CASE Register(c)
  <2>1. processes' \in SUBSET Procs
    BY <1>6 DEF Register, Accounted
  <2>2. lambdaCount' \in Nat
    BY <1>6, <2>1, FS_Subset, FS_CardinalityType DEF Register
  <2>. QED  BY <1>6, <2>1, <2>2 DEF Register
<1>7. CASE InitReturns(c)
  BY <1>7 DEF InitReturns, CompleteOnce
<1>. QED  BY <1>1, <1>2, <1>3, <1>4, <1>5, <1>6, <1>7 DEF Call

LEMMA HandleSignalsType == ASSUME TypeOK, HandleSignals PROVE TypeOK'
<1>. USE DEF TypeOK, PMTypeOK, poolvars
<1>1. CASE HandleSIGCHLD /\ UNCHANGED poolvars
  <2>1. sigchan' \in Seq(Signals) /\ Len(sigchan') <= SigCapacity
    BY <1>1 DEF HandleSIGCHLD
  <2>. QED  BY <1>1, <2>1 DEF HandleSIGCHLD
<1>2. ASSUME NEW p \in Procs, Reap(p), UNCHANGED poolvars PROVE TypeOK'
  BY <1>2 DEF Reap
<1>3. CASE NothingToReap /\ UNCHANGED poolvars
  BY <1>3 DEF NothingToReap
<1>4. CASE HandleTerm /\ UNCHANGED poolvars
  <2>1. sigchan' \in Seq(Signals) /\ Len(sigchan') <= SigCapacity
    BY <1>4 DEF HandleTerm
  <2>2. proc' \in [Procs -> {"none", "running", "terminating", "killed", "zombie"}]
    BY <1>4 DEF HandleTerm, TerminateAll, Signalled
  <2>. QED  BY <1>4, <2>1, <2>2 DEF HandleTerm
<1>5. CASE Timeout /\ UNCHANGED poolvars
  BY <1>5 DEF Timeout, KillAll, Signalled
<1>6. CASE UnregisterProcess
  <2>1. Cardinality(processes \ {wpid}) \in Nat
    BY FS_Subset, FS_CardinalityType
  <2>. QED
    BY <1>6, <2>1 DEF UnregisterProcess, Unregister, UnregisterLambdaRuntime
<1>. QED  BY <1>1, <1>2, <1>3, <1>4, <1>5, <1>6 DEF HandleSignals

(***************************************************************************)
(* Accounted is kept.  Only CmdStart creates a process, and then the       *)
(* caller holds it; only UnregisterProcess removes one from the table, and *)
(* then it has been reaped.                                                *)
(***************************************************************************)
LEMMA KernelAccounted == ASSUME TypeOK, Accounted, Kernel PROVE Accounted'
<1>. USE DEF TypeOK, PMTypeOK, poolvars, Accounted, Started, Live, Zombies
<1>1. ASSUME NEW p \in Procs, Exit(p) PROVE Accounted'
  BY <1>1 DEF Exit, Kernel
<1>2. CASE SendTerm
  BY <1>2 DEF SendTerm, Kernel
<1>3. ASSUME NEW s \in Signals, Notify(s) PROVE Accounted'
  BY <1>3 DEF Notify, Kernel
<1>. QED  BY <1>1, <1>2, <1>3 DEF Kernel

LEMMA CallAccounted ==
    ASSUME TypeOK, Accounted, NEW c \in Callers, Call(c)
    PROVE  Accounted'
<1>. USE DEF TypeOK, PMTypeOK, pmvars, Accounted, Started, Live, Zombies
<1>1. CASE ReadIndex(c)
  BY <1>1 DEF ReadIndex
<1>2. CASE OncePass(c)
  BY <1>2 DEF OncePass
<1>3. CASE OnceEnter(c)
  BY <1>3 DEF OnceEnter
<1>4. ASSUME NEW p \in Procs, CmdStart(c, p) PROVE Accounted'
  BY <1>4 DEF CmdStart, Unused
<1>5. CASE CmdStartFails(c)
  BY <1>5 DEF CmdStartFails, CompleteOnce
<1>6. CASE Register(c)
  BY <1>6 DEF Register
<1>7. CASE InitReturns(c)
  BY <1>7 DEF InitReturns, CompleteOnce
<1>. QED  BY <1>1, <1>2, <1>3, <1>4, <1>5, <1>6, <1>7 DEF Call

LEMMA HandleSignalsAccounted ==
    ASSUME TypeOK, Accounted, HandleSignals
    PROVE  Accounted'
<1>. USE DEF TypeOK, PMTypeOK, poolvars, Accounted, Started, Live, Zombies
<1>1. CASE HandleSIGCHLD /\ UNCHANGED poolvars
  BY <1>1 DEF HandleSIGCHLD
<1>2. ASSUME NEW p \in Procs, Reap(p), UNCHANGED poolvars PROVE Accounted'
  BY <1>2 DEF Reap
<1>3. CASE NothingToReap /\ UNCHANGED poolvars
  BY <1>3 DEF NothingToReap
<1>4. CASE HandleTerm /\ UNCHANGED poolvars
  BY <1>4 DEF HandleTerm, TerminateAll, Signalled
<1>5. CASE Timeout /\ UNCHANGED poolvars
  BY <1>5 DEF Timeout, KillAll, Signalled
<1>6. CASE UnregisterProcess
  BY <1>6 DEF UnregisterProcess, Unregister, UnregisterLambdaRuntime
<1>. QED  BY <1>1, <1>2, <1>3, <1>4, <1>5, <1>6 DEF HandleSignals

(***************************************************************************)
(* Capacity is kept by a caller.  OnceEnter spends a Once that is neither  *)
(* done nor locked; Register turns the claim of the caller into a process; *)
(* the end of once.Do gives nothing back.                                  *)
(***************************************************************************)
LEMMA CallCapacity ==
    ASSUME TypeOK, Accounted, Capacity, NEW c \in Callers, Call(c)
    PROVE  Capacity'
<1>. USE DEF Capacity
<1>0. TypeOK'
  BY CallType
<1>f. /\ IsFiniteSet(processes) /\ IsFiniteSet(Starting)
      /\ IsFiniteSet(done \cup locked)
      /\ Cardinality(processes) \in Nat
      /\ Cardinality(Starting) \in Nat
      /\ Cardinality(done \cup locked) \in Nat
  BY SetsFinite
<1>1. CASE ReadIndex(c) \/ OncePass(c)
  <2>1. Starting' = Starting
    BY <1>1 DEF ReadIndex, OncePass, Starting, TypeOK
  <2>2. UNCHANGED <<processes, done, locked>>
    BY <1>1 DEF ReadIndex, OncePass, pmvars
  <2>. QED  BY <2>1, <2>2
<1>2. CASE OnceEnter(c)
  <2>1. Starting' = Starting \cup {c} /\ c \notin Starting
    BY <1>2 DEF OnceEnter, Starting, TypeOK
  <2>2. /\ (done \cup locked)' = (done \cup locked) \cup {slot[c]}
        /\ slot[c] \notin done \cup locked
        /\ processes' = processes
    BY <1>2 DEF OnceEnter, pmvars
  <2>3. Cardinality(Starting') = Cardinality(Starting) + 1
    BY <1>f, <2>1, FS_AddElement
  <2>4. Cardinality((done \cup locked)') = Cardinality(done \cup locked) + 1
    BY <1>f, <2>2, FS_AddElement
  <2>. QED  BY <1>f, <2>2, <2>3, <2>4
<1>3. ASSUME NEW p \in Procs, CmdStart(c, p) PROVE Capacity'
  <2>1. Starting' = Starting
    BY <1>3 DEF CmdStart, Starting, TypeOK
  <2>2. UNCHANGED <<processes, done, locked>>
    BY <1>3 DEF CmdStart
  <2>. QED  BY <2>1, <2>2
<1>4. CASE CmdStartFails(c) \/ InitReturns(c)
  <2>1. Starting' \subseteq Starting /\ processes' = processes
    BY <1>4 DEF CmdStartFails, InitReturns, CompleteOnce, Starting, TypeOK
  <2>2. done \cup locked \subseteq (done \cup locked)'
    BY <1>4 DEF CmdStartFails, InitReturns, CompleteOnce
  <2>3. Cardinality(Starting') <= Cardinality(Starting) /\ Cardinality(Starting') \in Nat
    BY <1>f, <2>1, FS_Subset, FS_CardinalityType
  <2>4. /\ Cardinality(done \cup locked) <= Cardinality((done \cup locked)')
        /\ Cardinality((done \cup locked)') \in Nat
    <3>1. IsFiniteSet((done \cup locked)')
      <4>1. (done \cup locked)' \subseteq Slots /\ IsFiniteSet(Slots)
        BY <1>0, SetsFinite DEF TypeOK, Slots
      <4>. QED  BY <4>1, FS_Subset
    <3>. QED  BY <3>1, <2>2, FS_Subset, FS_CardinalityType
  <2>. QED  BY <1>f, <2>1, <2>3, <2>4
<1>5. CASE Register(c)
  <2>1. Starting' = Starting \ {c} /\ c \in Starting
    BY <1>5 DEF Register, Starting, TypeOK
  <2>2. processes' = processes \cup {child[c]} /\ UNCHANGED <<done, locked>>
    BY <1>5 DEF Register
  <2>3. Cardinality(Starting') = Cardinality(Starting) - 1
    BY <1>f, <2>1, FS_RemoveElement
  <2>4. /\ Cardinality(processes') <= Cardinality(processes) + 1
        /\ Cardinality(processes') \in Nat
    <3>1. /\ IsFiniteSet(processes')
          /\ Cardinality(processes') = IF child[c] \in processes
                                      THEN Cardinality(processes)
                                      ELSE Cardinality(processes) + 1
      BY <1>f, <2>2, FS_AddElement
    <3>. QED  BY <1>f, <3>1
  <2>. QED  BY <1>f, <2>2, <2>3, <2>4
<1>. QED  BY <1>1, <1>2, <1>3, <1>4, <1>5 DEF Call

(***************************************************************************)
(* Capacity is kept by HandleSignals: UnregisterLambdaRuntime resets one   *)
(* Once, and only when Unregister has removed one process.                 *)
(***************************************************************************)
LEMMA HandleSignalsCapacity ==
    ASSUME TypeOK, Capacity, HandleSignals
    PROVE  Capacity'
<1>. USE DEF Capacity
<1>f. /\ IsFiniteSet(processes) /\ IsFiniteSet(Starting)
      /\ IsFiniteSet(done \cup locked)
      /\ Cardinality(processes) \in Nat
      /\ Cardinality(Starting) \in Nat
      /\ Cardinality(done \cup locked) \in Nat
  BY SetsFinite
<1>1. Starting' = Starting
  BY DEF HandleSignals, UnregisterProcess, poolvars, Starting
<1>2. CASE UnregisterProcess /\ wpid \in processes
  <2> DEFINE n == Cardinality(processes \ {wpid})
  <2>1. Cardinality(processes') = Cardinality(processes) - 1
    BY <1>f, <1>2, FS_RemoveElement DEF UnregisterProcess, Unregister
  <2>2. (done \cup locked)' = (done \cup locked) \ {n}
    BY <1>2 DEF UnregisterProcess, UnregisterLambdaRuntime
  <2>3. /\ Cardinality((done \cup locked)') >= Cardinality(done \cup locked) - 1
        /\ Cardinality((done \cup locked)') \in Nat
    <3>. HIDE DEF n
    <3>1. /\ IsFiniteSet((done \cup locked)')
          /\ Cardinality((done \cup locked)') = IF n \in done \cup locked
                                                THEN Cardinality(done \cup locked) - 1
                                                ELSE Cardinality(done \cup locked)
      <4>1. ASSUME NEW x PROVE
              /\ IsFiniteSet((done \cup locked) \ {x})
              /\ Cardinality((done \cup locked) \ {x}) =
                   IF x \in done \cup locked THEN Cardinality(done \cup locked) - 1
                                            ELSE Cardinality(done \cup locked)
        BY <1>f, FS_RemoveElement
      <4>. QED  BY <2>2, <4>1
    <3>2. Cardinality((done \cup locked)') \in Nat
      BY <3>1, FS_CardinalityType
    <3>. QED  BY <1>f, <3>1, <3>2
  <2>. QED  BY <1>f, <1>1, <2>1, <2>3
<1>3. CASE UnregisterProcess /\ wpid \notin processes
  <2>1. processes' = processes /\ UNCHANGED <<done, locked>>
    BY <1>3 DEF UnregisterProcess, Unregister
  <2>. QED  BY <1>1, <2>1
<1>4. CASE ~UnregisterProcess
  <2>1. UNCHANGED <<processes, done, locked>>
    BY <1>4 DEF HandleSignals, HandleSIGCHLD, Reap, NothingToReap, HandleTerm,
                Timeout, poolvars
  <2>. QED  BY <1>1, <2>1
<1>. QED  BY <1>2, <1>3, <1>4

(***************************************************************************)
(* PoolInv is inductive.                                                   *)
(***************************************************************************)
LEMMA PoolInvStep == PoolInv /\ [Next]_vars => PoolInv'
<1>. SUFFICES ASSUME PoolInv, [Next]_vars PROVE PoolInv'
  OBVIOUS
<1>. USE DEF PoolInv
<1>1. CASE Kernel
  <2>1. Capacity'
    BY <1>1 DEF Kernel, Exit, SendTerm, Notify, poolvars, Capacity, Starting
  <2>. QED  BY <1>1, <2>1, KernelType, KernelAccounted
<1>2. ASSUME NEW c \in Callers, Call(c) PROVE PoolInv'
  BY <1>2, CallType, CallAccounted, CallCapacity
<1>3. CASE HandleSignals
  BY <1>3, HandleSignalsType, HandleSignalsAccounted, HandleSignalsCapacity
<1>4. CASE UNCHANGED vars
  BY <1>4 DEF vars, pmvars, poolvars, TypeOK, PMTypeOK, Accounted, Started, Live,
              Zombies, Capacity, Starting
<1>. QED  BY <1>1, <1>2, <1>3, <1>4 DEF Next

(***************************************************************************)
(* What PoolInv says of the number of processes.  Each process is          *)
(* registered or is the child of one caller in Starting, so there are no   *)
(* more of them than there are sync.Once values that are done or locked.   *)
(***************************************************************************)
LEMMA PoolInvBound == PoolInv => InstancesBounded /\ ResetIndexInRange
<1>. SUFFICES ASSUME PoolInv PROVE InstancesBounded /\ ResetIndexInRange
  OBVIOUS
<1>. DEFINE Children == {child[c] : c \in Starting}
<1>f. /\ IsFiniteSet(processes) /\ IsFiniteSet(Starting)
      /\ IsFiniteSet(Slots) /\ Cardinality(Slots) = MaxConcurrency
      /\ Cardinality(processes) \in Nat
      /\ Cardinality(Starting) \in Nat
      /\ Cardinality(done \cup locked) \in Nat
  BY SetsFinite DEF PoolInv
<1>1. Cardinality(done \cup locked) <= MaxConcurrency
  <2>1. done \cup locked \subseteq Slots
    BY DEF PoolInv, TypeOK
  <2>. QED  BY <1>f, <2>1, FS_Subset
<1>2. Cardinality(processes) + Cardinality(Starting) <= MaxConcurrency
  BY <1>f, <1>1 DEF PoolInv, Capacity
<1>3. Live \cup Zombies \subseteq processes \cup Children
  BY DEF PoolInv, Accounted, Started, Starting
<1>4. /\ IsFiniteSet(Children)
      /\ Cardinality(Children) <= Cardinality(Starting)
      /\ Cardinality(Children) \in Nat
  <2>1. [c \in Starting |-> child[c]] \in Surjection(Starting, Children)
    BY DEF Surjection
  <2>. QED  BY <1>f, <2>1, FS_Surjection, FS_CardinalityType
<1>5. /\ IsFiniteSet(processes \cup Children)
      /\ Cardinality(processes \cup Children)
            <= Cardinality(processes) + Cardinality(Children)
      /\ Cardinality(processes \cup Children) \in Nat
  <2>. HIDE DEF Children
  <2>1. Cardinality(processes \cap Children) \in Nat
    BY <1>f, FS_Subset, FS_CardinalityType
  <2>2. /\ IsFiniteSet(processes \cup Children)
        /\ Cardinality(processes \cup Children) =
              Cardinality(processes) + Cardinality(Children)
                - Cardinality(processes \cap Children)
    BY <1>f, <1>4, FS_Union
  <2>3. Cardinality(processes \cup Children) \in Nat
    BY <2>2, FS_CardinalityType
  <2>. QED  BY <1>f, <1>4, <2>1, <2>2, <2>3
<1>6. InstancesBounded
  <2>1. /\ Cardinality(Live \cup Zombies) <= Cardinality(processes \cup Children)
        /\ Cardinality(Live \cup Zombies) \in Nat
    BY <1>3, <1>5, FS_Subset, FS_CardinalityType
  <2>. QED  BY <1>f, <1>2, <1>4, <1>5, <2>1 DEF InstancesBounded
<1>7. ResetIndexInRange
  <2>1. processes # {} => Cardinality(processes) # 0
    BY <1>f, FS_EmptySet
  <2>. QED  BY <1>f, <1>2, <2>1 DEF ResetIndexInRange, Slots
<1>. QED  BY <1>6, <1>7

(***************************************************************************)
(* PoolInv is an invariant of the daemon.                                  *)
(***************************************************************************)
THEOREM PoolInvariant == Spec => []PoolInv
BY PoolInvInit, PoolInvStep, PTL DEF Spec

(***************************************************************************)
(* Type correctness: rapi.Init indexes initialisers within its bounds and  *)
(* sigchan never exceeds its capacity.                                     *)
(***************************************************************************)
THEOREM TypeCorrect == Spec => []TypeOK
<1>1. PoolInv => TypeOK
  BY DEF PoolInv
<1>. QED  BY <1>1, PoolInvariant, PTL

(***************************************************************************)
(* Every process that exists is registered or about to be, and a pid that  *)
(* has been reaped is not handed out again before Unregister has removed   *)
(* it, however many children exit while others are being launched.         *)
(***************************************************************************)
THEOREM ProcessesAccounted == Spec => []Accounted
<1>1. PoolInv => Accounted
  BY DEF PoolInv
<1>. QED  BY <1>1, PoolInvariant, PTL

(***************************************************************************)
(* However stale the index with which rapi.Init enters and Unregister      *)
(* resets a sync.Once, each process that is or will be registered is paid  *)
(* for by a Once that is done or locked.                                   *)
(***************************************************************************)
THEOREM ProcessesPaidFor == Spec => []Capacity
<1>1. PoolInv => Capacity
  BY DEF PoolInv
<1>. QED  BY <1>1, PoolInvariant, PTL

(***************************************************************************)
(* Whatever the interleaving of invokes, exits and reaping, there are at   *)
(* most MAX_CONCURRENCY Runtime processes (rapi.Init, pm.Register,         *)
(* UnregisterLambdaRuntime).                                               *)
(***************************************************************************)
THEOREM AtMostMaxConcurrency == Spec => []InstancesBounded
BY PoolInvBound, PoolInvariant, PTL

(***************************************************************************)
(* initialisers[nproc] in UnregisterLambdaRuntime is never out of range.   *)
(***************************************************************************)
THEOREM ResetInRange == Spec => []ResetIndexInRange
BY PoolInvBound, PoolInvariant, PTL
-----------------------------------------------------------------------------
(***************************************************************************)
(* While no process is registered and no start has failed, a sync.Once at  *)
(* index 0 that is held or done belongs to an init that has yet to         *)
(* register one.                                                           *)
(***************************************************************************)
ZeroPaidFor ==
    /\ lambdaCount = Cardinality(processes)
    /\ Alive /\ ~failed /\ processes = {} /\ 0 \in done \cup locked => Starting # {}

LEMMA ZeroPaidForCall ==
    ASSUME TypeOK, ZeroPaidFor, NEW c \in Callers, Call(c)
    PROVE  ZeroPaidFor'
<1>. USE DEF TypeOK, ZeroPaidFor
<1>1. CASE ReadIndex(c) \/ OncePass(c)
  BY <1>1 DEF ReadIndex, OncePass, pmvars, Alive, Starting
<1>2. CASE OnceEnter(c)
  <2>1. c \in Starting'
    BY <1>2 DEF OnceEnter, Starting
  <2>. QED  BY <1>2, <2>1 DEF OnceEnter, pmvars
<1>3. ASSUME NEW p \in Procs, CmdStart(c, p)
      PROVE  ZeroPaidFor'
  <2>1. c \in Starting'
    BY <1>3 DEF CmdStart, Starting
  <2>. QED  BY <1>3, <2>1 DEF CmdStart
<1>4. CASE Register(c)
  BY <1>4 DEF Register
<1>5. CASE InitReturns(c)
  <2>1. Starting' = Starting
    BY <1>5 DEF InitReturns, CompleteOnce, Starting
  <2>2. Alive' => Alive /\ done' \cup locked' = done \cup locked
    BY <1>5 DEF InitReturns, CompleteOnce, Alive
  <2>. QED  BY <1>5, <2>1, <2>2 DEF InitReturns, CompleteOnce
<1>6. CASE CmdStartFails(c)
  BY <1>6 DEF CmdStartFails, CompleteOnce
<1>. QED  BY <1>1, <1>2, <1>3, <1>4, <1>5, <1>6 DEF Call

LEMMA ZeroPaidForHandler ==
    ASSUME TypeOK, ZeroPaidFor, Kernel \/ HandleSignals
    PROVE  ZeroPaidFor'
<1>. USE DEF ZeroPaidFor
<1>1. Starting' = Starting /\ (Alive' => Alive) /\ failed' = failed
  BY DEF Kernel, HandleSignals, HandleSIGCHLD, Reap, NothingToReap, HandleTerm, Timeout,
         UnregisterProcess, Unregister, Exit, SendTerm, Notify, poolvars, Starting, Alive
<1>2. CASE UnregisterProcess /\ wpid \in processes
  <2>1. /\ processes' = processes \ {wpid}
        /\ lambdaCount' = Cardinality(processes')
        /\ done' \cup locked' = (done \cup locked) \ {Cardinality(processes')}
    BY <1>2 DEF UnregisterProcess, Unregister, UnregisterLambdaRuntime
  <2>2. processes' = {} => Cardinality(processes') = 0
    BY FS_EmptySet
  <2>. QED  BY <1>1, <2>1, <2>2
<1>3. CASE ~(UnregisterProcess /\ wpid \in processes)
  <2>1. processes' = processes /\ UNCHANGED <<lambdaCount, done, locked>>
    BY <1>3 DEF Kernel, HandleSignals, HandleSIGCHLD, Reap, NothingToReap, HandleTerm,
                Timeout, UnregisterProcess, Unregister, Exit, SendTerm, Notify, poolvars
  <2>. QED  BY <1>1, <2>1
<1>. QED  BY <1>2, <1>3

(***************************************************************************)
(* A daemon that has no child and is idle can launch one at the next       *)
(* invoke (runtimeapi.go:109-112), whatever happened before, unless a      *)
(* Cmd.Start has failed or an entry of a child that is gone is left: index *)
(* 0 is otherwise used up only on behalf of a process that is or will be   *)
(* registered.                                                             *)
(***************************************************************************)
THEOREM RestartsUnlessFault == Spec => []StuckOnlyByFault
<1>1. Init => ZeroPaidFor
  BY FS_EmptySet DEF Init, PMInit, ZeroPaidFor
<1>2. PoolInv /\ ZeroPaidFor /\ [Next]_vars => ZeroPaidFor'
  <2>. SUFFICES ASSUME PoolInv, ZeroPaidFor, [Next]_vars PROVE ZeroPaidFor'
    OBVIOUS
  <2>1. CASE Kernel \/ HandleSignals
    BY <2>1, ZeroPaidForHandler DEF PoolInv
  <2>2. ASSUME NEW c \in Callers, Call(c) PROVE ZeroPaidFor'
    BY <2>2, ZeroPaidForCall DEF PoolInv
  <2>3. CASE UNCHANGED vars
    BY <2>3 DEF vars, pmvars, poolvars, ZeroPaidFor, Alive, Starting
  <2>. QED  BY <2>1, <2>2, <2>3 DEF Next
<1>3. PoolInv /\ ZeroPaidFor => StuckOnlyByFault
  <2>. SUFFICES ASSUME PoolInv, ZeroPaidFor, Quiet, InitialiserIndex \in done, ~failed,
                       processes = {}
                PROVE  FALSE
    BY DEF StuckOnlyByFault, PoolInv, TypeOK
  <2>1. lambdaCount = 0
    BY FS_EmptySet DEF ZeroPaidFor
  <2>2. InitialiserIndex = 0
    BY <2>1, PoolAssumption DEF InitialiserIndex
  <2>3. Alive /\ Starting = {}
    BY DEF Quiet, Alive, Starting
  <2>. QED  BY <2>2, <2>3 DEF ZeroPaidFor
<1>. QED  BY <1>1, <1>2, <1>3, PoolInvariant, PTL DEF Spec
-----------------------------------------------------------------------------
(***************************************************************************)
(* Callers and the operator neither make a zombie nor use up a signal.     *)
(***************************************************************************)
LEMMA NoticedKernel == ASSUME TypeOK, ExitsNoticed, Kernel PROVE ExitsNoticed'
<1>. USE DEF TypeOK, PMTypeOK, ExitsNoticed, Alive
<1>1. ASSUME NEW p \in Procs, Exit(p) PROVE ExitsNoticed'
  BY <1>1 DEF Exit
<1>2. CASE SendTerm
  BY <1>2 DEF SendTerm, Zombies
<1>3. ASSUME NEW s \in Signals, Notify(s) PROVE ExitsNoticed'
  <2>1. sigchan' # <<>>
    <3>1. CASE Len(sigchan) < SigCapacity
      BY <1>3, <3>1 DEF Notify
    <3>2. CASE ~(Len(sigchan) < SigCapacity)
      <4>1. Len(sigchan) # 0
        BY <3>2
      <4>. QED  BY <1>3, <3>2, <4>1 DEF Notify
    <3>. QED  BY <3>1, <3>2
  <2>. QED  BY <2>1
<1>. QED  BY <1>1, <1>2, <1>3 DEF Kernel

LEMMA NoticedCall ==
    ASSUME TypeOK, ExitsNoticed, NEW c \in Callers, Call(c)
    PROVE  ExitsNoticed'
<1>1. UNCHANGED <<pending, sigchan, timeoutCh>>
  BY DEF Call, ReadIndex, OncePass, OnceEnter, CmdStart, CmdStartFails, CompleteOnce,
         Register, InitReturns, pmvars
<1>2. handler' = handler \/ handler' = "crashed"
  BY DEF Call, ReadIndex, OncePass, OnceEnter, CmdStart, CmdStartFails, CompleteOnce,
         Register, InitReturns, pmvars
<1>3. Zombies' \subseteq Zombies
  <2>1. proc' = proc \/ \E p \in Procs : proc' = [proc EXCEPT ![p] = "running"]
    BY DEF Call, ReadIndex, OncePass, OnceEnter, CmdStart, CmdStartFails, CompleteOnce,
           Register, InitReturns, pmvars
  <2>. QED  BY <2>1 DEF Zombies, TypeOK, PMTypeOK
<1>. QED  BY <1>1, <1>2, <1>3 DEF ExitsNoticed, Alive

(***************************************************************************)
(* HandleSignals uses a signal up only to enter the Wait4 loop, to set a   *)
(* deadline or to exit, and leaves the loop only when no zombie is left.   *)
(***************************************************************************)
LEMMA NoticedHandler == ASSUME TypeOK, ExitsNoticed, HandleSignals PROVE ExitsNoticed'
<1>. USE DEF ExitsNoticed, Alive
<1>1. CASE HandleSIGCHLD
  BY <1>1 DEF HandleSIGCHLD
<1>2. ASSUME NEW p \in Procs, Reap(p) PROVE ExitsNoticed'
  BY <1>2 DEF Reap
<1>3. CASE NothingToReap
  BY <1>3 DEF NothingToReap, Zombies
<1>4. CASE HandleTerm
  BY <1>4 DEF HandleTerm
<1>5. CASE Timeout
  BY <1>5 DEF Timeout
<1>6. CASE UnregisterProcess
  BY <1>6 DEF UnregisterProcess, Unregister
<1>. QED  BY <1>1, <1>2, <1>3, <1>4, <1>5, <1>6 DEF HandleSignals

(***************************************************************************)
(* However SIGCHLDs coalesce, and whichever signals a full sigchan drops,  *)
(* HandleSignals will hear of a child that has exited: ExitsNoticed is     *)
(* inductive, with SigCapacity > 0 (process-manager.go:211-214, 243-275).  *)
(***************************************************************************)
THEOREM ExitsAreNoticed == Spec => []ExitsNoticed
<1>1. Init => ExitsNoticed
  BY DEF Init, PMInit, ExitsNoticed, Zombies
<1>2. TypeOK /\ ExitsNoticed /\ [Next]_vars => ExitsNoticed'
  <2>1. UNCHANGED vars /\ ExitsNoticed => ExitsNoticed'
    BY DEF vars, pmvars, ExitsNoticed, Alive, Zombies
  <2>. QED  BY <2>1, NoticedKernel, NoticedCall, NoticedHandler DEF Next
<1>. QED  BY <1>1, <1>2, TypeCorrect, PTL DEF Spec
=============================================================================
