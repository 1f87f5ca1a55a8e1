------------------------- MODULE EventServiceProofs -------------------------
(***************************************************************************)
(* The Extensions API implements EventService where MAX_CONCURRENCY is     *)
(* more than 1: for any number of instances, of Extensions and of events,  *)
(* an Extension takes the events of its own instance, each of them once,   *)
(* unless it is a stray.                                                   *)
(***************************************************************************)
EXTENDS ExtensionsProofs

USE ExtensionsAssumption
USE DEF initvars, handlevars, mapvars, flagvars, clientvars, endvars, nextvars

\* The Extensions of process group k: those of an instance, or the strays.
Members(k) == {h \in 1..added : home[h] = k}

\* A slice that a Runtime of group g may find.
Among(S, g) == S \subseteq Members(g) \/ S \subseteq Members(NoGroup)

(***************************************************************************)
(* What a connection maps to, and what is left to be told, are Extensions  *)
(* of the Runtime that calls, or strays.                                   *)
(***************************************************************************)
Connected == \A g \in Groups :
    /\ conn[g] # "idle" => runtime[g] # "none"
    /\ Among(byAddr[g].slice, g)
    /\ byAddr[g].pgid \in {g, NoGroup, None}
    /\ Among(rest[g], g)
    /\ conn[g] \in {"telling", "kill"} => target[g] \in {g, NoGroup}

(***************************************************************************)
(* Why no event is taken twice: an invocation is received once, and once   *)
(* an Extension has been told to shut down its Runtime makes no more calls *)
(* than the one that is about to kill it.                                  *)
(***************************************************************************)
Ended == {"dead", "gone", "phantom"}

Ending(g) ==
    \/ exited
    \/ event[g] = Shutdown
    \/ conn[g] = "kill"
    \/ runtime[g] \in Ended /\ conn[g] = "idle"

\* A stray may be told to shut down by more than one Runtime.
MayTell(g, h) == event[g] \in got[h] => event[g] = Shutdown /\ home[h] = NoGroup

Fresh ==
    /\ \A g \in Groups :
          /\ event[g] \in Invocations => event[g] \in given
          /\ \A i \in Groups : event[g] = event[i] /\ event[g] \in Invocations => g = i
          /\ \A h \in rest[g] : MayTell(g, h)
          /\ \A h \in Members(g) : Shutdown \in got[h] => Ending(g)
    /\ \A h \in Handles :
          /\ got[h] \cap Invocations \subseteq given
          /\ got[h] # {} => h \in 1..added

Told == Typed /\ Sound /\ Connected /\ Fresh

LEMMA ToldInit == Init => Connected /\ Fresh
BY DEF Init, Connected, Fresh, NotConnected, Members, Among, MayTell, Handles

(***************************************************************************)
(* More handles make no difference to what there is.                       *)
(***************************************************************************)
LEMMA AddMembers ==
    ASSUME TypeOK, Connected, Fresh, NEW n, NEW k \in Pgids, Add(n, k),
           UNCHANGED <<runtime, byAddr, conn, event, rest, target, given, got, exited>>
    PROVE  Connected' /\ Fresh'
<1>. HIDE ExtensionsAssumption
<1>1. /\ added' = added + 1 /\ added' \in Handles /\ added' \notin 1..added
      /\ 1..added' = 1..added \cup {added'}
      /\ \A h \in 1..added : home'[h] = home[h]
  <2>1. /\ added' = added + 1 /\ added' \in Handles /\ added' \notin 1..added
        /\ \A h \in 1..added : home'[h] = home[h]
    BY AddKeeps
  <2>2. added \in Nat
    BY DEF TypeOK
  <2>3. 1..(added + 1) = 1..added \cup {added + 1}
    BY ONLY <2>2, SMT
  <2>. QED  BY <2>1, <2>3
<1>2. \A g : Members(g) \subseteq Members(g)'
  BY <1>1 DEF Members
<1>3. \A S, g : Among(S, g) => Among(S, g)'
  BY <1>2 DEF Among
<1>4. \A g \in Groups : \A h \in Members(g)' : h \in Members(g) \/ h = added'
  BY <1>1 DEF Members
<1>5. got[added'] = {}
  BY <1>1 DEF Fresh
<1>6. \A g \in Groups : Ending(g)' <=> Ending(g)
  BY DEF Ending
<1>7. Connected'
  BY <1>3 DEF Connected
<1>8. Fresh'
  <2>1. ASSUME NEW g \in Groups, NEW h \in Members(g)', Shutdown \in got'[h]
        PROVE  Ending(g)'
    BY <1>4, <1>5, <1>6, <2>1 DEF Fresh
  <2>2. ASSUME NEW g \in Groups, NEW h \in rest[g]
        PROVE  MayTell(g, h)'
    <3>1. h \in 1..added
      BY DEF Connected, Among, Members
    <3>. QED  BY <1>1, <3>1 DEF Fresh, MayTell
  <2>. QED  BY <1>1, <2>1, <2>2 DEF Fresh
<1>. QED  BY <1>7, <1>8

(***************************************************************************)
(* Steps that touch nothing but Runtimes and the maps.                     *)
(***************************************************************************)
LEMMA OtherSteps ==
    ASSUME TypeOK, Connected, Fresh,
           UNCHANGED <<added, home, byAddr, conn, event, rest, target, given, got>>,
           exited => exited',
           \A g \in Groups :
              /\ runtime'[g] = "none" => runtime[g] = "none"
              /\ runtime[g] \in Ended => runtime'[g] \in Ended
    PROVE  Connected' /\ Fresh'
<1>1. \A S, g : Among(S, g)' <=> Among(S, g)
  BY DEF Among, Members
<1>2. \A g \in Groups : Ending(g) => Ending(g)'
  BY DEF Ending
<1>3. Connected'
  BY <1>1 DEF Connected
<1>4. Fresh'
  BY <1>2 DEF Fresh, MayTell, Members
<1>. QED  BY <1>3, <1>4

LEMMA InstanceTold ==
    ASSUME Told, NEW g \in Groups, Instance(g)
    PROVE  Connected' /\ Fresh'
<1>. USE DEF Told, Sound
<1>1. CASE AddExternal(g)
  <2>1. Add(starting[g], g) /\ g \in Pgids
    BY <1>1 DEF AddExternal, Pgids
  <2>. QED  BY <1>1, <2>1, AddMembers DEF AddExternal
<1>2. ASSUME ~AddExternal(g)
      PROVE  Connected' /\ Fresh'
  <2>1. UNCHANGED <<added, home, byAddr, conn, event, rest, target, given, got, exited>>
    BY <1>2 DEF Instance, CmdStart, RegisterLambdaRuntime, Stop, StartUnmanaged,
                AwaitExtensionRegistration, Continue, RuntimeExit, ReapUnregistered, Unregister,
                ExtensionExit, Unbidden
  <2>2. ASSUME NEW i \in Groups
        PROVE  /\ runtime'[i] = "none" => runtime[i] = "none"
               /\ runtime[i] \in Ended => runtime'[i] \in Ended
    <3>. USE DEF TypeOK, Ended
    <3>1. CASE UNCHANGED runtime
      BY <3>1
    <3>2. CASE CmdStart(g) \/ RegisterLambdaRuntime(g)
      BY <3>2 DEF CmdStart, RegisterLambdaRuntime
    <3>3. CASE Stop(g) \/ Continue(g)
      BY <3>3 DEF Stop, Continue
    <3>4. CASE RuntimeExit(g) \/ ReapUnregistered(g) \/ Unregister(g)
      BY <3>4 DEF RuntimeExit, ReapUnregistered, Unregister
    <3>. QED  BY <1>2, <3>1, <3>2, <3>3, <3>4 DEF Instance, StartUnmanaged, ExtensionExit,
                                                  AwaitExtensionRegistration
  <2>. QED  BY <2>1, <2>2, OtherSteps
<1>. QED  BY <1>1, <1>2

LEMMA ExtensionTold ==
    ASSUME Told, NEW c \in Clients, Extension(c)
    PROVE  Connected' /\ Fresh'
<1>. USE DEF Told, Sound
<1>1. CASE RegisterInternal(c)
  <2>1. Add(NameOf[c], place[c]) /\ place[c] \in Pgids
    BY <1>1 DEF RegisterInternal, TypeOK
  <2>. QED  BY <1>1, <2>1, AddMembers DEF RegisterInternal
<1>2. ASSUME ~RegisterInternal(c)
      PROVE  Connected' /\ Fresh'
  <2>1. UNCHANGED <<runtime, added, home, byAddr, conn, event, rest, target, given, got,
                    exited>>
    BY <1>2 DEF Extension, Register, RegisterExternal, RegisterReturns, ExtensionNext,
                ExtensionNextDone
  <2>. QED  BY <2>1, OtherSteps
<1>. QED  BY <1>1, <1>2

(***************************************************************************)
(* The steps of the next of a Runtime.                                     *)
(***************************************************************************)
LEMMA NextHandlerTold ==
    ASSUME Told, MaxConcurrency > 1, ~exited, NEW g \in Groups, NextHandler(g)
    PROVE  Connected' /\ Fresh'
<1>. USE DEF Told, Sound
<1>1. /\ UNCHANGED <<added, home>>
      /\ \A i : Members(i)' = Members(i)
      /\ \A S, i : Among(S, i)' <=> Among(S, i)
      /\ \A i \in Groups : runtime'[i] = "none" <=> runtime[i] = "none"
  BY NextHandlerKeeps DEF Members, Among
<1>2. CASE RuntimeNext(g)
  <2>1. /\ runtime[g] = "running" /\ conn[g] = "idle"
        /\ conn' = [conn EXCEPT ![g] = "next"]
        /\ UNCHANGED <<runtime, event, rest, target, given, got, exited>>
    BY <1>2 DEF RuntimeNext
  <2>2. /\ Among(MapRemoteAddrToExtensions(g).slice, g)
        /\ MapRemoteAddrToExtensions(g).pgid \in {g, NoGroup}
    <3>1. \A k \in Pgids : extensions[k] \subseteq Members(k)
      BY DEF TypeOK, MapsAgree, Members, Handles
    <3>2. /\ MapRemoteAddrToExtensions(g).pgid \in {g, NoGroup}
          /\ LET m == MapRemoteAddrToExtensions(g) IN m.slice \subseteq extensions[m.pgid]
      BY MapEntry
    <3>. QED  BY <3>1, <3>2 DEF Among, Pgids
  <2>3. ASSUME NEW i \in Groups
        PROVE  Among(byAddr'[i].slice, i) /\ byAddr'[i].pgid \in {i, NoGroup, None}
    <3>1. CASE byAddr' = [byAddr EXCEPT ![g] = MapRemoteAddrToExtensions(g)]
      BY <2>2, <3>1 DEF TypeOK, Connected
    <3>2. CASE byAddr' = byAddr
      BY <3>2 DEF Connected
    <3>. QED  BY <1>2, <3>1, <3>2 DEF RuntimeNext
  <2>4. \A i \in Groups : conn'[i] = IF i = g THEN "next" ELSE conn[i]
    BY <2>1 DEF TypeOK
  <2>5. Connected'
    BY <1>1, <2>1, <2>3, <2>4 DEF Connected
  <2>6. \A i \in Groups : Ending(i) => Ending(i)'
    BY <2>1, <2>4 DEF Ending, Ended
  <2>7. Fresh'
    BY <1>1, <2>1, <2>6 DEF Fresh, MayTell
  <2>. QED  BY <2>5, <2>7
<1>3. ASSUME NEW e \in Invocations \cup {Shutdown}, conn[g] = "next", Announce(g, e),
             UNCHANGED <<runtime, byAddr, got, exited>>, given \subseteq given',
             e \in Invocations => e \in given' \ given
      PROVE  Connected' /\ Fresh'
  <2>1. /\ rest' = [rest EXCEPT ![g] = byAddr[g].slice]
        /\ target' = [target EXCEPT ![g] = byAddr[g].pgid]
        /\ event' = [event EXCEPT ![g] = e]
        /\ conn' = [conn EXCEPT ![g] = "telling"]
    <3>1. IndexedByAddr(byAddr[g]) = {byAddr[g]}
      BY DEF IndexedByAddr
    <3>. QED  BY <1>3, <3>1 DEF Announce
  <2>2. \A i \in Groups : /\ conn'[i] = IF i = g THEN "telling" ELSE conn[i]
                          /\ event'[i] = IF i = g THEN e ELSE event[i]
                          /\ rest'[i] = IF i = g THEN byAddr[g].slice ELSE rest[i]
                          /\ target'[i] = IF i = g THEN byAddr[g].pgid ELSE target[i]
    BY <2>1 DEF TypeOK
  <2>3. byAddr[g].pgid \in {g, NoGroup} /\ event[g] = None
    <3>1. byAddr[g].pgid \in Pgids /\ event[g] = None
      BY <1>3 DEF Typed, Calling
    <3>. QED  BY <3>1 DEF Connected, Pgids
  <2>4. Connected'
    BY <1>1, <1>3, <2>2, <2>3 DEF Connected
  <2>5. ASSUME NEW h \in byAddr[g].slice, e \in got[h]
        PROVE  e = Shutdown /\ home[h] = NoGroup
    <3>1. h \in Members(g) \cup Members(NoGroup) /\ h \in Handles
      BY DEF Connected, TypeOK, Mappings, Among
    <3>2. ~Ending(g)
      <4>1. runtime[g] \in Ended => conn[g] # "idle"
        BY <1>3
      <4>. QED  BY <1>3, <2>3, <4>1 DEF Ending
    <3>3. e = Shutdown
      BY <1>3, <2>5, <3>1 DEF Fresh
    <3>. QED  BY <2>5, <3>1, <3>2, <3>3 DEF Fresh, Members
  <2>6. ASSUME NEW i \in Groups, NEW h \in Members(i), Shutdown \in got[h]
        PROVE  Ending(i)'
    <3>1. Ending(i)
      BY <2>6 DEF Fresh
    <3>2. i # g
      BY <1>3, <2>3, <3>1 DEF Ending
    <3>. QED  BY <1>3, <2>2, <3>1, <3>2 DEF Ending
  <2>7. Fresh'
    <3>1. \A i \in Groups : event'[i] \in Invocations => event'[i] \in given'
      BY <1>3, <2>2 DEF Fresh
    <3>3. \A i \in Groups : \A h \in rest'[i] : MayTell(i, h)'
      BY <1>1, <1>3, <2>2, <2>5 DEF Fresh, MayTell
    <3>4. \A i, j \in Groups : event'[i] = event'[j] /\ event'[i] \in Invocations => i = j
      BY <1>3, <2>2 DEF Fresh
    <3>2. \A h \in Handles : /\ got'[h] \cap Invocations \subseteq given'
                             /\ got'[h] # {} => h \in 1..added'
      BY <1>1, <1>3 DEF Fresh
    <3>. QED  BY <1>1, <1>3, <2>6, <3>1, <3>2, <3>3, <3>4 DEF Fresh
  <2>. QED  BY <2>4, <2>7
<1>4. ASSUME NEW i \in Invocations, Receive(g, i)
      PROVE  Connected' /\ Fresh'
  BY <1>3, <1>4 DEF Receive
<1>5. CASE TerminateIdleInstance(g)
  BY <1>3, <1>5 DEF TerminateIdleInstance
<1>6. ASSUME conn[g] = "next", conn' = [conn EXCEPT ![g] = "idle"], given \subseteq given',
             UNCHANGED <<byAddr, event, rest, target, got>>, exited => exited',
             \A i \in Groups : runtime[i] \in Ended => runtime'[i] \in Ended
      PROVE  Connected' /\ Fresh'
  <2>1. \A i \in Groups : conn'[i] = IF i = g THEN "idle" ELSE conn[i]
    BY <1>6 DEF TypeOK
  <2>2. \A i \in Groups : Ending(i) => Ending(i)'
    BY <1>6, <2>1 DEF Ending
  <2>3. Connected'
    BY <1>1, <1>6, <2>1 DEF Connected
  <2>4. Fresh'
    BY <1>1, <1>6, <2>2 DEF Fresh, MayTell
  <2>. QED  BY <2>3, <2>4
<1>7. ASSUME NEW i \in Invocations, ReceiveDisablesEvents(g, i)
      PROVE  Connected' /\ Fresh'
  BY <1>6, <1>7 DEF ReceiveDisablesEvents
<1>8. ASSUME NEW k, KillGroup(k), NEW i \in Groups
      PROVE  runtime[i] \in Ended => runtime'[i] \in Ended
  BY <1>8 DEF KillGroup, Ended
<1>9. CASE TerminateUnextended(g)
  <2>1. /\ conn[g] = "next" /\ conn' = [conn EXCEPT ![g] = "idle"]
        /\ UNCHANGED <<given, byAddr, event, rest, target, got>>
    BY <1>9 DEF TerminateUnextended
  <2>2. CASE KillGroup(g)
    BY <1>6, <1>8, <2>1, <2>2
  <2>3. CASE UNCHANGED <<runtime, exited>>
    BY <1>6, <2>1, <2>3
  <2>. QED  BY <1>9, <2>2, <2>3 DEF TerminateUnextended
<1>10. ASSUME NEW c \in Clients, Tell(g, c)
       PROVE  Connected' /\ Fresh'
  <2>1. PICK h \in rest[g] : /\ got' = [got EXCEPT ![h] = @ \cup {event[g]}]
                            /\ rest' = [rest EXCEPT ![g] = @ \ {h}]
    BY <1>10 DEF Tell, First
  <2>2. UNCHANGED <<runtime, byAddr, conn, event, target, given, exited>>
    BY <1>10 DEF Tell
  <2>3. /\ h \in Handles /\ h \in 1..added /\ home[h] \in {g, NoGroup}
        /\ event[g] # None
    <3>1. event[g] # None
      BY DEF Typed, Calling
    <3>. QED  BY <3>1 DEF Connected, TypeOK, Members, Among
  <2>4. \A i \in Groups : rest'[i] \subseteq rest[i] /\ (i = g => h \notin rest'[i])
    BY <2>1 DEF TypeOK
  <2>5. \A k \in Handles : got'[k] = IF k = h THEN got[h] \cup {event[g]} ELSE got[k]
    BY <2>1 DEF TypeOK
  <2>6. Connected'
    <3>1. \A i \in Groups : Among(rest'[i], i)
      BY <2>4 DEF Connected, Among
    <3>. QED  BY <1>1, <2>2, <3>1 DEF Connected
  <2>7. ASSUME NEW i \in Groups, NEW k \in rest'[i], event[i] \in got'[k]
        PROVE  event[i] = Shutdown /\ home[k] = NoGroup
    <3>1. k \in rest[i] /\ k \in Handles /\ home[k] \in {i, NoGroup}
      BY <2>4 DEF Connected, TypeOK, Among, Members
    <3>2. CASE event[i] \in got[k]
      BY <3>1, <3>2 DEF Fresh, MayTell
    <3>3. CASE event[i] \notin got[k]
      <4>1. k = h /\ event[i] = event[g]
        BY <2>5, <2>7, <3>1, <3>3
      <4>2. i # g
        BY <2>4, <4>1
      <4>3. event[i] \notin Invocations
        BY <4>1, <4>2 DEF Fresh
      <4>. QED  BY <2>3, <3>1, <4>1, <4>2, <4>3 DEF TypeOK
    <3>. QED  BY <3>2, <3>3
  <2>8. ASSUME NEW i \in Groups, NEW k \in Members(i), Shutdown \in got'[k]
        PROVE  Ending(i)'
    <3>0. k \in Handles /\ home[k] = i
      BY DEF Members, TypeOK, Handles
    <3>1. Ending(i)
      <4>1. CASE Shutdown \in got[k]
        BY <4>1 DEF Fresh
      <4>2. CASE Shutdown \notin got[k]
        BY <2>3, <2>5, <2>8, <3>0, <4>2 DEF Ending
      <4>. QED  BY <4>1, <4>2
    <3>. QED  BY <2>2, <3>1 DEF Ending
  <2>9. ASSUME NEW k \in Handles
        PROVE  got'[k] \cap Invocations \subseteq given' /\ (got'[k] # {} => k \in 1..added')
    <3>1. event[g] \in Invocations => event[g] \in given
      BY DEF Fresh
    <3>. QED  BY <1>1, <2>2, <2>3, <2>5, <3>1 DEF Fresh
  <2>10. \A i \in Groups : event'[i] \in Invocations => event'[i] \in given'
    BY <2>2 DEF Fresh
  <2>11. \A i \in Groups : \A k \in rest'[i] : MayTell(i, k)'
    BY <1>1, <2>2, <2>7 DEF MayTell
  <2>12. \A i, j \in Groups : event'[i] = event'[j] /\ event'[i] \in Invocations => i = j
    BY <2>2 DEF Fresh
  <2>13. Fresh'
    BY <1>1, <2>8, <2>9, <2>10, <2>11, <2>12 DEF Fresh
  <2>. QED  BY <2>6, <2>13
<1>11. CASE Skip(g)
  <2>1. UNCHANGED <<runtime, byAddr, conn, event, target, given, got, exited>>
    BY <1>11 DEF Skip
  <2>2. \A i \in Groups : rest'[i] \subseteq rest[i]
    BY <1>11 DEF Skip, TypeOK
  <2>3. \A i \in Groups : Ending(i) => Ending(i)'
    BY <2>1 DEF Ending
  <2>4. Connected'
    <3>1. \A i \in Groups : Among(rest'[i], i)
      BY <2>2 DEF Connected, Among
    <3>. QED  BY <1>1, <2>1, <3>1 DEF Connected
  <2>5. Fresh'
    BY <1>1, <2>1, <2>2, <2>3 DEF Fresh, MayTell
  <2>. QED  BY <2>4, <2>5
<1>12. CASE AllTold(g)
  <2>1. /\ conn[g] = "telling" /\ rest[g] = {}
        /\ UNCHANGED <<runtime, byAddr, rest, given, got, exited>>
        /\ event' = [event EXCEPT ![g] = None]
    BY <1>12 DEF AllTold
  <2>2. \A i \in Groups :
           /\ conn'[i] = IF i # g THEN conn[i] ELSE IF event[g] = Shutdown THEN "kill" ELSE "idle"
           /\ event'[i] = IF i = g THEN None ELSE event[i]
    BY <1>12, <2>1 DEF AllTold, TypeOK
  <2>3. \A i \in Groups : conn'[i] \in {"telling", "kill"} => target'[i] = target[i]
    BY <1>12, <2>2 DEF AllTold, TypeOK
  <2>4. Connected'
    BY <1>1, <2>1, <2>2, <2>3 DEF Connected
  <2>5. ASSUME NEW i \in Groups, Ending(i), event[i] # None \/ i # g
        PROVE  Ending(i)'
    BY <2>1, <2>2, <2>5 DEF Ending
  <2>6. event[g] # None
    BY <2>1 DEF Typed, Calling
  <2>7. \A i \in Groups : \A h \in rest'[i] : MayTell(i, h)'
    BY <1>1, <2>1, <2>2 DEF Fresh, MayTell
  <2>8. Fresh'
    BY <1>1, <2>1, <2>2, <2>5, <2>6, <2>7 DEF Fresh
  <2>. QED  BY <2>4, <2>8
<1>13. CASE Kill(g)
  <2>1. /\ conn[g] = "kill" /\ conn' = [conn EXCEPT ![g] = "idle"]
        /\ KillGroup(target[g])
        /\ UNCHANGED <<byAddr, event, rest, given, got>>
        /\ target' = [target EXCEPT ![g] = NoGroup]
    BY <1>13 DEF Kill
  <2>2. \A i \in Groups : /\ conn'[i] = IF i = g THEN "idle" ELSE conn[i]
                          /\ target'[i] = IF i = g THEN NoGroup ELSE target[i]
    BY <2>1 DEF TypeOK
  <2>3. \A i \in Groups : runtime[i] \in Ended => runtime'[i] \in Ended
    BY <1>8, <2>1
  <2>4. Connected'
    BY <1>1, <2>1, <2>2, <2>3 DEF Connected
  <2>5. Ending(g)'
    <3>1. target[g] \in {g, NoGroup} /\ runtime[g] # "none"
      BY <2>1 DEF Connected
    <3>2. CASE target[g] = NoGroup
      BY <2>1, <3>2 DEF KillGroup, Ending
    <3>3. CASE target[g] = g
      <4>1. runtime'[g] \in Ended
        BY <2>1, <3>1, <3>3 DEF KillGroup, TypeOK, Ended
      <4>. QED  BY <2>2, <4>1 DEF Ending
    <3>. QED  BY <3>1, <3>2, <3>3
  <2>6. \A i \in Groups \ {g} : Ending(i) => Ending(i)'
    BY <2>1, <2>2, <2>3 DEF Ending
  <2>7. Fresh'
    BY <1>1, <2>1, <2>5, <2>6 DEF Fresh, MayTell
  <2>. QED  BY <2>4, <2>7
<1>. QED  BY <1>2, <1>4, <1>5, <1>7, <1>9, <1>10, <1>11, <1>12, <1>13 DEF NextHandler, Pass

LEMMA ToldStep ==
    ASSUME MaxConcurrency > 1
    PROVE  Told /\ [Next]_vars => Connected' /\ Fresh'
<1>. SUFFICES ASSUME Told, [Next]_vars PROVE Connected' /\ Fresh'
  OBVIOUS
<1>1. CASE UNCHANGED vars
  BY <1>1 DEF Told, Sound, Connected, Fresh, Members, Among, MayTell, Ending, vars
<1>. QED  BY <1>1, InstanceTold, ExtensionTold, NextHandlerTold DEF Next
-----------------------------------------------------------------------------
(***************************************************************************)
(* The refinement: the steps of EventService that those of the Extensions  *)
(* API are.                                                                *)
(***************************************************************************)
LEMMA EventsVars ==
    ASSUME UNCHANGED <<added, home, subscribed, event, rest, got>>
    PROVE  UNCHANGED Events!vars
BY DEF Events!vars

\* An Extension subscribes.
LEMMA SubscribeEnrols ==
    ASSUME TypeOK, NEW h \in Handles, NEW kinds \in SUBSET Kinds, Subscribe(h, kinds)
    PROVE  subscribed' = [k \in DOMAIN subscribed |->
                             IF k \in kinds THEN subscribed[k] \cup {h} ELSE subscribed[k]]
BY DEF TypeOK, Subscribe

\* A handle is added for process group k, which may be that of the daemon.
LEMMA AddJoins ==
    ASSUME TypeOK, NEW n, NEW k \in Pgids, Add(n, k), NEW h, h = added'
    PROVE  Events!Join(h)
<1>. HIDE ExtensionsAssumption
<1>. DEFINE joined == [g \in Groups |-> {i \in 1..added : home[i] = g}]
<1>. DEFINE stray  == {i \in 1..added : home[i] = NoGroup}
<1>1. /\ h \notin 1..added /\ home'[h] = k
      /\ \A i \in 1..added : home'[i] = home[i]
  BY AddKeeps
<1>2. 1..added' = 1..added \cup {h}
  <2>1. added' = added + 1 /\ added \in Nat
    BY AddKeeps DEF TypeOK
  <2>2. 1..(added + 1) = 1..added \cup {added + 1}
    BY ONLY <2>1, SMT
  <2>. QED  BY <2>1, <2>2
<1>3. ASSUME NEW g
      PROVE  {i \in 1..added' : home'[i] = g}
                = IF g = k THEN {i \in 1..added : home[i] = g} \cup {h}
                  ELSE {i \in 1..added : home[i] = g}
  BY <1>1, <1>2
<1>4. h \notin stray /\ \A g \in Groups : h \notin joined[g]
  BY <1>1
<1>5. joined' = [g \in Groups |-> IF g = k THEN joined[g] \cup {h} ELSE joined[g]]
  BY <1>3
<1>6. CASE k \in Groups
  <2>1. joined' = [joined EXCEPT ![k] = @ \cup {h}]
    BY <1>5
  <2>2. stray' = stray
    BY <1>3, <1>6, ExtensionsAssumption
  <2>. QED  BY <1>4, <1>6, <2>1, <2>2 DEF Events!Join
<1>7. CASE k = NoGroup
  <2>1. joined' = joined
    BY <1>5, <1>7, ExtensionsAssumption
  <2>2. stray' = stray \cup {h}
    BY <1>3, <1>7
  <2>. QED  BY <1>4, <2>1, <2>2 DEF Events!Join
<1>. QED  BY <1>6, <1>7 DEF Pgids

LEMMA EventsInit == Init => Events!Init
<1>. SUFFICES ASSUME Init PROVE Events!Init
  OBVIOUS
<1>1. 1..added = {}
  BY DEF Init
<1>. QED  BY <1>1 DEF Init, Events!Init, Kinds

\* What an answer of register changes of what Extensions subscribe to.
LEMMA AnswerSubscribes ==
    ASSUME NEW c \in Clients, NEW h, NEW allowed \in SUBSET Kinds, Answer(c, h, allowed)
    PROVE  \E kinds \in SUBSET Kinds : Subscribe(h, kinds)
BY DEF Answer

LEMMA EventsStep ==
    ASSUME MaxConcurrency > 1
    PROVE  Told /\ [Next]_vars => [Events!Next]_(Events!vars)
<1>. SUFFICES ASSUME Told, [Next]_vars PROVE [Events!Next]_(Events!vars)
  OBVIOUS
<1>. USE DEF Told, Sound
<1>1. CASE UNCHANGED vars
  BY <1>1, EventsVars DEF vars
<1>2. ASSUME NEW n, NEW k \in Pgids, Add(n, k), NEW kinds \in SUBSET Kinds,
             Subscribe(added', kinds), UNCHANGED <<event, rest, got>>
      PROVE  Events!Next
  <2>1. PICK h \in Handles : h = added'
    BY <1>2, AddKeeps
  <2>2. Events!Join(h)
    BY <1>2, <2>1, AddJoins
  <2>3. subscribed' = [i \in DOMAIN subscribed |->
                          IF i \in kinds THEN subscribed[i] \cup {h} ELSE subscribed[i]]
    BY <1>2, <2>1, SubscribeEnrols
  <2>4. DOMAIN subscribed = Kinds
    BY DEF TypeOK
  <2>5. Events!Enrol(h)
    BY <1>2, <2>2, <2>3, <2>4 DEF Events!Enrol
  <2>. QED  BY <2>5 DEF Events!Next
<1>3. ASSUME NEW g \in Groups, Instance(g)
      PROVE  [Events!Next]_(Events!vars)
  <2>1. CASE AddExternal(g)
    <3>1. Add(starting[g], g) /\ g \in Pgids /\ UNCHANGED <<subscribed, event, rest, got>>
      BY <2>1 DEF AddExternal, Pgids
    <3>2. Subscribe(added', {})
      BY <3>1 DEF TypeOK, Subscribe
    <3>. QED  BY <1>2, <3>1, <3>2
  <2>2. CASE ~AddExternal(g)
    <3>1. UNCHANGED <<added, home, subscribed, event, rest, got>>
      BY <1>3, <2>2 DEF Instance, CmdStart, RegisterLambdaRuntime, Stop, StartUnmanaged,
                        AwaitExtensionRegistration, Continue, RuntimeExit, ReapUnregistered,
                        Unregister, ExtensionExit
    <3>. QED  BY <3>1, EventsVars
  <2>. QED  BY <2>1, <2>2
<1>4. ASSUME NEW c \in Clients, Extension(c)
      PROVE  [Events!Next]_(Events!vars)
  <2>1. CASE RegisterInternal(c)
    <3>1. /\ Add(NameOf[c], place[c]) /\ place[c] \in Pgids
          /\ Answer(c, added', {"INVOKE"}) /\ UNCHANGED <<event, rest, got>>
      BY <2>1 DEF RegisterInternal, TypeOK
    <3>2. {"INVOKE"} \in SUBSET Kinds
      BY DEF Kinds
    <3>3. PICK kinds \in SUBSET Kinds : Subscribe(added', kinds)
      BY <3>1, <3>2, AnswerSubscribes
    <3>. QED  BY <1>2, <3>1, <3>3
  <2>2. CASE RegisterExternal(c)
    <3>1. /\ Answer(c, found[c], Kinds) /\ found[c] \in Handles
          /\ UNCHANGED <<added, home, event, rest, got>>
      BY <2>2 DEF RegisterExternal, TypeOK
    <3>2. PICK h \in Handles : h = found[c]
      BY <3>1
    <3>3. PICK kinds \in SUBSET Kinds : Subscribe(h, kinds)
      BY <3>1, <3>2, AnswerSubscribes
    <3>4. subscribed' = [i \in DOMAIN subscribed |->
                            IF i \in kinds THEN subscribed[i] \cup {h} ELSE subscribed[i]]
      BY <3>3, SubscribeEnrols
    <3>5. DOMAIN subscribed = Kinds
      BY DEF TypeOK
    <3>6. Events!Enrol(h)
      BY <3>1, <3>4, <3>5 DEF Events!Enrol
    <3>. QED  BY <3>6 DEF Events!Next
  <2>3. CASE ~RegisterInternal(c) /\ ~RegisterExternal(c)
    <3>1. UNCHANGED <<added, home, subscribed, event, rest, got>>
      BY <1>4, <2>3 DEF Extension, Register, RegisterReturns, ExtensionNext, ExtensionNextDone
    <3>. QED  BY <3>1, EventsVars
  <2>. QED  BY <2>1, <2>2, <2>3
<1>5. ASSUME NEW g \in Groups, NEW e \in Invocations \cup {Shutdown}, conn[g] = "next",
             Announce(g, e), UNCHANGED <<added, home, subscribed, got>>
      PROVE  Events!Next
  <2>1. /\ rest' = [rest EXCEPT ![g] = byAddr[g].slice]
        /\ event' = [event EXCEPT ![g] = e]
    <3>1. IndexedByAddr(byAddr[g]) = {byAddr[g]}
      BY DEF IndexedByAddr
    <3>. QED  BY <1>5, <3>1 DEF Announce
  <2>2. event[g] = None
    BY <1>5 DEF Typed, Calling
  <2>3. \/ byAddr[g].slice \subseteq {h \in 1..added : home[h] = g}
        \/ byAddr[g].slice \subseteq {h \in 1..added : home[h] = NoGroup}
    BY DEF Connected, Members, Among
  <2>4. Events!Offer(g, e)
    BY <1>5, <2>1, <2>2, <2>3 DEF Events!Offer
  <2>. QED  BY <2>4 DEF Events!Next
<1>6. ASSUME NEW g \in Groups, NextHandler(g)
      PROVE  [Events!Next]_(Events!vars)
  <2>1. ASSUME NEW i \in Invocations, Receive(g, i)
        PROVE  Events!Next
    BY <1>5, <2>1 DEF Receive
  <2>2. CASE TerminateIdleInstance(g)
    BY <1>5, <2>2 DEF TerminateIdleInstance
  <2>3. ASSUME NEW c \in Clients, Tell(g, c)
        PROVE  Events!Next
    <3>1. PICK h \in rest[g] : /\ h \in subscribed[KindOf(event[g])]
                              /\ got' = [got EXCEPT ![h] = @ \cup {event[g]}]
                              /\ rest' = [rest EXCEPT ![g] = @ \ {h}]
      BY <2>3 DEF Tell, First
    <3>2. h \in Handles /\ h \in 1..added /\ MayTell(g, h)
      BY DEF Fresh, TypeOK, Connected, Among, Members
    <3>3. UNCHANGED <<added, home, subscribed, event>>
      BY <2>3 DEF Tell
    <3>4. Events!Take(g, h)
      BY <3>1, <3>2, <3>3 DEF Events!Take, MayTell, KindOf
    <3>. QED  BY <3>2, <3>4 DEF Events!Next
  <2>4. CASE Skip(g)
    <3>1. PICK h \in rest[g] : /\ h \notin subscribed[KindOf(event[g])]
                              /\ rest' = [rest EXCEPT ![g] = @ \ {h}]
      BY <2>4 DEF Skip, First
    <3>2. UNCHANGED <<added, home, subscribed, event, got>> /\ h \in Handles
      BY <2>4 DEF Skip, TypeOK
    <3>3. Events!PassOver(g, h)
      BY <3>1, <3>2 DEF Events!PassOver
    <3>. QED  BY <3>2, <3>3 DEF Events!Next
  <2>5. CASE AllTold(g)
    <3>1. Events!Complete(g)
      BY <2>5 DEF AllTold, Events!Complete
    <3>. QED  BY <3>1 DEF Events!Next
  <2>6. CASE RuntimeNext(g) \/ TerminateUnextended(g) \/ Kill(g)
             \/ \E i \in Invocations : ReceiveDisablesEvents(g, i)
    <3>1. UNCHANGED <<added, home, subscribed, event, rest, got>>
      BY <2>6 DEF RuntimeNext, TerminateUnextended, Kill, ReceiveDisablesEvents
    <3>. QED  BY <3>1, EventsVars
  <2>. QED  BY <1>6, <2>1, <2>2, <2>3, <2>4, <2>5, <2>6 DEF NextHandler, Pass
<1>. QED  BY <1>1, <1>3, <1>4, <1>6 DEF Next

(***************************************************************************)
(* Extensions take the events of their own instance only, before it goes   *)
(* on and each event once: the Extensions API implements EventService.     *)
(* The exception are Extensions and Runtimes that connect while their      *)
(* process group is not in the map, before Register or after Unregister:   *)
(* these are strays, of all instances together, and Runtimes that tell     *)
(* strays; an invocation is still told once, a shutdown perhaps by several.*)
(***************************************************************************)
THEOREM EventsImplemented ==
    ASSUME MaxConcurrency > 1
    PROVE  Spec => ImplementsEvents
<1>1. Typed /\ MapsAgree /\ Unknown /\ [Next]_vars => Typed' /\ MapsAgree' /\ Unknown'
  BY TypedStep, SoundStep DEF Typed, Sound
<1>2. Typed /\ MapsAgree /\ Unknown /\ Connected /\ Fresh /\ [Next]_vars
         => Connected' /\ Fresh'
  BY ToldStep DEF Told, Typed, Sound
<1>3. Typed /\ MapsAgree /\ Unknown /\ Connected /\ Fresh /\ [Next]_vars
         => [Events!Next]_(Events!vars)
  BY EventsStep DEF Told, Typed, Sound
<1>. QED  BY <1>1, <1>2, <1>3, TypedInit, SoundInit, ToldInit, EventsInit, PTL
          DEF Spec, ImplementsEvents, Events!Spec
=============================================================================
