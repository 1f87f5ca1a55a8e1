-------------------------- MODULE ExtensionsProofs --------------------------
(***************************************************************************)
(* For any number of instances, of Extensions and of invocations: the maps *)
(* of the Extensions API agree, an identifier has one owner, a Runtime is  *)
(* not initialised before its Extensions have registered, and, where       *)
(* MAX_CONCURRENCY is more than 1, Extensions get the events of their      *)
(* instance, once.                                                         *)
(***************************************************************************)
EXTENDS Extensions, TLAPS

USE ExtensionsAssumption
USE DEF initvars, handlevars, mapvars, flagvars, clientvars, endvars, nextvars

(***************************************************************************)
(* What is looked up is a slice and a process group.                       *)
(***************************************************************************)
LEMMA MapType ==
    ASSUME TypeOK, NEW g \in Groups
    PROVE  /\ MapRemoteAddrToExtensions(g) \in Mappings
           /\ MapRemoteAddrToExtensions(g).pgid \in Pgids
BY DEF TypeOK, MapRemoteAddrToExtensions, Mappings, Unmapped, Pgids

LEMMA IndexedType ==
    ASSUME TypeOK, NEW entry \in Mappings, NEW m \in IndexedByAddr(entry),
           MaxConcurrency > 1 => entry.pgid \in Pgids
    PROVE  m.slice \in SUBSET Handles /\ m.pgid \in Pgids
<1>1. CASE MaxConcurrency = 1
  BY <1>1 DEF TypeOK, IndexedByAddr, Mappings, Unmapped, Pgids
<1>2. CASE MaxConcurrency # 1
  BY <1>2 DEF TypeOK, IndexedByAddr, Mappings
<1>. QED  BY <1>1, <1>2

(***************************************************************************)
(* While a Runtime calls next it has a connection, and only while its      *)
(* handler tells Extensions of an event is there one.                      *)
(***************************************************************************)
Calling == \A g \in Groups :
    /\ MaxConcurrency > 1 /\ conn[g] # "idle" => byAddr[g].pgid \in Pgids
    /\ conn[g] = "telling" => event[g] # None
    /\ conn[g] # "telling" => event[g] = None /\ rest[g] = {}

Typed == TypeOK /\ Calling

LEMMA TypedInit == Init => Typed
<1>. SUFFICES ASSUME Init PROVE Typed
  OBVIOUS
<1>1. enabled \in BOOLEAN /\ everRegistered \in BOOLEAN /\ exited \in BOOLEAN
  BY DEF Init
<1>2. byAddr \in [Groups -> Mappings]
  BY DEF Init, Mappings, NotConnected
<1>3. TypeOK
  BY <1>1, <1>2 DEF Init, TypeOK, Handles, Pgids
<1>. QED  BY <1>3 DEF Init, Typed, Calling

(***************************************************************************)
(* The steps of launching and of the ends of processes.                    *)
(***************************************************************************)
LEMMA InstanceType ==
    ASSUME TypeOK, NEW g \in Groups, Instance(g)
    PROVE  TypeOK'
<1>. USE DEF TypeOK
<1>1. CASE CmdStart(g)
  BY <1>1 DEF CmdStart
<1>0. CASE RegisterLambdaRuntime(g)
  BY <1>0 DEF RegisterLambdaRuntime, Pgids
<1>2. CASE Stop(g)
  BY <1>2 DEF Stop
<1>3. ASSUME NEW n \in External, StartUnmanaged(g, n)
      PROVE  TypeOK'
  <2>1. CASE /\ alive' = [alive EXCEPT ![g] = @ \cup {n}]
             /\ starting' = [starting EXCEPT ![g] = n]
    BY <1>3, <2>1 DEF StartUnmanaged
  <2>2. CASE UNCHANGED <<alive, starting>>
    BY <1>3, <2>2 DEF StartUnmanaged
  <2>. QED  BY <1>3, <2>1, <2>2 DEF StartUnmanaged
<1>4. CASE AddExternal(g)
  BY <1>4 DEF AddExternal, Add, Handles, Pgids
<1>5. CASE AwaitExtensionRegistration(g)
  BY <1>5 DEF AwaitExtensionRegistration, Pgids
<1>6. CASE Continue(g)
  BY <1>6 DEF Continue
<1>7. CASE RuntimeExit(g)
  BY <1>7 DEF RuntimeExit, Unbidden
<1>8. CASE Unregister(g)
  BY <1>8 DEF Unregister, UnregisterLambdaRuntime, Pgids
<1>10. CASE ReapUnregistered(g)
  BY <1>10 DEF ReapUnregistered
<1>9. ASSUME NEW n \in External, ExtensionExit(g, n)
      PROVE  TypeOK'
  BY <1>9 DEF ExtensionExit, Unbidden
<1>. QED  BY <1>0, <1>1, <1>2, <1>3, <1>4, <1>5, <1>6, <1>7, <1>8, <1>9, <1>10 DEF Instance

(***************************************************************************)
(* What a call of register answers.                                        *)
(***************************************************************************)
LEMMA AnswerType ==
    ASSUME TypeOK, NEW c \in Clients, NEW h \in Handles, NEW allowed \in SUBSET Kinds,
           Answer(c, h, allowed)
    PROVE  /\ registered' \in SUBSET Handles
           /\ subscribed' \in [Kinds -> SUBSET Handles]
           /\ call' \in [Clients -> {"idle", "register", "registered", "listening"}]
           /\ found' \in [Clients -> Handles \cup {0}]
<1>1. ASSUME NEW kinds, Subscribe(h, kinds)
      PROVE  subscribed' \in [Kinds -> SUBSET Handles]
  BY <1>1 DEF Subscribe, TypeOK
<1>2. ASSUME Accepted(c, h) \/ Refused(c)
      PROVE  /\ registered' \in SUBSET Handles
             /\ call' \in [Clients -> {"idle", "register", "registered", "listening"}]
             /\ found' \in [Clients -> Handles \cup {0}]
  <2>1. CASE Accepted(c, h)
    BY <2>1 DEF Accepted, TypeOK
  <2>2. CASE Refused(c)
    BY <2>2 DEF Refused, TypeOK
  <2>. QED  BY <1>2, <2>1, <2>2
<1>3. \E kinds : Subscribe(h, kinds)
  BY DEF Answer
<1>4. Accepted(c, h) \/ Refused(c)
  BY DEF Answer
<1>. QED  BY <1>1, <1>2, <1>3, <1>4

(***************************************************************************)
(* The steps of register and of the next of Extensions.                    *)
(***************************************************************************)
LEMMA ExtensionType ==
    ASSUME TypeOK, NEW c \in Clients, Extension(c)
    PROVE  TypeOK'
<1>. USE DEF TypeOK
<1>1. CASE Register(c)
  <2>1. PICK m \in IndexedByAddr(MapRemoteAddrToExtensions(GroupOf[c])) :
           /\ place' = [place EXCEPT ![c] = m.pgid]
           /\ \/ found' = [found EXCEPT ![c] = 0]
              \/ \E h \in m.slice : found' = [found EXCEPT ![c] = h]
    BY <1>1 DEF Register, FindByName, First
  <2>2. m.slice \in SUBSET Handles /\ m.pgid \in Pgids
    BY MapType, IndexedType
  <2>3. found' \in [Clients -> Handles \cup {0}]
    <3>1. CASE found' = [found EXCEPT ![c] = 0]
      BY <3>1
    <3>2. CASE \E h \in m.slice : found' = [found EXCEPT ![c] = h]
      BY <2>2, <3>2
    <3>. QED  BY <2>1, <3>1, <3>2
  <2>4. place' \in [Clients -> Pgids]
    BY <2>1, <2>2
  <2>5. /\ call' = [call EXCEPT ![c] = "register"]
        /\ UNCHANGED <<runtime, initvars, alive, mapvars, handlevars, flagvars, byAddr,
                       ident, nextvars, endvars>>
    BY <1>1 DEF Register
  <2>. QED  BY <2>3, <2>4, <2>5
<1>2. CASE RegisterInternal(c)
  <2>1. added' \in Handles
    BY <1>2 DEF RegisterInternal, Add, Handles
  <2>2. Answer(c, added', {"INVOKE"}) /\ {"INVOKE"} \in SUBSET Kinds
    BY <1>2 DEF RegisterInternal, Kinds
  <2>3. /\ registered' \in SUBSET Handles
        /\ subscribed' \in [Kinds -> SUBSET Handles]
        /\ call' \in [Clients -> {"idle", "register", "registered", "listening"}]
        /\ found' \in [Clients -> Handles \cup {0}]
    BY <2>1, <2>2, AnswerType
  <2>4. /\ name' = [name EXCEPT ![added'] = NameOf[c]]
        /\ home' = [home EXCEPT ![added'] = place[c]]
        /\ extensions' = [extensions EXCEPT ![place[c]] = @ \cup {added'}]
        /\ keys' = keys \cup {place[c]}
        /\ byID' = byID \cup {added'}
        /\ place' = [place EXCEPT ![c] = NoGroup]
    BY <1>2 DEF RegisterInternal, Add
  <2>5. /\ name' \in [Handles -> {NameOf[d] : d \in Clients} \cup External \cup {None}]
        /\ home' \in [Handles -> Pgids]
        /\ extensions' \in [Pgids -> SUBSET Handles]
        /\ keys' \in SUBSET Pgids
        /\ byID' \in SUBSET Handles
        /\ place' \in [Clients -> Pgids]
        /\ added' \in 0..MaxHandles
    BY <2>1, <2>4 DEF Pgids, Handles
  <2>. QED  BY <1>2, <2>3, <2>5 DEF RegisterInternal
<1>3. CASE RegisterExternal(c)
  <2>1. found[c] \in Handles /\ Answer(c, found[c], Kinds)
    BY <1>3 DEF RegisterExternal
  <2>2. /\ registered' \in SUBSET Handles
        /\ subscribed' \in [Kinds -> SUBSET Handles]
        /\ call' \in [Clients -> {"idle", "register", "registered", "listening"}]
        /\ found' \in [Clients -> Handles \cup {0}]
    BY <2>1, AnswerType
  <2>3. place' \in [Clients -> Pgids]
    BY <1>3 DEF RegisterExternal, Pgids
  <2>. QED  BY <1>3, <2>2, <2>3 DEF RegisterExternal
<1>4. CASE RegisterReturns(c)
  BY <1>4 DEF RegisterReturns
<1>5. CASE ExtensionNext(c)
  BY <1>5 DEF ExtensionNext
<1>6. CASE ExtensionNextDone(c)
  BY <1>6 DEF ExtensionNextDone
<1>. QED  BY <1>1, <1>2, <1>3, <1>4, <1>5, <1>6 DEF Extension

(***************************************************************************)
(* The steps of the next of Runtimes.                                      *)
(***************************************************************************)
LEMMA NextHandlerType ==
    ASSUME TypeOK, Calling, NEW g \in Groups, NextHandler(g)
    PROVE  TypeOK'
<1>. USE DEF TypeOK
<1>1. CASE RuntimeNext(g)
  <2>1. \/ byAddr' = [byAddr EXCEPT ![g] = MapRemoteAddrToExtensions(g)]
        \/ byAddr' = byAddr
    BY <1>1 DEF RuntimeNext
  <2>2. byAddr' \in [Groups -> Mappings]
    <3>1. MapRemoteAddrToExtensions(g) \in Mappings /\ byAddr \in [Groups -> Mappings]
      BY MapType
    <3>2. CASE byAddr' = [byAddr EXCEPT ![g] = MapRemoteAddrToExtensions(g)]
      BY ONLY <3>1, <3>2
    <3>3. CASE byAddr' = byAddr
      BY <3>1, <3>3
    <3>. QED  BY <2>1, <3>2, <3>3
  <2>. QED  BY <1>1, <2>2 DEF RuntimeNext
<1>2. ASSUME NEW e \in Invocations \cup {Shutdown}, conn[g] = "next", Announce(g, e)
      PROVE  /\ rest' \in [Groups -> SUBSET Handles]
             /\ target' \in [Groups -> Pgids]
             /\ event' \in [Groups -> Invocations \cup {Shutdown, None}]
             /\ conn' \in [Groups -> {"idle", "next", "telling", "kill"}]
  <2>1. byAddr[g] \in Mappings /\ (MaxConcurrency > 1 => byAddr[g].pgid \in Pgids)
    BY <1>2 DEF Calling
  <2>. QED  BY <1>2, <2>1, IndexedType DEF Announce
<1>3. ASSUME NEW i \in Invocations, Receive(g, i)
      PROVE  TypeOK'
  <2>1. conn[g] = "next" /\ Announce(g, i) /\ given' = given \cup {i}
    BY <1>3 DEF Receive
  <2>2. UNCHANGED <<runtime, initvars, alive, mapvars, handlevars, flagvars, byAddr,
                    clientvars, got, endvars>>
    BY <1>3 DEF Receive
  <2>. QED  BY <1>2, <2>1, <2>2
<1>4. ASSUME NEW i \in Invocations, ReceiveDisablesEvents(g, i)
      PROVE  TypeOK'
  BY <1>4 DEF ReceiveDisablesEvents
<1>5. CASE TerminateIdleInstance(g)
  <2>1. conn[g] = "next" /\ Announce(g, Shutdown)
    BY <1>5 DEF TerminateIdleInstance
  <2>2. UNCHANGED <<runtime, initvars, alive, mapvars, handlevars, flagvars, byAddr,
                    clientvars, given, got, endvars>>
    BY <1>5 DEF TerminateIdleInstance
  <2>. QED  BY <1>2, <2>1, <2>2
<1>6. ASSUME NEW k \in Pgids, KillGroup(k)
      PROVE  /\ runtime' \in [Groups -> {"none", "running", "stopped", "dead", "gone", "phantom"}]
             /\ alive' \in [Groups -> SUBSET External]
             /\ exited' \in BOOLEAN
  BY <1>6 DEF KillGroup
<1>7. CASE TerminateUnextended(g)
  <2>1. KillGroup(g) \/ UNCHANGED <<runtime, alive, exited>>
    BY <1>7 DEF TerminateUnextended
  <2>2. /\ runtime' \in [Groups -> {"none", "running", "stopped", "dead", "gone", "phantom"}]
        /\ alive' \in [Groups -> SUBSET External]
        /\ exited' \in BOOLEAN
    BY <1>6, <2>1 DEF Pgids
  <2>. QED  BY <1>7, <2>2 DEF TerminateUnextended
<1>8. ASSUME NEW c \in Clients, Tell(g, c)
      PROVE  TypeOK'
  <2>1. PICK h \in rest[g] : /\ got' = [got EXCEPT ![h] = @ \cup {event[g]}]
                             /\ rest' = [rest EXCEPT ![g] = @ \ {h}]
    BY <1>8 DEF Tell, First
  <2>2. event[g] \in Invocations \cup {Shutdown}
    BY DEF Calling
  <2>. QED  BY <1>8, <2>1, <2>2 DEF Tell
<1>9. CASE Skip(g)
  BY <1>9 DEF Skip
<1>10. CASE AllTold(g)
  BY <1>10 DEF AllTold, Pgids
<1>11. CASE Kill(g)
  <2>1. target' \in [Groups -> Pgids]
    BY <1>11 DEF Kill, Pgids
  <2>. QED  BY <1>6, <1>11, <2>1 DEF Kill
<1>. QED  BY <1>1, <1>3, <1>4, <1>5, <1>7, <1>8, <1>9, <1>10, <1>11 DEF NextHandler, Pass

(***************************************************************************)
(* Only the next of a Runtime disturbs Calling.                            *)
(***************************************************************************)
LEMMA NextHandlerCalling ==
    ASSUME TypeOK, Calling, NEW g \in Groups, NextHandler(g)
    PROVE  Calling'
<1>. USE DEF TypeOK, Calling
<1>1. CASE RuntimeNext(g)
  <2>1. MaxConcurrency > 1 => byAddr'[g].pgid \in Pgids
    <3>1. CASE byAddr' = [byAddr EXCEPT ![g] = MapRemoteAddrToExtensions(g)]
      BY <3>1, MapType
    <3>2. CASE (MaxConcurrency > 1 => byAddr[g].pgid # None) /\ byAddr' = byAddr
      BY <3>2 DEF Mappings
    <3>. QED  BY <1>1, <3>1, <3>2 DEF RuntimeNext
  <2>2. /\ conn' = [conn EXCEPT ![g] = "next"]
        /\ \A i \in Groups \ {g} : byAddr'[i] = byAddr[i]
        /\ conn[g] = "idle" /\ UNCHANGED <<event, rest>>
    BY <1>1 DEF RuntimeNext
  <2>. QED  BY <2>1, <2>2
<1>2. ASSUME NEW e \in Invocations \cup {Shutdown}, conn[g] = "next", Announce(g, e),
             UNCHANGED byAddr
      PROVE  Calling'
  BY <1>2 DEF Announce
<1>3. ASSUME NEW i \in Invocations, Receive(g, i)
      PROVE  Calling'
  BY <1>2, <1>3 DEF Receive
<1>4. ASSUME NEW i \in Invocations, ReceiveDisablesEvents(g, i)
      PROVE  Calling'
  BY <1>4 DEF ReceiveDisablesEvents
<1>5. CASE TerminateIdleInstance(g)
  BY <1>2, <1>5 DEF TerminateIdleInstance
<1>6. CASE TerminateUnextended(g)
  BY <1>6 DEF TerminateUnextended
<1>7. ASSUME NEW c \in Clients, Tell(g, c)
      PROVE  Calling'
  BY <1>7 DEF Tell
<1>8. CASE Skip(g)
  BY <1>8 DEF Skip
<1>9. CASE AllTold(g)
  BY <1>9 DEF AllTold
<1>10. CASE Kill(g)
  BY <1>10 DEF Kill
<1>. QED  BY <1>1, <1>3, <1>4, <1>5, <1>6, <1>7, <1>8, <1>9, <1>10 DEF NextHandler, Pass

LEMMA TypedStep == Typed /\ [Next]_vars => Typed'
<1>. SUFFICES ASSUME TypeOK, Calling, [Next]_vars PROVE TypeOK' /\ Calling'
  BY DEF Typed
<1>1. CASE UNCHANGED vars
  BY <1>1 DEF TypeOK, Calling, vars
<1>2. ASSUME NEW g \in Groups, Instance(g)
      PROVE  TypeOK' /\ Calling'
  <2>1. UNCHANGED <<conn, byAddr, event, rest>>
    BY <1>2 DEF Instance, CmdStart, RegisterLambdaRuntime, Stop, StartUnmanaged, AddExternal,
                AwaitExtensionRegistration, Continue, RuntimeExit, ReapUnregistered,
                Unregister, ExtensionExit
  <2>. QED  BY <1>2, <2>1, InstanceType DEF Calling
<1>3. ASSUME NEW c \in Clients, Extension(c)
      PROVE  TypeOK' /\ Calling'
  <2>1. UNCHANGED <<conn, byAddr, event, rest>>
    BY <1>3 DEF Extension, Register, RegisterInternal, RegisterExternal, RegisterReturns,
                ExtensionNext, ExtensionNextDone
  <2>. QED  BY <1>3, <2>1, ExtensionType DEF Calling
<1>. QED  BY <1>1, <1>2, <1>3, NextHandlerType, NextHandlerCalling DEF Next

(***************************************************************************)
(* Type correctness of the Extensions API and of what uses it.             *)
(***************************************************************************)
THEOREM TypeCorrect == Spec => []TypeOK
<1>1. Typed => TypeOK
  BY DEF Typed
<1>. QED  BY <1>1, TypedInit, TypedStep, PTL DEF Spec
-----------------------------------------------------------------------------
(***************************************************************************)
(* The maps.  Nothing is known of a group before its Runtime has been      *)
(* registered, so the entry made then takes no handles from another.       *)
(***************************************************************************)
Unknown == \A g \in Groups :
    /\ runtime[g] = "none" => init[g] = "none"
    /\ init[g] \in {"none", "register"} =>
          /\ g \notin keys
          /\ starting[g] = None
          /\ \A c \in Clients : place[c] # g

Sound == TypeOK /\ MapsAgree /\ Unknown

(***************************************************************************)
(* What is looked up: an entry of the map, or no Extensions and pgid 0.    *)
(***************************************************************************)
LEMMA MapEntry ==
    ASSUME TypeOK, NEW g \in Groups, NEW m, m = MapRemoteAddrToExtensions(g)
    PROVE  /\ m.pgid \in keys \cup {NoGroup}
           /\ m.pgid \in {g, NoGroup}
           /\ m.slice \subseteq extensions[m.pgid]
BY DEF TypeOK, MapRemoteAddrToExtensions, Unmapped, Pgids

LEMMA IndexedEntry ==
    ASSUME TypeOK, NEW g \in Groups,
           NEW m \in IndexedByAddr(MapRemoteAddrToExtensions(g))
    PROVE  /\ m.pgid \in keys \cup {NoGroup}
           /\ MaxConcurrency > 1 => m.pgid \in {g, NoGroup}
           /\ m.slice \subseteq extensions[m.pgid]
<1>1. CASE MaxConcurrency = 1
  BY <1>1 DEF TypeOK, IndexedByAddr, Unmapped, Pgids
<1>2. CASE MaxConcurrency # 1
  BY <1>2, MapEntry DEF IndexedByAddr
<1>. QED  BY <1>1, <1>2

(***************************************************************************)
(* A new handle is in one entry, and in extensionByID.                     *)
(***************************************************************************)
LEMMA AddMaps ==
    ASSUME TypeOK, MapsAgree, NEW n, NEW k \in Pgids, Add(n, k)
    PROVE  MapsAgree'
<1>. USE DEF TypeOK, MapsAgree, Handles
<1>1. added' = added + 1 /\ added + 1 \in Handles /\ added \in Nat
  BY DEF Add
<1>2. /\ extensions' = [extensions EXCEPT ![k] = @ \cup {added + 1}]
      /\ keys' = keys \cup {k}
      /\ byID' = byID \cup {added + 1}
      /\ home' = [home EXCEPT ![added + 1] = k]
  BY DEF Add
<1>3. byID' = UNION {extensions'[i] : i \in Pgids}
  <2>1. \A h : h \in byID' <=> \E i \in Pgids : h \in extensions'[i]
    BY <1>2
  <2>. QED  BY <2>1
<1>4. ASSUME NEW i \in Pgids, NEW h \in extensions'[i]
      PROVE  home'[h] = i /\ h <= added'
  <2>1. CASE h = added + 1
    <3>1. i = k
      BY <1>1, <1>2, <1>4, <2>1
    <3>. QED  BY <1>1, <1>2, <2>1, <3>1
  <2>2. CASE h # added + 1
    <3>1. h \in extensions[i]
      BY <1>2, <1>4, <2>2
    <3>. QED  BY <1>1, <1>2, <2>2, <3>1
  <2>. QED  BY <2>1, <2>2
<1>5. \A i \in Pgids : extensions'[i] # {} => i \in keys'
  BY <1>2
<1>. QED  BY <1>3, <1>4, <1>5

(***************************************************************************)
(* UnregisterLambdaRuntime forgets one entry, with its identifiers.        *)
(***************************************************************************)
LEMMA UnregisterMaps ==
    ASSUME TypeOK, MapsAgree, NEW g \in Groups, UnregisterLambdaRuntime(g),
           UNCHANGED handlevars
    PROVE  MapsAgree'
<1>. USE DEF TypeOK, MapsAgree, UnregisterLambdaRuntime, Pgids
<1>1. byID' = UNION {extensions'[i] : i \in Pgids}
  <2>1. \A h : h \in byID' <=> \E i \in Pgids : h \in extensions'[i]
    OBVIOUS
  <2>. QED  BY <2>1
<1>2. \A i \in Pgids : \A h \in extensions'[i] : home'[h] = i /\ h <= added'
  OBVIOUS
<1>3. \A i \in Pgids : extensions'[i] # {} => i \in keys'
  OBVIOUS
<1>. QED  BY <1>1, <1>2, <1>3

(***************************************************************************)
(* The steps that change the maps or what Unknown says.                    *)
(***************************************************************************)
LEMMA InstanceSound ==
    ASSUME Sound, NEW g \in Groups, Instance(g)
    PROVE  MapsAgree' /\ Unknown'
<1>. USE DEF Sound, TypeOK, Unknown
<1>1. CASE CmdStart(g)
  BY <1>1 DEF CmdStart, MapsAgree
<1>0. CASE RegisterLambdaRuntime(g)
  <2>1. extensions[g] = {}
    BY <1>0 DEF RegisterLambdaRuntime, MapsAgree, Pgids
  <2>2. extensions' = extensions
    BY <1>0, <2>1 DEF RegisterLambdaRuntime, Pgids
  <2>. QED  BY <1>0, <2>2 DEF RegisterLambdaRuntime, MapsAgree
<1>2. CASE Stop(g)
  BY <1>2 DEF Stop, MapsAgree
<1>3. ASSUME NEW n \in External, StartUnmanaged(g, n)
      PROVE  MapsAgree' /\ Unknown'
  <2>1. CASE starting' = [starting EXCEPT ![g] = n]
    BY <1>3, <2>1 DEF StartUnmanaged, MapsAgree
  <2>2. CASE starting' = starting
    BY <1>3, <2>2 DEF StartUnmanaged, MapsAgree
  <2>. QED  BY <1>3, <2>1, <2>2 DEF StartUnmanaged
<1>4. CASE AddExternal(g)
  <2>1. Add(starting[g], g) /\ g \in Pgids
    BY <1>4 DEF AddExternal, Pgids
  <2>2. MapsAgree'
    BY <2>1, AddMaps
  <2>3. Unknown'
    BY <1>4 DEF AddExternal, Add
  <2>. QED  BY <2>2, <2>3
<1>5. CASE AwaitExtensionRegistration(g)
  BY <1>5 DEF AwaitExtensionRegistration, MapsAgree
<1>6. CASE Continue(g)
  BY <1>6 DEF Continue, MapsAgree
<1>7. CASE RuntimeExit(g)
  BY <1>7 DEF RuntimeExit, MapsAgree
<1>8. CASE Unregister(g)
  <2>1. UnregisterLambdaRuntime(g) /\ UNCHANGED handlevars
    BY <1>8 DEF Unregister
  <2>2. MapsAgree'
    BY <2>1, UnregisterMaps
  <2>3. Unknown'
    BY <1>8 DEF Unregister, UnregisterLambdaRuntime
  <2>. QED  BY <2>2, <2>3
<1>10. CASE ReapUnregistered(g)
  BY <1>10 DEF ReapUnregistered, MapsAgree
<1>9. ASSUME NEW n \in External, ExtensionExit(g, n)
      PROVE  MapsAgree' /\ Unknown'
  BY <1>9 DEF ExtensionExit, MapsAgree
<1>. QED  BY <1>0, <1>1, <1>2, <1>3, <1>4, <1>5, <1>6, <1>7, <1>8, <1>9, <1>10 DEF Instance

LEMMA ExtensionSound ==
    ASSUME Sound, NEW c \in Clients, Extension(c)
    PROVE  MapsAgree' /\ Unknown'
<1>. USE DEF Sound, TypeOK, Unknown
<1>1. CASE Register(c)
  <2>1. PICK m \in IndexedByAddr(MapRemoteAddrToExtensions(GroupOf[c])) :
           place' = [place EXCEPT ![c] = m.pgid]
    BY <1>1 DEF Register
  <2>2. m.pgid \in keys \cup {NoGroup}
    BY IndexedEntry
  <2>. QED  BY <1>1, <2>1, <2>2 DEF Register, MapsAgree
<1>2. CASE RegisterInternal(c)
  <2>1. Add(NameOf[c], place[c]) /\ place[c] \in Pgids
    BY <1>2 DEF RegisterInternal
  <2>2. MapsAgree'
    BY <2>1, AddMaps
  <2>3. Unknown'
    BY <1>2, <2>1 DEF RegisterInternal, Add
  <2>. QED  BY <2>2, <2>3
<1>3. CASE RegisterExternal(c)
  BY <1>3 DEF RegisterExternal, MapsAgree
<1>4. CASE RegisterReturns(c)
  BY <1>4 DEF RegisterReturns, MapsAgree
<1>5. CASE ExtensionNext(c)
  BY <1>5 DEF ExtensionNext, MapsAgree
<1>6. CASE ExtensionNextDone(c)
  BY <1>6 DEF ExtensionNextDone, MapsAgree
<1>. QED  BY <1>1, <1>2, <1>3, <1>4, <1>5, <1>6 DEF Extension

(***************************************************************************)
(* The next of Runtimes leaves the maps alone, and starts no Runtime.      *)
(***************************************************************************)
LEMMA NextHandlerKeeps ==
    ASSUME TypeOK, NEW g \in Groups, NextHandler(g)
    PROVE  /\ UNCHANGED <<initvars, mapvars, handlevars, everRegistered, found, place, ident>>
           /\ \A i \in Groups : runtime'[i] = "none" <=> runtime[i] = "none"
<1>1. ASSUME NEW k, KillGroup(k)
      PROVE  \A i \in Groups : runtime'[i] = "none" <=> runtime[i] = "none"
  BY <1>1 DEF KillGroup, TypeOK
<1>2. CASE TerminateUnextended(g)
  <2>1. KillGroup(g) \/ UNCHANGED runtime
    BY <1>2 DEF TerminateUnextended
  <2>2. UNCHANGED <<initvars, mapvars, handlevars, everRegistered, found, place, ident>>
    BY <1>2 DEF TerminateUnextended
  <2>. QED  BY <1>1, <2>1, <2>2
<1>3. CASE Kill(g)
  <2>1. KillGroup(target[g])
    BY <1>3 DEF Kill
  <2>2. UNCHANGED <<initvars, mapvars, handlevars, everRegistered, found, place, ident>>
    BY <1>3 DEF Kill
  <2>. QED  BY <1>1, <2>1, <2>2
<1>. QED  BY <1>2, <1>3 DEF NextHandler, Pass, RuntimeNext, Receive, ReceiveDisablesEvents,
                            TerminateIdleInstance, Tell, Skip, AllTold

LEMMA SoundInit == Init => MapsAgree /\ Unknown
<1>. SUFFICES ASSUME Init PROVE MapsAgree /\ Unknown
  OBVIOUS
<1>1. byID = UNION {extensions[k] : k \in Pgids}
  BY DEF Init
<1>. QED  BY <1>1 DEF Init, MapsAgree, Unknown

LEMMA SoundStep == Sound /\ [Next]_vars => MapsAgree' /\ Unknown'
<1>. SUFFICES ASSUME Sound, [Next]_vars PROVE MapsAgree' /\ Unknown'
  OBVIOUS
<1>1. CASE UNCHANGED vars
  BY <1>1 DEF Sound, MapsAgree, Unknown, vars
<1>2. ASSUME NEW g \in Groups, NextHandler(g)
      PROVE  MapsAgree' /\ Unknown'
  BY <1>2, NextHandlerKeeps DEF Sound, MapsAgree, Unknown
<1>. QED  BY <1>1, <1>2, InstanceSound, ExtensionSound DEF Next

(***************************************************************************)
(* A handle has an identifier exactly as long as an entry of the map by    *)
(* process group holds it.                                                 *)
(***************************************************************************)
THEOREM MapsStayTogether == Spec => []MapsAgree
<1>1. Init => MapsAgree /\ Unknown
  BY SoundInit
<1>2. TypeOK /\ MapsAgree /\ Unknown /\ [Next]_vars => MapsAgree' /\ Unknown'
  BY SoundStep DEF Sound
<1>. QED  BY <1>1, <1>2, TypeCorrect, PTL DEF Spec
-----------------------------------------------------------------------------
(***************************************************************************)
(* Identifiers.  From the moment register has closed awaitRegister of a    *)
(* handle that handle is the caller's, although the caller does not have   *)
(* its identifier before the handler returns.                              *)
(***************************************************************************)
Held(c) == IF call[c] = "registered" THEN found[c] ELSE ident[c]

\* Handle h is what a call of c may find, or is given.
Fits(c, h) ==
    /\ h \in 1..added
    /\ name[h] = NameOf[c]
    /\ MaxConcurrency > 1 => home[h] \in {GroupOf[c], NoGroup}

Owned ==
    /\ registered \subseteq 1..added
    /\ \A c \in Clients :
          /\ call[c] \in {"register", "registered"} => ident[c] = 0
          /\ call[c] = "registered" => found[c] # 0
          /\ call[c] \in {"register", "registered"} /\ found[c] # 0 => Fits(c, found[c])
          /\ call[c] = "register" /\ MaxConcurrency > 1 => place[c] \in {GroupOf[c], NoGroup}
          /\ ident[c] # 0 => Fits(c, ident[c])
          /\ Held(c) # 0 => Held(c) \in registered
    /\ \A c, d \in Clients : Held(c) = Held(d) /\ Held(c) # 0 => c = d

LEMMA OwnedImplies == TypeOK /\ Owned => OwnIdentifier
BY DEF TypeOK, Owned, OwnIdentifier, Held, Fits

LEMMA OwnedInit == Init => Owned
<1>. SUFFICES ASSUME Init PROVE Owned
  OBVIOUS
<1>1. \A c \in Clients : Held(c) = 0
  BY DEF Init, Held
<1>. QED  BY <1>1 DEF Init, Owned

(***************************************************************************)
(* A handle that exists keeps its name and its home.                       *)
(***************************************************************************)
LEMMA AddKeeps ==
    ASSUME TypeOK, NEW n, NEW k \in Pgids, Add(n, k)
    PROVE  /\ added' = added + 1 /\ added' \in Handles /\ added' \notin 1..added
           /\ 1..added \subseteq 1..added'
           /\ added' \in 1..added'
           /\ \A h \in 1..added : name'[h] = name[h] /\ home'[h] = home[h]
           /\ home'[added'] = k
           /\ n \in {NameOf[c] : c \in Clients} \cup External \cup {None} => name'[added'] = n
<1>1. added \in 0..MaxHandles /\ added < MaxHandles /\ added' = added + 1
  BY DEF TypeOK, Add
<1>2. /\ added' \in Handles /\ added' \notin 1..added
      /\ 1..added \subseteq 1..added' /\ added' \in 1..added'
      /\ \A h \in 1..added : h # added' /\ h \in Handles
  BY <1>1 DEF Handles
<1>3. /\ name' = [name EXCEPT ![added'] = n]
      /\ home' = [home EXCEPT ![added'] = k]
  BY <1>1 DEF Add
<1>. QED  BY <1>1, <1>2, <1>3 DEF TypeOK

(***************************************************************************)
(* The answer of register: the handle becomes the caller's, or nobody's    *)
(* who did not have it.                                                    *)
(***************************************************************************)
LEMMA AnswerOwned ==
    ASSUME TypeOK, Owned, NEW c \in Clients, NEW h \in Handles, NEW allowed,
           call[c] = "register", Answer(c, h, allowed), UNCHANGED ident,
           place' = [place EXCEPT ![c] = NoGroup],
           1..added \subseteq 1..added',
           \A i \in 1..added : name'[i] = name[i] /\ home'[i] = home[i],
           h \in 1..added', name'[h] = NameOf[c],
           MaxConcurrency > 1 => home'[h] \in {GroupOf[c], NoGroup}
    PROVE  Owned'
<1>. USE DEF TypeOK
<1>1. \A d \in Clients \ {c} : /\ call'[d] = call[d] /\ found'[d] = found[d]
                              /\ ident'[d] = ident[d] /\ place'[d] = place[d]
  BY DEF Answer, Accepted, Refused
<1>2. ident'[c] = 0
  BY DEF Owned
<1>3. \A d \in Clients \ {c} : Held(d)' = Held(d)
  BY <1>1 DEF Held
<1>4. \A d \in Clients, i \in Handles \cup {0} : Fits(d, i) => Fits(d, i)'
  BY DEF Fits
<1>5. Fits(c, h)'
  BY DEF Fits
<1>6. ASSUME Accepted(c, h)
      PROVE  Owned'
  <2>1. /\ registered' = registered \cup {h} /\ h \notin registered
        /\ call'[c] = "registered" /\ found'[c] = h /\ h # 0
    BY <1>6 DEF Accepted, Handles
  <2>2. Held(c)' = h
    BY <2>1 DEF Held
  <2>3. \A d \in Clients \ {c} : Held(d) # h
    BY <2>1 DEF Owned
  <2>4. registered' \subseteq 1..added'
    BY <2>1 DEF Owned
  <2>5. ASSUME NEW d \in Clients
        PROVE /\ call'[d] \in {"register", "registered"} => ident'[d] = 0
              /\ call'[d] = "registered" => found'[d] # 0
              /\ call'[d] \in {"register", "registered"} /\ found'[d] # 0
                    => Fits(d, found[d])' 
              /\ call'[d] = "register" /\ MaxConcurrency > 1
                    => place'[d] \in {GroupOf[d], NoGroup}
              /\ ident'[d] # 0 => Fits(d, ident[d])'
              /\ Held(d)' # 0 => Held(d)' \in registered'
    <3>1. CASE d = c
      BY <1>2, <1>5, <2>1, <2>2, <3>1 DEF Fits
    <3>2. CASE d # c
      BY <1>1, <1>3, <1>4, <2>1, <3>2 DEF Owned, Fits
    <3>. QED  BY <3>1, <3>2
  <2>6. \A d, e \in Clients : Held(d)' = Held(e)' /\ Held(d)' # 0 => d = e
    <3>. SUFFICES ASSUME NEW d \in Clients, NEW e \in Clients, Held(d)' = Held(e)',
                         Held(d)' # 0, d # e
                  PROVE  FALSE
      OBVIOUS
    <3>1. d # c /\ e # c
      BY <1>3, <2>2, <2>3
    <3>. QED  BY <1>3, <3>1 DEF Owned
  <2>. QED  BY <2>4, <2>5, <2>6 DEF Owned
<1>7. ASSUME Refused(c)
      PROVE  Owned'
  <2>1. registered' = registered /\ call'[c] = "idle" /\ found'[c] = 0
    BY <1>7 DEF Refused
  <2>2. Held(c)' = 0
    BY <1>2, <2>1 DEF Held
  <2>3. ASSUME NEW d \in Clients
        PROVE /\ call'[d] \in {"register", "registered"} => ident'[d] = 0
              /\ call'[d] = "registered" => found'[d] # 0
              /\ call'[d] \in {"register", "registered"} /\ found'[d] # 0
                    => Fits(d, found[d])'
              /\ call'[d] = "register" /\ MaxConcurrency > 1
                    => place'[d] \in {GroupOf[d], NoGroup}
              /\ ident'[d] # 0 => Fits(d, ident[d])'
              /\ Held(d)' # 0 => Held(d)' \in registered'
    <3>1. CASE d = c
      BY <1>2, <2>1, <2>2, <3>1
    <3>2. CASE d # c
      BY <1>1, <1>3, <1>4, <2>1, <3>2 DEF Owned, Fits
    <3>. QED  BY <3>1, <3>2
  <2>4. \A d, e \in Clients : Held(d)' = Held(e)' /\ Held(d)' # 0 => d = e
    <3>. SUFFICES ASSUME NEW d \in Clients, NEW e \in Clients, Held(d)' = Held(e)',
                         Held(d)' # 0, d # e
                  PROVE  FALSE
      OBVIOUS
    <3>1. d # c /\ e # c
      BY <2>2
    <3>. QED  BY <1>3, <3>1 DEF Owned
  <2>5. registered' \subseteq 1..added'
    BY <2>1 DEF Owned
  <2>. QED  BY <2>3, <2>4, <2>5 DEF Owned
<1>. QED  BY <1>6, <1>7 DEF Answer

LEMMA ExtensionOwned ==
    ASSUME Sound, Owned, NEW c \in Clients, Extension(c)
    PROVE  Owned'
<1>. USE DEF Sound, TypeOK
<1>1. CASE Register(c)
  <2>1. PICK m \in IndexedByAddr(MapRemoteAddrToExtensions(GroupOf[c])) :
           /\ place' = [place EXCEPT ![c] = m.pgid]
           /\ \/ found' = [found EXCEPT ![c] = 0]
              \/ \E h \in FindByName(m.slice, NameOf[c]) : found' = [found EXCEPT ![c] = h]
    BY <1>1 DEF Register
  <2>2. /\ MaxConcurrency > 1 => m.pgid \in {GroupOf[c], NoGroup}
        /\ m.slice \subseteq extensions[m.pgid] /\ m.pgid \in Pgids
    BY IndexedEntry DEF Pgids
  <2>3. \A h \in FindByName(m.slice, NameOf[c]) : Fits(c, h)
    BY <2>2 DEF FindByName, First, Fits, MapsAgree, Handles
  <2>4. found'[c] # 0 => Fits(c, found'[c])
    BY <2>1, <2>3
  <2>5. /\ call' = [call EXCEPT ![c] = "register"] /\ ident[c] = 0 /\ call[c] = "idle"
        /\ UNCHANGED <<registered, added, name, home, ident>>
        /\ \A d \in Clients \ {c} : found'[d] = found[d] /\ place'[d] = place[d]
    BY <1>1, <2>1 DEF Register
  <2>6. \A d \in Clients : Held(d)' = Held(d)
    BY <2>5 DEF Held
  <2>7. place'[c] = m.pgid
    BY <2>1
  <2>. QED  BY <2>2, <2>4, <2>5, <2>6, <2>7 DEF Owned, Fits
<1>2. CASE RegisterInternal(c)
  <2>1. Add(NameOf[c], place[c]) /\ place[c] \in Pgids /\ call[c] = "register"
    BY <1>2 DEF RegisterInternal
  <2>2. /\ Answer(c, added', {"INVOKE"}) /\ UNCHANGED ident
        /\ place' = [place EXCEPT ![c] = NoGroup]
    BY <1>2 DEF RegisterInternal
  <2>3. MaxConcurrency > 1 => place[c] \in {GroupOf[c], NoGroup}
    BY <2>1 DEF Owned
  <2>4. /\ added' \in Handles /\ 1..added \subseteq 1..added' /\ added' \in 1..added'
        /\ \A h \in 1..added : name'[h] = name[h] /\ home'[h] = home[h]
        /\ home'[added'] = place[c] /\ name'[added'] = NameOf[c]
    BY <2>1, AddKeeps
  <2>. QED  BY <2>1, <2>2, <2>3, <2>4, AnswerOwned
<1>3. CASE RegisterExternal(c)
  <2>1. /\ call[c] = "register" /\ found[c] \in Handles /\ found[c] # 0
        /\ Answer(c, found[c], Kinds) /\ UNCHANGED <<ident, added, name, home>>
        /\ place' = [place EXCEPT ![c] = NoGroup]
    BY <1>3 DEF RegisterExternal
  <2>2. Fits(c, found[c])
    BY <2>1 DEF Owned
  <2>. QED  BY <2>1, <2>2, AnswerOwned DEF Fits
<1>4. CASE RegisterReturns(c)
  <2>1. /\ ident' = [ident EXCEPT ![c] = found[c]] /\ call[c] = "registered"
        /\ call' = [call EXCEPT ![c] = "idle"] /\ found' = [found EXCEPT ![c] = 0]
        /\ UNCHANGED <<registered, added, name, home, place>>
    BY <1>4 DEF RegisterReturns
  <2>2. \A d \in Clients : Held(d)' = Held(d)
    BY <2>1 DEF Held
  <2>. QED  BY <2>1, <2>2 DEF Owned, Fits
<1>5. CASE ExtensionNext(c)
  <2>1. /\ call[c] = "idle" /\ call' = [call EXCEPT ![c] = "listening"]
        /\ UNCHANGED <<registered, added, name, home, place, found, ident>>
    BY <1>5 DEF ExtensionNext
  <2>2. \A d \in Clients : Held(d)' = Held(d)
    BY <2>1 DEF Held
  <2>. QED  BY <2>1, <2>2 DEF Owned, Fits
<1>6. CASE ExtensionNextDone(c)
  <2>1. /\ call[c] = "listening" /\ call' = [call EXCEPT ![c] = "idle"]
        /\ UNCHANGED <<registered, added, name, home, place, found, ident>>
    BY <1>6 DEF ExtensionNextDone
  <2>2. \A d \in Clients : Held(d)' = Held(d)
    BY <2>1 DEF Held
  <2>. QED  BY <2>1, <2>2 DEF Owned, Fits
<1>. QED  BY <1>1, <1>2, <1>3, <1>4, <1>5, <1>6 DEF Extension

LEMMA OwnedStep == Sound /\ Owned /\ [Next]_vars => Owned'
<1>. SUFFICES ASSUME Sound, Owned, [Next]_vars PROVE Owned'
  OBVIOUS
<1>. USE DEF Sound, TypeOK
<1>1. ASSUME UNCHANGED <<registered, added, name, home, clientvars>>
      PROVE  Owned'
  BY <1>1 DEF Owned, Held, Fits
<1>2. CASE UNCHANGED vars
  BY <1>1, <1>2 DEF vars
<1>3. ASSUME NEW g \in Groups, Instance(g)
      PROVE  Owned'
  <2>1. CASE AddExternal(g)
    <3>1. Add(starting[g], g) /\ g \in Pgids /\ UNCHANGED <<registered, clientvars>>
      BY <2>1 DEF AddExternal, Pgids
    <3>2. /\ 1..added \subseteq 1..added'
          /\ \A h \in 1..added : name'[h] = name[h] /\ home'[h] = home[h]
      BY <3>1, AddKeeps
    <3>3. \A d \in Clients, i \in Handles \cup {0} : Fits(d, i) => Fits(d, i)'
      BY <3>2 DEF Fits
    <3>4. \A d \in Clients : Held(d)' = Held(d)
      BY <3>1 DEF Held
    <3>. QED  BY <3>1, <3>2, <3>3, <3>4 DEF Owned, Fits
  <2>2. ASSUME ~AddExternal(g)
        PROVE  UNCHANGED <<registered, added, name, home, clientvars>>
    BY <1>3, <2>2 DEF Instance, CmdStart, RegisterLambdaRuntime, Stop, StartUnmanaged,
                      AwaitExtensionRegistration, Continue, RuntimeExit, ReapUnregistered,
                      Unregister, ExtensionExit
  <2>. QED  BY <1>1, <2>1, <2>2
<1>4. ASSUME NEW g \in Groups, NextHandler(g)
      PROVE  Owned'
  <2>1. CASE \E c \in Clients : Tell(g, c)
    <3>1. PICK c \in Clients : /\ call[c] = "listening" /\ call' = [call EXCEPT ![c] = "idle"]
                              /\ UNCHANGED <<registered, added, name, home, place, found, ident>>
      BY <2>1 DEF Tell, Listens
    <3>2. \A d \in Clients : Held(d)' = Held(d)
      BY <3>1 DEF Held
    <3>. QED  BY <3>1, <3>2 DEF Owned, Fits
  <2>2. CASE ~\E c \in Clients : Tell(g, c)
    <3>1. UNCHANGED <<registered, added, name, home, clientvars>>
      BY <1>4, <2>2 DEF NextHandler, Pass, RuntimeNext, Receive, ReceiveDisablesEvents,
                        TerminateIdleInstance, TerminateUnextended, Skip, AllTold, Kill
    <3>. QED  BY <1>1, <3>1
  <2>. QED  BY <2>1, <2>2
<1>. QED  BY <1>2, <1>3, <1>4, ExtensionOwned DEF Next

(***************************************************************************)
(* However the calls of register interleave, an identifier is given to one *)
(* caller, whose handle it is.                                             *)
(***************************************************************************)
THEOREM IdentifiersOwned == Spec => []OwnIdentifier
<1>1. TypeOK /\ MapsAgree /\ Unknown /\ [Next]_vars => MapsAgree' /\ Unknown'
  BY SoundStep DEF Sound
<1>2. TypeOK /\ MapsAgree /\ Unknown /\ Owned /\ [Next]_vars => Owned'
  BY OwnedStep DEF Sound
<1>. QED  BY <1>1, <1>2, SoundInit, OwnedInit, OwnedImplies, TypeCorrect, PTL DEF Spec
=============================================================================
