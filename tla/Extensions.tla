----------------------------- MODULE Extensions -----------------------------
(***************************************************************************)
(* The Extensions API (pkg/runtimeapi/extensionsapi.go) with what uses it: *)
(* RAPIInvoker.init, which starts the External Extensions of an instance   *)
(* and waits until they have registered; the next handler of RuntimeAPI,   *)
(* which tells Extensions of an invocation before its Runtime, and of the  *)
(* shutdown of an instance that is idle; and the death of instances.       *)
(*                                                                         *)
(* An instance is the process group of its Runtime, and groups are used    *)
(* once.  External Extensions are processes of the group, Internal ones    *)
(* run in the Runtime.  The "handle" of an Extension is a number: handles  *)
(* are numbered as they are added, which is their order in every slice, so *)
(* a slice is a set.  EventService says what this amounts to.              *)
(***************************************************************************)
EXTENDS Naturals, FiniteSets

CONSTANTS
    Groups,          \* process groups of instances, by their pgid
    NoGroup,         \* pgid 0, and that of the daemon: both reach the daemon
    External,        \* names of the executables in /opt/extensions
    Clients,         \* what registers: Extensions, some perhaps more than once
    GroupOf,         \* GroupOf[c]: the process group c is in
    NameOf,          \* NameOf[c]: the name it registers with
    Asks,            \* Asks[c]: the events it lists when it registers
    Eager,           \* pairs <<g, step>>: the Runtime of g calls next before that step
                     \* of init, to register or to stop it; bounded in the runs
    Invocations,     \* invocations
    Shutdown,        \* the shutdown event
    None,            \* no event, no name, no connection
    MaxConcurrency,  \* MAX_CONCURRENCY
    MaxHandles,      \* bound: handles that may be added
    Frail,           \* bound: instances in which a process may exit unbidden
    MaxExits         \* bound: how many do

ASSUME ExtensionsAssumption ==
    /\ IsFiniteSet(Groups)
    /\ NoGroup \notin Groups
    /\ None \notin Groups \cup {NoGroup} \cup External \cup Invocations \cup {Shutdown}
    /\ Shutdown \notin Invocations
    /\ GroupOf \in [Clients -> Groups]
    /\ \A c \in Clients : Asks[c] \subseteq {"INVOKE", "SHUTDOWN", "OTHER"}
    /\ MaxConcurrency \in Nat \ {0}
    /\ MaxHandles \in Nat
    /\ MaxExits \in Nat

VARIABLES
    runtime,      \* runtime[g]: the Runtime process of g; "gone" once reaped, and a
                  \* "phantom" when it is registered after that
    init,         \* init[g]: where RAPIInvoker.init is
    toStart,      \* toStart[g]: the Extensions it has yet to start
    starting,     \* starting[g]: the one it has started and not added, or None
    awaited,      \* awaited[g]: the handles it waits for
    alive,        \* alive[g]: the External Extensions that run in group g
    exits,        \* how many processes have exited unbidden
    extensions,   \* eapi.extensions: the slice of each process group
    keys,         \* the keys of that map
    byID,         \* the handles in eapi.extensionByID
    added,        \* how many handles there are
    name,         \* name[h]: the name of handle h
    home,         \* home[h]: the pgid it was added under
    registered,   \* handles that have registered: awaitRegister is closed
    subscribed,   \* subscribed[k]: handles registered for events of kind k
    enabled,      \* eapi.enabled
    everRegistered,  \* eapi.registered
    byAddr,       \* byAddr[g]: the entry of eapi.extensionsByAddr for its connection
    call,         \* call[c]: the handler that runs for Extension c
    found,        \* found[c]: the handle register found or added, or 0
    place,        \* place[c]: the pgid register found
    ident,        \* ident[c]: the handle whose identifier c was given, or 0
    conn,         \* conn[g]: where the next handler of Runtime g is
    event,        \* event[g]: the event it tells Extensions of
    rest,         \* rest[g]: what remains of the slice it iterates
    target,       \* target[g]: the pgid terminateIdleInstance found
    given,        \* history: invocations that were received
    got,          \* history: the events that were received from each handle
    exited        \* the daemon has been killed

initvars   == <<init, toStart, starting, awaited>>
handlevars == <<added, name, home, registered, subscribed>>
mapvars    == <<extensions, keys, byID>>
flagvars   == <<enabled, everRegistered>>
clientvars == <<call, found, place, ident>>
endvars    == <<exits, exited>>
nextvars   == <<conn, event, rest, target, given, got>>
vars == <<runtime, initvars, alive, mapvars, handlevars, flagvars, byAddr, clientvars,
          nextvars, endvars>>

Kinds    == {"INVOKE", "SHUTDOWN"}
Handles  == 1..MaxHandles
Pgids    == Groups \cup {NoGroup}
Mappings == [slice : SUBSET Handles, pgid : Pgids \cup {None}]

\* What is found for an address that is not mapped, and for no connection.
Unmapped     == [slice |-> {}, pgid |-> NoGroup]
NotConnected == [slice |-> {}, pgid |-> None]

TypeOK ==
    /\ runtime \in [Groups -> {"none", "running", "stopped", "dead", "gone", "phantom"}]
    /\ init \in [Groups -> {"none", "register", "stop", "launch", "await", "done"}]
    /\ toStart \in [Groups -> SUBSET External]
    /\ starting \in [Groups -> External \cup {None}]
    /\ awaited \in [Groups -> SUBSET Handles]
    /\ alive \in [Groups -> SUBSET External]
    /\ exits \in 0..MaxExits
    /\ extensions \in [Pgids -> SUBSET Handles]
    /\ keys \in SUBSET Pgids
    /\ byID \in SUBSET Handles
    /\ added \in 0..MaxHandles
    /\ name \in [Handles -> {NameOf[c] : c \in Clients} \cup External \cup {None}]
    /\ home \in [Handles -> Pgids]
    /\ registered \in SUBSET Handles
    /\ subscribed \in [Kinds -> SUBSET Handles]
    /\ enabled \in BOOLEAN
    /\ everRegistered \in BOOLEAN
    /\ byAddr \in [Groups -> Mappings]
    /\ call \in [Clients -> {"idle", "register", "registered", "listening"}]
    /\ found \in [Clients -> Handles \cup {0}]
    /\ place \in [Clients -> Pgids]
    /\ ident \in [Clients -> Handles \cup {0}]
    /\ conn \in [Groups -> {"idle", "next", "telling", "kill"}]
    /\ event \in [Groups -> Invocations \cup {Shutdown, None}]
    /\ rest \in [Groups -> SUBSET Handles]
    /\ target \in [Groups -> Pgids]
    /\ given \in SUBSET Invocations
    /\ got \in [Handles -> SUBSET (Invocations \cup {Shutdown})]
    /\ exited \in BOOLEAN

Init ==
    /\ runtime = [g \in Groups |-> "none"]
    /\ init = [g \in Groups |-> "none"]
    /\ toStart = [g \in Groups |-> {}]
    /\ starting = [g \in Groups |-> None]
    /\ awaited = [g \in Groups |-> {}]
    /\ alive = [g \in Groups |-> {}]
    /\ exits = 0
    /\ extensions = [k \in Pgids |-> {}]
    /\ keys = {}
    /\ byID = {}
    /\ added = 0
    /\ name = [h \in Handles |-> None]
    /\ home = [h \in Handles |-> NoGroup]
    /\ registered = {}
    /\ subscribed = [k \in Kinds |-> {}]
    /\ enabled = TRUE
    /\ everRegistered = FALSE
    /\ byAddr = [g \in Groups |-> NotConnected]
    /\ call = [c \in Clients |-> "idle"]
    /\ found = [c \in Clients |-> 0]
    /\ place = [c \in Clients |-> NoGroup]
    /\ ident = [c \in Clients |-> 0]
    /\ conn = [g \in Groups |-> "idle"]
    /\ event = [g \in Groups |-> None]
    /\ rest = [g \in Groups |-> {}]
    /\ target = [g \in Groups |-> NoGroup]
    /\ given = {}
    /\ got = [h \in Handles |-> {}]
    /\ exited = FALSE
-----------------------------------------------------------------------------
(***************************************************************************)
(* Connections, and the two ways to find the Extensions of a caller.       *)
(***************************************************************************)

\* External Extensions are processes, Internal ones run as their Runtime does.
Running(c) ==
    IF NameOf[c] \in External THEN NameOf[c] \in alive[GroupOf[c]]
    ELSE runtime[GroupOf[c]] = "running"

\* The first handles of a slice: none, or one.
First(S) == {h \in S : \A k \in S : h <= k}

\* Mutants of MapRemoteAddrToExtensions: the Extensions of all instances, and an
\* address that is not found is stored without a process group.
MapToAll(g)   == [slice |-> byID, pgid |-> g]
MapUnfound(g) == [slice |-> extensions[g], pgid |-> IF g \in keys THEN g ELSE None]

\* MapRemoteAddrToExtensions for the process group g of a new connection.  A
\* process whose group is not in the map is not found, and Getpgid(0) is the
\* daemon's own group.
MapRemoteAddrToExtensions(g) ==
    CASE ~enabled                -> Unmapped
      [] enabled /\ g \in keys    -> [slice |-> extensions[g], pgid |-> g]
      [] enabled /\ g \notin keys -> [slice |-> extensions[NoGroup], pgid |-> NoGroup]

\* What IndexedByAddr may return: any entry of eapi.extensions where MAX_CONCURRENCY
\* is 1, otherwise the entry of the connection.
IndexedByAddr(entry) ==
    IF MaxConcurrency = 1
    THEN {[slice |-> extensions[k], pgid |-> k] : k \in keys}
           \cup {m \in {Unmapped} : keys = {}}
    ELSE {entry}

\* Extensions and Runtime of group k die of SIGTERM, or SIGKILL after it.  Pgid
\* 0 is the daemon's process group.
KillGroup(k) ==
    /\ runtime' = [g \in Groups |->
                      IF g = k /\ runtime[g] \in {"running", "stopped"} THEN "dead"
                      ELSE runtime[g]]
    /\ alive' = [g \in Groups |-> IF g = k THEN {} ELSE alive[g]]
    /\ exited' = (k = NoGroup)
-----------------------------------------------------------------------------
(***************************************************************************)
(* Instances come and go.                                                  *)
(***************************************************************************)

\* The instances in the ProcessManager's table, and those about to be.
Registered ==
    {g \in Groups : runtime[g] \in {"running", "stopped", "dead", "phantom"}
                      \/ init[g] = "register"}

\* Cmd.Start in runtime.Start(): the Runtime runs.
CmdStart(g) ==
    /\ runtime[g] = "none"
    /\ Cardinality(Registered) < MaxConcurrency
    /\ runtime' = [runtime EXCEPT ![g] = "running"]
    /\ init' = [init EXCEPT ![g] = "register"]
    /\ UNCHANGED <<toStart, starting, awaited, alive, mapvars, handlevars, flagvars, byAddr,
                   clientvars, nextvars, endvars>>

\* pm.Register and its callback RegisterLambdaRuntime.  A Runtime that has been
\* reaped before is registered all the same, and nobody will unregister it.
RegisterLambdaRuntime(g) ==
    /\ init[g] = "register"
    /\ init' = [init EXCEPT ![g] = IF External = {} THEN "done" ELSE "stop"]
    /\ runtime' = [runtime EXCEPT ![g] = IF @ = "gone" THEN "phantom" ELSE @]
    /\ extensions' = [extensions EXCEPT ![g] = {}]
    /\ keys' = keys \cup {g}
    /\ UNCHANGED <<toStart, starting, awaited, alive, byID, handlevars, flagvars, byAddr,
                   clientvars, nextvars, endvars>>

\* runtime.Stop(): SIGSTOP.
Stop(g) ==
    /\ init[g] = "stop"
    /\ init' = [init EXCEPT ![g] = "launch"]
    /\ toStart' = [toStart EXCEPT ![g] = External]
    /\ runtime' = [runtime EXCEPT ![g] = IF @ = "running" THEN "stopped" ELSE @]
    /\ UNCHANGED <<starting, awaited, alive, mapvars, handlevars, flagvars, byAddr,
                   clientvars, nextvars, endvars>>

\* StartUnmanaged: the Extension runs, and may register at once, or it has failed
\* to start.  Each that runs is one of those that may register.
StartUnmanaged(g, n) ==
    /\ init[g] = "launch"
    /\ starting[g] = None
    /\ n \in toStart[g]
    /\ toStart' = [toStart EXCEPT ![g] = @ \ {n}]
    /\ \/ /\ \E c \in Clients : GroupOf[c] = g /\ NameOf[c] = n
          /\ alive' = [alive EXCEPT ![g] = @ \cup {n}]
          /\ starting' = [starting EXCEPT ![g] = n]
       \/ UNCHANGED <<alive, starting>>
    /\ UNCHANGED <<runtime, init, awaited, mapvars, handlevars, flagvars, byAddr,
                   clientvars, nextvars, endvars>>

\* eapi.Add: a new handle, in the slice of pgid k and in extensionByID.  It makes
\* an entry for k when there is none.
Add(n, k) ==
    /\ added < MaxHandles
    /\ added' = added + 1
    /\ name' = [name EXCEPT ![added + 1] = n]
    /\ home' = [home EXCEPT ![added + 1] = k]
    /\ extensions' = [extensions EXCEPT ![k] = @ \cup {added + 1}]
    /\ keys' = keys \cup {k}
    /\ byID' = byID \cup {added + 1}

\* init adds the handle of the External Extension it has started.
AddExternal(g) ==
    /\ starting[g] # None
    /\ Add(starting[g], g)
    /\ starting' = [starting EXCEPT ![g] = None]
    /\ UNCHANGED <<runtime, init, toStart, awaited, alive, registered, subscribed,
                   flagvars, byAddr, clientvars, nextvars, endvars>>

\* IndexedByPgid(pgid): the slice whose Extensions init waits for.
AwaitExtensionRegistration(g) ==
    /\ init[g] = "launch"
    /\ toStart[g] = {}
    /\ starting[g] = None
    /\ awaited' = [awaited EXCEPT ![g] = extensions[g]]
    /\ init' = [init EXCEPT ![g] = "await"]
    /\ UNCHANGED <<runtime, toStart, starting, alive, mapvars, handlevars, flagvars, byAddr,
                   clientvars, nextvars, endvars>>

\* Mutant of Continue: the Runtime is resumed at once.
ContinueAtOnce(g) ==
    /\ init[g] = "await"
    /\ init' = [init EXCEPT ![g] = "done"]
    /\ awaited' = [awaited EXCEPT ![g] = {}]
    /\ runtime' = [runtime EXCEPT ![g] = IF @ = "stopped" THEN "running" ELSE @]
    /\ UNCHANGED <<toStart, starting, alive, mapvars, handlevars, flagvars, byAddr,
                   clientvars, nextvars, endvars>>

\* All of them have registered: runtime.Continue(), and init returns.
Continue(g) ==
    /\ init[g] = "await"
    /\ awaited[g] \subseteq registered
    /\ init' = [init EXCEPT ![g] = "done"]
    /\ awaited' = [awaited EXCEPT ![g] = {}]
    /\ runtime' = [runtime EXCEPT ![g] = IF @ = "stopped" THEN "running" ELSE @]
    /\ UNCHANGED <<toStart, starting, alive, mapvars, handlevars, flagvars, byAddr,
                   clientvars, nextvars, endvars>>

\* A process of instance g exits of its own accord.
Unbidden(g) ==
    /\ g \in Frail
    /\ exits < MaxExits
    /\ exits' = exits + 1
    /\ UNCHANGED exited

\* A Runtime crashes, exits or is killed.
RuntimeExit(g) ==
    /\ runtime[g] \in {"running", "stopped"}
    /\ runtime' = [runtime EXCEPT ![g] = "dead"]
    /\ Unbidden(g)
    /\ UNCHANGED <<initvars, alive, mapvars, handlevars, flagvars, byAddr, clientvars,
                   nextvars>>

\* Mutant of UnregisterLambdaRuntime: the identifiers are left behind.
UnregisterKeepsIDs(g) ==
    /\ extensions' = [extensions EXCEPT ![g] = {}]
    /\ keys' = keys \ {g}
    /\ UNCHANGED byID

\* eapi.UnregisterLambdaRuntime.
UnregisterLambdaRuntime(g) ==
    /\ extensions' = [extensions EXCEPT ![g] = {}]
    /\ keys' = keys \ {g}
    /\ byID' = byID \ extensions[g]

\* The Runtime is reaped before it is registered: pm.Unregister does not find it.
ReapUnregistered(g) ==
    /\ runtime[g] = "dead"
    /\ init[g] = "register"
    /\ runtime' = [runtime EXCEPT ![g] = "gone"]
    /\ UNCHANGED <<initvars, alive, mapvars, handlevars, flagvars, byAddr, clientvars,
                   nextvars, endvars>>

\* The Runtime is reaped and pm.Unregister called: SIGTERM to the process group,
\* which some of its Extensions may ignore, then the callback.
Unregister(g) ==
    /\ runtime[g] = "dead"
    /\ init[g] # "register"
    /\ runtime' = [runtime EXCEPT ![g] = "gone"]
    /\ \E ignore \in SUBSET alive[g] : alive' = [alive EXCEPT ![g] = ignore]
    /\ UnregisterLambdaRuntime(g)
    /\ UNCHANGED <<initvars, handlevars, flagvars, byAddr, clientvars, nextvars, endvars>>

\* An External Extension crashes or exits.
ExtensionExit(g, n) ==
    /\ n \in alive[g]
    /\ alive' = [alive EXCEPT ![g] = @ \ {n}]
    /\ Unbidden(g)
    /\ UNCHANGED <<runtime, initvars, mapvars, handlevars, flagvars, byAddr, clientvars,
                   nextvars>>
-----------------------------------------------------------------------------
(***************************************************************************)
(* The register and next handlers that Extensions call.                    *)
(***************************************************************************)

\* The timestamp of a handle is set with every event that is received from it.
RegistrationIsClosed(S) == \E h \in S : got[h] # {}

\* The first handle of this name, if any.
FindByName(S, n) == First({h \in S : name[h] = n})

\* register looks up the slice of its caller, by the connection opened for the call,
\* and in it the handle of this name.  A handle that has registered, or none at all
\* once registration is closed or events disabled, is an error, which changes nothing.
Register(c) ==
    /\ Running(c)
    /\ call[c] = "idle"
    /\ ident[c] = 0
    /\ \E m \in IndexedByAddr(MapRemoteAddrToExtensions(GroupOf[c])) :
          LET named == FindByName(m.slice, NameOf[c]) IN
          /\ \/ /\ named = {}
                /\ enabled
                /\ ~RegistrationIsClosed(m.slice)
                /\ found' = [found EXCEPT ![c] = 0]
             \/ \E h \in named \ registered : found' = [found EXCEPT ![c] = h]
          /\ place' = [place EXCEPT ![c] = m.pgid]
    /\ call' = [call EXCEPT ![c] = "register"]
    /\ UNCHANGED <<runtime, initvars, alive, mapvars, handlevars, flagvars, byAddr, ident,
                   nextvars, endvars>>

\* Handle h takes events of these kinds, besides those it takes already.
Subscribe(h, kinds) ==
    subscribed' = [k \in Kinds |-> subscribed[k] \cup {i \in {h} : k \in kinds}]

\* Mutant of Accepted: a handle that another call has registered is given away.
AcceptedTwice(c, h) ==
    /\ registered' = registered \cup {h}
    /\ call' = [call EXCEPT ![c] = "registered"]
    /\ found' = [found EXCEPT ![c] = h]

\* register sets the flag registered and closes awaitRegister.
Accepted(c, h) ==
    /\ h \notin registered
    /\ registered' = registered \cup {h}
    /\ call' = [call EXCEPT ![c] = "registered"]
    /\ found' = [found EXCEPT ![c] = h]

\* What the call has set before the error stays set.
Refused(c) ==
    /\ call' = [call EXCEPT ![c] = "idle"]
    /\ found' = [found EXCEPT ![c] = 0]
    /\ UNCHANGED registered

\* The events that c lists are looked at one by one, up to one that is not among
\* those allowed.  Closing awaitRegister panics if another call has closed it.
Answer(c, h, allowed) ==
    \/ /\ Asks[c] \subseteq allowed
       /\ Subscribe(h, Asks[c])
       /\ Accepted(c, h) \/ (h \in registered /\ Refused(c))
    \/ /\ ~(Asks[c] \subseteq allowed)
       /\ \E kinds \in SUBSET (Asks[c] \cap allowed) : Subscribe(h, kinds)
       /\ Refused(c)

\* No handle of this name: an Internal Extension, which gets one here and may
\* only subscribe to INVOKE.
RegisterInternal(c) ==
    /\ call[c] = "register"
    /\ found[c] = 0
    /\ Add(NameOf[c], place[c])
    /\ Answer(c, added', {"INVOKE"})
    /\ place' = [place EXCEPT ![c] = NoGroup]
    /\ UNCHANGED <<runtime, initvars, alive, flagvars, byAddr, ident, nextvars,
                   endvars>>

\* The handle is there: an External Extension.
RegisterExternal(c) ==
    /\ call[c] = "register"
    /\ found[c] # 0
    /\ Answer(c, found[c], Kinds)
    /\ place' = [place EXCEPT ![c] = NoGroup]
    /\ UNCHANGED <<runtime, initvars, alive, mapvars, added, name, home, flagvars,
                   byAddr, ident, nextvars, endvars>>

\* eapi.registered is set, and the caller gets its identifier.
RegisterReturns(c) ==
    /\ call[c] = "registered"
    /\ everRegistered' = TRUE
    /\ ident' = [ident EXCEPT ![c] = found[c]]
    /\ found' = [found EXCEPT ![c] = 0]
    /\ call' = [call EXCEPT ![c] = "idle"]
    /\ UNCHANGED <<runtime, initvars, alive, mapvars, handlevars, enabled, byAddr, place,
                   nextvars, endvars>>

\* next, for an identifier that is known.
ExtensionNext(c) ==
    /\ Running(c)
    /\ call[c] = "idle"
    /\ ident[c] \in byID
    /\ call' = [call EXCEPT ![c] = "listening"]
    /\ UNCHANGED <<runtime, initvars, alive, mapvars, handlevars, flagvars, byAddr, found,
                   place, ident, nextvars, endvars>>

\* case <-ctx.Done() of the Extension's next: its connection has closed.
ExtensionNextDone(c) ==
    /\ call[c] = "listening"
    /\ call' = [call EXCEPT ![c] = "idle"]
    /\ UNCHANGED <<runtime, initvars, alive, mapvars, handlevars, flagvars, byAddr, found,
                   place, ident, nextvars, endvars>>
-----------------------------------------------------------------------------
(***************************************************************************)
(* The next handler that a Runtime calls.                                  *)
(***************************************************************************)

\* A Runtime calls next, on a new connection or on one that it has.  Where
\* MAX_CONCURRENCY is 1 addresses are not looked up.
RuntimeNext(g) ==
    /\ runtime[g] = "running"
    /\ init[g] \in {"register", "stop"} => <<g, init[g]>> \in Eager
    /\ conn[g] = "idle"
    /\ conn' = [conn EXCEPT ![g] = "next"]
    /\ \/ /\ MaxConcurrency > 1
          /\ byAddr' = [byAddr EXCEPT ![g] = MapRemoteAddrToExtensions(g)]
       \/ /\ MaxConcurrency > 1 => byAddr[g].pgid # None
          /\ UNCHANGED byAddr
    /\ UNCHANGED <<runtime, initvars, alive, mapvars, handlevars, flagvars, clientvars,
                   event, rest, target, given, got, endvars>>

\* The handler of g is about to tell the Extensions it finds of event e.
Announce(g, e) ==
    \E m \in IndexedByAddr(byAddr[g]) :
        /\ rest' = [rest EXCEPT ![g] = m.slice]
        /\ target' = [target EXCEPT ![g] = m.pgid]
        /\ event' = [event EXCEPT ![g] = e]
        /\ conn' = [conn EXCEPT ![g] = "telling"]

\* case invocation := <-rapi.Invocations.
Receive(g, i) ==
    /\ conn[g] = "next"
    /\ everRegistered
    /\ i \notin given
    /\ given' = given \cup {i}
    /\ Announce(g, i)
    /\ UNCHANGED <<runtime, initvars, alive, mapvars, handlevars, flagvars, byAddr,
                   clientvars, got, endvars>>

\* The same while no Extension has registered: events are disabled for good, and
\* the Runtime gets the invocation.
ReceiveDisablesEvents(g, i) ==
    /\ conn[g] = "next"
    /\ ~everRegistered
    /\ i \notin given
    /\ given' = given \cup {i}
    /\ enabled' = FALSE
    /\ conn' = [conn EXCEPT ![g] = "idle"]
    /\ UNCHANGED <<runtime, initvars, alive, mapvars, handlevars, everRegistered, byAddr,
                   clientvars, event, rest, target, got, endvars>>

\* case <-ctx.Done(), after the idle timeout or when the Runtime's connection has
\* closed, and case <-rapi.shutdown: SendShutdownEvent begins.
TerminateIdleInstance(g) ==
    /\ conn[g] = "next"
    /\ everRegistered
    /\ Announce(g, Shutdown)
    /\ UNCHANGED <<runtime, initvars, alive, mapvars, handlevars, flagvars, byAddr,
                   clientvars, given, got, endvars>>

\* The same while no Extension has registered: the process group is found by the
\* Runtime's pid, or not at all.
TerminateUnextended(g) ==
    /\ conn[g] = "next"
    /\ ~everRegistered
    /\ conn' = [conn EXCEPT ![g] = "idle"]
    /\ KillGroup(g) \/ UNCHANGED <<runtime, alive, exited>>
    /\ UNCHANGED <<initvars, exits, mapvars, handlevars, flagvars, byAddr, clientvars, event,
                   rest, target, given, got>>

KindOf(e) == IF e = Shutdown THEN "SHUTDOWN" ELSE "INVOKE"

\* Extension c receives from the event channel of handle h.
Listens(c, h) == call[c] = "listening" /\ ident[c] = h

\* extension.events <- event meets the receive of an Extension's next handler.
Tell(g, c) ==
    /\ \E h \in First(rest[g]) \cap subscribed[KindOf(event[g])] :
          /\ Listens(c, h)
          /\ got' = [got EXCEPT ![h] = @ \cup {event[g]}]
          /\ rest' = [rest EXCEPT ![g] = @ \ {h}]
    /\ call' = [call EXCEPT ![c] = "idle"]
    /\ UNCHANGED <<runtime, initvars, alive, mapvars, added, name, home, registered,
                   subscribed, flagvars, byAddr, found, place, ident, conn, event, target,
                   given, endvars>>

\* The next Extension of the slice has not registered for this kind of event.
Skip(g) ==
    /\ \E h \in First(rest[g]) \ subscribed[KindOf(event[g])] :
          rest' = [rest EXCEPT ![g] = @ \ {h}]
    /\ UNCHANGED <<runtime, initvars, alive, mapvars, handlevars, flagvars, byAddr,
                   clientvars, conn, event, target, given, got, endvars>>

\* All have been told.  The handler goes on to give an invocation to the Runtime,
\* or to end its process group.
AllTold(g) ==
    /\ conn[g] = "telling"
    /\ rest[g] = {}
    /\ conn' = [conn EXCEPT ![g] = IF event[g] = Shutdown THEN "kill" ELSE "idle"]
    /\ event' = [event EXCEPT ![g] = None]
    /\ target' = [target EXCEPT ![g] = IF event[g] = Shutdown THEN @ ELSE NoGroup]
    /\ UNCHANGED <<runtime, initvars, alive, mapvars, handlevars, flagvars, byAddr,
                   clientvars, rest, given, got, endvars>>

\* syscall.Kill(-pgid, ...), after a sleep.
Kill(g) ==
    /\ conn[g] = "kill"
    /\ conn' = [conn EXCEPT ![g] = "idle"]
    /\ KillGroup(target[g])
    /\ target' = [target EXCEPT ![g] = NoGroup]
    /\ UNCHANGED <<initvars, exits, mapvars, handlevars, flagvars, byAddr, clientvars, event,
                   rest, given, got>>
-----------------------------------------------------------------------------
\* What the daemon does for instance g, and what becomes of its Runtime.
Instance(g) ==
    \/ CmdStart(g)
    \/ RegisterLambdaRuntime(g)
    \/ Stop(g)
    \/ \E n \in External : StartUnmanaged(g, n) \/ ExtensionExit(g, n)
    \/ AddExternal(g)
    \/ AwaitExtensionRegistration(g)
    \/ Continue(g)
    \/ RuntimeExit(g)
    \/ ReapUnregistered(g)
    \/ Unregister(g)

\* Extension c and the handlers it calls.
Extension(c) ==
    \/ Register(c)
    \/ RegisterInternal(c)
    \/ RegisterExternal(c)
    \/ RegisterReturns(c)
    \/ ExtensionNext(c)
    \/ ExtensionNextDone(c)

\* The handler of g has an event to pass on.
Pass(g) ==
    \/ \E c \in Clients : Tell(g, c)
    \/ Skip(g)
    \/ AllTold(g)

\* The next handler of Runtime g.
NextHandler(g) ==
    \/ RuntimeNext(g)
    \/ \E i \in Invocations : Receive(g, i) \/ ReceiveDisablesEvents(g, i)
    \/ TerminateIdleInstance(g)
    \/ TerminateUnextended(g)
    \/ Pass(g)
    \/ Kill(g)

Next ==
    /\ ~exited
    /\ \/ \E g \in Groups : Instance(g) \/ NextHandler(g)
       \/ \E c \in Clients : Extension(c)

Spec == Init /\ [][Next]_vars
-----------------------------------------------------------------------------
(***************************************************************************)
(* Properties.                                                             *)
(***************************************************************************)

\* The map by process group and the map by identifier say the same: a handle has
\* an identifier as long as an entry holds it, no entry shares it, and what is
\* held was added under that pgid (extensionsapi.go:257-293).  An identifier too
\* many is a leak, one too few an Extension that is refused its events.
MapsAgree ==
    /\ byID = UNION {extensions[k] : k \in Pgids}
    /\ \A k \in Pgids : \A h \in extensions[k] : home[h] = k /\ h <= added
    /\ \A k \in Pgids : extensions[k] # {} => k \in keys

\* Whoever has an identifier has it alone, whichever calls of register run at the
\* same time; it has been registered, and was added with the caller's name, for the
\* caller's process group if that was found (extensionsapi.go:466-523).
OwnIdentifier ==
    \A c \in Clients : ident[c] # 0 =>
        /\ \A d \in Clients : ident[d] = ident[c] => d = c
        /\ ident[c] \in registered
        /\ name[ident[c]] = NameOf[c]
        /\ MaxConcurrency > 1 => home[ident[c]] \in {GroupOf[c], NoGroup}

\* "the Runtime init phase starts *after* all the Extensions have registered"
\* (extensionsapi.go:82-83): under each name that init has added to the group of
\* a Runtime, one has by the time init returns.
RuntimeWaits ==
    \A g \in Groups, h \in 1..added :
        /\ init[g] = "done" /\ runtime[g] # "gone"
        /\ home[h] = g /\ name[h] \in External
        => \E k \in registered : home[k] = g /\ name[k] = name[h]

\* What an instance is to its Extensions.
Events == INSTANCE EventService WITH
    Instances  <- Groups,
    Extensions <- Handles,
    Events     <- Invocations \cup {Shutdown},
    None       <- None,
    KindOf     <- KindOf,
    members    <- [g \in Groups |-> {h \in 1..added : home[h] = g}],
    strays     <- {h \in 1..added : home[h] = NoGroup},
    subscribed <- subscribed,
    event      <- event,
    audience   <- rest,
    got        <- got

\* "events for a given invocation are only delivered to a given Runtime and its
\* associated Extension instances" (extensionsapi.go:334-336), to each once and
\* before the Runtime; for MAX_CONCURRENCY > 1.  There is an exception, which the
\* comment does not make: who connects while its process group is not in the map,
\* as between Cmd.Start and Register, is taken for a process of the daemon's group
\* (extensionsapi.go:373-390).  Such Extensions of all instances are strays, and
\* Runtimes that connected in that time tell the strays.
ImplementsEvents == Events!Spec
-----------------------------------------------------------------------------
(***************************************************************************)
(* Claims of the repository that the code does not keep.                   *)
(***************************************************************************)

\* "Lambda ends the Runtime and Extensions by sending a SIGKILL signal to the
\* *process group*" (runtimeapi.go:174-176): that of the Runtime whose next has
\* timed out.
KillsOwnGroup == \A g \in Groups : conn[g] = "kill" => target[g] = g
=============================================================================
