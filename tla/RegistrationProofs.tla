------------------------- MODULE RegistrationProofs -------------------------
(***************************************************************************)
(* The Runtime init phase starts after the Extensions have registered, for *)
(* any number of instances and Extensions, where MAX_CONCURRENCY is more   *)
(* than 1.  Where it is 1 a call of register may find the handles of any   *)
(* instance, and this is not so.                                           *)
(***************************************************************************)
EXTENDS ExtensionsProofs

USE ExtensionsAssumption
USE DEF initvars, handlevars, mapvars, flagvars, clientvars, endvars, nextvars

\* What a Runtime is while its entry in the map is kept.
Kept == {"running", "stopped", "dead", "phantom"}

\* init has started Extension n of group g: there is a handle, or soon will be.
Started(g, n) == starting[g] = n \/ \E h \in 1..added : home[h] = g /\ name[h] = n

(***************************************************************************)
(* An External Extension that registers before Add has stored its handle   *)
(* is taken for an Internal one, and gets a second handle of its name.     *)
(* Add then runs before init takes the slice it waits for; a call of       *)
(* register that finds no handle comes before that, or from another group. *)
(***************************************************************************)
Launching == \A g \in Groups :
    /\ starting[g] # None => init[g] = "launch"
    /\ init[g] \in {"none", "register"} => \A h \in 1..added : home[h] # g
    /\ runtime[g] \in Kept =>
          \A h \in 1..added : home[h] = g => h \in extensions[g]
    /\ \A n \in alive[g] : Started(g, n)
    /\ \A c \in Clients : NameOf[c] \in External /\ place[c] = g => Started(g, NameOf[c])
    /\ \A h \in awaited[g] : h \in 1..added /\ home[h] = g
    /\ init[g] = "await" /\ runtime[g] # "gone" =>
          \A h \in 1..added : home[h] = g /\ name[h] \in External =>
              \E k \in awaited[g] : name[k] = name[h]

Waiting == Sound /\ Owned /\ Launching /\ RuntimeWaits

LEMMA LaunchingInit == Init => Launching /\ RuntimeWaits
<1>. SUFFICES ASSUME Init PROVE Launching /\ RuntimeWaits
  OBVIOUS
<1>1. \A h : h \notin 1..added
  BY DEF Init
<1>. QED  BY <1>1 DEF Init, Launching, RuntimeWaits, Started

(***************************************************************************)
(* A handle is added under a name that init has started, or one that is no *)
(* External Extension's.                                                   *)
(***************************************************************************)
LEMMA AddWaits ==
    ASSUME Waiting, NEW n \in {NameOf[c] : c \in Clients} \cup External, NEW k \in Pgids,
           Add(n, k),
           n \in External /\ k \in Groups => Started(k, n),
           k \in Groups => init[k] \notin {"none", "register"},
           \/ starting' = starting
           \/ k \in Groups /\ starting[k] = n /\ starting' = [starting EXCEPT ![k] = None],
           registered \subseteq registered',
           \A c \in Clients : place'[c] \in {place[c], NoGroup},
           UNCHANGED <<init, awaited, alive, runtime>>
    PROVE  Launching' /\ RuntimeWaits'
<1>. USE DEF Waiting, Sound
<1>1. /\ \A h \in 1..added : h \in 1..added' /\ name'[h] = name[h] /\ home'[h] = home[h]
      /\ added' \in 1..added' /\ home'[added'] = k /\ name'[added'] = n
  BY AddKeeps
<1>2. \A h \in 1..added' : h \in 1..added \/ h = added'
  <2>1. added' = added + 1 /\ added \in Nat
    BY AddKeeps DEF TypeOK
  <2>. QED  BY ONLY <2>1, SMT
<1>3. added' \in extensions'[k] /\ \A g \in Groups : extensions[g] \subseteq extensions'[g]
  BY DEF Add, TypeOK, Pgids
<1>4. ASSUME NEW g \in Groups, NEW m, Started(g, m)
      PROVE  Started(g, m)'
  <2>1. CASE \E h \in 1..added : home[h] = g /\ name[h] = m
    BY <1>1, <2>1 DEF Started
  <2>2. CASE starting[g] = m
    <3>1. CASE starting' = starting
      BY <2>2, <3>1 DEF Started
    <3>2. CASE k \in Groups /\ starting[k] = n /\ starting' = [starting EXCEPT ![k] = None]
      <4>1. CASE g = k
        BY <1>1, <2>2, <3>2, <4>1 DEF Started
      <4>2. CASE g # k
        BY <2>2, <3>2, <4>2 DEF Started
      <4>. QED  BY <4>1, <4>2
    <3>. QED  BY <3>1, <3>2
  <2>. QED  BY <1>4, <2>1, <2>2 DEF Started
<1>5. \A g \in Groups : starting'[g] # None => starting[g] # None
  BY DEF TypeOK
<1>6. ASSUME NEW g \in Groups, n \in External, k = g, init[g] \in {"await", "done"}
      PROVE  \E h \in 1..added : home[h] = g /\ name[h] = n
  <2>1. starting[g] # n
    BY <1>6 DEF Launching
  <2>. QED  BY <1>6, <2>1 DEF Started
<1>7. Launching'
  <2>. SUFFICES ASSUME NEW g \in Groups
       PROVE /\ starting'[g] # None => init'[g] = "launch"
             /\ init'[g] \in {"none", "register"} => \A h \in 1..added' : home'[h] # g
             /\ runtime'[g] \in Kept =>
                   \A h \in 1..added' : home'[h] = g => h \in extensions'[g]
             /\ \A m \in alive'[g] : Started(g, m)'
             /\ \A c \in Clients : NameOf[c] \in External /\ place'[c] = g
                   => Started(g, NameOf[c])'
             /\ \A h \in awaited'[g] : h \in 1..added' /\ home'[h] = g
             /\ init'[g] = "await" /\ runtime'[g] # "gone" =>
                   \A h \in 1..added' : home'[h] = g /\ name'[h] \in External =>
                       \E i \in awaited'[g] : name'[i] = name'[h]
    BY DEF Launching
  <2>1. starting'[g] # None => init'[g] = "launch"
    BY <1>5 DEF Launching
  <2>2. init'[g] \in {"none", "register"} => \A h \in 1..added' : home'[h] # g
    BY <1>1, <1>2 DEF Launching
  <2>3. runtime'[g] \in Kept =>
           \A h \in 1..added' : home'[h] = g => h \in extensions'[g]
    BY <1>1, <1>2, <1>3 DEF Launching
  <2>4. \A m \in alive'[g] : Started(g, m)'
    BY <1>4 DEF Launching
  <2>5. \A c \in Clients : NameOf[c] \in External /\ place'[c] = g => Started(g, NameOf[c])'
    BY <1>4 DEF Launching
  <2>6. \A h \in awaited'[g] : h \in 1..added' /\ home'[h] = g
    BY <1>1 DEF Launching
  <2>7. ASSUME init[g] = "await", runtime[g] # "gone",
               NEW h \in 1..added', home'[h] = g, name'[h] \in External
        PROVE  \E i \in awaited'[g] : name'[i] = name'[h]
    <3>1. PICK j \in 1..added : home[j] = g /\ name[j] = name'[h]
      BY <1>1, <1>2, <1>6, <2>7
    <3>2. PICK i \in awaited[g] : name[i] = name[j]
      BY <2>7, <3>1 DEF Launching
    <3>3. i \in 1..added
      BY <3>2 DEF Launching
    <3>. QED  BY <1>1, <3>1, <3>2, <3>3
  <2>. QED  BY <2>1, <2>2, <2>3, <2>4, <2>5, <2>6, <2>7
<1>8. RuntimeWaits'
  <2>. SUFFICES ASSUME NEW g \in Groups, NEW h \in 1..added', init[g] = "done",
                       runtime[g] # "gone", home'[h] = g, name'[h] \in External
                PROVE  \E i \in registered' : home'[i] = g /\ name'[i] = name'[h]
    BY DEF RuntimeWaits
  <2>1. PICK j \in 1..added : home[j] = g /\ name[j] = name'[h]
    BY <1>1, <1>2, <1>6
  <2>2. PICK i \in registered : home[i] = g /\ name[i] = name[j]
    BY <2>1 DEF RuntimeWaits
  <2>3. i \in 1..added
    BY <2>2 DEF Owned
  <2>. QED  BY <1>1, <2>1, <2>2, <2>3
<1>. QED  BY <1>7, <1>8

(***************************************************************************)
(* Steps that launch nothing, and under which Extensions go on to exist.   *)
(***************************************************************************)
LEMMA OtherWaits ==
    ASSUME Waiting, UNCHANGED <<starting, init, awaited, added, name, home>>,
           registered \subseteq registered',
           \A c \in Clients : place'[c] \in {place[c], NoGroup},
           \A g \in Groups :
              /\ alive'[g] \subseteq alive[g]
              /\ runtime[g] = "gone" => runtime'[g] = "gone"
              /\ runtime'[g] \in Kept =>
                    /\ runtime[g] \in Kept
                    /\ extensions'[g] = extensions[g]
    PROVE  Launching' /\ RuntimeWaits'
<1>. USE DEF Waiting, Sound
<1>1. \A g \in Groups : \A n : Started(g, n) => Started(g, n)'
  BY DEF Started
<1>2. Launching'
  BY <1>1 DEF Launching
<1>3. RuntimeWaits'
  BY DEF RuntimeWaits
<1>. QED  BY <1>2, <1>3

LEMMA InstanceWaits ==
    ASSUME Waiting, NEW g \in Groups, Instance(g)
    PROVE  Launching' /\ RuntimeWaits'
<1>. USE DEF Waiting, Sound, TypeOK, Kept
<1>1. CASE CmdStart(g)
  <2>1. /\ runtime[g] = "none" /\ runtime' = [runtime EXCEPT ![g] = "running"]
        /\ init' = [init EXCEPT ![g] = "register"]
        /\ UNCHANGED <<starting, awaited, alive, extensions, added, name, home, registered, place>>
    BY <1>1 DEF CmdStart
  <2>2. \A i \in Groups : \A n : Started(i, n)' <=> Started(i, n)
    BY <2>1 DEF Started
  <2>3. /\ \A i \in Groups \ {g} : init'[i] = init[i] /\ runtime'[i] = runtime[i]
        /\ init[g] = "none" /\ init'[g] = "register" /\ starting[g] = None
    BY <2>1 DEF Unknown
  <2>4. \A h \in 1..added : home[h] # g
    BY <2>3 DEF Launching
  <2>5. Launching'
    <3>. SUFFICES ASSUME NEW i \in Groups
         PROVE /\ starting'[i] # None => init'[i] = "launch"
               /\ init'[i] \in {"none", "register"} => \A h \in 1..added' : home'[h] # i
               /\ runtime'[i] \in Kept =>
                     \A h \in 1..added' : home'[h] = i => h \in extensions'[i]
               /\ init'[i] = "await" /\ runtime'[i] # "gone" =>
                     \A h \in 1..added' : home'[h] = i /\ name'[h] \in External =>
                         \E k \in awaited'[i] : name'[k] = name'[h]
      BY <2>1, <2>2 DEF Launching
    <3>1. CASE i = g
      BY <2>1, <2>3, <2>4, <3>1
    <3>2. CASE i # g
      BY <2>1, <2>3, <3>2 DEF Launching
    <3>. QED  BY <3>1, <3>2
  <2>6. RuntimeWaits'
    BY <2>1, <2>3 DEF RuntimeWaits
  <2>. QED  BY <2>5, <2>6
<1>10. CASE RegisterLambdaRuntime(g)
  <2>1. /\ init[g] = "register"
        /\ runtime' = [runtime EXCEPT ![g] = IF @ = "gone" THEN "phantom" ELSE @]
        /\ init' = [init EXCEPT ![g] = IF External = {} THEN "done" ELSE "stop"]
        /\ UNCHANGED <<starting, awaited, alive, added, name, home, registered, place>>
    BY <1>10 DEF RegisterLambdaRuntime
  <2>2. extensions' = extensions
    <3>1. extensions[g] = {}
      BY <2>1 DEF MapsAgree, Unknown, Pgids
    <3>. QED  BY <1>10, <3>1 DEF RegisterLambdaRuntime, Pgids
  <2>3. \A h \in 1..added : home[h] # g
    BY <2>1 DEF Launching
  <2>4. starting[g] = None
    BY <2>1 DEF Unknown
  <2>5. \A i \in Groups : \A n : Started(i, n)' <=> Started(i, n)
    BY <2>1 DEF Started
  <2>6. /\ \A i \in Groups \ {g} : init'[i] = init[i] /\ runtime'[i] = runtime[i]
        /\ init'[g] \in {"done", "stop"}
    BY <2>1
  <2>7. Launching'
    <3>. SUFFICES ASSUME NEW i \in Groups
         PROVE /\ starting'[i] # None => init'[i] = "launch"
               /\ init'[i] \in {"none", "register"} => \A h \in 1..added' : home'[h] # i
               /\ runtime'[i] \in Kept =>
                     \A h \in 1..added' : home'[h] = i => h \in extensions'[i]
               /\ \A m \in alive'[i] : Started(i, m)'
               /\ \A c \in Clients : NameOf[c] \in External /\ place'[c] = i
                     => Started(i, NameOf[c])'
               /\ \A h \in awaited'[i] : h \in 1..added' /\ home'[h] = i
               /\ init'[i] = "await" /\ runtime'[i] # "gone" =>
                     \A h \in 1..added' : home'[h] = i /\ name'[h] \in External =>
                         \E k \in awaited'[i] : name'[k] = name'[h]
      BY DEF Launching
    <3>1. CASE i = g
      BY <2>1, <2>3, <2>4, <2>5, <2>6, <3>1 DEF Launching
    <3>2. CASE i # g
      BY <2>1, <2>2, <2>5, <2>6, <3>2 DEF Launching
    <3>. QED  BY <3>1, <3>2
  <2>8. RuntimeWaits'
    BY <2>1, <2>3, <2>6 DEF RuntimeWaits
  <2>. QED  BY <2>7, <2>8
<1>2. CASE Stop(g)
  <2>1. /\ init[g] = "stop" /\ init' = [init EXCEPT ![g] = "launch"]
        /\ runtime' = [runtime EXCEPT ![g] = IF @ = "running" THEN "stopped" ELSE @]
        /\ UNCHANGED <<starting, awaited, alive, extensions, added, name, home, registered, place>>
    BY <1>2 DEF Stop
  <2>2. \A i \in Groups : \A n : Started(i, n)' <=> Started(i, n)
    BY <2>1 DEF Started
  <2>3. \A i \in Groups : /\ init'[i] = IF i = g THEN "launch" ELSE init[i]
                          /\ runtime[i] = "gone" => runtime'[i] = "gone"
                          /\ runtime'[i] \in Kept =>
                                runtime[i] \in Kept
    BY <2>1
  <2>4. Launching'
    <3>. SUFFICES ASSUME NEW i \in Groups
         PROVE /\ starting'[i] # None => init'[i] = "launch"
               /\ runtime'[i] \in Kept =>
                     \A h \in 1..added' : home'[h] = i => h \in extensions'[i]
               /\ init'[i] = "await" /\ runtime'[i] # "gone" =>
                     \A h \in 1..added' : home'[h] = i /\ name'[h] \in External =>
                         \E k \in awaited'[i] : name'[k] = name'[h]
      BY <2>1, <2>2, <2>3 DEF Launching
    <3>1. /\ starting'[i] # None => init'[i] = "launch"
          /\ runtime'[i] \in Kept =>
                \A h \in 1..added' : home'[h] = i => h \in extensions'[i]
      BY <2>1, <2>3 DEF Launching
    <3>2. ASSUME init'[i] = "await", runtime'[i] # "gone"
          PROVE  init[i] = "await" /\ runtime[i] # "gone"
      BY <2>1, <2>3, <3>2
    <3>. QED  BY <2>1, <3>1, <3>2 DEF Launching
  <2>5. RuntimeWaits'
    BY <2>1, <2>3 DEF RuntimeWaits
  <2>. QED  BY <2>4, <2>5
<1>3. ASSUME NEW n \in External, StartUnmanaged(g, n)
      PROVE  Launching' /\ RuntimeWaits'
  <2>1. UNCHANGED <<runtime, init, awaited, extensions, added, name, home, registered, place>>
    BY <1>3 DEF StartUnmanaged
  <2>2. CASE UNCHANGED <<alive, starting>>
    BY <2>1, <2>2, OtherWaits
  <2>3. CASE /\ alive' = [alive EXCEPT ![g] = @ \cup {n}]
             /\ starting' = [starting EXCEPT ![g] = n]
    <3>1. init[g] = "launch" /\ starting[g] = None
      BY <1>3 DEF StartUnmanaged
    <3>2. /\ \A i \in Groups \ {g} : starting'[i] = starting[i] /\ alive'[i] = alive[i]
          /\ starting'[g] = n /\ alive'[g] = alive[g] \cup {n}
      BY <2>3
    <3>3. \A i \in Groups, m \in External : Started(i, m) => Started(i, m)'
      BY <2>1, <3>1, <3>2 DEF Started
    <3>4. \A i \in Groups : \A m \in alive'[i] : Started(i, m)'
      <4>1. Started(g, n)'
        BY <3>2 DEF Started
      <4>2. ASSUME NEW i \in Groups, NEW m \in alive[i]
            PROVE  Started(i, m)'
        <5>1. Started(i, m)
          BY DEF Launching
        <5>2. m \in External
          BY DEF TypeOK
        <5>. QED  BY <3>3, <5>1, <5>2
      <4>3. ASSUME NEW i \in Groups, NEW m \in alive'[i]
            PROVE  Started(i, m)'
        <5>1. m \in alive[i] \/ (i = g /\ m = n)
          BY <3>2
        <5>. QED  BY <4>1, <4>2, <5>1
      <4>. QED  BY <4>3
    <3>5. \A i \in Groups : \A c \in Clients :
             NameOf[c] \in External /\ place'[c] = i => Started(i, NameOf[c])'
      BY <2>1, <3>3 DEF Launching
    <3>6. Launching'
      <4>1. \A i \in Groups : starting'[i] # None => init'[i] = "launch"
        BY <2>1, <3>1, <3>2 DEF Launching
      <4>2. ASSUME NEW i \in Groups
            PROVE  /\ init'[i] \in {"none", "register"} => \A h \in 1..added' : home'[h] # i
                   /\ runtime'[i] \in Kept =>
                         \A h \in 1..added' : home'[h] = i => h \in extensions'[i]
                   /\ \A h \in awaited'[i] : h \in 1..added' /\ home'[h] = i
                   /\ init'[i] = "await" /\ runtime'[i] # "gone" =>
                         \A h \in 1..added' : home'[h] = i /\ name'[h] \in External =>
                             \E k \in awaited'[i] : name'[k] = name'[h]
        BY <2>1 DEF Launching
      <4>. QED  BY <3>4, <3>5, <4>1, <4>2 DEF Launching
    <3>7. RuntimeWaits'
      BY <2>1 DEF RuntimeWaits
    <3>. QED  BY <3>6, <3>7
  <2>. QED  BY <1>3, <2>2, <2>3 DEF StartUnmanaged
<1>4. CASE AddExternal(g)
  <2>1. /\ starting[g] # None /\ Add(starting[g], g) /\ g \in Pgids
        /\ starting' = [starting EXCEPT ![g] = None]
        /\ UNCHANGED <<registered, place, init, awaited, alive, runtime>>
    BY <1>4 DEF AddExternal, Pgids
  <2>2. /\ Started(g, starting[g]) /\ starting[g] \in External
        /\ init[g] \notin {"none", "register"}
    BY <2>1 DEF Started, Unknown
  <2>. QED  BY <2>1, <2>2, AddWaits
<1>5. CASE AwaitExtensionRegistration(g)
  <2>1. /\ init[g] = "launch" /\ starting[g] = None
        /\ awaited' = [awaited EXCEPT ![g] = extensions[g]]
        /\ init' = [init EXCEPT ![g] = "await"]
        /\ UNCHANGED <<starting, runtime, alive, extensions, added, name, home, registered, place>>
    BY <1>5 DEF AwaitExtensionRegistration
  <2>2. \A i \in Groups : \A n : Started(i, n)' <=> Started(i, n)
    BY <2>1 DEF Started
  <2>3. /\ \A i \in Groups \ {g} : init'[i] = init[i] /\ awaited'[i] = awaited[i]
        /\ init'[g] = "await" /\ awaited'[g] = extensions[g]
    BY <2>1
  <2>4. \A h \in extensions[g] : h \in 1..added /\ home[h] = g
    BY DEF MapsAgree, Pgids, Handles
  <2>5. runtime[g] # "gone" => \A h \in 1..added : home[h] = g => h \in extensions[g]
    <3>1. runtime[g] # "none"
      BY <2>1 DEF Unknown
    <3>2. runtime[g] # "gone" => runtime[g] \in Kept
      BY <3>1
    <3>. QED  BY <3>2 DEF Launching
  <2>6. Launching'
    <3>3. \A i \in Groups :
             /\ init'[i] \in {"none", "register"} => \A h \in 1..added' : home'[h] # i
             /\ runtime'[i] \in Kept =>
                   \A h \in 1..added' : home'[h] = i => h \in extensions'[i]
      BY <2>1 DEF Launching
    <3>4. \A i \in Groups :
             /\ \A n \in alive'[i] : Started(i, n)'
             /\ \A c \in Clients : NameOf[c] \in External /\ place'[c] = i =>
                                      Started(i, NameOf[c])'
      BY <2>1, <2>2 DEF Launching
    <3>. SUFFICES ASSUME NEW i \in Groups
         PROVE /\ starting'[i] # None => init'[i] = "launch"
               /\ \A h \in awaited'[i] : h \in 1..added' /\ home'[h] = i
               /\ init'[i] = "await" /\ runtime'[i] # "gone" =>
                     \A h \in 1..added' : home'[h] = i /\ name'[h] \in External =>
                         \E k \in awaited'[i] : name'[k] = name'[h]
      BY <3>3, <3>4 DEF Launching
    <3>1. CASE i = g
      BY <2>1, <2>3, <2>4, <2>5, <3>1
    <3>2. CASE i # g
      BY <2>1, <2>3, <3>2 DEF Launching
    <3>. QED  BY <3>1, <3>2
  <2>7. RuntimeWaits'
    BY <2>1, <2>3 DEF RuntimeWaits
  <2>. QED  BY <2>6, <2>7
<1>6. CASE Continue(g)
  <2>1. /\ init[g] = "await" /\ awaited[g] \subseteq registered
        /\ init' = [init EXCEPT ![g] = "done"]
        /\ awaited' = [awaited EXCEPT ![g] = {}]
        /\ runtime' = [runtime EXCEPT ![g] = IF @ = "stopped" THEN "running" ELSE @]
        /\ UNCHANGED <<starting, alive, extensions, added, name, home, registered, place>>
    BY <1>6 DEF Continue
  <2>2. \A i \in Groups : \A n : Started(i, n)' <=> Started(i, n)
    BY <2>1 DEF Started
  <2>3. \A i \in Groups : /\ init'[i] = IF i = g THEN "done" ELSE init[i]
                          /\ awaited'[i] = IF i = g THEN {} ELSE awaited[i]
                          /\ runtime[i] = "gone" => runtime'[i] = "gone"
                          /\ runtime'[i] \in Kept =>
                                runtime[i] \in Kept
    BY <2>1
  <2>4. starting[g] = None
    BY <2>1 DEF Launching
  <2>5. Launching'
    BY <2>1, <2>2, <2>3, <2>4 DEF Launching
  <2>6. RuntimeWaits'
    <3>. SUFFICES ASSUME NEW i \in Groups, NEW h \in 1..added, init'[i] = "done",
                         runtime'[i] # "gone", home[h] = i, name[h] \in External
                  PROVE  \E k \in registered : home[k] = i /\ name[k] = name[h]
      BY <2>1 DEF RuntimeWaits
    <3>1. runtime[i] # "gone"
      BY <2>3
    <3>2. CASE i = g
      <4>1. PICK k \in awaited[g] : name[k] = name[h]
        BY <2>1, <3>1, <3>2 DEF Launching
      <4>. QED  BY <2>1, <3>2, <4>1 DEF Launching
    <3>3. CASE i # g
      BY <2>3, <3>1, <3>3 DEF RuntimeWaits
    <3>. QED  BY <3>2, <3>3
  <2>. QED  BY <2>5, <2>6
<1>7. CASE RuntimeExit(g)
  <2>1. /\ runtime[g] \in {"running", "stopped"} /\ runtime' = [runtime EXCEPT ![g] = "dead"]
        /\ UNCHANGED <<starting, init, awaited, added, name, home, registered, place, alive,
                       extensions>>
    BY <1>7 DEF RuntimeExit
  <2>. QED  BY <2>1, OtherWaits
<1>11. CASE ReapUnregistered(g)
  <2>1. /\ runtime' = [runtime EXCEPT ![g] = "gone"]
        /\ UNCHANGED <<starting, init, awaited, added, name, home, registered, place, alive,
                       extensions>>
    BY <1>11 DEF ReapUnregistered
  <2>2. \A i \in Groups : /\ runtime[i] = "gone" => runtime'[i] = "gone"
                          /\ runtime'[i] \in Kept => runtime[i] \in Kept
    BY <2>1 DEF Kept
  <2>. QED  BY <2>1, <2>2, OtherWaits
<1>8. CASE Unregister(g)
  <2>1. /\ runtime[g] = "dead" /\ runtime' = [runtime EXCEPT ![g] = "gone"]
        /\ extensions' = [extensions EXCEPT ![g] = {}]
        /\ UNCHANGED <<starting, init, awaited, added, name, home, registered, place>>
    BY <1>8 DEF Unregister, UnregisterLambdaRuntime
  <2>2. \A i \in Groups : alive'[i] \subseteq alive[i]
    BY <1>8 DEF Unregister
  <2>3. ASSUME NEW i \in Groups
        PROVE /\ runtime'[i] = "none" => runtime[i] = "none"
              /\ runtime[i] = "gone" => runtime'[i] = "gone"
              /\ runtime'[i] \in Kept =>
                    /\ runtime[i] \in Kept
                    /\ extensions'[i] = extensions[i]
    BY <2>1 DEF Pgids
  <2>. QED  BY <2>1, <2>2, <2>3, OtherWaits
<1>9. ASSUME NEW n \in External, ExtensionExit(g, n)
      PROVE  Launching' /\ RuntimeWaits'
  <2>1. /\ alive' = [alive EXCEPT ![g] = @ \ {n}]
        /\ UNCHANGED <<runtime, starting, init, awaited, added, name, home, registered, place,
                       extensions>>
    BY <1>9 DEF ExtensionExit
  <2>. QED  BY <2>1, OtherWaits
<1>. QED  BY <1>1, <1>2, <1>3, <1>4, <1>5, <1>6, <1>7, <1>8, <1>9, <1>10, <1>11 DEF Instance

LEMMA ExtensionWaits ==
    ASSUME Waiting, MaxConcurrency > 1, NEW c \in Clients, Extension(c)
    PROVE  Launching' /\ RuntimeWaits'
<1>. USE DEF Waiting, Sound, TypeOK
<1>1. CASE Register(c)
  <2>1. PICK m \in IndexedByAddr(MapRemoteAddrToExtensions(GroupOf[c])) :
           place' = [place EXCEPT ![c] = m.pgid]
    BY <1>1 DEF Register
  <2>2. /\ Running(c)
        /\ UNCHANGED <<runtime, init, starting, awaited, alive, extensions, added, name, home,
                       registered>>
    BY <1>1 DEF Register
  <2>3. m.pgid \in {GroupOf[c], NoGroup}
    BY IndexedEntry
  <2>4. NameOf[c] \in External => Started(GroupOf[c], NameOf[c])
    BY <2>2 DEF Running, Launching
  <2>5. \A i \in Groups : \A n : Started(i, n)' <=> Started(i, n)
    BY <2>2 DEF Started
  <2>6. ASSUME NEW i \in Groups, NEW d \in Clients, NameOf[d] \in External, place'[d] = i
        PROVE  Started(i, NameOf[d])'
    <3>1. CASE d = c
      BY <2>1, <2>3, <2>4, <2>5, <2>6, <3>1
    <3>2. CASE d # c
      BY <2>1, <2>5, <2>6, <3>2 DEF Launching
    <3>. QED  BY <3>1, <3>2
  <2>7. Launching'
    <3>1. \A i \in Groups : \A n \in alive'[i] : Started(i, n)'
      BY <2>2, <2>5 DEF Launching
    <3>. HIDE DEF TypeOK
    <3>. QED  BY <2>2, <2>6, <3>1 DEF Launching
  <2>8. RuntimeWaits'
    BY <2>2 DEF RuntimeWaits
  <2>. QED  BY <2>7, <2>8
<1>2. CASE RegisterInternal(c)
  <2>1. /\ Add(NameOf[c], place[c]) /\ place[c] \in Pgids
        /\ place' = [place EXCEPT ![c] = NoGroup]
        /\ UNCHANGED <<init, starting, awaited, alive, runtime>>
    BY <1>2 DEF RegisterInternal
  <2>2. registered \subseteq registered'
    BY <1>2 DEF RegisterInternal, Answer, Accepted, Refused
  <2>3. place[c] \in Groups => init[place[c]] \notin {"none", "register"}
    BY DEF Unknown
  <2>4. NameOf[c] \in External /\ place[c] \in Groups => Started(place[c], NameOf[c])
    BY DEF Launching
  <2>. QED  BY <2>1, <2>2, <2>3, <2>4, AddWaits
<1>3. CASE RegisterExternal(c)
  <2>1. /\ place' = [place EXCEPT ![c] = NoGroup]
        /\ UNCHANGED <<init, starting, awaited, alive, runtime, extensions, added, name, home>>
    BY <1>3 DEF RegisterExternal
  <2>2. registered \subseteq registered'
    BY <1>3 DEF RegisterExternal, Answer, Accepted, Refused
  <2>. QED  BY <2>1, <2>2, OtherWaits
<1>4. ASSUME RegisterReturns(c) \/ ExtensionNext(c) \/ ExtensionNextDone(c)
      PROVE  Launching' /\ RuntimeWaits'
  <2>1. UNCHANGED <<init, starting, awaited, alive, runtime, extensions, added, name, home,
                    registered, place>>
    BY <1>4 DEF RegisterReturns, ExtensionNext, ExtensionNextDone
  <2>. QED  BY <2>1, OtherWaits
<1>. QED  BY <1>1, <1>2, <1>3, <1>4 DEF Extension

LEMMA NextHandlerWaits ==
    ASSUME Waiting, NEW g \in Groups, NextHandler(g)
    PROVE  Launching' /\ RuntimeWaits'
<1>. USE DEF Waiting, Sound, TypeOK, Kept
<1>1. UNCHANGED <<init, starting, awaited, extensions, added, name, home, registered, place>>
  BY NextHandlerKeeps
<1>2. ASSUME NEW k, KillGroup(k), NEW i \in Groups
      PROVE /\ alive'[i] \subseteq alive[i]
            /\ runtime[i] = "gone" => runtime'[i] = "gone"
            /\ runtime'[i] \in Kept =>
                  runtime[i] \in Kept
  BY <1>2 DEF KillGroup
<1>3. CASE UNCHANGED <<runtime, alive>>
  BY <1>1, <1>3, OtherWaits
<1>4. CASE \E k : KillGroup(k)
  BY <1>1, <1>2, <1>4, OtherWaits
<1>5. UNCHANGED <<runtime, alive>> \/ \E k : KillGroup(k)
  BY DEF NextHandler, Pass, RuntimeNext, Receive, ReceiveDisablesEvents,
         TerminateIdleInstance, TerminateUnextended, Tell, Skip, AllTold, Kill
<1>. QED  BY <1>3, <1>4, <1>5

LEMMA WaitingStep ==
    ASSUME MaxConcurrency > 1
    PROVE  Waiting /\ [Next]_vars => Launching' /\ RuntimeWaits'
<1>. SUFFICES ASSUME Waiting, [Next]_vars PROVE Launching' /\ RuntimeWaits'
  OBVIOUS
<1>1. CASE UNCHANGED vars
  BY <1>1 DEF Waiting, Sound, Launching, Started, RuntimeWaits, vars
<1>. QED  BY <1>1, InstanceWaits, ExtensionWaits, NextHandlerWaits DEF Next

(***************************************************************************)
(* By the time init returns, one Extension has registered under each name  *)
(* that it has added to the group of a Runtime that lives.                 *)
(***************************************************************************)
THEOREM InitWaits ==
    ASSUME MaxConcurrency > 1
    PROVE  Spec => []RuntimeWaits
<1>1. TypeOK /\ MapsAgree /\ Unknown /\ [Next]_vars => MapsAgree' /\ Unknown'
  BY SoundStep DEF Sound
<1>2. TypeOK /\ MapsAgree /\ Unknown /\ Owned /\ [Next]_vars => Owned'
  BY OwnedStep DEF Sound
<1>3. TypeOK /\ MapsAgree /\ Unknown /\ Owned /\ Launching /\ RuntimeWaits /\ [Next]_vars
         => Launching' /\ RuntimeWaits'
  BY WaitingStep DEF Waiting, Sound
<1>. QED  BY <1>1, <1>2, <1>3, SoundInit, OwnedInit, LaunchingInit, TypeCorrect, PTL DEF Spec
=============================================================================
