--------------------------- MODULE ProgramsProofs ---------------------------
(***************************************************************************)
(* The init process, the dependency resolver, the driver manager and the   *)
(* keyboard driver for any services, drivers, keys and length of run.  A   *)
(* step of the composite is a step of one of them and leaves the others as *)
(* they are, so each has its own inductive invariant.                      *)
(***************************************************************************)
EXTENDS Programs, CollectionTheorems, SequenceTheorems, TLAPS

LEMMA StepOfProgram ==
    ASSUME [ProgramsNext]_programVars
    PROVE  /\ [InitProc!Next]_(InitProc!vars)
           /\ [Resolver!Next]_(Resolver!vars)
           /\ [Manager!Next]_(Manager!vars)
           /\ [Input!Next]_(Input!vars)
BY DEF ProgramsNext, OfInit, OfResolver, OfManager, OfKeyboard, programVars,
       initVars, resolverVars, driverVars, keyboardVars,
       InitProc!vars, Resolver!vars, Manager!vars, Input!vars
-----------------------------------------------------------------------------
(***************************************************************************)
(* init.  The state "Stopped" is the crux: init's record must never say it *)
(* of a process that is alive, since force_kill_all passes over such a     *)
(* service.                                                                *)
(***************************************************************************)
Records == [state : InitProc!States, restart_count : Nat]

ServicesInv ==
    /\ service \in [InitProc!Names -> Records]
    /\ process \in [InitProc!Names -> {"none", "alive", "zombie", "gone"}]
    /\ \A n \in InitProc!Names : service[n].state = "Stopped" => process[n] # "alive"
    /\ pc = "done" => \A n \in InitProc!Names : service[n].state \in {"Unregistered", "Stopped"}

LEMMA CheckedFacts ==
    ASSUME NEW s \in Records
    PROVE  /\ InitProc!Checked(s) \in Records
           /\ InitProc!Checked(s).state = "Stopped" => s.state = "Stopped"
BY DEF InitProc!Checked, Records, InitProc!States

LEMMA ExitedFacts ==
    ASSUME NEW s \in Records
    PROVE  InitProc!Exited(s) \in Records
BY DEF InitProc!Exited, Records, InitProc!States

LEMMA ShutDownFacts ==
    ASSUME NEW n, NEW s \in Records
    PROVE  /\ InitProc!ShutDown(n, s) \in Records
           /\ InitProc!ShutDown(n, s).state = "Stopped" => s.state = "Stopped" \/ process[n] # "alive"
BY DEF InitProc!ShutDown, Records, InitProc!States

LEMMA SpawnStep ==
    ASSUME ServicesInv, NEW n, InitProc!Spawn(n), pc' # "done"
    PROVE  ServicesInv'
<1>1. CASE UNCHANGED <<process, service>>
    BY <1>1 DEF ServicesInv
<1>2. CASE /\ process' = [process EXCEPT ![n] = "alive"]
           /\ service' = [service EXCEPT ![n].state = "Starting"]
    <2>1. \A m \in InitProc!Names :
            /\ process'[m] = IF m = n THEN "alive" ELSE process[m]
            /\ service'[m] = IF m = n THEN [service[m] EXCEPT !.state = "Starting"] ELSE service[m]
        BY <1>2 DEF ServicesInv
    <2>2. \A m \in InitProc!Names :
            /\ [service[m] EXCEPT !.state = "Starting"] \in Records
            /\ [service[m] EXCEPT !.state = "Starting"].state = "Starting"
        BY DEF ServicesInv, Records, InitProc!States
    <2>3. service' \in [InitProc!Names -> Records]
        BY <1>2, <2>1, <2>2, Zenon DEF ServicesInv
    <2>4. process' \in [InitProc!Names -> {"none", "alive", "zombie", "gone"}]
        BY <1>2, Zenon DEF ServicesInv
    <2>. QED BY <2>1, <2>2, <2>3, <2>4, Zenon DEF ServicesInv
<1>. QED BY <1>1, <1>2 DEF InitProc!Spawn

LEMMA ReapStep ==
    ASSUME ServicesInv, NEW n \in InitProc!Names, InitProc!Reap(n)
    PROVE  ServicesInv'
<1>1. /\ \A m \in InitProc!Names : /\ process'[m] = IF m = n THEN "gone" ELSE process[m]
                                   /\ service'[m] = IF m = n THEN InitProc!Exited(service[m]) ELSE service[m]
      /\ pc' # "done"
    BY DEF ServicesInv, InitProc!Reap
<1>2. service' \in [InitProc!Names -> Records] /\ process' \in [InitProc!Names -> {"none", "alive", "zombie", "gone"}]
    BY <1>1, ExitedFacts DEF ServicesInv, InitProc!Reap
<1>. QED BY <1>1, <1>2 DEF ServicesInv

LEMMA CheckStep ==
    ASSUME ServicesInv, InitProc!CheckServices
    PROVE  ServicesInv'
<1>1. \A n \in InitProc!Names : /\ InitProc!Checked(service[n]) \in Records
                                /\ InitProc!Checked(service[n]).state = "Stopped" => process[n] # "alive"
    BY CheckedFacts DEF ServicesInv
<1>2. \A n \in InitProc!Names :
        /\ InitProc!ShutDown(n, InitProc!Checked(service[n])) \in Records
        /\ InitProc!ShutDown(n, InitProc!Checked(service[n])).state = "Stopped" => process[n] # "alive"
    BY <1>1, ShutDownFacts
<1>3. process' = process /\ pc' # "done"
    BY DEF InitProc!CheckServices
<1>4. CASE service' = [n \in InitProc!Names |-> InitProc!Checked(service[n])]
    BY <1>1, <1>3, <1>4 DEF ServicesInv
<1>5. CASE service' = [n \in InitProc!Names |-> InitProc!ShutDown(n, InitProc!Checked(service[n]))]
    BY <1>2, <1>3, <1>5 DEF ServicesInv
<1>. QED BY <1>4, <1>5 DEF InitProc!CheckServices

\* force_kill_all reaches whatever is alive, as what counts as stopped is not.
LEMMA FinishStep ==
    ASSUME ServicesInv, InitProc!Finish
    PROVE  ServicesInv'
<1>1. \A n \in InitProc!Names : [service[n] EXCEPT !.state = "Stopped"] \in Records
                       /\ [service[n] EXCEPT !.state = "Stopped"].state = "Stopped"
    BY DEF ServicesInv, Records, InitProc!States
<1>2. \A n \in InitProc!Names :
        /\ service'[n] = IF n \in InitProc!Registered THEN [service[n] EXCEPT !.state = "Stopped"] ELSE service[n]
        /\ process'[n] = IF n \in InitProc!Registered /\ service[n].state # "Stopped" /\ process[n] = "alive"
                         THEN "zombie" ELSE process[n]
    BY DEF InitProc!Finish
<1>3. service' \in [InitProc!Names -> Records] /\ process' \in [InitProc!Names -> {"none", "alive", "zombie", "gone"}]
    BY <1>1 DEF InitProc!Finish, ServicesInv
<1>4. ASSUME NEW n \in InitProc!Names
      PROVE  /\ service'[n].state \in {"Unregistered", "Stopped"}
             /\ service'[n].state = "Stopped" => process'[n] # "alive"
    <2>1. CASE n \in InitProc!Registered
        BY <1>1, <1>2, <2>1, Zenon DEF ServicesInv
    <2>2. CASE n \notin InitProc!Registered
        BY <1>2, <2>2, Zenon DEF InitProc!Registered
    <2>. QED BY <2>1, <2>2
<1>. QED BY <1>3, <1>4 DEF ServicesInv

LEMMA NextServices == ServicesInv /\ [InitProc!Next]_(InitProc!vars) => ServicesInv'
<1> SUFFICES ASSUME ServicesInv, [InitProc!Next]_(InitProc!vars) PROVE ServicesInv'
    OBVIOUS
<1>1. CASE InitProc!SpawnEssential
    <2>1. CASE spawned < Len(EssentialServices)
        BY <1>1, <2>1, SpawnStep DEF InitProc!SpawnEssential
    <2>2. CASE ~ (spawned < Len(EssentialServices))
        BY <1>1, <2>2 DEF InitProc!SpawnEssential, ServicesInv
    <2>. QED BY <2>1, <2>2
<1>2. CASE InitProc!WaitForServices
    BY <1>2, CheckedFacts DEF InitProc!WaitForServices, ServicesInv
<1>3. CASE InitProc!SpawnShell
    BY <1>3, SpawnStep DEF InitProc!SpawnShell
<1>4. CASE InitProc!ReapedAll
    BY <1>4 DEF InitProc!ReapedAll, ServicesInv
<1>5. CASE InitProc!CheckServices
    BY <1>5, CheckStep
<1>6. CASE InitProc!WaitCycle
    BY <1>6 DEF InitProc!WaitCycle, ServicesInv
<1>7. CASE InitProc!Finish
    BY <1>7, FinishStep
<1>8. CASE \E n \in InitProc!Names : InitProc!Reap(n)
    BY <1>8, ReapStep
<1>9. CASE InitProc!request_shutdown
    BY <1>9 DEF InitProc!request_shutdown, ServicesInv
<1>10. CASE \E n \in InitProc!Names : InitProc!Exit(n)
    BY <1>10 DEF InitProc!Exit, ServicesInv
<1>11. CASE UNCHANGED InitProc!vars
    BY <1>11 DEF InitProc!vars, ServicesInv
<1>. QED
    BY <1>1, <1>2, <1>3, <1>4, <1>5, <1>6, <1>7, <1>8, <1>9, <1>10, <1>11 DEF InitProc!Next, InitProc!InitSteps

\* Whenever and however the services exit or ignore SIGTERM: after the shutdown every
\* registered service is recorded as stopped and none of their processes is alive.
THEOREM ShutdownIsComplete == ProgramsSpec => []ShutdownLeavesNothing
<1>1. InitProc!Init => ServicesInv
    BY DEF InitProc!Init, ServicesInv, Records, InitProc!States
<1>2. ServicesInv /\ [ProgramsNext]_programVars => ServicesInv'
    BY NextServices, StepOfProgram
<1>3. ServicesInv => ShutdownLeavesNothing
    BY DEF ServicesInv, ShutdownLeavesNothing, InitProc!ShutdownLeavesNothing,
           InitProc!all_services_stopped, InitProc!Registered
<1>. QED BY <1>1, <1>2, <1>3, PTL DEF ProgramsSpec, ProgramsInit, ProgramsStart
-----------------------------------------------------------------------------
(***************************************************************************)
(* The driver manager.  Process numbers are used once: a number the        *)
(* registry has for a driver is below next_process_id, so no later         *)
(* process, not even one restarted for another driver, can take it over.   *)
(***************************************************************************)
\* The process the registry has for a driver is that driver's, as long as it is there.
DriversInv ==
    /\ next_process_id \in Nat
    /\ \A q \in DOMAIN processes : processes[q] \in [driver : Nat, limit : {"default", "set"}]
    /\ next_driver_id \in Nat
    /\ \A d \in DOMAIN drivers :
        /\ drivers[d].process \in Nat /\ drivers[d].process < next_process_id
        /\ drivers[d].process \in DOMAIN processes => processes[drivers[d].process].driver = d

LEMMA InitDrivers == Manager!DriverAssumption /\ Manager!Init => DriversInv
BY DEF Manager!DriverAssumption, Manager!Init, DriversInv

\* A process under a new number is nobody's but the new driver's.
LEMMA LoadStep ==
    ASSUME DriversInv, NEW path, Manager!load_driver(path)
    PROVE  DriversInv'
<1> DEFINE new == Manager!DriverProcess(next_driver_id)
<1>1. new \in [driver : Nat, limit : {"default", "set"}] /\ new.driver = next_driver_id
    BY DEF Manager!DriverProcess, DriversInv
<1>2. /\ DOMAIN processes' = DOMAIN processes \cup {next_process_id}
      /\ processes'[next_process_id] = new
      /\ \A q \in DOMAIN processes : q # next_process_id => processes'[q] = processes[q]
      /\ next_process_id' = next_process_id + 1 /\ next_driver_id' = next_driver_id + 1
    BY DEF Manager!load_driver, Manager!create_driver_process, Manager!Put
<1>3. \A d \in DOMAIN drivers' :
        \/ d \in DOMAIN drivers /\ drivers'[d] = drivers[d]
        \/ d = next_driver_id /\ drivers'[d] = [path |-> path, process |-> next_process_id]
    BY DEF Manager!load_driver, Manager!register_driver, Manager!Put
<1>4. \A q \in DOMAIN processes' : processes'[q] \in [driver : Nat, limit : {"default", "set"}]
    BY <1>1, <1>2 DEF DriversInv
<1> HIDE DEF new
<1>5. ASSUME NEW d \in DOMAIN drivers'
      PROVE  /\ drivers'[d].process \in Nat /\ drivers'[d].process < next_process_id'
             /\ drivers'[d].process \in DOMAIN processes' => processes'[drivers'[d].process].driver = d
    <2>1. CASE d \in DOMAIN drivers /\ drivers'[d] = drivers[d]
        BY <2>1, <1>2 DEF DriversInv
    <2>2. CASE d = next_driver_id /\ drivers'[d] = [path |-> path, process |-> next_process_id]
        BY <2>2, <1>1, <1>2 DEF DriversInv
    <2>. QED BY <1>3, <2>1, <2>2
<1>. QED BY <1>2, <1>4, <1>5 DEF DriversInv

\* Removing processes and drivers takes nothing from the others.
LEMMA UnloadStep ==
    ASSUME DriversInv, NEW ids, Manager!Unloaded(ids)
    PROVE  DriversInv'
BY DEF DriversInv, Manager!Unloaded, Manager!Stopped, Manager!Without, Manager!Restrict

LEMMA LimitStep ==
    ASSUME DriversInv, NEW q, Manager!set_memory_limit(q)
    PROVE  DriversInv'
<1>1. /\ DOMAIN processes' = DOMAIN processes
      /\ \A x \in DOMAIN processes : /\ processes'[x] \in [driver : Nat, limit : {"default", "set"}]
                                     /\ processes'[x].driver = processes[x].driver
    BY DEF Manager!set_memory_limit, DriversInv
<1>. QED BY <1>1 DEF DriversInv, Manager!set_memory_limit

LEMMA RestartStep ==
    ASSUME DriversInv, NEW q, Manager!restart_driver(q)
    PROVE  DriversInv'
<1> DEFINE new == Manager!DriverProcess(processes[q].driver)
<1>1. new \in [driver : Nat, limit : {"default", "set"}]
    BY DEF Manager!restart_driver, Manager!DriverProcess, DriversInv
<1>2. /\ DOMAIN processes' = (DOMAIN processes \ {q}) \cup {next_process_id}
      /\ processes'[next_process_id] = new
      /\ \A x \in DOMAIN processes \ {q} : x # next_process_id => processes'[x] = processes[x]
      /\ next_process_id' = next_process_id + 1 /\ next_driver_id' = next_driver_id
      /\ drivers' = drivers
    BY DEF Manager!restart_driver, Manager!Put, Manager!Without, Manager!Restrict
<1> HIDE DEF new
<1>3. \A x \in DOMAIN processes' : processes'[x] \in [driver : Nat, limit : {"default", "set"}]
    BY <1>1, <1>2 DEF DriversInv
<1>. QED BY <1>2, <1>3 DEF DriversInv

LEMMA NextDrivers == DriversInv /\ [Manager!Next]_(Manager!vars) => DriversInv'
<1> SUFFICES ASSUME DriversInv, [Manager!Next]_(Manager!vars) PROVE DriversInv'
    OBVIOUS
<1>1. CASE Manager!initialize
    BY <1>1, LoadStep DEF Manager!initialize
<1>2. CASE \E p \in DriverPaths : Manager!LoadDriver(p)
    BY <1>2, LoadStep DEF Manager!LoadDriver
<1>3. CASE \E id \in DOMAIN drivers : Manager!unload_driver(id)
    BY <1>3, UnloadStep DEF Manager!unload_driver
<1>4. CASE \E q \in DOMAIN processes : Manager!set_memory_limit(q)
    BY <1>4, LimitStep
<1>5. CASE \E q \in DOMAIN processes : Manager!restart_driver(q)
    BY <1>5, RestartStep
<1>6. CASE Manager!shutdown
    BY <1>6, UnloadStep DEF Manager!shutdown
<1>7. CASE UNCHANGED Manager!vars
    BY <1>7 DEF Manager!vars, DriversInv
<1>. QED BY <1>1, <1>2, <1>3, <1>4, <1>5, <1>6, <1>7 DEF Manager!Next

Leaving ==
    \A d \in DOMAIN drivers : d \notin DOMAIN drivers' =>
        /\ drivers[d].process \in DOMAIN processes \ DOMAIN processes'
        /\ processes[drivers[d].process].driver = d

LEMMA LeavingStep == DriversInv /\ [Manager!Next]_(Manager!vars) => [Leaving]_(Manager!vars)
<1> SUFFICES ASSUME DriversInv, Manager!Next PROVE Leaving
    BY DEF Manager!vars
<1>1. ASSUME NEW p, Manager!load_driver(p) PROVE DOMAIN drivers \subseteq DOMAIN drivers'
    BY <1>1 DEF Manager!load_driver, Manager!register_driver, Manager!Put
<1>2. CASE Manager!initialize \/ \E p \in DriverPaths : Manager!LoadDriver(p)
    BY <1>1, <1>2 DEF Manager!initialize, Manager!LoadDriver, Leaving
<1>3. ASSUME NEW ids \in SUBSET DOMAIN drivers, Manager!Unloaded(ids),
             \A d \in ids : drivers[d].process \in DOMAIN processes
      PROVE  Leaving
    BY <1>3 DEF Manager!Unloaded, Manager!Stopped, Manager!Without, Manager!Restrict, DriversInv, Leaving
<1>4. CASE \E id \in DOMAIN drivers : Manager!unload_driver(id)
    BY <1>3, <1>4 DEF Manager!unload_driver
<1>5. CASE Manager!shutdown
    BY <1>3, <1>5 DEF Manager!shutdown
<1>6. CASE \E q \in DOMAIN processes : Manager!set_memory_limit(q) \/ Manager!restart_driver(q)
    BY <1>6 DEF Manager!set_memory_limit, Manager!restart_driver, Leaving
<1>. QED BY <1>2, <1>4, <1>5, <1>6 DEF Manager!Next

\* However often drivers are loaded, restarted and unloaded: a driver that leaves the registry
\* takes with it the process the registry has for it, and that process is the driver's own.
THEOREM UnloadIsComplete == ProgramsSpec => UnloadStopsProcess
<1>1. Manager!Init => DriversInv
    BY InitDrivers, ProgramAssumptions
<1>2. DriversInv /\ [ProgramsNext]_programVars => DriversInv' /\ [Leaving]_(Manager!vars)
    BY NextDrivers, LeavingStep, StepOfProgram
<1>3. ProgramsSpec => [][Leaving]_(Manager!vars)
    BY <1>1, <1>2, PTL DEF ProgramsSpec, ProgramsInit, ProgramsStart
<1>. QED BY <1>3 DEF UnloadStopsProcess, Manager!UnloadStopsProcess, Leaving
-----------------------------------------------------------------------------
(***************************************************************************)
(* The keyboard.  ModifierOf ignores the prefix: the byte that clears a    *)
(* modifier is the one that says the key is up, and a key that the prefix  *)
(* turns into another has no modifier.                                     *)
(***************************************************************************)
\* A key's modifiers do not depend on what the prefix makes of its code.
LEMMA SameModifier ==
    ASSUME NEW code
    PROVE  Input!ModifierOf(Input!scancode_to_keycode(code)) = Input!ModifierOf(code)
<1>1. ASSUME NEW c \in Input!ExtendedOnly PROVE Input!ModifierOf(c) = {}
    BY <1>1 DEF Input!ExtendedOnly, Input!ModifierOf
<1>2. Input!ModifierOf("Unknown") = {}
    BY DEF Input!ModifierOf
<1>. QED BY <1>1, <1>2 DEF Input!scancode_to_keycode

LEMMA NotCaps ==
    ASSUME NEW key
    PROVE  Input!ModifierOf(key) \subseteq {"SHIFT", "CTRL", "ALT"}
BY DEF Input!ModifierOf

LEMMA ScancodeModifiers ==
    ASSUME Input!NoStuckModifier, NEW k, NEW release, Input!process_scancode(k, release)
    PROVE  Input!NoStuckModifier'
<1> DEFINE key == Input!scancode_to_keycode(k.code)
<1>1. Input!ModifierOf(key) = Input!ModifierOf(k.code)
    BY SameModifier
<1>2. modifiers' = Input!update_modifiers(key, release)
    BY DEF Input!process_scancode
<1> HIDE DEF key
<1>3. CASE release
    <2>1. held' = held \ {k} /\ modifiers' = modifiers \ Input!ModifierOf(key)
        BY <1>2, <1>3 DEF Input!process_scancode, Input!update_modifiers
    <2>. QED BY <1>1, <2>1 DEF Input!NoStuckModifier
<1>4. CASE ~ release
    <2>1. held' = held \cup {k}
        BY <1>4 DEF Input!process_scancode
    <2>2. modifiers' \ {"CAPS_LOCK"} \subseteq (modifiers \ {"CAPS_LOCK"}) \cup Input!ModifierOf(key)
        BY <1>2, <1>4 DEF Input!update_modifiers, Input!SymDiff
    <2>. QED BY <1>1, <2>1, <2>2 DEF Input!NoStuckModifier
<1>. QED BY <1>3, <1>4

LEMMA NextModifiers == Input!NoStuckModifier /\ [Input!Next]_(Input!vars) => Input!NoStuckModifier'
<1> SUFFICES ASSUME Input!NoStuckModifier, [Input!Next]_(Input!vars) PROVE Input!NoStuckModifier'
    OBVIOUS
<1>1. CASE \E k \in Keys, release \in BOOLEAN : Input!PlainKey(k, release)
    BY <1>1, ScancodeModifiers DEF Input!PlainKey
<1>2. CASE Input!AfterPrefix
    BY <1>2, ScancodeModifiers DEF Input!AfterPrefix
<1>3. CASE UNCHANGED <<modifiers, held>>
    BY <1>3 DEF Input!NoStuckModifier
<1>4. CASE modifiers' = {}
    BY <1>4 DEF Input!NoStuckModifier
<1>. QED
    BY <1>1, <1>2, <1>3, <1>4
    DEF Input!Next, Input!vars, Input!Prefix, Input!init, Input!cleanup, Input!suspend, Input!resume, Input!Drain, Input!get_next_event, Input!SetQueueSize

\* Whatever keys are pressed and released, and whatever requests come in between the bytes: a
\* modifier is set only while a key that sets it is down.
THEOREM ModifiersAreHeld == ProgramsSpec => []NoStuckModifier
<1>1. Input!Init => NoStuckModifier
    BY DEF Input!Init, NoStuckModifier, Input!NoStuckModifier
<1>2. NoStuckModifier /\ [ProgramsNext]_programVars => NoStuckModifier'
    BY NextModifiers, StepOfProgram DEF NoStuckModifier
<1>. QED BY <1>1, <1>2, PTL DEF ProgramsSpec, ProgramsInit, ProgramsStart
-----------------------------------------------------------------------------
\* The queue as the events it may hold see it: what an event is does not matter, only its n.
QueueOK(q, size, last, E) ==
    /\ q \in Seq(E) /\ size \in Nat \ {0} /\ last \in Nat
    /\ Len(q) <= size
    /\ \A i \in 1 .. Len(q) : q[i].n = last - Len(q) + i

\* Dropping the oldest events keeps the rest in step with the last one.
LEMMA LatestOK ==
    ASSUME NEW E, NEW q, NEW size, NEW last, QueueOK(q, size, last, E), NEW n \in Nat
    PROVE  /\ Input!Latest(q, n) \in Seq(E) /\ Len(Input!Latest(q, n)) <= n
           /\ Len(Input!Latest(q, n)) <= Len(q)
           /\ \A i \in 1 .. Len(Input!Latest(q, n)) :
                Input!Latest(q, n)[i].n = last - Len(Input!Latest(q, n)) + i
<1> DEFINE r == Input!Latest(q, n)
<1>1. CASE Len(q) > n
    <2>1. r = SubSeq(q, Len(q) - n + 1, Len(q))
        BY <1>1 DEF Input!Latest
    <2>2. /\ r \in Seq(E) /\ Len(r) = n
          /\ \A i \in 1 .. n : r[i] = q[Len(q) - n + i]
        <3> DEFINE m == Len(q) - n + 1
        <3>1. m \in Int /\ Len(q) \in Int /\ m >= 1 /\ Len(q) - m + 1 = n
            BY <1>1 DEF QueueOK
        <3>2. \A i \in m .. Len(q) : q[i] \in E
            BY <3>1 DEF QueueOK
        <3> HIDE DEF m
        <3>3. /\ SubSeq(q, m, Len(q)) \in Seq(E)
              /\ Len(SubSeq(q, m, Len(q))) = IF m <= Len(q) THEN Len(q) - m + 1 ELSE 0
              /\ \A i \in 1 .. Len(q) - m + 1 : SubSeq(q, m, Len(q))[i] = q[m + i - 1]
            BY <3>1, <3>2, SubSeqProperties
        <3>4. r = SubSeq(q, m, Len(q))
            BY <2>1 DEF m
        <3> HIDE DEF r
        <3>5. r \in Seq(E) /\ Len(r) = n
            BY <3>1, <3>3, <3>4
        <3>6. ASSUME NEW i \in 1 .. n PROVE r[i] = q[Len(q) - n + i]
            <4>1. i \in 1 .. Len(q) - m + 1 /\ m + i - 1 = Len(q) - n + i
                BY <3>1 DEF m
            <4>2. r[i] = q[m + i - 1]
                BY <3>3, <3>4, <4>1
            <4>. QED BY <4>1, <4>2
        <3>. QED BY <3>5, <3>6
    <2>3. \A i \in 1 .. n : Len(q) - n + i \in 1 .. Len(q)
        BY <1>1 DEF QueueOK
    <2>4. \A i \in 1 .. n : r[i].n = last - n + i
        <3> SUFFICES ASSUME NEW i \in 1 .. n PROVE r[i].n = last - n + i
            OBVIOUS
        <3>1. q[Len(q) - n + i].n = last - Len(q) + (Len(q) - n + i)
            BY <2>3 DEF QueueOK
        <3>2. Len(q) \in Nat /\ last \in Nat
            BY DEF QueueOK
        <3>. QED BY <2>2, <3>1, <3>2
    <2>5. Len(q) \in Nat
        BY DEF QueueOK
    <2> HIDE DEF r
    <2>6. r \in Seq(E) /\ Len(r) <= n /\ Len(r) <= Len(q)
          /\ \A i \in 1 .. Len(r) : r[i].n = last - Len(r) + i
        BY <1>1, <2>2, <2>4, <2>5
    <2>. QED BY <2>6 DEF r
<1>2. CASE ~ (Len(q) > n)
    BY <1>2 DEF Input!Latest, QueueOK
<1>. QED BY <1>1, <1>2

LEMMA AppendOK ==
    ASSUME NEW E, NEW q, NEW size, NEW last, QueueOK(q, size, last, E),
           NEW e \in E, e.n = last + 1
    PROVE  QueueOK(Append(Input!Latest(q, size - 1), e), size, last + 1, E)
<1> DEFINE r == Input!Latest(q, size - 1)
<1>1. size - 1 \in Nat
    BY DEF QueueOK
<1>2. /\ r \in Seq(E) /\ Len(r) <= size - 1
      /\ \A i \in 1 .. Len(r) : r[i].n = last - Len(r) + i
    BY <1>1, LatestOK
<1> HIDE DEF r
<1>3. /\ Append(r, e) \in Seq(E) /\ Len(Append(r, e)) = Len(r) + 1
      /\ Append(r, e)[Len(r) + 1] = e
      /\ \A i \in 1 .. Len(r) : Append(r, e)[i] = r[i]
      /\ Len(r) \in Nat
    BY <1>2
<1>4. QueueOK(Append(r, e), size, last + 1, E)
    BY <1>2, <1>3 DEF QueueOK
<1>. QED BY <1>4 DEF r

Modifiers == {"SHIFT", "CTRL", "ALT", "CAPS_LOCK"}
KeyCodes == {k.code : k \in Keys} \cup {"Unknown"}
Events == [release : BOOLEAN, key_code : KeyCodes, modifiers : SUBSET Modifiers, n : Nat,
           ascii_char : {Input!Nothing, "upper", "lower", "symbol", "digit", "blank"}]

\* The inductive invariant of the queue, with the types of what process_scancode puts in it
QueueInv ==
    /\ modifiers \in SUBSET Modifiers
    /\ wire = << >> \/ wire \in Keys \X BOOLEAN
    /\ QueueOK(event_queue, max_queue_size, produced, Events)

LEMMA ScancodeQueue ==
    ASSUME QueueInv, NEW k \in Keys, NEW release \in BOOLEAN, Input!process_scancode(k, release)
    PROVE  /\ modifiers' \in SUBSET Modifiers
           /\ QueueOK(event_queue', max_queue_size', produced', Events)
<1> DEFINE key == Input!scancode_to_keycode(k.code)
           mods == Input!update_modifiers(key, release)
           char == IF release THEN Input!Nothing ELSE Input!keycode_to_ascii(key, mods)
           e == [release |-> release, key_code |-> key, modifiers |-> mods, n |-> produced + 1,
                 ascii_char |-> char]
<1>1. /\ modifiers' = mods /\ produced' = produced + 1 /\ max_queue_size' = max_queue_size
      /\ event_queue' = Append(Input!Latest(event_queue, max_queue_size - 1), e)
    BY DEF Input!process_scancode, Input!queue_event
<1>2. key \in KeyCodes
    BY DEF Input!scancode_to_keycode, KeyCodes
<1>3. mods \in SUBSET Modifiers
    <2> HIDE DEF key
    <2>1. Input!ModifierOf(key) \subseteq Modifiers
        BY NotCaps DEF Modifiers
    <2>. QED BY <2>1, Zenon DEF Input!update_modifiers, Input!SymDiff, QueueInv, Modifiers
<1>4. char \in {Input!Nothing, "upper", "lower", "symbol", "digit", "blank"}
    BY DEF Input!keycode_to_ascii, Input!LetterCase
<1> HIDE DEF key, mods, char
<1>5. e \in Events /\ e.n = produced + 1
    BY <1>2, <1>3, <1>4 DEF Events, QueueInv, QueueOK
<1> HIDE DEF e
<1>. QED BY <1>1, <1>3, <1>5, AppendOK DEF QueueInv

LEMMA NextQueue == Input!KeyboardAssumption /\ QueueInv /\ [Input!Next]_(Input!vars) => QueueInv'
<1> SUFFICES ASSUME Input!KeyboardAssumption, QueueInv, [Input!Next]_(Input!vars) PROVE QueueInv'
    OBVIOUS
<1>e. \A size \in Nat \ {0}, last \in Nat : QueueOK(<< >>, size, last, Events)
    BY DEF QueueOK
<1>q. max_queue_size \in Nat \ {0} /\ produced \in Nat /\ event_queue \in Seq(Events)
    BY DEF QueueInv, QueueOK
<1>1. CASE \E k \in Keys, release \in BOOLEAN : Input!PlainKey(k, release)
    BY <1>1, ScancodeQueue DEF Input!PlainKey, QueueInv
<1>2. CASE Input!AfterPrefix
    <2>1. wire[1] \in Keys /\ wire[2] \in BOOLEAN
        BY <1>2 DEF Input!AfterPrefix, QueueInv
    <2>. QED BY <1>2, <2>1, ScancodeQueue DEF Input!AfterPrefix, QueueInv
<1>3. CASE \E k \in Keys, release \in BOOLEAN : Input!Prefix(k, release)
    BY <1>3 DEF Input!Prefix, QueueInv
<1>4. CASE Input!init \/ Input!cleanup \/ Input!suspend \/ Input!Drain
    BY <1>4, <1>e, <1>q DEF Input!init, Input!cleanup, Input!suspend, Input!Drain, Input!clear_events, QueueInv
<1>5. CASE Input!resume \/ UNCHANGED Input!vars
    BY <1>5 DEF Input!resume, Input!vars, QueueInv
<1>6. CASE Input!get_next_event
    <2> DEFINE t == Tail(event_queue)
    <2>1. /\ t \in Seq(Events) /\ Len(t) = Len(event_queue) - 1
          /\ \A i \in 1 .. Len(t) : t[i] = event_queue[i + 1]
        BY <1>6, <1>q, HeadTailProperties DEF Input!get_next_event
    <2>2. Len(event_queue) \in Nat /\ Len(t) \in Nat
        BY <1>q, <2>1
    <2> HIDE DEF t
    <2>3. \A i \in 1 .. Len(t) : t[i].n = produced - Len(t) + i
        <3> SUFFICES ASSUME NEW i \in 1 .. Len(t) PROVE t[i].n = produced - Len(t) + i
            OBVIOUS
        <3>1. event_queue[i + 1].n = produced - Len(event_queue) + (i + 1)
            BY <2>1, <2>2 DEF QueueInv, QueueOK
        <3>. QED BY <1>q, <2>1, <2>2, <3>1
    <2>4. QueueOK(t, max_queue_size, produced, Events)
        BY <1>q, <2>1, <2>2, <2>3 DEF QueueInv, QueueOK
    <2>. QED BY <1>6, <2>4 DEF Input!get_next_event, QueueInv, t
<1>7. CASE \E size \in Sizes : Input!SetQueueSize(size)
    <2>1. PICK size \in Nat \ {0} :
            /\ max_queue_size' = size /\ event_queue' = Input!Latest(event_queue, size)
            /\ UNCHANGED <<modifiers, wire, produced>>
        BY <1>7 DEF Input!SetQueueSize, Input!KeyboardAssumption
    <2>2. QueueOK(Input!Latest(event_queue, size), size, produced, Events)
        <3> DEFINE r == Input!Latest(event_queue, size)
        <3>1. /\ r \in Seq(Events) /\ Len(r) <= size
              /\ \A i \in 1 .. Len(r) : r[i].n = produced - Len(r) + i
            BY LatestOK DEF QueueInv
        <3> HIDE DEF r
        <3>2. QueueOK(r, size, produced, Events)
            BY <1>q, <3>1 DEF QueueOK
        <3>. QED BY <3>2 DEF r
    <2>. QED BY <2>1, <2>2 DEF QueueInv
<1>. QED BY <1>1, <1>2, <1>3, <1>4, <1>5, <1>6, <1>7 DEF Input!Next

\* However events, reads and changes of the queue size follow one another: the queue holds
\* the latest events in order, without a gap, and no more than its size.
THEOREM QueueHoldsLatest == ProgramsSpec => []EventsAreLatest
<1>1. Input!Init => QueueInv
    BY ProgramAssumptions DEF Input!Init, QueueInv, QueueOK, Input!KeyboardAssumption
<1>2. QueueInv /\ [ProgramsNext]_programVars => QueueInv'
    BY NextQueue, StepOfProgram, ProgramAssumptions
<1>3. QueueInv => EventsAreLatest
    BY DEF QueueInv, QueueOK, EventsAreLatest, Input!EventsAreLatest
<1>. QED BY <1>1, <1>2, <1>3, PTL DEF ProgramsSpec, ProgramsInit, ProgramsStart
-----------------------------------------------------------------------------
(***************************************************************************)
(* The worklist of get_unload_order for any drivers and dependencies.      *)
(* What is listed or pending is in every closed set that holds the target, *)
(* and the dependents of what is listed are listed or pending: when        *)
(* nothing is pending, the list is closed, and the least closed set.       *)
(***************************************************************************)
LEMMA ResolverCollections ==
    /\ \A s, ix : Resolver!Picked(s, ix) = Picked(s, ix)
    /\ \A f : Resolver!Range(f) = Range(f)
    /\ \A s, x : Resolver!Without(s, x) = Picked(s, {i \in 1 .. Len(s) : s[i] # x})
<1>1. \A s, ix : Resolver!Picked(s, ix) = Picked(s, ix)
    BY Zenon DEF Resolver!Picked, Resolver!Ascending, Resolver!Cardinality,
                 Picked, Ascending, Cardinality
<1>2. \A f : Resolver!Range(f) = Range(f)
    BY Zenon DEF Resolver!Range, Range
<1>. QED BY <1>1, <1>2, Zenon DEF Resolver!Without

\* x is in every closed set that holds the target
Needed(x) == \A ds \in SUBSET Drivers : target \in ds /\ Resolver!Closed(ds) => x \in ds

ResolverTypes ==
    /\ dependents \in [Drivers -> Seq(Drivers)]
    /\ to_unload \in Seq(Drivers) /\ unload_order \in Seq(Drivers)

ResolverInv ==
    /\ ResolverTypes
    /\ target = Resolver!NoDriver => to_unload = << >>
    /\ target # Resolver!NoDriver =>
        /\ target \in Drivers
        /\ \A i, j \in 1 .. Len(unload_order) : unload_order[i] = unload_order[j] => i = j
        /\ IF unload_order = << >> THEN to_unload = <<target>> ELSE unload_order[1] = target
        /\ \A x \in Range(to_unload) \cup Range(unload_order) : Needed(x)
        /\ \A d \in Range(unload_order) :
            Range(dependents[d]) \subseteq Range(unload_order) \cup Range(to_unload)

\* The parts of the worklist after an iteration
LEMMA IterateRanges ==
    ASSUME ResolverTypes, Resolver!Iterate,
           NEW c, c = to_unload[Len(to_unload)]
    PROVE  /\ ResolverTypes' /\ c \in Drivers /\ c \in Range(to_unload)
           /\ Range(to_unload') \subseteq Range(to_unload) \cup Range(dependents[c])
           /\ Range(to_unload) \subseteq Range(to_unload') \cup {c}
           /\ Range(dependents[c]) \subseteq Range(to_unload') \cup Range(unload_order)
           /\ unload_order' = IF c \in Range(unload_order) THEN unload_order ELSE Append(unload_order, c)
           /\ Range(unload_order') = Range(unload_order) \cup {c}
<1> DEFINE n == Len(to_unload)
           front == SubSeq(to_unload, 1, n - 1)
           ix == {i \in 1 .. Len(dependents[c]) : dependents[c][i] \notin Range(unload_order)}
           push == Picked(dependents[c], ix)
<1>1. n \in Nat \ {0} /\ n \in 1 .. n /\ c \in Drivers /\ dependents[c] \in Seq(Drivers)
    BY DEF ResolverTypes, Resolver!Iterate
<1>2. /\ to_unload' = front \o push
      /\ unload_order' = IF c \in Range(unload_order) THEN unload_order ELSE Append(unload_order, c)
      /\ dependents' = dependents
    BY ResolverCollections DEF Resolver!Iterate, Resolver!Pushed, Resolver!Listed
<1>3. /\ front \in Seq(Drivers) /\ Len(front) = n - 1
      /\ \A i \in 1 .. n - 1 : front[i] = to_unload[i]
    <2>1. n - 1 \in Int /\ \A i \in 1 .. n - 1 : to_unload[i] \in Drivers
        BY <1>1 DEF ResolverTypes
    <2>2. /\ front \in Seq(Drivers)
          /\ Len(front) = IF 1 <= n - 1 THEN n - 1 - 1 + 1 ELSE 0
          /\ \A i \in 1 .. n - 1 - 1 + 1 : front[i] = to_unload[1 + i - 1]
        BY <1>1, <2>1, SubSeqProperties DEF ResolverTypes
    <2> HIDE DEF front, n
    <2>. QED BY <1>1, <2>2
<1>4. /\ push \in Seq(Drivers) /\ Range(push) = {dependents[c][i] : i \in ix}
    BY <1>1, PickedFacts
<1>5. /\ Range(to_unload) = {to_unload[i] : i \in 1 .. n}
      /\ Range(front) = {front[i] : i \in 1 .. n - 1}
      /\ Range(dependents[c]) = {dependents[c][i] : i \in 1 .. Len(dependents[c])}
    <2>1. ASSUME NEW s \in Seq(Drivers) PROVE Range(s) = {s[i] : i \in 1 .. Len(s)}
        BY RangeEquality
    <2> HIDE DEF front
    <2>2. Range(front) = {front[i] : i \in 1 .. n - 1}
        BY <1>3, <2>1
    <2>. QED BY <1>1, <2>1, <2>2 DEF ResolverTypes
<1>6. Range(front \o push) = Range(front) \cup Range(push)
    <2> HIDE DEF front, push
    <2>. QED BY <1>3, <1>4, RangeConcatenation
<1>7. Range(front) \subseteq Range(to_unload) /\ Range(to_unload) \subseteq Range(front) \cup {c}
    <2>1. \A i \in 1 .. n - 1 : i \in 1 .. n
        BY <1>1
    <2>2. \A i \in 1 .. n : i \in 1 .. n - 1 \/ i = n
        BY <1>1
    <2> HIDE DEF front, n
    <2>. QED BY <1>3, <1>5, <2>1, <2>2 DEF n
<1>8. Range(push) \subseteq Range(dependents[c])
      /\ Range(dependents[c]) \subseteq Range(push) \cup Range(unload_order)
    <2> HIDE DEF push
    <2>. QED BY <1>4, <1>5
<1>9. c \in Range(to_unload)
    BY <1>1, <1>5
<1>10. unload_order' \in Seq(Drivers) /\ Range(unload_order') = Range(unload_order) \cup {c}
    <2>1. CASE c \in Range(unload_order)
        BY <1>2, <2>1 DEF ResolverTypes
    <2>2. CASE c \notin Range(unload_order)
        <3>1. unload_order' = unload_order \o <<c>> /\ <<c>> \in Seq(Drivers)
            BY <1>1, <1>2, <2>2 DEF ResolverTypes
        <3>2. Range(<<c>>) = {c}
            BY DEF Range
        <3>3. unload_order \in Seq(Drivers) /\ unload_order \o <<c>> \in Seq(Drivers)
            BY <3>1 DEF ResolverTypes
        <3>4. Range(unload_order \o <<c>>) = Range(unload_order) \cup Range(<<c>>)
            <4>1. \A s, t \in Seq(Drivers) : Range(s \o t) = Range(s) \cup Range(t)
                BY RangeConcatenation, Zenon
            <4>. QED BY <3>1, <3>3, <4>1, Zenon
        <3>. QED BY <3>1, <3>2, <3>3, <3>4, Zenon
    <2>. QED BY <2>1, <2>2
<1>11. front \o push \in Seq(Drivers)
    BY <1>3, <1>4
<1> HIDE DEF front, push, n
<1>. QED BY <1>1, <1>2, <1>6, <1>7, <1>8, <1>9, <1>10, <1>11 DEF ResolverTypes

LEMMA IterateStep ==
    ASSUME ResolverInv, Resolver!Iterate
    PROVE  ResolverInv'
<1> DEFINE c == to_unload[Len(to_unload)]
<1>1. /\ ResolverTypes' /\ c \in Drivers /\ c \in Range(to_unload)
      /\ Range(to_unload') \subseteq Range(to_unload) \cup Range(dependents[c])
      /\ Range(to_unload) \subseteq Range(to_unload') \cup {c}
      /\ Range(dependents[c]) \subseteq Range(to_unload') \cup Range(unload_order)
      /\ unload_order' = IF c \in Range(unload_order) THEN unload_order ELSE Append(unload_order, c)
      /\ Range(unload_order') = Range(unload_order) \cup {c}
    BY IterateRanges DEF ResolverInv
<1>2. target' = target /\ dependents' = dependents /\ target # Resolver!NoDriver
    BY DEF Resolver!Iterate, ResolverInv
<1>3. \A x : Needed(x)' <=> Needed(x)
    BY <1>2 DEF Needed, Resolver!Closed
<1>4. unload_order = << >> => c = target
    BY <1>2 DEF ResolverInv
<1> HIDE DEF c
<1>5. Needed(c)
    BY <1>1, <1>2 DEF ResolverInv
<1>6. \A x \in Range(dependents[c]) : Needed(x)
    BY <1>5, ResolverCollections DEF Needed, Resolver!Closed
<1>7. \A x \in Range(to_unload') \cup Range(unload_order') : Needed(x)'
    BY <1>1, <1>2, <1>3, <1>5, <1>6 DEF ResolverInv
<1>8. \A d \in Range(unload_order') :
        Range(dependents'[d]) \subseteq Range(unload_order') \cup Range(to_unload')
    BY <1>1, <1>2 DEF ResolverInv
<1>9. /\ unload_order' # << >> /\ unload_order'[1] = target
      /\ \A i, j \in 1 .. Len(unload_order') : unload_order'[i] = unload_order'[j] => i = j
    <2>1. CASE c \in Range(unload_order)
        <3>1. unload_order # << >>
            BY <2>1 DEF Range
        <3>. QED BY <1>1, <1>2, <2>1, <3>1 DEF ResolverInv
    <2>2. CASE c \notin Range(unload_order)
        <3> DEFINE n == Len(unload_order)
        <3>1. n \in Nat /\ unload_order \in Seq(Drivers)
            BY DEF ResolverInv, ResolverTypes
        <3>2. /\ unload_order' = Append(unload_order, c)
              /\ Len(unload_order') = n + 1 /\ unload_order'[n + 1] = c
              /\ \A i \in 1 .. n : unload_order'[i] = unload_order[i]
            BY <1>1, <2>2, <3>1
        <3>3. \A i \in 1 .. n : unload_order[i] # c
            BY <2>2, <3>1, RangeEquality
        <3>4. n = 0 <=> unload_order = << >>
            BY <3>1
        <3>5. unload_order'[1] = target
            BY <1>2, <1>4, <3>1, <3>2, <3>4 DEF ResolverInv
        <3>6. \A i, j \in 1 .. n : unload_order[i] = unload_order[j] => i = j
            BY <1>2 DEF ResolverInv
        <3> HIDE DEF n
        <3>7. \A i, j \in 1 .. n + 1 : unload_order'[i] = unload_order'[j] => i = j
            BY <3>1, <3>2, <3>3, <3>6
        <3>. QED BY <3>1, <3>2, <3>5, <3>7
    <2>. QED BY <2>1, <2>2
<1>. QED BY <1>1, <1>2, <1>7, <1>8, <1>9 DEF ResolverInv

LEMMA ResolverInit == Resolver!Init => ResolverInv
BY DEF Resolver!Init, ResolverInv, ResolverTypes

LEMMA NextResolver == ResolverInv /\ [Resolver!Next]_(Resolver!vars) => ResolverInv'
<1> SUFFICES ASSUME ResolverInv, [Resolver!Next]_(Resolver!vars) PROVE ResolverInv'
    OBVIOUS
<1>1. CASE \E d, e \in Drivers : Resolver!add_dependency(d, e)
    BY <1>1 DEF Resolver!add_dependency, Resolver!Idle, ResolverInv, ResolverTypes
<1>2. CASE \E d, e \in Drivers : Resolver!remove_dependency(d, e)
    <2>1. PICK d \in Drivers, e \in Drivers : Resolver!remove_dependency(d, e)
        BY <1>2
    <2> DEFINE s == dependents[e]
               t == Picked(s, {i \in 1 .. Len(s) : s[i] # d})
    <2>2. s \in Seq(Drivers)
        BY DEF ResolverInv, ResolverTypes
    <2>3. t \in Seq(Drivers)
        BY <2>2, PickedFacts
    <2>4. dependents' = [dependents EXCEPT ![e] = t]
        BY <2>1, ResolverCollections DEF Resolver!remove_dependency
    <2> HIDE DEF s, t
    <2>. QED BY <2>1, <2>3, <2>4 DEF Resolver!remove_dependency, Resolver!Idle, ResolverInv, ResolverTypes
<1>3. CASE \E d \in Drivers : Resolver!get_unload_order(d)
    <2>1. PICK d \in Drivers : Resolver!get_unload_order(d)
        BY <1>3
    <2>2. target' = d /\ to_unload' = <<d>> /\ unload_order' = << >> /\ dependents' = dependents
        BY <2>1 DEF Resolver!get_unload_order
    <2>3. d # Resolver!NoDriver
        BY ProgramAssumptions DEF Resolver!ResolverAssumption
    <2>4. Range(<<d>>) = {d} /\ Range(<< >>) = {}
        BY DEF Range
    <2>5. Needed(d)'
        BY <2>2 DEF Needed
    <2>. QED BY <2>2, <2>3, <2>4, <2>5 DEF ResolverInv, ResolverTypes
<1>4. CASE Resolver!Iterate
    BY <1>4, IterateStep
<1>5. CASE Resolver!Return
    BY <1>5 DEF Resolver!Return, ResolverInv, ResolverTypes
<1>6. CASE UNCHANGED Resolver!vars
    BY <1>6 DEF Resolver!vars, ResolverInv, ResolverTypes, Needed, Resolver!Closed
<1>. QED BY <1>1, <1>2, <1>3, <1>4, <1>5, <1>6 DEF Resolver!Next

LEMMA OrderComplete == ResolverInv => OrderIsComplete
<1> SUFFICES ASSUME ResolverInv, Resolver!Ready
             PROVE  /\ Resolver!Range(Resolver!Order) = Resolver!Affected(target)
                    /\ Resolver!IsInjective(Resolver!Order)
                    /\ Resolver!Order[Len(Resolver!Order)] = target
    BY DEF OrderIsComplete, Resolver!OrderIsComplete
<1> DEFINE n == Len(unload_order)
           r == Resolver!Order
<1>1. /\ target # Resolver!NoDriver /\ to_unload = << >> /\ unload_order \in Seq(Drivers)
      /\ n \in Nat /\ n # 0 /\ unload_order[1] = target /\ target \in Drivers
    BY DEF Resolver!Ready, Resolver!Idle, ResolverInv, ResolverTypes
<1>2. r = [i \in 1 .. n |-> unload_order[n + 1 - i]]
    BY <1>1 DEF Resolver!Order
<1>3. r \in Seq(Drivers) /\ Len(r) = n /\ DOMAIN r = 1 .. n
    BY <1>1, <1>2
<1> HIDE DEF r
<1>4. r[Len(r)] = target
    BY <1>1, <1>2, <1>3
<1>5. Resolver!IsInjective(r)
    <2> SUFFICES ASSUME NEW i \in 1 .. n, NEW j \in 1 .. n, r[i] = r[j] PROVE i = j
        BY <1>3 DEF Resolver!IsInjective
    <2>1. n + 1 - i \in 1 .. n /\ n + 1 - j \in 1 .. n
        BY <1>1
    <2>2. n + 1 - i = n + 1 - j
        BY <1>1, <1>2, <2>1 DEF ResolverInv
    <2>. QED BY <1>1, <2>2
<1>6. Range(r) = Range(unload_order)
    <2>1. Range(r) = {r[i] : i \in 1 .. n} /\ Range(unload_order) = {unload_order[i] : i \in 1 .. n}
        BY <1>1, <1>3, RangeEquality
    <2>2. \A i \in 1 .. n : n + 1 - i \in 1 .. n /\ n + 1 - (n + 1 - i) = i
        BY <1>1
    <2>3. \A i \in 1 .. n : r[i] = unload_order[n + 1 - i] /\ unload_order[i] = r[n + 1 - i]
        BY <1>2, <2>2
    <2> HIDE DEF n
    <2>. QED BY <2>1, <2>2, <2>3
<1>7. /\ Range(unload_order) \in SUBSET Drivers /\ target \in Range(unload_order)
      /\ Resolver!Closed(Range(unload_order))
    <2>1. Range(unload_order) = {unload_order[i] : i \in 1 .. n} /\ Range(to_unload) = {}
        BY <1>1, RangeEquality DEF Range
    <2>2. target \in Range(unload_order)
        BY <1>1, <2>1
    <2>. QED BY <1>1, <2>1, <2>2, ResolverCollections, RangeOfSeq DEF ResolverInv, Resolver!Closed
<1>8. \A x \in Range(unload_order) : Needed(x) /\ x \in Drivers
    BY <1>1, <1>7 DEF ResolverInv
<1>9. Range(unload_order) = Resolver!Affected(target)
    BY <1>7, <1>8 DEF Resolver!Affected, Needed
<1>. QED BY <1>4, <1>5, <1>6, <1>9, ResolverCollections DEF r

\* For any drivers and dependencies, cyclic or entered twice: get_unload_order lists exactly
\* the driver and all that depends on it, once each, and the driver last.
THEOREM UnloadOrderIsComplete == ProgramsSpec => []OrderIsComplete
<1>1. ResolverInv /\ [ProgramsNext]_programVars => ResolverInv'
    BY NextResolver, StepOfProgram
<1>. QED BY <1>1, ResolverInit, OrderComplete, PTL DEF ProgramsSpec, ProgramsInit, ProgramsStart
=============================================================================
