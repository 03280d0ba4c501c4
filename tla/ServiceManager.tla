--------------------------- MODULE ServiceManager ---------------------------
(***************************************************************************)
(* ServiceManager.manage of charmhelpers/core/services/base.py over the    *)
(* hooks of a unit: services are started once their required data is there *)
(* and stopped when it is lost, with the file of the services that were    *)
(* ready, the file of each service's ports, and the ports that Juju opens. *)
(*                                                                         *)
(* A service requires a RelationContext (services/helpers.py), which every *)
(* hook reads anew, renders it with a TemplateCallback, has the charm's    *)
(* data_lost, and the default start and stop callbacks.  One step is one   *)
(* callback or one change of a file.  The dictionary of services is gone   *)
(* through in any order.                                                   *)
(*                                                                         *)
(* Simplifications.  A file of ports that was cut short is empty.  Output  *)
(* of the service command is taken as text, as host.py compares it.  What  *)
(* provide_data sends to a relation is left out.  A unit's data is the     *)
(* keys it has set, and what is rendered the units whose data was there.   *)
(***************************************************************************)
EXTENDS FiniteSets

CONSTANTS
  Services,   \* the registered services
  Units,      \* the remote units
  Required,   \* required_keys of each service's relation
  Offers,     \* the sets of keys each unit may have set for each service
  Available,  \* those the host knows
  Ports,
  Revisions,  \* what the charm's revisions give as ports of each service
  Missing,    \* no such file, nothing loaded
  Torn,       \* a file cut short
  Env         \* "callback", "ports" may raise, "service" may fail, "kill"

ASSUME ServicesAssumption ==
  /\ IsFiniteSet(Services)
  /\ Available \subseteq Services
  /\ Revisions # {} /\ Revisions \subseteq [Services -> SUBSET Ports]
  /\ Env \subseteq {"callback", "ports", "service", "kill"}
  /\ Missing # Torn /\ Missing \notin Services
  /\ \A S \in (SUBSET Services) \cup (SUBSET Ports) \cup (SUBSET Units) :
       S # Missing /\ S # Torn

VARIABLES
  ports,      \* ports of the definitions of the present revision
  relation,   \* the keys each remote unit has set for each service
  due,        \* Juju has a hook to run
  removed,    \* the unit is being removed: the last hook is stop
  opened,     \* the ports Juju has opened
  pending,    \* its open-port and close-port calls, held back until it succeeds
  readyFile,  \* READY-SERVICES.json
  portFile,   \* .<service>.ports of each service
  target,     \* the file rendered for each service
  loaded,     \* ServiceManager._ready
  context,    \* the units in the context of each service
  up,         \* the services that run
  pc,         \* where the hook is
  todo,       \* the services it has still to see
  cur,        \* the one it sees
  told        \* what each service's callbacks were told last; "unsure" if that
              \* was data_ready, and the hook was over before it was recorded

world   == <<ports, relation, due, removed>>
juju    == <<opened, pending>>
disk    == <<readyFile, portFile, target>>
process == <<loaded, context, todo, cur>>
vars    == <<world, juju, disk, process, up, pc, told>>

Steps == {"next", "dataReady", "restart", "wasReady", "dataLost", "closeOld",
          "writePorts", "setPorts", "serviceStop", "save"}

Given == UNION {Offers[s][u] : s \in Services, u \in Units}

\* What the remote units may have set, some of it before the first hook.
RelationData ==
  {d \in [Services -> [Units -> Given]] :
     \A s \in Services, u \in Units : d[s][u] \in Offers[s][u]}

NoCalls == [p \in Ports |-> "none"]

TypeOK ==
  /\ ports \in Revisions
  /\ relation \in RelationData
  /\ due \in BOOLEAN /\ removed \in BOOLEAN
  /\ opened \subseteq Ports
  /\ pending \in [Ports -> {"none", "open", "close"}]
  /\ readyFile \in {Missing, Torn} \cup SUBSET Services
  /\ portFile \in [Services -> {Missing} \cup SUBSET Ports]
  /\ target \in [Services -> {Missing, Torn} \cup SUBSET Units]
  /\ loaded \in {Missing} \cup SUBSET Services
  /\ context \in [Services -> SUBSET Units]
  /\ up \subseteq Services
  /\ pc \in Steps \cup {"idle", "failed"}
  /\ todo \subseteq Services
  /\ cur \in Services \cup {Missing}
  /\ told \in [Services -> {"lost", "ready", "unsure"}]
  /\ pc \in Steps \ {"next"} => cur \in Services

-----------------------------------------------------------------------------
(* Juju.                                                                    *)

\* RelationContext._is_ready: all of the required keys are there.
IsReady(s, u) == Required[s] \subseteq relation[s][u]

\* RelationContext.get_data.
GetData(s) == {u \in Units : IsReady(s, u)}

\* A hook starts, or a failed one is run again, in a process of its own.  The
\* contexts are read as the manager is made.
Begin ==
  /\ \/ pc = "idle" /\ due /\ due' = FALSE
     \/ pc = "failed" /\ UNCHANGED due
  /\ context' = [s \in Services |-> GetData(s)]
  /\ pc' = "next"
  /\ todo' = Services
  /\ UNCHANGED <<ports, relation, removed, juju, disk, loaded, cur, up, told>>

\* RelationContext.is_ready, for ServiceManager.is_ready.
Ready(s) == context[s] # {}

\* _load_ready_file: once in a process.
Load == IF loaded # Missing THEN loaded
        ELSE IF readyFile = Missing THEN {} ELSE readyFile

Unreadable == loaded = Missing /\ readyFile = Torn

\* The current service was told that it is ready and is not on record for it.
Unrecorded ==
  /\ pc \in {"restart", "closeOld", "writePorts", "setPorts", "save"}
  /\ ~removed /\ Ready(cur)
  /\ Unreadable \/ cur \notin Load

\* The process is gone, and so are the calls that Juju has not done.
Over ==
  /\ loaded' = Missing
  /\ context' = [s \in Services |-> {}]
  /\ todo' = {}
  /\ cur' = Missing
  /\ pending' = NoCalls
  /\ told' = IF Unrecorded THEN [told EXCEPT ![cur] = "unsure"] ELSE told

Raise ==
  /\ pc' = "failed"
  /\ Over
  /\ UNCHANGED <<world, opened, disk, up>>

\* manage returns, and Juju does what the hook asked for.
Succeed ==
  /\ pc = "next" /\ todo = {}
  /\ pc' = "idle"
  /\ opened' = {p \in Ports : \/ pending[p] = "open"
                              \/ p \in opened /\ pending[p] # "close"}
  /\ Over
  /\ UNCHANGED <<world, disk, up>>

\* Mutant: the calls of the callbacks before are lost.
CallAlone(S, verb) == pending' = [p \in S |-> verb]

\* open-port or close-port for the ports in S.
Call(S, verb) ==
  pending' = [p \in Ports |-> IF p \in S THEN verb ELSE pending[p]]

\* check_call raises where one of them fails; Juju drops those before it too.
CallFails(S) == "ports" \in Env /\ S # {} /\ Raise

Goto(l) == pc' = l

-----------------------------------------------------------------------------
(* reconfigure_services and stop_services.                                  *)

\* stop_services fires stop alone.
Pick ==
  /\ pc = "next"
  /\ \E s \in todo :
       /\ cur' = s
       /\ todo' = todo \ {s}
       /\ \/ removed /\ Goto("closeOld")
          \/ ~removed /\ Ready(s) /\ Goto("dataReady")
          \/ ~removed /\ ~Ready(s) /\ Goto("wasReady")
  /\ UNCHANGED <<world, juju, disk, loaded, context, up, told>>

\* The event the ports are managed for.
Event == IF ~removed /\ Ready(cur) THEN "start" ELSE "stop"

\* Mutant: a file that is there is left alone.
RenderOnce ==
  target' = IF target[cur] = Missing
            THEN [target EXCEPT ![cur] = context[cur]] ELSE target

\* TemplateCallback.
Render == target' = [target EXCEPT ![cur] = context[cur]]

DataReady ==
  /\ pc = "dataReady"
  /\ \/ "callback" \in Env /\ Raise
     \/ /\ Render
        /\ Goto("restart")
        /\ told' = [told EXCEPT ![cur] = "ready"]
        /\ UNCHANGED <<world, juju, readyFile, portFile, process, up>>

\* host.service, whose callers do not look at its status.
Service(result) ==
  up' \in {result} \cup (IF "service" \in Env THEN {up, up \ {cur}} ELSE {})

Known(s) == s \in Available

\* service_restart, which leaves a service that the host does not know alone.
Restart ==
  /\ pc = "restart"
  /\ Service(IF Known(cur) THEN up \cup {cur} ELSE up)
  /\ Goto("closeOld")
  /\ UNCHANGED <<world, juju, disk, process, told>>

\* Mutant: was_ready does not load the file.
WasReadyUnloaded ==
  /\ pc = "wasReady"
  /\ Goto(IF loaded # Missing /\ cur \in Load THEN "dataLost" ELSE "closeOld")
  /\ UNCHANGED <<world, juju, disk, process, up, told>>

\* was_ready; json.load raises on a file that was cut short.
WasReady ==
  /\ pc = "wasReady"
  /\ \/ Unreadable /\ Raise
     \/ /\ ~Unreadable
        /\ loaded' = Load
        /\ Goto(IF cur \in Load THEN "dataLost" ELSE "closeOld")
        /\ UNCHANGED <<world, juju, disk, context, todo, cur, up, told>>

DataLost ==
  /\ pc = "dataLost"
  /\ \/ "callback" \in Env /\ Raise
     \/ /\ Goto("closeOld")
        /\ told' = [told EXCEPT ![cur] = "lost"]
        /\ UNCHANGED <<world, juju, disk, process, up>>

\* The ports of the service's last run that are not its own now.
OldPorts == IF portFile[cur] = Missing THEN {} ELSE portFile[cur] \ ports[cur]

\* manage_ports.
CloseOld ==
  /\ pc = "closeOld"
  /\ \/ CallFails(OldPorts)
     \/ /\ Call(OldPorts, "close")
        /\ Goto("writePorts")
        /\ UNCHANGED <<world, opened, disk, process, up, told>>

WritePorts ==
  /\ pc = "writePorts"
  /\ portFile' = [portFile EXCEPT ![cur] = ports[cur]]
  /\ Goto("setPorts")
  /\ UNCHANGED <<world, juju, readyFile, target, process, up, told>>

\* Mutant: a stop closes only what it has given up.
SetPortsOpening ==
  /\ pc = "setPorts"
  /\ IF Event = "start" THEN Call(ports[cur], "open") ELSE UNCHANGED pending
  /\ Goto(IF Event = "start" THEN "save" ELSE "serviceStop")
  /\ UNCHANGED <<world, opened, disk, process, up, told>>

SetPorts ==
  /\ pc = "setPorts"
  /\ \/ CallFails(ports[cur])
     \/ /\ Call(ports[cur], IF Event = "start" THEN "open" ELSE "close")
        /\ Goto(IF Event = "start" THEN "save" ELSE "serviceStop")
        /\ UNCHANGED <<world, opened, disk, process, up, told>>

\* service_stop, the last callback of stop_services.
ServiceStop ==
  /\ pc = "serviceStop"
  /\ Service(up \ {cur})
  /\ Goto(IF removed THEN "next" ELSE "save")
  /\ UNCHANGED <<world, juju, disk, process, told>>

\* Mutant: a service is saved as ready, and never as lost.
SaveReadyOnly ==
  /\ pc = "save"
  /\ \/ Unreadable /\ Raise
     \/ /\ ~Unreadable
        /\ loaded' = IF Ready(cur) THEN Load \cup {cur} ELSE Load
        /\ readyFile' = loaded'
        /\ Goto("next")
        /\ UNCHANGED <<world, juju, portFile, target, context, todo, cur, up, told>>

\* save_ready, save_lost.
Save ==
  /\ pc = "save"
  /\ \/ Unreadable /\ Raise
     \/ /\ ~Unreadable
        /\ loaded' = IF Ready(cur) THEN Load \cup {cur} ELSE Load \ {cur}
        /\ readyFile' = loaded'
        /\ Goto("next")
        /\ UNCHANGED <<world, juju, portFile, target, context, todo, cur, up, told>>

-----------------------------------------------------------------------------
(* Around the hooks.                                                        *)

\* The hook is killed, perhaps while it writes a file.
Kill ==
  /\ "kill" \in Env
  /\ pc \in Steps
  /\ pc' = "failed"
  /\ portFile' \in {portFile} \cup
       (IF pc = "writePorts" THEN {[portFile EXCEPT ![cur] = {}]} ELSE {})
  /\ readyFile' \in {readyFile} \cup
       (IF pc = "save" /\ ~Unreadable THEN {Torn} ELSE {})
  /\ target' \in {target} \cup
       (IF pc = "dataReady" THEN {[target EXCEPT ![cur] = Torn]} ELSE {})
  /\ Over
  /\ UNCHANGED <<world, opened, up>>

Between == pc \in {"idle", "failed"} /\ ~removed

\* A remote unit joins, sets or removes keys, or departs, at any time.
DataChanges(s, u) ==
  /\ ~removed
  /\ \E K \in Offers[s][u] \ {relation[s][u]} :
       relation' = [relation EXCEPT ![s][u] = K]
  /\ due' = TRUE
  /\ UNCHANGED <<ports, removed, juju, disk, process, up, pc, told>>

\* The charm is upgraded to a revision with ports r.
Upgrade(r) ==
  /\ Between
  /\ r # ports
  /\ ports' = r
  /\ due' = TRUE
  /\ UNCHANGED <<relation, removed, juju, disk, process, up, pc, told>>

\* Juju runs stop, once the hook before it has succeeded.
Remove ==
  /\ pc = "idle" /\ ~due /\ ~removed
  /\ removed' = TRUE
  /\ due' = TRUE
  /\ UNCHANGED <<ports, relation, juju, disk, process, up, pc, told>>

Init ==
  /\ ports \in Revisions
  /\ relation \in RelationData
  /\ due = TRUE
  /\ removed = FALSE
  /\ opened = {}
  /\ pending = NoCalls
  /\ readyFile = Missing
  /\ portFile = [s \in Services |-> Missing]
  /\ target = [s \in Services |-> Missing]
  /\ loaded = Missing
  /\ context = [s \in Services |-> {}]
  /\ up = {}
  /\ pc = "idle"
  /\ todo = {}
  /\ cur = Missing
  /\ told = [s \in Services |-> "lost"]

HookStep ==
  \/ Pick \/ DataReady \/ Restart \/ WasReady \/ DataLost
  \/ CloseOld \/ WritePorts \/ SetPorts \/ ServiceStop \/ Save \/ Succeed

Next ==
  \/ Begin \/ HookStep \/ Kill
  \/ \E s \in Services, u \in Units : DataChanges(s, u)
  \/ \E r \in Revisions : Upgrade(r)
  \/ Remove

Spec == Init /\ [][Next]_vars

-----------------------------------------------------------------------------
(* Properties *)

\* The last hook succeeded and nothing has changed since.
Rested == pc = "idle" /\ ~due

Complete == {s \in Services : GetData(s) # {}}

Running == IF removed THEN {} ELSE Complete

\* Then the ports of the services are open or closed as the services run or
\* not, though Juju forgot what failed hooks had asked for.  Holds where no
\* revision gives a service the port of another.
PortsFollow ==
  Rested =>
    \A s \in Services : \A p \in ports[s] : p \in opened <=> s \in Running

\* Then the services that run, and the record of those that are ready, are
\* those whose data is there, through failed and killed hooks and their retries.
ServicesFollow ==
  Rested => /\ up = Running \cap Available
            /\ removed \/ readyFile = Complete

\* Then the file of each service that is ready is rendered from the data of now,
\* though data may come while a hook runs that has read its contexts already.
TargetsFollow ==
  Rested => \A s \in Running : target[s] = GetData(s)

StopsForItsData == ~removed /\ pc \in {"closeOld", "serviceStop"} /\ ~Ready(cur)

\* No service whose last callback was data_ready is stopped for its data without
\* data_lost, through hooks that fail, are killed and run again, where the hook
\* that called data_ready came to record it (base.py:144-157).
LostIsTold == StopsForItsData => told[cur] # "ready"

\* data_lost is called "when a 'required_data' item no longer passes" and "after
\* all of the 'data_lost' callbacks are called, the 'stop' callbacks are fired"
\* (base.py:55-58), for every service whose last callback was data_ready.
LostIsAlwaysTold == StopsForItsData => told[cur] = "lost"

\* "After all of the 'data_ready' callbacks are called, the 'start' callbacks
\* are fired" (base.py:51-52): a service comes up with its data there, and its
\* file rendered from what the hook has read of it.
StartsRendered ==
  [][\A s \in up' \ up : context[s] # {} /\ target[s] = context[s]]_vars
=============================================================================
