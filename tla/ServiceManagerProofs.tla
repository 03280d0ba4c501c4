------------------------ MODULE ServiceManagerProofs ------------------------
(***************************************************************************)
(* Proofs about ServiceManager, for any services, units, keys, ports and   *)
(* revisions: its types, that no service is stopped for its data without   *)
(* data_lost, and that services, record, rendered files and ports follow   *)
(* the data once the hooks have come to rest, whatever raised or was       *)
(* killed before.                                                          *)
(***************************************************************************)
EXTENDS ServiceManager, TLAPS

(* The process ends with nothing loaded.                                    *)
LEMMA OverTypes ==
  ASSUME TypeOK, Over
  PROVE  /\ loaded' = Missing /\ cur' = Missing /\ todo' = {}
         /\ context' \in [Services -> SUBSET Units]
         /\ pending' \in [Ports -> {"none", "open", "close"}]
         /\ told' \in [Services -> {"lost", "ready", "unsure"}]
BY DEF TypeOK, Over, NoCalls

(* What a hook that raises leaves is of its type.                           *)
LEMMA RaiseTypes ==
  ASSUME TypeOK, Raise
  PROVE  TypeOK'
BY OverTypes DEF Raise, TypeOK, Steps, world, disk

(* What remote units set is among what they may set.                        *)
LEMMA DataType ==
  ASSUME TypeOK, NEW s \in Services, NEW u \in Units, DataChanges(s, u)
  PROVE  relation' \in RelationData
<1>1. PICK K \in Offers[s][u] : relation' = [relation EXCEPT ![s][u] = K]
  BY DEF DataChanges
<1>2. /\ relation \in [Services -> [Units -> Given]]
      /\ \A t \in Services, v \in Units : relation[t][v] \in Offers[t][v]
  BY DEF TypeOK, RelationData
<1>3. K \in Given
  BY DEF Given
<1>4. relation' \in [Services -> [Units -> Given]]
  BY <1>1, <1>2, <1>3
<1>5. ASSUME NEW t \in Services, NEW v \in Units
      PROVE  relation'[t][v] \in Offers[t][v]
  <2>1. relation'[t][v] = IF t = s /\ v = u THEN K ELSE relation[t][v]
    BY <1>1, <1>2
  <2>2. QED
    BY <1>2, <2>1
<1>6. QED
  BY <1>4, <1>5 DEF RelationData

(* A step keeps the types.                                                  *)
LEMMA TypeStep == TypeOK /\ [Next]_vars => TypeOK'
<1> SUFFICES ASSUME TypeOK, [Next]_vars PROVE TypeOK'
  OBVIOUS
<1> USE DEF TypeOK, world, juju, disk, process, Goto, Steps
<1>1. CASE Begin
  BY <1>1 DEF Begin, GetData
<1>2. CASE Pick
  BY <1>2 DEF Pick
<1>3. CASE DataLost
  <2>1. CASE Raise
    BY <2>1, RaiseTypes
  <2>2. CASE ~Raise
    BY <1>3, <2>2 DEF DataLost
  <2>3. QED
    BY <2>1, <2>2
<1>4. CASE DataReady
  <2>1. CASE Raise
    BY <2>1, RaiseTypes
  <2>2. CASE Render /\ ~Raise
    <3>1. target' \in [Services -> {Missing, Torn} \cup SUBSET Units]
      BY <2>2 DEF Render
    <3>2. QED
      BY <1>4, <2>2, <3>1 DEF DataReady
  <2>3. QED
    BY <1>4, <2>1, <2>2 DEF DataReady
<1>5. CASE Restart \/ ServiceStop
  <2>1. up' \subseteq Services
    <3>1. up' \subseteq up \cup ({cur} \cap Available)
      BY <1>5 DEF Restart, ServiceStop, Service, Known
    <3>2. QED
      BY <3>1, ServicesAssumption
  <2>2. QED
    BY <1>5, <2>1 DEF Restart, ServiceStop
<1>6. CASE WasReady
  <2>1. CASE Raise
    BY <2>1, RaiseTypes
  <2>2. CASE ~Unreadable /\ ~Raise
    <3>1. Load \in SUBSET Services
      BY <2>2 DEF Load, Unreadable
    <3>2. QED
      BY <1>6, <2>2, <3>1 DEF WasReady
  <2>3. QED
    BY <1>6, <2>1, <2>2 DEF WasReady
<1>7. CASE (CloseOld \/ SetPorts) /\ ~Raise
  <2>1. \A S, v : v \in {"open", "close"} /\ Call(S, v) =>
                    pending' \in [Ports -> {"none", "open", "close"}]
    BY DEF Call
  <2>2. pending' \in [Ports -> {"none", "open", "close"}]
    BY <1>7, <2>1 DEF CloseOld, SetPorts, CallFails
  <2>3. QED
    BY <1>7, <2>2 DEF CloseOld, SetPorts, CallFails
<1>8. CASE WritePorts
  <2>1. cur \in Services => ports[cur] \in SUBSET Ports
    BY ServicesAssumption
  <2>2. portFile' \in [Services -> {Missing} \cup SUBSET Ports]
    BY <1>8, <2>1 DEF WritePorts
  <2>3. QED
    BY <1>8, <2>2 DEF WritePorts
<1>9. CASE Save
  <2>1. CASE Raise
    BY <2>1, RaiseTypes
  <2>2. CASE ~Unreadable /\ ~Raise
    <3>1. Load \in SUBSET Services
      BY <2>2 DEF Load, Unreadable
    <3>2. QED
      BY <1>9, <2>2, <3>1 DEF Save
  <2>3. QED
    BY <1>9, <2>1, <2>2 DEF Save
<1>10. CASE Succeed
  BY <1>10, OverTypes DEF Succeed
<1>11. CASE Kill
  <2>1. told' \in [Services -> {"lost", "ready", "unsure"}]
    BY <1>11, OverTypes DEF Kill
  <2>2. portFile' \in [Services -> {Missing} \cup SUBSET Ports]
    BY <1>11 DEF Kill
  <2>3. target' \in [Services -> {Missing, Torn} \cup SUBSET Units]
    BY <1>11 DEF Kill
  <2>4. readyFile' \in {Missing, Torn} \cup SUBSET Services
    BY <1>11 DEF Kill
  <2>5. QED
    BY <1>11, <2>1, <2>2, <2>3, <2>4, OverTypes DEF Kill
<1>12. ASSUME NEW s \in Services, NEW u \in Units, DataChanges(s, u)
       PROVE  TypeOK'
  BY <1>12, DataType DEF DataChanges
<1>13. ASSUME NEW r \in Revisions, Upgrade(r) PROVE TypeOK'
  BY <1>13 DEF Upgrade
<1>14. CASE Remove
  BY <1>14 DEF Remove
<1>15. CASE UNCHANGED vars
  BY <1>15 DEF vars
<1>16. CASE Raise
  BY <1>16, RaiseTypes
<1>17. QED
  BY <1>1, <1>2, <1>3, <1>4, <1>5, <1>6, <1>7, <1>8, <1>9, <1>10, <1>11,
     <1>12, <1>13, <1>14, <1>15, <1>16 DEF Next, HookStep

(* It holds initially.                                                      *)
LEMMA TypeInit == Init => TypeOK
<1> SUFFICES ASSUME Init PROVE TypeOK
  OBVIOUS
<1>1. pending \in [Ports -> {"none", "open", "close"}]
  BY DEF Init, NoCalls
<1>2. QED
  BY <1>1 DEF Init, TypeOK, Steps

(* Type correctness: whatever raises and wherever a hook is killed, the     *)
(* files, the calls and the record are of their types, and no callback is   *)
(* fired without a service.                                                 *)
THEOREM TypeCorrect == Spec => []TypeOK
BY TypeInit, TypeStep, PTL DEF Spec

-----------------------------------------------------------------------------
(* Where a hook is says what it found.                                      *)

Runs(s) == ~removed /\ Ready(s)

PathInv ==
  /\ pc \in {"dataReady", "restart"} => Runs(cur)
  /\ pc \in {"wasReady", "dataLost"} => ~removed /\ ~Ready(cur)
  /\ pc = "serviceStop" => ~Runs(cur)
  /\ pc = "save" => ~removed
  /\ pc \in Steps \ {"next"} => cur \notin todo

(* Every step keeps it: the contexts do not change while a hook runs.       *)
LEMMA PathStep ==
  ASSUME PathInv, [Next]_vars
  PROVE  PathInv'
<1> USE DEF PathInv, Runs, Ready, Goto, Steps, world, juju, disk, process
<1>1. CASE Begin
  BY <1>1 DEF Begin
<1>2. CASE HookStep
  <2>1. CASE Raise \/ Succeed
    BY <2>1 DEF Raise, Succeed
  <2>2. CASE Pick
    BY <2>2 DEF Pick
  <2>3. CASE (DataReady \/ WasReady \/ DataLost \/ Save) /\ ~Raise
    BY <2>3 DEF DataReady, WasReady, DataLost, Save
  <2>4. CASE (Restart \/ CloseOld \/ WritePorts \/ ServiceStop) /\ ~Raise
    BY <2>4 DEF Restart, CloseOld, CallFails, WritePorts, ServiceStop
  <2>5. CASE SetPorts /\ ~Raise
    BY <2>5 DEF SetPorts, CallFails, Event
  <2>6. QED
    BY <1>2, <2>1, <2>2, <2>3, <2>4, <2>5 DEF HookStep
<1>3. CASE Kill
  BY <1>3 DEF Kill
<1>4. CASE \/ \E s \in Services, u \in Units : DataChanges(s, u)
           \/ \E r \in Revisions : Upgrade(r)
           \/ Remove
           \/ UNCHANGED vars
  BY <1>4 DEF DataChanges, Upgrade, Remove, vars
<1>5. QED
  BY <1>1, <1>2, <1>3, <1>4 DEF Next

-----------------------------------------------------------------------------
(* data_lost.                                                               *)

(* Once the record is loaded it is the file.                                *)
LoadedInv == loaded # Missing =>
               /\ readyFile # Torn
               /\ loaded = IF readyFile = Missing THEN {} ELSE readyFile

(* A service that was told it is ready is on record, unless the file has    *)
(* been cut short, which stops every hook that has to read it, or is the    *)
(* one to be recorded next; one that is about to stop was told otherwise.   *)
ToldInv ==
  /\ \A s \in Services : told[s] = "ready" =>
       \/ Unreadable
       \/ s \in Load
       \/ /\ s = cur /\ Runs(cur)
          /\ pc \in {"restart", "closeOld", "writePorts", "setPorts", "save"}
  /\ /\ pc \in {"closeOld", "writePorts", "setPorts", "serviceStop", "save"}
     /\ ~removed /\ ~Ready(cur)
     => told[cur] # "ready"

LostInv == TypeOK /\ PathInv /\ LoadedInv /\ ToldInv

(* The end of a process leaves the record to its file.                      *)
LEMMA LostOver ==
  ASSUME LostInv, Over, readyFile' \in {readyFile, Torn}, UNCHANGED removed,
         pc' \in {"idle", "failed"}
  PROVE  LoadedInv' /\ ToldInv'
<1>1. LoadedInv'
  BY DEF Over, LoadedInv
<1>2. loaded' = Missing
  BY DEF Over
<1>3. ASSUME NEW s \in Services, told'[s] = "ready"
      PROVE  Unreadable' \/ (s \in Load)'
  <2>0. told[s] = "ready" /\ (s = cur => ~Unrecorded)
    BY <1>3 DEF Over, LostInv, TypeOK
  <2>1. Unreadable \/ s \in Load
    BY <2>0 DEF LostInv, ToldInv, Unrecorded, Runs
  <2>2. CASE readyFile' = Torn
    BY <1>2, <2>2 DEF Unreadable
  <2>3. CASE readyFile' = readyFile
    BY <1>2, <2>1, <2>3 DEF Unreadable, Load, LostInv, LoadedInv
  <2>4. QED
    BY <2>2, <2>3
<1>4. ToldInv'
  BY <1>3 DEF ToldInv
<1>5. QED
  BY <1>1, <1>4

(* A step that changes neither the record nor what services were told.      *)
LEMMA LostSame ==
  ASSUME LostInv, UNCHANGED <<loaded, readyFile, told, context, cur, removed>>,
         pc \in {"restart", "closeOld", "writePorts", "setPorts", "save"} /\ Runs(cur)
           => pc' \in {"restart", "closeOld", "writePorts", "setPorts", "save"},
         pc' \in {"closeOld", "writePorts", "setPorts", "serviceStop", "save"}
           => pc \in {"closeOld", "writePorts", "setPorts", "serviceStop", "save"}
              \/ Ready(cur) \/ removed
  PROVE  LoadedInv' /\ ToldInv'
BY DEF LostInv, LoadedInv, ToldInv, Unreadable, Load, Runs, Ready

(* Every step keeps it.                                                     *)
LEMMA LostStep ==
  ASSUME LostInv, [Next]_vars
  PROVE  LoadedInv' /\ ToldInv'
<1> USE DEF Goto, world, juju, disk, process
<1>1. CASE Begin
  <2>1. pc' = "next" /\ UNCHANGED <<loaded, readyFile, told>> /\ pc \notin Steps
    BY <1>1 DEF Begin, Steps
  <2>2. LoadedInv'
    BY <2>1 DEF LostInv, LoadedInv
  <2>3. ToldInv'
    BY <2>1 DEF LostInv, ToldInv, Unreadable, Load, Steps
  <2>4. QED
    BY <2>2, <2>3
<1>2. CASE Raise
  BY <1>2, LostOver DEF Raise
<1>3. CASE Succeed
  BY <1>3, LostOver DEF Succeed
<1>4. CASE Kill
  <2>1. readyFile' \in {readyFile, Torn} /\ Over /\ pc' = "failed"
    BY <1>4 DEF Kill
  <2>2. UNCHANGED removed
    BY <1>4 DEF Kill
  <2>3. QED
    BY <2>1, <2>2, LostOver
<1>5. CASE Pick
  <2>1. pc = "next" /\ UNCHANGED <<loaded, readyFile, told, removed, context>>
    BY <1>5 DEF Pick
  <2>2. pc' = "closeOld" => removed
    BY <1>5 DEF Pick
  <2>3. pc' \in {"closeOld", "dataReady", "wasReady"}
    BY <1>5 DEF Pick
  <2>4. LoadedInv'
    BY <2>1 DEF LostInv, LoadedInv
  <2>5. ToldInv'
    BY <2>1, <2>2, <2>3 DEF LostInv, ToldInv, Unreadable, Load
  <2>6. QED
    BY <2>4, <2>5
<1>6. CASE DataReady /\ ~Raise
  <2>1. /\ pc = "dataReady" /\ pc' = "restart"
        /\ told' = [told EXCEPT ![cur] = "ready"]
        /\ UNCHANGED <<loaded, readyFile, removed, context, cur>>
    BY <1>6 DEF DataReady
  <2>2. LoadedInv'
    BY <2>1 DEF LostInv, LoadedInv
  <2>3. Runs(cur) /\ Runs(cur)'
    BY <2>1 DEF LostInv, PathInv, Runs, Ready
  <2>4. \A s \in Services : told'[s] = "ready" => s = cur \/ told[s] = "ready"
    BY <2>1 DEF LostInv, TypeOK
  <2>5. ToldInv'
    BY <2>1, <2>3, <2>4 DEF LostInv, ToldInv, Unreadable, Load
  <2>6. QED
    BY <2>2, <2>5
<1>7. CASE WasReady /\ ~Raise
  <2>1. /\ pc = "wasReady" /\ loaded' = Load /\ ~Unreadable
        /\ pc' = IF cur \in Load THEN "dataLost" ELSE "closeOld"
        /\ UNCHANGED <<told, readyFile, removed, context, cur>>
    BY <1>7 DEF WasReady
  <2>2. LoadedInv'
    BY <2>1 DEF LostInv, LoadedInv, Load, Unreadable
  <2>3. Load' = Load /\ ~Unreadable'
    <3>1. Load # Missing
      BY <2>1, ServicesAssumption DEF Load, Unreadable, LostInv, TypeOK
    <3>2. QED
      BY <2>1, <3>1 DEF Load, Unreadable
  <2>4. \A s \in Services : told[s] = "ready" => s \in Load
    BY <2>1 DEF LostInv, ToldInv
  <2>5. cur \in Services
    BY <2>1 DEF LostInv, TypeOK, Steps
  <2>6. ToldInv'
    BY <2>1, <2>3, <2>4, <2>5 DEF ToldInv
  <2>7. QED
    BY <2>2, <2>6
<1>8. CASE DataLost /\ ~Raise
  <2>1. /\ pc = "dataLost" /\ pc' = "closeOld"
        /\ told' = [told EXCEPT ![cur] = "lost"]
        /\ UNCHANGED <<loaded, readyFile, removed, context, cur>>
    BY <1>8 DEF DataLost
  <2>2. LoadedInv'
    BY <2>1 DEF LostInv, LoadedInv
  <2>3. cur \in Services
    BY <2>1 DEF LostInv, TypeOK, Steps
  <2>4. \A s \in Services : told'[s] = IF s = cur THEN "lost" ELSE told[s]
    BY <2>1 DEF LostInv, TypeOK
  <2>5. ToldInv'
    BY <2>1, <2>3, <2>4 DEF LostInv, ToldInv, Unreadable, Load
  <2>6. QED
    BY <2>2, <2>5
<1>9. CASE Save /\ ~Raise
  <2>1. /\ pc = "save" /\ pc' = "next" /\ ~Unreadable
        /\ loaded' = IF Ready(cur) THEN Load \cup {cur} ELSE Load \ {cur}
        /\ readyFile' = loaded'
        /\ UNCHANGED <<told, removed, context, cur>>
    BY <1>9 DEF Save
  <2>2. cur \in Services /\ ~removed
    BY <2>1 DEF LostInv, TypeOK, PathInv, Steps
  <2>3. loaded' \in SUBSET Services
    BY <2>1, <2>2 DEF LostInv, TypeOK, Load, Unreadable
  <2>4. loaded' # Missing /\ loaded' # Torn
    BY <2>3, ServicesAssumption
  <2>5. LoadedInv'
    BY <2>1, <2>4 DEF LoadedInv
  <2>6. Load' = loaded'
    BY <2>4 DEF Load
  <2>7. \A s \in Services : told[s] = "ready" => s \in Load \/ (s = cur /\ Ready(cur))
    BY <2>1 DEF LostInv, ToldInv, Runs
  <2>8. ~Ready(cur) => told[cur] # "ready"
    BY <2>1, <2>2 DEF LostInv, ToldInv
  <2>9. \A s \in Services : told'[s] = "ready" => s \in Load'
    BY <2>1, <2>6, <2>7, <2>8
  <2>10. ToldInv'
    BY <2>1, <2>9 DEF ToldInv
  <2>11. QED
    BY <2>5, <2>10
<1>10. CASE (Restart \/ CloseOld \/ WritePorts \/ SetPorts \/ ServiceStop) /\ ~Raise
  <2>1. UNCHANGED <<loaded, readyFile, told, context, cur, removed>>
    BY <1>10 DEF Restart, CloseOld, CallFails, WritePorts, SetPorts, ServiceStop
  <2>2. CASE Restart
    BY <2>1, <2>2, LostSame DEF Restart, LostInv, PathInv, Runs
  <2>3. CASE CloseOld \/ WritePorts
    BY <1>10, <2>1, <2>3, LostSame DEF CloseOld, CallFails, WritePorts
  <2>4. CASE SetPorts
    BY <1>10, <2>1, <2>4, LostSame DEF SetPorts, CallFails, Event, Runs
  <2>5. CASE ServiceStop
    BY <2>1, <2>5, LostSame DEF ServiceStop, LostInv, PathInv
  <2>6. QED
    BY <1>10, <2>2, <2>3, <2>4, <2>5
<1>11. CASE \/ \E s \in Services, u \in Units : DataChanges(s, u)
            \/ \E r \in Revisions : Upgrade(r)
            \/ UNCHANGED vars
  BY <1>11, LostSame DEF DataChanges, Upgrade, vars
<1>12. CASE Remove
  <2>1. pc = "idle" /\ UNCHANGED <<loaded, readyFile, told, pc>>
    BY <1>12 DEF Remove
  <2>2. QED
    BY <2>1 DEF LostInv, LoadedInv, ToldInv, Unreadable, Load
<1>13. QED
  BY <1>1, <1>2, <1>3, <1>4, <1>5, <1>6, <1>7, <1>8, <1>9, <1>10, <1>11, <1>12
     DEF Next, HookStep

LEMMA LostInit == Init => LostInv
BY TypeInit DEF Init, LostInv, PathInv, LoadedInv, ToldInv, Steps

LEMMA LostInvariant == Spec => []LostInv
<1>1. LostInv /\ [Next]_vars => LostInv'
  BY TypeStep, PathStep, LostStep DEF LostInv
<1>2. QED
  BY <1>1, LostInit, PTL DEF Spec

(* No service whose last callback was data_ready, in a hook that came to    *)
(* record it, is stopped for its data without data_lost, through hooks that *)
(* fail at any step, kills and files cut short.                             *)
THEOREM LosersAreTold == Spec => []LostIsTold
<1>1. LostInv => LostIsTold
  BY DEF LostInv, ToldInv, LostIsTold, StopsForItsData
<1>2. QED
  BY <1>1, LostInvariant, PTL

-----------------------------------------------------------------------------
(* What a hook has done with the services it has been through.              *)

Past(s) == s \notin todo /\ (s # cur \/ pc = "next")

(* A step of the hook adds none but the one that is saved or stopped.       *)
LEMMA PastStep ==
  ASSUME LostInv, HookStep, NEW s \in Services, Past(s)', pc' \in Steps
  PROVE  \/ Past(s) /\ (s # cur' \/ pc' = "next")
         \/ /\ s = cur /\ UNCHANGED cur
            /\ pc \in {"serviceStop", "save"} /\ pc' = "next"
<1> USE DEF Past, process, Goto
<1>1. CASE Pick
  BY <1>1 DEF Pick
<1>2. CASE Raise \/ Succeed
  BY <1>2 DEF Raise, Succeed, Steps
<1>3. CASE (DataReady \/ WasReady \/ DataLost \/ Save) /\ ~Raise
  BY <1>3 DEF DataReady, WasReady, DataLost, Save
<1>4. CASE (Restart \/ CloseOld \/ WritePorts \/ SetPorts \/ ServiceStop) /\ ~Raise
  BY <1>4 DEF Restart, CloseOld, CallFails, WritePorts, SetPorts, ServiceStop
<1>5. QED
  BY <1>1, <1>2, <1>3, <1>4 DEF HookStep

(* The contexts are the data of now unless a hook is due.                   *)
ContextInv == pc \in Steps /\ ~due => \A s \in Services : context[s] = GetData(s)

LEMMA ContextStep ==
  ASSUME ContextInv, [Next]_vars
  PROVE  ContextInv'
<1> USE DEF ContextInv, world, process, Goto
<1>1. CASE Begin
  BY <1>1 DEF Begin, GetData, IsReady
<1>2. CASE HookStep /\ pc' \in Steps
  <2>1. UNCHANGED <<context, relation, due>> /\ pc \in Steps
    BY <1>2 DEF HookStep, Pick, DataReady, Restart, WasReady, DataLost, CloseOld,
       CallFails, WritePorts, SetPorts, ServiceStop, Save, Succeed, Raise, Steps
  <2>2. QED
    BY <2>1 DEF GetData, IsReady
<1>3. CASE pc' \notin Steps
  BY <1>3
<1>4. CASE \/ \E s \in Services, u \in Units : DataChanges(s, u)
           \/ \E r \in Revisions : Upgrade(r)
           \/ Remove
  BY <1>4 DEF DataChanges, Upgrade, Remove
<1>5. CASE UNCHANGED vars
  BY <1>5 DEF vars, GetData, IsReady
<1>6. QED
  BY <1>1, <1>2, <1>3, <1>4, <1>5 DEF Next, Kill, Steps

(* A service that is ready is there when nothing has changed.               *)
LEMMA Contexts ==
  ASSUME ContextInv, pc \in Steps, ~due, NEW s \in Services
  PROVE  Runs(s) <=> s \in Running
BY DEF ContextInv, Runs, Ready, Running, Complete

-----------------------------------------------------------------------------
(* The services that run.                                                   *)

UpInv ==
  /\ up \subseteq Available
  /\ pc \in Steps =>
       \A s \in Services : Past(s) => (s \in up <=> Runs(s) /\ s \in Available)
  /\ pc \in {"closeOld", "writePorts", "setPorts"} /\ Runs(cur)
       => (cur \in up <=> cur \in Available)
  /\ pc = "save" => (cur \in up <=> Runs(cur) /\ cur \in Available)

(* And, when they have been saved, the record.                              *)
RecordInv ==
  pc \in Steps /\ ~removed =>
    \A s \in Services : Past(s) =>
      loaded # Missing /\ readyFile = loaded /\ (s \in loaded <=> Ready(s))

(* Starts and stops have the state that their callers count on.             *)
LEMMA ServiceResult ==
  ASSUME "service" \notin Env, NEW S, Service(S)
  PROVE  up' = S
BY DEF Service

(* A step that leaves the services alone.                                   *)
LEMMA UpSame ==
  ASSUME LostInv, UpInv, UNCHANGED <<up, context, removed>>, HookStep, pc' \in Steps,
         pc' \in {"closeOld", "writePorts", "setPorts"} /\ ~removed
           => /\ cur' = cur
              /\ pc \in {"closeOld", "writePorts"} \/ ~Ready(cur),
         pc' = "save" => /\ cur' = cur
                         /\ pc = "setPorts" /\ Runs(cur),
         pc' = "next" => cur' = cur /\ pc = "save"
  PROVE  UpInv'
<1> USE DEF UpInv, Runs, Ready
<1>1. \A s \in Services : Past(s)' => (s \in up <=> Runs(s) /\ s \in Available)
  <2> SUFFICES ASSUME NEW s \in Services, Past(s)'
               PROVE  s \in up <=> Runs(s) /\ s \in Available
    OBVIOUS
  <2>1. CASE Past(s)
    <3>1. pc \in Steps
      BY DEF HookStep, Pick, DataReady, Restart, WasReady, DataLost, CloseOld,
         CallFails, WritePorts, SetPorts, ServiceStop, Save, Succeed, Steps
    <3>2. QED
      BY <2>1, <3>1
  <2>2. CASE s = cur /\ pc' = "next"
    BY <2>2
  <2>3. QED
    BY <2>1, <2>2, PastStep
<1>2. QED
  BY <1>1

(* Every step keeps UpInv, where the service command works.                 *)
LEMMA UpStep ==
  ASSUME "service" \notin Env, LostInv, UpInv, [Next]_vars
  PROVE  UpInv'
<1> USE DEF Goto, world, juju, disk, process, Runs, Ready
<1>1. CASE Begin
  <2>1. \A s \in Services : ~Past(s)'
    BY <1>1 DEF Begin, Past
  <2>2. QED
    BY <1>1, <2>1 DEF Begin, UpInv
<1>2. CASE pc' \notin Steps /\ UNCHANGED up
  BY <1>2 DEF UpInv, Steps
<1>3. CASE Pick
  <2>1. pc' \in {"closeOld", "dataReady", "wasReady"} /\ (pc' = "closeOld" => removed)
    BY <1>3 DEF Pick
  <2>2. QED
    BY <1>3, <2>1, UpSame DEF Pick, HookStep, Steps
<1>4. CASE (DataReady \/ WasReady \/ DataLost) /\ pc' \in Steps
  <2>1. /\ UNCHANGED <<up, context, removed, cur>>
        /\ pc' = "closeOld" => ~Ready(cur)
        /\ pc' \in {"restart", "dataLost", "closeOld"}
    BY <1>4 DEF DataReady, WasReady, DataLost, LostInv, PathInv, Raise, Steps
  <2>2. QED
    BY <1>4, <2>1, UpSame DEF HookStep
<1>5. CASE Restart
  <2>1. /\ pc = "restart" /\ pc' = "closeOld" /\ Runs(cur)
        /\ up' = IF cur \in Available THEN up \cup {cur} ELSE up
        /\ UNCHANGED <<context, removed, cur, todo>>
    BY <1>5, ServiceResult DEF Restart, Known, LostInv, PathInv
  <2>2. up' \subseteq Available /\ (cur \in up' <=> cur \in Available)
    BY <2>1 DEF UpInv
  <2>3. \A s \in Services : Past(s)' => (s \in up' <=> Runs(s) /\ s \in Available)
    BY <2>1 DEF UpInv, Past, Steps
  <2>4. QED
    BY <2>1, <2>2, <2>3 DEF UpInv
<1>6. CASE (CloseOld \/ WritePorts) /\ pc' \in Steps
  <2>1. /\ UNCHANGED <<up, context, removed, cur>>
        /\ pc \in {"closeOld", "writePorts"} /\ pc' \in {"writePorts", "setPorts"}
    BY <1>6 DEF CloseOld, CallFails, Raise, WritePorts, Steps
  <2>2. QED
    BY <1>6, <2>1, UpSame DEF HookStep, Steps
<1>7. CASE SetPorts /\ pc' \in Steps
  <2>1. /\ UNCHANGED <<up, context, removed, cur>>
        /\ pc = "setPorts"
        /\ \/ pc' = "save" /\ Runs(cur)
           \/ pc' = "serviceStop"
    BY <1>7 DEF SetPorts, CallFails, Raise, Event, Steps
  <2>2. QED
    BY <1>7, <2>1, UpSame DEF HookStep, Steps
<1>8. CASE ServiceStop
  <2>1. /\ pc = "serviceStop" /\ pc' \in {"next", "save"} /\ ~Runs(cur)
        /\ up' = up \ {cur}
        /\ UNCHANGED <<context, removed, cur, todo>>
    BY <1>8, ServiceResult DEF ServiceStop, LostInv, PathInv
  <2>2. \A s \in Services : Past(s)' => (s \in up' <=> Runs(s) /\ s \in Available)
    BY <2>1 DEF UpInv, Past, Steps
  <2>3. QED
    BY <2>1, <2>2 DEF UpInv
<1>9. CASE Save /\ pc' \in Steps
  <2>1. /\ pc = "save" /\ pc' = "next"
        /\ UNCHANGED <<up, context, removed, cur>>
    BY <1>9 DEF Save, Raise, Steps
  <2>2. QED
    BY <1>9, <2>1, UpSame DEF HookStep
<1>10. CASE UNCHANGED <<up, context, removed, cur, todo, pc>>
  BY <1>10 DEF UpInv, Past
<1>11. CASE Remove
  BY <1>11 DEF Remove, UpInv, Steps
<1>12. QED
  <2>1. CASE Raise \/ Succeed \/ Kill
    BY <1>2, <2>1 DEF Raise, Succeed, Kill, Steps
  <2>2. CASE HookStep /\ ~Raise /\ ~Succeed
    <3>1. DataReady \/ WasReady \/ DataLost \/ CloseOld \/ WritePorts
            \/ SetPorts \/ Save => pc' \in Steps
      BY <2>2 DEF DataReady, WasReady, DataLost, CloseOld, CallFails, WritePorts,
         SetPorts, Save, Steps
    <3>2. QED
      BY <1>3, <1>4, <1>5, <1>6, <1>7, <1>8, <1>9, <2>2, <3>1 DEF HookStep
  <2>3. CASE \/ \E s \in Services, u \in Units : DataChanges(s, u)
             \/ \E r \in Revisions : Upgrade(r)
             \/ UNCHANGED vars
    BY <1>10, <2>3 DEF DataChanges, Upgrade, vars
  <2>4. QED
    BY <1>1, <1>11, <2>1, <2>2, <2>3 DEF Next

(* Every step keeps RecordInv.                                              *)
LEMMA RecordStep ==
  ASSUME LostInv, RecordInv, [Next]_vars
  PROVE  RecordInv'
<1> USE DEF Goto, world, juju, disk, process, Ready
<1>1. CASE pc' \notin Steps
  BY <1>1 DEF RecordInv
<1>2. CASE Begin
  BY <1>2 DEF Begin, Past, RecordInv
<1>3. CASE (WasReady \/ Save) /\ pc' \in Steps
  <2> SUFFICES ASSUME ~removed, NEW s \in Services, Past(s)'
               PROVE  loaded' # Missing /\ readyFile' = loaded'
                      /\ (s \in loaded' <=> Ready(s))
    BY <1>3 DEF RecordInv, WasReady, Save, Raise, Steps
  <2>1. ~Unreadable /\ Load \in SUBSET Services /\ Load # Missing
    BY <1>3, ServicesAssumption
       DEF WasReady, Save, Raise, Steps, LostInv, TypeOK, Load, Unreadable
  <2>2. pc \in Steps /\ HookStep
    BY <1>3 DEF WasReady, Save, HookStep, Steps
  <2>3. Past(s) => loaded # Missing /\ readyFile = loaded /\ Load = loaded
                   /\ (s \in loaded <=> Ready(s))
    BY <2>2 DEF RecordInv, Load
  <2>4. CASE WasReady
    <3>1. loaded' = Load /\ readyFile' = readyFile /\ pc' # "next"
      BY <1>3, <2>4 DEF WasReady, Raise, Steps
    <3>2. Past(s)
      BY <2>2, <3>1, PastStep, <1>3
    <3>3. QED
      BY <2>3, <3>1, <3>2
  <2>5. CASE Save
    <3>1. /\ loaded' = IF Ready(cur) THEN Load \cup {cur} ELSE Load \ {cur}
          /\ readyFile' = loaded' /\ cur \in Services
          /\ pc = "save"
      BY <1>3, <2>5 DEF Save, Raise, Steps, LostInv, TypeOK
    <3>2. loaded' \in SUBSET Services
      BY <2>1, <3>1
    <3>3. loaded' # Missing
      BY <3>2, ServicesAssumption
    <3>4. s = cur \/ Past(s)
      BY <1>3, <2>2, PastStep
    <3>5. s \in loaded' <=> Ready(s)
      BY <2>3, <3>1, <3>4
    <3>6. QED
      BY <3>1, <3>3, <3>5
  <2>6. QED
    BY <1>3, <2>4, <2>5
<1>4. CASE /\ HookStep /\ pc' \in Steps
           /\ UNCHANGED <<loaded, readyFile, context, removed>>
           /\ pc # "save" /\ (pc = "serviceStop" => removed \/ pc' # "next")
  <2> SUFFICES ASSUME ~removed, NEW s \in Services, Past(s)'
               PROVE  loaded # Missing /\ readyFile = loaded
                      /\ (s \in loaded <=> Ready(s))
    BY <1>4 DEF RecordInv
  <2>1. Past(s)
    BY <1>4, PastStep
  <2>2. pc \in Steps
    BY <1>4 DEF HookStep, Pick, DataReady, Restart, WasReady, DataLost, CloseOld,
       CallFails, WritePorts, SetPorts, ServiceStop, Save, Succeed, Steps
  <2>3. QED
    BY <1>4, <2>1, <2>2 DEF RecordInv
<1>5. CASE UNCHANGED <<loaded, readyFile, context, removed, cur, todo, pc>>
  BY <1>5 DEF RecordInv, Past
<1>6. CASE Remove
  BY <1>6 DEF Remove, RecordInv
<1>7. QED
  <2>1. CASE Raise \/ Succeed \/ Kill
    BY <1>1, <2>1 DEF Raise, Succeed, Kill, Steps
  <2>2. CASE HookStep /\ pc' \in Steps
    <3>1. CASE Pick \/ DataReady \/ Restart \/ DataLost
      BY <1>4, <2>2, <3>1 DEF Pick, DataReady, Restart, DataLost, Raise, Steps
    <3>2. CASE CloseOld \/ WritePorts \/ SetPorts \/ ServiceStop
      BY <1>4, <2>2, <3>2
         DEF CloseOld, CallFails, Raise, WritePorts, SetPorts, ServiceStop, Steps
    <3>3. QED
      BY <1>3, <2>2, <3>1, <3>2 DEF HookStep, Succeed, Steps
  <2>3. CASE \/ \E s \in Services, u \in Units : DataChanges(s, u)
             \/ \E r \in Revisions : Upgrade(r)
             \/ UNCHANGED vars
    BY <1>5, <2>3 DEF DataChanges, Upgrade, vars
  <2>4. QED
    BY <1>1, <1>2, <1>6, <2>1, <2>2, <2>3 DEF Next

(* When the hooks come to rest.                                             *)
LEMMA SucceedRest ==
  ASSUME LostInv, ContextInv, Succeed, ~due'
  PROVE  /\ \A s \in Services : Past(s) /\ (Runs(s) <=> s \in Running)
         /\ pc \in Steps /\ Running' = Running /\ Complete' = Complete
BY Contexts DEF Succeed, Past, world, Steps, Running, Complete, GetData, IsReady

(* A step that does not end a hook well and leaves the unit at rest changes *)
(* nothing that was at rest.                                                *)
LEMMA RestSame ==
  ASSUME [Next]_vars, Rested', ~Succeed
  PROVE  /\ Rested
         /\ UNCHANGED <<ports, removed, opened, readyFile, target, up>>
         /\ Complete' = Complete /\ Running' = Running
         /\ \A s \in Services : GetData(s)' = GetData(s)
<1> USE DEF Rested, world, juju, disk, process, Goto
<1>1. ~HookStep
  BY DEF HookStep, Pick, DataReady, Restart, WasReady, DataLost, CloseOld,
     CallFails, WritePorts, SetPorts, ServiceStop, Save, Raise
<1>2. UNCHANGED vars
  BY <1>1 DEF Next, Begin, Kill, DataChanges, Upgrade, Remove
<1>3. QED
  BY <1>2 DEF vars, Complete, Running, GetData, IsReady

(* The services that run, and the record, are those whose data is there     *)
(* once the hooks have come to rest, where the service command works.       *)
THEOREM ServicesAreFollowed ==
  ASSUME "service" \notin Env, Services # {}
  PROVE  Spec => []ServicesFollow
<1> DEFINE Inv == /\ LostInv /\ ContextInv /\ UpInv /\ RecordInv
                  /\ ServicesFollow
<1>1. Init => Inv
  BY LostInit DEF Init, ContextInv, UpInv, RecordInv, ServicesFollow, Rested, Steps
<1>2. LostInv /\ ContextInv /\ UpInv /\ RecordInv /\ Succeed => ServicesFollow'
  <2> SUFFICES ASSUME LostInv, ContextInv, UpInv, RecordInv, Succeed, ~due'
               PROVE  /\ up' = Running' \cap Available
                      /\ removed' \/ readyFile' = Complete'
    BY DEF ServicesFollow, Rested
  <2>1. UNCHANGED <<up, removed, readyFile>>
    BY DEF Succeed, world, disk
  <2>2. up = Running \cap Available
    <3>1. up \subseteq Services
      BY DEF LostInv, TypeOK
    <3>2. \A s \in Services : s \in up <=> s \in Running \cap Available
      BY SucceedRest DEF UpInv
    <3>3. Running \subseteq Services
      BY DEF Running, Complete
    <3>4. QED
      BY <3>1, <3>2, <3>3
  <2>3. ASSUME ~removed PROVE readyFile = Complete
    <3>1. ASSUME NEW s \in Services
          PROVE  /\ loaded # Missing /\ readyFile = loaded
                 /\ (s \in loaded <=> s \in Running)
      BY <2>3, SucceedRest DEF RecordInv, Runs
    <3>2. readyFile = loaded /\ loaded \subseteq Services
      <4>1. PICK s \in Services : TRUE
        OBVIOUS
      <4>2. loaded # Missing /\ readyFile = loaded
        BY <3>1, <4>1
      <4>3. QED
        BY <4>2 DEF LostInv, TypeOK
    <3>3. Running = Complete /\ Complete \subseteq Services
      BY <2>3 DEF Running, Complete
    <3>4. QED
      BY <3>1, <3>2, <3>3
  <2>4. QED
    BY <2>1, <2>2, <2>3, SucceedRest
<1>3. Inv /\ [Next]_vars => ServicesFollow'
  <2> SUFFICES ASSUME Inv, [Next]_vars PROVE ServicesFollow'
    OBVIOUS
  <2>1. CASE Succeed
    BY <1>2, <2>1
  <2>2. CASE ~Succeed
    BY <2>2, RestSame DEF ServicesFollow
  <2>3. QED
    BY <2>1, <2>2
<1>4. LostInv /\ ContextInv /\ UpInv /\ RecordInv /\ [Next]_vars
        => ContextInv' /\ UpInv' /\ RecordInv'
  BY ContextStep, UpStep, RecordStep
<1>5. QED
  BY <1>1, <1>3, <1>4, LostInvariant, PTL DEF Spec

-----------------------------------------------------------------------------
(* The files that are rendered.                                             *)

TargetInv ==
  /\ pc \in Steps =>
       \A s \in Services : Past(s) /\ Runs(s) => target[s] = context[s]
  /\ pc \in {"restart", "closeOld", "writePorts", "setPorts", "save"} /\ Runs(cur)
       => target[cur] = context[cur]

(* Every step keeps it: a service is rendered before it is restarted.       *)
LEMMA TargetStep ==
  ASSUME LostInv, TargetInv, [Next]_vars
  PROVE  TargetInv'
<1> USE DEF Goto, world, juju, disk, process, Runs, Ready
<1>1. CASE pc' \notin Steps
  BY <1>1 DEF TargetInv, Steps
<1>2. CASE Begin
  BY <1>2 DEF Begin, Past, TargetInv
<1>3. CASE DataReady /\ pc' \in Steps
  <2>1. /\ pc = "dataReady" /\ pc' = "restart" /\ cur \in Services
        /\ target' = [target EXCEPT ![cur] = context[cur]]
        /\ UNCHANGED <<context, removed, cur, todo>>
    BY <1>3 DEF DataReady, Render, Raise, Steps, LostInv, TypeOK
  <2>2. \A s \in Services : target'[s] = IF s = cur THEN context[s] ELSE target[s]
    BY <2>1 DEF LostInv, TypeOK
  <2>3. QED
    BY <2>1, <2>2 DEF TargetInv, Past, Steps
<1>4. CASE /\ HookStep /\ pc' \in Steps
           /\ UNCHANGED <<target, context, removed>>
           /\ pc' \in {"restart", "closeOld", "writePorts", "setPorts", "save"}
                => \/ removed
                   \/ /\ cur' = cur
                      /\ \/ pc \in {"restart", "closeOld", "writePorts", "setPorts"}
                         \/ ~Ready(cur)
           /\ pc' = "next" => /\ cur' = cur
                              /\ pc = "save" \/ ~Runs(cur)
  <2>1. pc \in Steps
    BY <1>4 DEF HookStep, Pick, DataReady, Restart, WasReady, DataLost, CloseOld,
       CallFails, WritePorts, SetPorts, ServiceStop, Save, Succeed, Steps
  <2>2. ASSUME NEW s \in Services, Past(s)', Runs(s) PROVE target[s] = context[s]
    <3>1. CASE Past(s)
      BY <2>1, <2>2, <3>1 DEF TargetInv
    <3>2. CASE s = cur /\ pc = "save"
      BY <2>2, <3>2 DEF TargetInv
    <3>3. QED
      BY <1>4, <2>2, <3>1, <3>2, PastStep
  <2>3. QED
    BY <1>4, <2>2 DEF TargetInv
<1>5. CASE UNCHANGED <<target, context, removed, cur, todo, pc>>
  BY <1>5 DEF TargetInv, Past
<1>6. CASE Remove
  BY <1>6 DEF Remove, TargetInv
<1>7. QED
  <2>1. CASE Raise \/ Succeed \/ Kill
    BY <1>1, <2>1 DEF Raise, Succeed, Kill, Steps
  <2>2. CASE HookStep /\ pc' \in Steps
    <3>1. CASE Pick \/ Restart
      BY <1>4, <2>2, <3>1 DEF Pick, Restart
    <3>2. CASE WasReady \/ DataLost
      BY <1>4, <2>2, <3>2 DEF WasReady, DataLost, Raise, Steps, LostInv, PathInv
    <3>3. CASE CloseOld \/ WritePorts \/ SetPorts
      BY <1>4, <2>2, <3>3 DEF CloseOld, CallFails, Raise, WritePorts, SetPorts, Steps
    <3>4. CASE ServiceStop \/ Save
      BY <1>4, <2>2, <3>4 DEF ServiceStop, Save, Raise, Steps, LostInv, PathInv
    <3>5. QED
      BY <1>3, <2>2, <3>1, <3>2, <3>3, <3>4 DEF HookStep, Succeed, Steps
  <2>3. CASE \/ \E s \in Services, u \in Units : DataChanges(s, u)
             \/ \E r \in Revisions : Upgrade(r)
             \/ UNCHANGED vars
    BY <1>5, <2>3 DEF DataChanges, Upgrade, vars
  <2>4. QED
    BY <1>1, <1>2, <1>6, <2>1, <2>2, <2>3 DEF Next

(* The file of a service that runs is rendered from the data of now, though *)
(* a hook may have read its contexts before that data came.                 *)
THEOREM TargetsAreFollowed == Spec => []TargetsFollow
<1> DEFINE Inv == LostInv /\ ContextInv /\ TargetInv /\ TargetsFollow
<1>1. Init => Inv
  BY LostInit DEF Init, ContextInv, TargetInv, TargetsFollow, Rested, Steps
<1>2. Inv /\ [Next]_vars => TargetsFollow'
  <2> SUFFICES ASSUME Inv, [Next]_vars, Rested', NEW s \in Running'
               PROVE  target'[s] = GetData(s)'
    BY DEF TargetsFollow
  <2>1. CASE Succeed
    <3>1. s \in Running /\ s \in Services /\ Past(s) /\ Runs(s) /\ pc \in Steps
      BY <2>1, SucceedRest DEF Rested, Running, Complete
    <3>2. target[s] = context[s] /\ ~due
      BY <2>1, <3>1 DEF TargetInv, Succeed, world, Rested
    <3>3. context[s] = GetData(s)
      BY <3>1, <3>2 DEF ContextInv
    <3>4. target' = target /\ GetData(s)' = GetData(s)
      BY <2>1 DEF Succeed, disk, world, GetData, IsReady
    <3>5. QED
      BY <3>2, <3>3, <3>4
  <2>2. CASE ~Succeed
    <3>1. s \in Services
      BY DEF Running, Complete
    <3>2. QED
      BY <2>2, <3>1, RestSame DEF TargetsFollow
  <2>3. QED
    BY <2>1, <2>2
<1>3. LostInv /\ ContextInv /\ TargetInv /\ [Next]_vars => ContextInv' /\ TargetInv'
  BY ContextStep, TargetStep
<1>4. QED
  BY <1>1, <1>2, <1>3, LostInvariant, PTL DEF Spec

(* A service comes up only where its data is there and its file has been    *)
(* rendered from it in the same hook, whatever failed before.               *)
THEOREM StartsAreRendered == Spec => StartsRendered
<1>1. /\ LostInv /\ TargetInv /\ [Next]_vars
      => \A s \in up' \ up : context[s] # {} /\ target[s] = context[s]
  <2> SUFFICES ASSUME LostInv, TargetInv, [Next]_vars, NEW s \in up' \ up
               PROVE  context[s] # {} /\ target[s] = context[s]
    OBVIOUS
  <2>1. CASE Restart
    <3>1. s = cur /\ pc = "restart"
      BY <2>1 DEF Restart, Service
    <3>2. Runs(cur)
      BY <3>1 DEF LostInv, PathInv
    <3>3. QED
      BY <3>1, <3>2 DEF TargetInv, Runs, Ready
  <2>2. CASE ~Restart
    <3>1. CASE HookStep
      BY <2>2, <3>1 DEF HookStep, Pick, DataReady, WasReady, DataLost, CloseOld,
         CallFails, WritePorts, SetPorts, ServiceStop, Service, Save, Succeed, Raise
    <3>2. CASE ~HookStep
      BY <3>2 DEF Next, Begin, Kill, DataChanges, Upgrade, Remove, vars
    <3>3. QED
      BY <3>1, <3>2
  <2>3. QED
    BY <2>1, <2>2
<1>2. Init => TargetInv
  BY DEF Init, TargetInv, Steps
<1>3. LostInv /\ TargetInv /\ [Next]_vars => TargetInv'
  BY TargetStep
<1>4. QED
  BY <1>1, <1>2, <1>3, LostInvariant, PTL DEF Spec, StartsRendered

-----------------------------------------------------------------------------
(* The ports.                                                               *)

(* The ports that some revision gives a service; Disjoint: no revision      *)
(* gives a service a port that one gives another service.                   *)
PortsOf(s) == UNION {r[s] : r \in Revisions}
Disjoint   == \A s, t \in Services : s # t => PortsOf(s) \cap PortsOf(t) = {}

Verb(s) == IF Runs(s) THEN "open" ELSE "close"

PortInv ==
  /\ \A s \in Services : portFile[s] = Missing \/ portFile[s] \subseteq PortsOf(s)
  /\ pc \in Steps =>
       \A s \in Services : \A p \in ports[s] : Past(s) => pending[p] = Verb(s)
  /\ pc \in {"serviceStop", "save"} =>
       \A p \in ports[cur] : pending[p] = Verb(cur)

(* The ports of the present revision are some of them.                      *)
LEMMA PortsNow ==
  ASSUME TypeOK, NEW s \in Services
  PROVE  ports[s] \subseteq PortsOf(s) /\ ports[s] \subseteq Ports
BY ServicesAssumption DEF TypeOK, PortsOf

(* Calls for ports of one service are none for those of another.            *)
LEMMA CallOther ==
  ASSUME TypeOK, Disjoint, NEW s \in Services, NEW t \in Services, s # t,
         NEW S \in SUBSET PortsOf(t), NEW v, Call(S, v), NEW p \in ports[s]
  PROVE  pending'[p] = pending[p]
BY PortsNow DEF Disjoint, Call

(* Every step keeps it.                                                     *)
LEMMA PortStep ==
  ASSUME Disjoint, LostInv, PortInv, [Next]_vars
  PROVE  PortInv'
<1> USE DEF Goto, world, juju, disk, process, Runs, Ready, Verb
<1>1. CASE Raise \/ Succeed
  BY <1>1 DEF Raise, Succeed, PortInv, Steps
<1>2. CASE Kill
  <2>1. pc' = "failed"
    BY <1>2 DEF Kill
  <2>2. \A s \in Services : portFile'[s] = portFile[s] \/ portFile'[s] = {}
    BY <1>2 DEF Kill, LostInv, TypeOK
  <2>3. QED
    BY <2>1, <2>2 DEF PortInv, Steps
<1>3. CASE Begin
  BY <1>3 DEF Begin, Past, PortInv
<1>4. CASE CloseOld /\ ~Raise
  <2>1. /\ pc = "closeOld" /\ pc' = "writePorts" /\ cur \in Services
        /\ Call(OldPorts, "close")
        /\ UNCHANGED <<portFile, ports, context, removed, cur, todo>>
    BY <1>4 DEF CloseOld, CallFails, LostInv, TypeOK, Steps
  <2>2. ASSUME NEW s \in Services, NEW p \in ports[s], Past(s)'
        PROVE  pending'[p] = Verb(s)
    <3>1. Past(s) /\ s # cur
      BY <2>1, <2>2 DEF Past
    <3>2. pending[p] = Verb(s)
      BY <2>1, <2>2, <3>1 DEF PortInv, Steps
    <3>3. OldPorts \in SUBSET PortsOf(cur)
      BY <2>1 DEF PortInv, OldPorts
    <3>4. pending'[p] = pending[p]
      BY <2>1, <3>1, <3>3, CallOther DEF LostInv
    <3>5. QED
      BY <3>2, <3>4
  <2>3. QED
    BY <2>1, <2>2 DEF PortInv
<1>5. CASE WritePorts
  <2>1. /\ pc = "writePorts" /\ pc' = "setPorts" /\ cur \in Services
        /\ portFile' = [portFile EXCEPT ![cur] = ports[cur]]
        /\ UNCHANGED <<pending, ports, context, removed, cur, todo>>
    BY <1>5 DEF WritePorts, LostInv, TypeOK, Steps
  <2>2. \A s \in Services : portFile'[s] = Missing \/ portFile'[s] \subseteq PortsOf(s)
    BY <2>1, PortsNow DEF LostInv, TypeOK, PortInv
  <2>3. QED
    BY <2>1, <2>2 DEF PortInv, Past, Steps
<1>6. CASE SetPorts /\ ~Raise
  <2>1. /\ pc = "setPorts" /\ pc' \in {"save", "serviceStop"} /\ cur \in Services
        /\ Call(ports[cur], Verb(cur))
        /\ UNCHANGED <<portFile, ports, context, removed, cur, todo>>
    BY <1>6 DEF SetPorts, CallFails, Event, LostInv, TypeOK, Steps
  <2>2. \A p \in ports[cur] : pending'[p] = Verb(cur)
    BY <2>1, PortsNow DEF Call, LostInv
  <2>3. ASSUME NEW s \in Services, NEW p \in ports[s], Past(s)'
        PROVE  pending'[p] = Verb(s)
    <3>1. Past(s) /\ s # cur
      BY <2>1, <2>3 DEF Past
    <3>2. pending'[p] = pending[p]
      BY <2>1, <3>1, CallOther, PortsNow DEF LostInv
    <3>3. QED
      BY <2>1, <2>3, <3>1, <3>2 DEF PortInv, Steps
  <2>4. QED
    BY <2>1, <2>2, <2>3 DEF PortInv
<1>7. CASE /\ HookStep /\ pc' \in Steps
           /\ UNCHANGED <<pending, portFile, ports, context, removed>>
           /\ pc' \in {"serviceStop", "save"}
                => cur' = cur /\ pc \in {"serviceStop", "save"}
  <2>1. pc \in Steps
    BY <1>7 DEF HookStep, Pick, DataReady, Restart, WasReady, DataLost, CloseOld,
       CallFails, WritePorts, SetPorts, ServiceStop, Save, Succeed, Steps
  <2>2. ASSUME NEW s \in Services, NEW p \in ports[s], Past(s)'
        PROVE  pending[p] = Verb(s)
    <3>1. CASE Past(s)
      BY <2>1, <3>1 DEF PortInv
    <3>2. CASE s = cur /\ pc \in {"serviceStop", "save"}
      BY <3>2 DEF PortInv
    <3>3. QED
      BY <1>7, <2>2, <3>1, <3>2, PastStep
  <2>3. QED
    BY <1>7, <2>2 DEF PortInv
<1>8. CASE UNCHANGED <<pending, portFile, ports, context, removed, cur, todo, pc>>
  BY <1>8 DEF PortInv, Past
<1>9. CASE \/ \E r \in Revisions : Upgrade(r)
           \/ Remove
  <2>1. pc \notin Steps /\ UNCHANGED <<pc, portFile>>
    BY <1>9 DEF Upgrade, Remove, Between, Steps
  <2>2. QED
    BY <2>1 DEF PortInv, Steps
<1>10. QED
  <2>1. CASE HookStep /\ pc' \in Steps
    <3>1. CASE Pick \/ Restart \/ ServiceStop
      BY <1>7, <2>1, <3>1 DEF Pick, Restart, ServiceStop
    <3>2. CASE (DataReady \/ WasReady \/ DataLost \/ Save) /\ ~Raise
      BY <1>7, <2>1, <3>2 DEF DataReady, WasReady, DataLost, Save
    <3>3. QED
      BY <1>1, <1>4, <1>5, <1>6, <2>1, <3>1, <3>2 DEF HookStep
  <2>2. CASE HookStep /\ pc' \notin Steps
    <3>1. Raise \/ Succeed
      BY <2>2 DEF HookStep, Pick, DataReady, Restart, WasReady, DataLost,
         CloseOld, CallFails, WritePorts, SetPorts, ServiceStop, Save, Steps
    <3>2. QED
      BY <1>1, <3>1
  <2>3. CASE (\E s \in Services, u \in Units : DataChanges(s, u)) \/ UNCHANGED vars
    BY <1>8, <2>3 DEF DataChanges, vars
  <2>4. QED
    BY <1>2, <1>3, <1>9, <2>1, <2>2, <2>3 DEF Next

(* Juju has a service's ports open exactly if it runs, though it forgot     *)
(* what failed hooks asked for, where no two services share a port.         *)
THEOREM PortsAreFollowed ==
  ASSUME Disjoint
  PROVE  Spec => []PortsFollow
<1> DEFINE Inv == LostInv /\ ContextInv /\ PortInv /\ PortsFollow
<1>1. Init => Inv
  BY LostInit DEF Init, ContextInv, PortInv, PortsFollow, Rested, Steps
<1>2. Inv /\ [Next]_vars => PortsFollow'
  <2> SUFFICES ASSUME Inv, [Next]_vars, Rested'
               PROVE  \A s \in Services : \A p \in ports'[s] :
                        p \in opened' <=> s \in Running'
    BY DEF PortsFollow
  <2>1. CASE Succeed
    <3> SUFFICES ASSUME NEW s \in Services, NEW p \in ports[s]
                 PROVE  p \in opened' <=> s \in Running
      BY <2>1, SucceedRest DEF Succeed, world, Rested
    <3>1. Past(s) /\ (Runs(s) <=> s \in Running) /\ pc \in Steps
      BY <2>1, SucceedRest DEF Rested
    <3>2. pending[p] = Verb(s)
      BY <3>1 DEF PortInv
    <3>3. p \in Ports
      BY PortsNow DEF LostInv
    <3>4. p \in opened' <=> pending[p] = "open" \/ (p \in opened /\ pending[p] # "close")
      BY <2>1, <3>3 DEF Succeed
    <3>5. QED
      BY <3>1, <3>2, <3>4 DEF Verb
  <2>2. CASE ~Succeed
    BY <2>2, RestSame DEF PortsFollow
  <2>3. QED
    BY <2>1, <2>2
<1>3. LostInv /\ ContextInv /\ PortInv /\ [Next]_vars => ContextInv' /\ PortInv'
  BY ContextStep, PortStep
<1>4. QED
  BY <1>1, <1>2, <1>3, LostInvariant, PTL DEF Spec
=============================================================================
