-------------------------- MODULE VscSettledProofs --------------------------
(***************************************************************************)
(* Proofs about VscCharm: a unit that has no hook left to run, and none    *)
(* that failed, has the address and the domain the operator asked for      *)
(* last, and has told the address to the relations; and every guest that   *)
(* comes up has the address that is configured then.                       *)
(*                                                                         *)
(* Flow says which hook is where, DomInv when the domain is defined and    *)
(* running, AddrInv that a running guest with another address is one that  *)
(* a config-changed to come, or the one that runs, will replace; DomainInv *)
(* says the same of the XMPP domain, ToldInv of the relations.             *)
(***************************************************************************)
EXTENDS VscGuestProofs

\* Nothing of the host fails or acts against the unit: archives, each with an
\* image, may fail to unpack, apt, the DNS and ssh to answer, and the unit may
\* be upgraded, removed and overtaken by edits.
Calm ==
  /\ Env \cap {"back", "crash", "guest", "guestfs", "overwrite", "skip",
               "virsh"} = {}
  /\ ~BytesOutput
  /\ Address \in Required
  /\ WholeArchives
  /\ \A o \in Others : ~o.similar /\ o.state # "shut off"

-----------------------------------------------------------------------------
(* Which hook is where.                                                     *)

\* config-changed before it starts the VM.
Configuring == {"required", "detectVm", "detectSvc", "early", "teardown",
                "svcOnly", "refetch", "fetch", "locateImage",
                "locateTemplate", "locateBof", "render", "moveBof", "guestfs",
                "create", "creating"}

Elsewhere == {"joined", "vsd", "vsdRunning", "upgrade", "stop", "install",
              "aptUpdate", "aptInstall", "binaries"}

StopCommands == {"shutdown", "destroy", "undefine"}

HookFlow ==
  /\ pc \in Configuring => hook = "config-changed"
  /\ hook = "config-changed" => pc \notin Elsewhere
  /\ pc \in {"start", "starting"} => hook \in {"config-changed", "start"}
  /\ pc = "stopping" => hook \in {"config-changed", "stop"}

PhaseFlow ==
  /\ hook = "stop" => phase = "removed"
  /\ phase = "removed" /\ pc # "idle" => hook = "stop"
  /\ phase = "installed" => /\ "config-changed" \in pending
                            /\ pc # "idle" => hook = "config-changed"

ScriptFlow ==
  /\ script = "dominfo" => pc = "starting"
  /\ script \in StopCommands => pc = "stopping"

InstallAlone ==
  /\ hook = "install" /\ pc # "idle" => phase = "new"
  /\ "install" \in pending => phase = "new"

Flow == /\ ~confTorn /\ ~spoiled
        /\ HookFlow /\ PhaseFlow /\ ScriptFlow /\ InstallAlone

-----------------------------------------------------------------------------
(* The steps of a calm unit.                                                *)

(* What the operator and a fault would do besides them is left out.         *)
LEMMA CalmSteps ==
  ASSUME Calm, [Next]_vars
  PROVE  \/ Run \/ Retry \/ HookStep \/ ScriptStep \/ World
         \/ UNCHANGED vars
BY DEF Calm, Next, Skip, Crash, GuestDown, VM!GuestDown

(* Where the hooks of interest start.                                       *)
LEMMA EntryOf ==
  ASSUME NEW h \in Hooks
  PROVE  /\ Entry(h) \in {"required", "start"} \cup Elsewhere
         /\ Entry(h) = "required" <=> h = "config-changed"
         /\ Entry(h) = "start" => h = "start"
<1>1. CASE h \in Rels
  BY <1>1, WorldAssumption DEF Entry, EventHooks, Elsewhere
<1>2. CASE h \in EventHooks
  BY <1>2, WorldAssumption DEF Entry, EventHooks, Elsewhere
<1>3. QED
  BY <1>1, <1>2 DEF Hooks

LEMMA HookFlowStep ==
  ASSUME Calm, ControlInv, HookFlow, [Next]_vars
  PROVE  HookFlow'
<1> USE DEF HookFlow, Configuring, Elsewhere
<1>1. CASE Run \/ Retry
  <2>1. PICK h \in Hooks : Enter(h)
    BY <1>1 DEF Run, Retry, ControlInv, UnitTypeOK
  <2>2. QED
    BY <2>1, EntryOf DEF Enter
<1>2. CASE HookStep
  <2>1. CASE AtExit
    BY <2>1 DEF AtExit, Finish
  <2>2. CASE Install \/ AptUpdate \/ AptInstall \/ Binaries
    BY <2>2 DEF Install, AptUpdate, AptInstall, AptGet, LeaveLoop, Binaries,
                Goto, Raise, Block, Done, process
  <2>3. CASE CheckRequired \/ DetectVm \/ DetectSvc
    BY <2>3 DEF CheckRequired, DetectVm, DetectSvc, Detect, Compared, Goto,
                Raise, Block, process
  <2>4. CASE ReturnEarly \/ Teardown \/ ServiceOnly
    BY <2>4 DEF ReturnEarly, Teardown, ServiceOnly, Goto, Raise, Done, process
  <2>5. CASE \/ Refetch \/ Fetch \/ LocateImage \/ LocateTemplate
             \/ LocateBof \/ Render \/ MoveBof \/ WriteAddress \/ Create
    <3>1. /\ hook' = hook /\ pc \in Configuring
          /\ pc' \in Configuring \cup {"failed"}
      BY <2>5 DEF Refetch, Fetch, LocateImage, LocateTemplate, Locate,
        LocateBof, Render, MoveBof, WriteAddress, Create, Goto, Raise, process
    <3>2. QED
      BY <3>1
  <2>6. CASE Stopped \/ Created \/ Start \/ Started \/ SetDomain
    BY <2>6 DEF Stopped, Created, Start, Started, SetDomain, Goto, Raise,
                Block, Done, process
  <2>7. CASE RelationJoined \/ VsdChanged \/ VsdRunning \/ UpgradeCharm
    BY <2>7 DEF RelationJoined, VsdChanged, VsdRunning, UpgradeCharm, Goto,
                Raise, Block, Done, process
  <2>8. CASE Stop
    BY <2>8 DEF Stop, Goto, process, ControlInv, Control, StopsAlone
  <2>9. QED
    BY <1>2, <2>1, <2>2, <2>3, <2>4, <2>5, <2>6, <2>7, <2>8 DEF HookStep
<1>3. CASE ScriptStep
  BY <1>3 DEF ScriptStep, process
<1>4. CASE World
  BY <1>4 DEF World, Edit, Join, VsdPublishes, Upgrade, Remove, process
<1>5. CASE UNCHANGED vars
  BY <1>5 DEF vars, process
<1>6. QED
  BY <1>1, <1>2, <1>3, <1>4, <1>5, CalmSteps

(* Only AtExit ends a hook, and only Remove and it move the unit on.        *)
LEMMA HooksStay ==
  ASSUME Calm, HookStep
  PROVE  \/ AtExit
         \/ /\ UNCHANGED <<hook, queue>>
            /\ pc # "idle" /\ pc' # "idle"
<1> USE DEF Goto, Raise, Block, Done, process
<1>1. CASE Install \/ AptUpdate \/ AptInstall \/ Binaries
  BY <1>1 DEF Install, AptUpdate, AptInstall, AptGet, LeaveLoop, Binaries
<1>2. CASE CheckRequired \/ DetectVm \/ DetectSvc
  BY <1>2 DEF CheckRequired, DetectVm, DetectSvc, Detect, Compared
<1>3. CASE \/ ReturnEarly \/ Teardown \/ ServiceOnly \/ Stopped \/ Created
           \/ Create \/ Start \/ Started \/ SetDomain \/ Stop
  BY <1>3 DEF ReturnEarly, Teardown, ServiceOnly, Stopped, Created, Create,
              Start, Started, SetDomain, Stop
<1>4. CASE \/ Refetch \/ Fetch \/ LocateImage \/ LocateTemplate
           \/ LocateBof \/ Render \/ MoveBof \/ WriteAddress
  BY <1>4 DEF Refetch, Fetch, LocateImage, LocateTemplate, Locate, LocateBof,
              Render, MoveBof, WriteAddress
<1>5. CASE RelationJoined \/ VsdChanged \/ VsdRunning \/ UpgradeCharm
  BY <1>5 DEF RelationJoined, VsdChanged, VsdRunning, UpgradeCharm
<1>6. QED
  BY <1>1, <1>2, <1>3, <1>4, <1>5 DEF HookStep

(* A hook changes the domain by its scripts only, and its configuration     *)
(* not at all.                                                              *)
LEMMA HooksFrame ==
  ASSUME HookStep
  PROVE  /\ UNCHANGED <<dom, defn, disk, guest, rc, config>>
         /\ script' \in {script, "check", "dominfo", "shutdown"}
BY DEF HookStep, Install, AptUpdate, AptInstall, Binaries,
  CheckRequired, DetectVm, DetectSvc, ReturnEarly, Teardown, Stopped,
  ServiceOnly, Refetch, Fetch, LocateImage, LocateTemplate, LocateBof,
  Locate, Render, MoveBof, WriteAddress, Create, Created, Start, Started,
  SetDomain, RelationJoined, VsdChanged, VsdRunning, UpgradeCharm, Stop,
  AtExit, VM!Invoke, vmVars, world

LEMMA PhaseFlowStep ==
  ASSUME Calm, ControlInv, ~confTorn, PhaseFlow, [Next]_vars
  PROVE  ~confTorn' /\ PhaseFlow'
<1> USE DEF PhaseFlow
<1>1. CASE Run
  <2>1. PICK h \in pending \cap Eligible : Enter(h)
    BY <1>1 DEF Run
  <2>2. /\ hook' = h /\ UNCHANGED <<phase, pending, confTorn>>
    BY <2>1 DEF Enter, queue
  <2>3. /\ h = "stop" <=> phase = "removed"
        /\ phase = "installed" => h = "config-changed"
    BY <2>1 DEF Eligible, ControlInv, UnitTypeOK
  <2>4. QED
    BY <2>2, <2>3
<1>2. CASE Retry
  BY <1>2 DEF Retry, Enter, queue
<1>3. CASE HookStep
  <2>1. CASE AtExit
    <3>1. pc = "atexit" /\ Finish
      BY <2>1 DEF AtExit
    <3>2. UNCHANGED <<hook, confTorn>> /\ pc' = "idle"
      BY <3>1 DEF Finish
    <3>3. phase = "removed" => phase' = "removed"
      BY <3>1 DEF Finish
    <3>4. hook = "stop" => phase' = "removed"
      BY <3>1, <3>3
    <3>5. phase' = "installed" => hook = "install"
      BY <3>1 DEF Finish
    <3>6. hook = "install" => "config-changed" \in pending'
      BY <3>1 DEF Finish
    <3>7. QED
      BY <3>2, <3>4, <3>5, <3>6
  <2>2. CASE UNCHANGED <<hook, queue>> /\ pc # "idle"
    BY <2>2 DEF queue
  <2>3. QED
    BY <1>3, <2>1, <2>2, HooksStay
<1>4. CASE ScriptStep
  BY <1>4 DEF ScriptStep, process, queue
<1>5. CASE World
  <2>1. CASE \E o \in Options : \E v \in Values[o] : Edit(o, v)
    BY <2>1 DEF Edit, process
  <2>2. CASE (\E r \in Rels : Join(r)) \/ VsdPublishes \/ Upgrade
    BY <2>2 DEF Join, VsdPublishes, Upgrade, process
  <2>3. CASE Remove
    BY <2>3 DEF Remove, process
  <2>4. QED
    BY <1>5, <2>1, <2>2, <2>3 DEF World
<1>6. CASE UNCHANGED vars
  BY <1>6 DEF vars, process, queue
<1>7. QED
  BY <1>1, <1>2, <1>3, <1>4, <1>5, <1>6, CalmSteps

LEMMA ScriptFlowStep ==
  ASSUME Calm, ControlInv, ScriptFlow, [Next]_vars
  PROVE  ScriptFlow'
<1> USE DEF ScriptFlow, StopCommands
<1>1. CASE Run \/ Retry \/ World
  <2>1. script' = script /\ pc \notin Waits
    BY <1>1 DEF Run, Retry, Enter, World, Between, Edit, Join,
                VsdPublishes, Upgrade, Remove, vmVars, Waits
  <2>2. QED
    BY <2>1 DEF ControlInv, Control, ScriptRuns
<1>2. CASE HookStep
  <2>1. CASE Teardown
    BY <2>1 DEF Teardown, Goto, Raise, VM!Invoke, vmVars
  <2>2. CASE Create \/ Start \/ Stop
    BY <2>2 DEF Create, Start, Stop, Goto, VM!Invoke
  <2>3. CASE Stopped \/ Created \/ Started
    BY <2>3 DEF Stopped, Created, Started, vmVars
  <2>4. CASE \/ Install \/ AptUpdate \/ AptInstall \/ Binaries
             \/ CheckRequired \/ DetectVm \/ DetectSvc
             \/ ReturnEarly \/ ServiceOnly \/ Refetch \/ Fetch \/ LocateImage
             \/ LocateTemplate \/ LocateBof \/ Render \/ MoveBof
             \/ WriteAddress \/ SetDomain \/ RelationJoined
             \/ VsdChanged \/ VsdRunning \/ UpgradeCharm \/ AtExit
    <3>1. script' = script /\ pc \notin Waits
      BY <2>4 DEF Install, AptUpdate, AptInstall, Binaries, CheckRequired,
        DetectVm, DetectSvc, ReturnEarly, ServiceOnly, Refetch, Fetch,
        LocateImage, LocateTemplate, Locate, LocateBof, Render, MoveBof,
        WriteAddress, SetDomain, RelationJoined, VsdChanged, VsdRunning,
        UpgradeCharm, AtExit, vmVars, Waits
    <3>2. QED
      BY <3>1 DEF ControlInv, Control, ScriptRuns
  <2>5. QED
    BY <1>2, <2>1, <2>2, <2>3, <2>4 DEF HookStep
<1>3. CASE ScriptStep
  <2>1. pc' = pc /\ VM!ScriptStep
    BY <1>3 DEF ScriptStep
  <2>2. /\ script' = "dominfo" => script = "dominfo"
        /\ script' \in StopCommands => script \in StopCommands
    BY <2>1 DEF VM!ScriptStep, VM!CreateCheck, VM!CreateImage,
      VM!CreateOverlay, VM!CreateCopy, VM!CreateDefine, VM!CreateVerify,
      VM!StartDomain, VM!StopShutdown, VM!StopDestroy, VM!StopUndefine,
      VM!Goto, VM!Exit
  <2>3. QED
    BY <2>1, <2>2
<1>4. CASE UNCHANGED vars
  BY <1>4 DEF vars, vmVars
<1>5. QED
  BY <1>1, <1>2, <1>3, <1>4, CalmSteps

(* install is never run again.                                              *)
LEMMA InstallAloneStep ==
  ASSUME Calm, ControlInv, ToolsInv, InstallAlone, [Next]_vars
  PROVE  InstallAlone'
<1> USE DEF InstallAlone
<1>1. CASE Run
  BY <1>1 DEF Run, Enter, queue
<1>2. CASE Retry
  BY <1>2 DEF Retry, Enter, queue
<1>3. CASE HookStep
  <2>1. CASE AtExit
    <3>1. pc = "atexit" /\ pc' = "idle"
      BY <2>1 DEF AtExit, Finish
    <3>2. "install" \in pending' => "install" \in pending /\ hook # "install"
      BY <2>1 DEF AtExit, Finish
    <3>3. "install" \notin pending'
      BY <3>2 DEF ToolsInv
    <3>4. QED
      BY <3>1, <3>3
  <2>2. QED
    BY <1>3, <2>1, HooksStay DEF queue
<1>4. CASE ScriptStep
  BY <1>4 DEF ScriptStep, process, queue
<1>5. CASE World
  <2>1. "install" \notin Rels
    BY WorldAssumption DEF EventHooks
  <2>2. CASE \/ \E o \in Options : \E v \in Values[o] : Edit(o, v)
             \/ \E r \in Rels : Join(r)
             \/ VsdPublishes \/ Upgrade
    <3>1. /\ UNCHANGED <<pc, hook, phase>>
          /\ "install" \in pending' => "install" \in pending
      BY <2>1, <2>2 DEF Edit, Join, VsdPublishes, Upgrade, process
    <3>2. QED
      BY <3>1
  <2>3. CASE Remove
    BY <2>3 DEF Remove, process
  <2>4. QED
    BY <1>5, <2>2, <2>3 DEF World
<1>6. CASE UNCHANGED vars
  BY <1>6 DEF vars, process, queue
<1>7. QED
  BY <1>1, <1>2, <1>3, <1>4, <1>5, <1>6, CalmSteps

(* No extraction is cut short over a directory in use.                      *)
LEMMA UnspoiledStep ==
  ASSUME Calm, ControlInv, ~spoiled, [Next]_vars
  PROVE  ~spoiled'
<1>1. CASE Fetch
  BY <1>1 DEF Fetch, ExtractionFails, Calm
<1>2. CASE MoveBof \/ WriteAddress \/ LocateImage \/ LocateTemplate \/ LocateBof
  BY <1>2 DEF MoveBof, WriteAddress, LocateImage, LocateTemplate, Locate,
              LocateBof, files
<1>3. CASE UNCHANGED spoiled
  BY <1>3
<1>4. QED
  BY <1>1, <1>2, <1>3, FilesKept

LEMMA FlowInvariant ==
  ASSUME Calm
  PROVE  Spec => []Flow
<1>1. Init => Flow
  BY DEF Init, Flow, HookFlow, PhaseFlow, ScriptFlow, InstallAlone,
         Configuring, Elsewhere, StopCommands
<1>2. ControlInv /\ ToolsInv /\ Flow /\ [Next]_vars => Flow'
  BY HookFlowStep, PhaseFlowStep, ScriptFlowStep, InstallAloneStep,
     UnspoiledStep DEF Flow
<1>3. QED
  BY <1>1, <1>2, ControlInvariant, ToolsInvariant, PTL DEF Spec

-----------------------------------------------------------------------------
(* The domain.                                                              *)

\* Between the removal of the old domain and the definition of the new one.
Undefined ==
  \/ pc \in {"refetch", "fetch", "locateImage", "locateTemplate", "locateBof",
             "render", "moveBof", "guestfs", "create"}
  \/ script = "check"
  \/ pc = "stopping" /\ script = "idle"

DomFlow ==
  /\ dom # "transient"
  /\ Undefined => dom = "undefined"
  /\ pc = "creating" => /\ dom # "running"
                        /\ script = "idle" => (rc = 0 <=> dom = "shut off")
  /\ pc = "start" \/ script = "dominfo" => dom # "undefined"
  /\ pc = "starting" /\ script = "idle" => dom = "running"
  /\ script = "undefine" => dom # "running"
  /\ dom = "shut off" => pc \in {"creating", "start", "starting", "stopping"}

\* The unit has its VM, but while config-changed or the unit's life has not
\* come to it.
Served ==
  dom = "running" \/ phase \in {"new", "installed", "removed"}
    \/ (hook = "config-changed" /\ pc \notin {"idle", "setDomain", "atexit"})

ServedBy ==
  hook = "config-changed" /\ pc \in {"setDomain", "atexit"} => dom = "running"

TeardownFlow ==
  dom = "running" =>
    /\ pc = "teardown" => proc.vmChanged \/ proc.svcChanged
    /\ pc = "svcOnly"  => proc.svcChanged

NewAlone == phase = "new" => dom # "running"

DomInv == DomFlow /\ Served /\ ServedBy /\ TeardownFlow /\ NewAlone

(* What the scripts see of a calm host.                                     *)
LEMMA CalmListing ==
  ASSUME Calm, VM!TypeOK, DomFlow
  PROVE  /\ VmRunning <=> dom = "running"
         /\ VM!ReportedCreated <=> dom # "undefined"
         /\ VM!ReportedDefined <=> dom = "shut off"
         /\ dom \in {"undefined", "shut off", "running"}
<1>1. VM!NameIsUnique
  BY DEF Calm, VM!NameIsUnique, VM!Similar
<1>2. dom \in {"undefined", "shut off", "running"}
  BY DEF VM!TypeOK, VM!DomStates, DomFlow
<1>3. VM!ReportedDefined <=> dom = "shut off"
  BY DEF Calm, VM!ReportedDefined
<1>4. QED
  BY <1>1, <1>2, <1>3, UniqueListing DEF VmRunning, VM!Active

(* Between hooks the unit has its VM, unless its life has not come to it or *)
(* config-changed is to be retried.                                         *)
LEMMA ServedBetween ==
  ASSUME ToolsInv, Flow, Served, pc # "idle", hook # "config-changed"
  PROVE  dom = "running" \/ hook \in {"install", "stop"}
BY DEF ToolsInv, Flow, PhaseFlow, Served

LEMMA DomEnter ==
  ASSUME Calm, TypeOK, ControlInv, ToolsInv, Flow, DomInv, Run \/ Retry
  PROVE  DomInv'
<1> USE DEF NewAlone
<1>1. PICK h \in Hooks : /\ Enter(h)
                         /\ \/ pc = "idle" /\ h \in Eligible
                            \/ pc = "failed" /\ h = hook
  BY DEF Run, Retry, ControlInv, UnitTypeOK
<1>2. /\ UNCHANGED <<dom, script, rc, phase>>
      /\ hook' = h /\ pc' = Entry(h) /\ script = "idle"
  BY <1>1 DEF Enter, vmVars, queue, ControlInv, Control, ScriptRuns, Waits
<1>3. h = "start" => dom = "running"
  <2>1. CASE pc = "idle" /\ h \in Eligible
    BY <2>1 DEF DomInv, Served, Eligible, ControlInv, UnitTypeOK
  <2>2. CASE pc = "failed" /\ h = hook
    BY <2>2, ServedBetween DEF DomInv
  <2>3. QED
    BY <1>1, <2>1, <2>2
<1>4. dom # "shut off"
  BY <1>1 DEF DomInv, DomFlow
<1>5. DomFlow'
  BY <1>2, <1>3, <1>4, EntryOf DEF DomInv, DomFlow, Undefined, Elsewhere
<1>6. Served' /\ ServedBy' /\ TeardownFlow'
  <2>1. h = "config-changed" => pc' = "required"
    BY <1>2, EntryOf
  <2>2. pc' \notin {"idle", "setDomain", "atexit", "teardown", "svcOnly"}
    BY <1>2, EntryOf DEF Elsewhere
  <2>3. Served'
    BY <1>1, <1>2, <2>2 DEF DomInv, Served
  <2>4. QED
    BY <1>2, <2>2, <2>3 DEF ServedBy, TeardownFlow
<1>7. QED
  BY <1>2, <1>5, <1>6 DEF DomInv

LEMMA DomFlowHook ==
  ASSUME Calm, TypeOK, ControlInv, Flow, DomInv, HookStep
  PROVE  DomFlow'
<1> USE DEF DomInv, DomFlow, Undefined
<1>1. /\ VmRunning <=> dom = "running"
      /\ dom \in {"undefined", "shut off", "running"}
  BY CalmListing DEF TypeOK
<1>2. dom' = dom /\ rc' = rc
  BY HooksFrame
<1>3. script # "idle" => pc \in Waits
  BY DEF ControlInv, Control, ScriptRuns
<1>4. CASE Teardown
  <2>1. \/ script' = "shutdown" /\ pc' = "stopping"
        \/ pc' = "svcOnly" /\ script' = script
    BY <1>4 DEF Teardown, Goto, VM!Invoke, vmVars, Calm
  <2>2. QED
    BY <1>2, <1>3, <1>4, <2>1 DEF Teardown, Waits
<1>5. CASE ServiceOnly
  <2>1. /\ UNCHANGED script
        /\ pc' \in {"setDomain", "refetch"}
        /\ pc' = "refetch" => ~(VmRunning /\ proc.svcChanged)
    BY <1>5 DEF ServiceOnly, Goto, vmVars, Calm
  <2>2. pc' = "refetch" => dom = "undefined"
    BY <1>1, <1>5, <2>1 DEF TeardownFlow, ServiceOnly
  <2>3. QED
    BY <1>2, <1>3, <1>5, <2>1, <2>2 DEF ServiceOnly, Waits
<1>6. CASE Create
  BY <1>1, <1>2, <1>6 DEF Create, Goto, VM!Invoke
<1>7. CASE Created
  BY <1>1, <1>2, <1>7 DEF Created, Goto, Raise, vmVars
<1>8. CASE Start
  BY <1>1, <1>2, <1>8 DEF Start, Goto, VM!Invoke
<1>9. CASE Started
  BY <1>1, <1>2, <1>9 DEF Started, Raise, Block, vmVars
<1>10. CASE Stop
  BY <1>1, <1>2, <1>10 DEF Stop, Goto, VM!Invoke
<1>11. CASE Stopped
  BY <1>1, <1>2, <1>11 DEF Stopped, Goto, Done, vmVars
<1>12. CASE \/ Refetch \/ Fetch \/ LocateImage \/ LocateTemplate
            \/ LocateBof \/ Render \/ MoveBof \/ WriteAddress
  <2>1. /\ UNCHANGED script /\ dom = "undefined" /\ pc \notin Waits
        /\ pc' \notin {"creating", "start", "starting"}
    BY <1>12 DEF Refetch, Fetch, LocateImage, LocateTemplate, Locate,
      LocateBof, Render, MoveBof, WriteAddress, Goto, Raise, vmVars, Waits
  <2>2. QED
    BY <1>2, <1>3, <2>1
<1>13. CASE \/ Install \/ AptUpdate \/ AptInstall \/ Binaries
            \/ CheckRequired \/ DetectVm \/ DetectSvc \/ ReturnEarly
            \/ SetDomain \/ RelationJoined \/ VsdChanged \/ VsdRunning
            \/ UpgradeCharm \/ AtExit
  <2>1. /\ UNCHANGED script /\ pc \notin Waits \cup {"start"}
        /\ pc' \in {"aptUpdate", "aptInstall", "binaries", "detectVm",
                    "detectSvc", "early", "teardown", "setDomain",
                    "vsdRunning", "atexit", "idle", "failed"}
    BY <1>13 DEF Install, AptUpdate, AptInstall, AptGet, LeaveLoop, Binaries,
      CheckRequired, DetectVm, DetectSvc, Detect, Compared, ReturnEarly,
      SetDomain, RelationJoined, VsdChanged, VsdRunning, UpgradeCharm, AtExit,
      Finish, Goto, Raise, Block, Done, vmVars, Waits
  <2>2. QED
    BY <1>2, <1>3, <2>1 DEF Waits
<1>14. QED
  BY <1>4, <1>5, <1>6, <1>7, <1>8, <1>9, <1>10, <1>11, <1>12, <1>13
     DEF HookStep

LEMMA ServedHook ==
  ASSUME Calm, TypeOK, ControlInv, ToolsInv, Flow, DomInv, HookStep
  PROVE  Served' /\ ServedBy'
<1>1. /\ VmRunning <=> dom = "running"
      /\ dom' = dom
  <2>1. VmRunning <=> dom = "running"
    BY CalmListing DEF TypeOK, DomInv
  <2>2. dom' = dom
    BY HooksFrame
  <2>3. QED
    BY <2>1, <2>2
<1>2. CASE AtExit
  <2>1. pc = "atexit" /\ pc' = "idle" /\ hook' = hook
    BY <1>2 DEF AtExit, Finish
  <2>2. CASE hook \in {"config-changed", "start"}
    <3>1. dom = "running"
      BY <2>1, <2>2, ServedBetween DEF DomInv, ServedBy
    <3>2. QED
      BY <1>1, <2>1, <3>1 DEF Served, ServedBy
  <2>3. CASE hook \notin {"config-changed", "start"}
    <3>1. phase' = phase \/ phase' = "installed"
      BY <1>2, <2>3 DEF AtExit, Finish
    <3>2. dom = "running" \/ phase \in {"new", "installed", "removed"}
      BY <2>3 DEF DomInv, Served
    <3>3. QED
      BY <1>1, <2>1, <2>3, <3>1, <3>2 DEF Served, ServedBy
  <2>4. QED
    BY <2>2, <2>3
<1>3. CASE ~AtExit
  <2>1. UNCHANGED <<hook, phase>> /\ pc' # "idle"
    BY <1>3, HooksStay DEF queue
  <2>2. hook = "config-changed" /\ pc' \in {"setDomain", "atexit"}
          => dom = "running"
    <3>1. CASE ReturnEarly \/ ServiceOnly
      BY <1>1, <3>1 DEF ReturnEarly, ServiceOnly, Goto, Raise, Done, Calm
    <3>2. CASE Started
      BY <3>2 DEF Started, DomInv, DomFlow
    <3>3. CASE SetDomain
      BY <3>3 DEF SetDomain, DomInv, ServedBy
    <3>4. CASE Stopped
      BY <3>4 DEF Stopped, Goto, Done
    <3>5. CASE \/ Install \/ AptUpdate \/ AptInstall \/ Binaries
               \/ RelationJoined \/ VsdChanged \/ VsdRunning \/ UpgradeCharm
      <4>1. pc \in Elsewhere
        BY <3>5 DEF Install, AptUpdate, AptInstall, Binaries, RelationJoined,
                    VsdChanged, VsdRunning, UpgradeCharm, Elsewhere
      <4>2. QED
        BY <4>1 DEF Flow, HookFlow
    <3>6. CASE \/ CheckRequired \/ DetectVm \/ DetectSvc \/ Teardown
               \/ Refetch \/ Fetch \/ LocateImage \/ LocateTemplate
               \/ LocateBof \/ Render \/ MoveBof \/ WriteAddress
               \/ Create \/ Created \/ Start \/ Stop
      <4>1. pc' \notin {"setDomain", "atexit"}
        BY <3>6 DEF CheckRequired, DetectVm, DetectSvc, Detect, Compared,
          Teardown, Refetch, Fetch, LocateImage, LocateTemplate, Locate,
          LocateBof, Render, MoveBof, WriteAddress, Create, Created, Start,
          Stop, Goto, Raise, Block
      <4>2. QED
        BY <4>1
    <3>7. QED
      BY <1>3, <3>1, <3>2, <3>3, <3>4, <3>5, <3>6 DEF HookStep
  <2>3. QED
    BY <1>1, <2>1, <2>2 DEF DomInv, Served, ServedBy
<1>4. QED
  BY <1>2, <1>3

LEMMA TeardownHook ==
  ASSUME Calm, TypeOK, ControlInv, Flow, DomInv, HookStep
  PROVE  TeardownFlow'
<1> USE DEF TeardownFlow
<1>1. VmRunning <=> dom = "running"
  BY CalmListing DEF TypeOK, DomInv
<1>2. CASE ReturnEarly
  BY <1>1, <1>2 DEF ReturnEarly, Goto, Done, process, vmVars, Calm
<1>3. CASE Teardown
  BY <1>1, <1>3 DEF Teardown, Goto, process, vmVars, Calm, DomInv
<1>4. CASE Stopped
  <2>1. dom' = "undefined"
    BY <1>4 DEF Stopped, vmVars, DomInv, DomFlow, Undefined
  <2>2. QED
    BY <2>1
<1>5. CASE ~(ReturnEarly \/ Teardown \/ Stopped)
  <2>1. pc' \notin {"teardown", "svcOnly"}
    BY <1>5 DEF HookStep, Install, AptUpdate, AptInstall, AptGet, LeaveLoop,
      Binaries, CheckRequired, DetectVm, DetectSvc, Detect, Compared,
      ServiceOnly, Refetch, Fetch, LocateImage, LocateTemplate, LocateBof,
      Locate, Render, MoveBof, WriteAddress, Create, Created, Start, Started,
      SetDomain, RelationJoined, VsdChanged, VsdRunning, UpgradeCharm, Stop,
      AtExit, Finish, Goto, Raise, Block, Done
  <2>2. QED
    BY <2>1
<1>6. QED
  BY <1>2, <1>3, <1>4, <1>5

LEMMA NewAloneHook ==
  ASSUME Calm, ToolsInv, DomInv, HookStep
  PROVE  NewAlone'
<1>1. dom' = dom
  BY HooksFrame
<1>2. phase' = "new" => phase = "new"
  BY HooksStay DEF AtExit, Finish, queue
<1>3. QED
  BY <1>1, <1>2 DEF DomInv, NewAlone

LEMMA DomScript ==
  ASSUME Calm, TypeOK, ControlInv, ToolsInv, Flow, DiskInv,
         CreatesWhileCreating, DomInv, ScriptStep
  PROVE  DomInv'
<1>1. /\ VM!ReportedRunning <=> dom = "running"
      /\ VM!ReportedCreated <=> dom # "undefined"
      /\ VM!ReportedDefined <=> dom = "shut off"
      /\ dom \in {"undefined", "shut off", "running"}
  BY CalmListing DEF TypeOK, DomInv, VmRunning
<1>2. UNCHANGED <<hook, phase, proc, pc>> /\ VM!ScriptStep
  BY DEF ScriptStep, queue, process
<1>3. /\ script \in CreateCommands => pc = "creating"
      /\ script = "dominfo" => pc = "starting"
      /\ script \in StopCommands => pc = "stopping"
      /\ "virsh" \notin Env
      /\ pc \in Waits /\ phase # "new"
  <2>1. script # "idle"
    BY <1>2 DEF VM!ScriptStep, VM!CreateCheck, VM!CreateImage,
      VM!CreateOverlay, VM!CreateCopy, VM!CreateDefine, VM!CreateVerify,
      VM!StartDomain, VM!StopShutdown, VM!StopDestroy, VM!StopUndefine
  <2>2. pc \in Waits /\ phase # "new"
    BY <2>1 DEF ControlInv, Control, ScriptRuns, Waits, ToolsInv, Installing
  <2>3. QED
    BY <2>2 DEF CreatesWhileCreating, Flow, ScriptFlow, Calm
<1>4. CASE \/ VM!CreateCheck \/ VM!CreateImage \/ VM!CreateOverlay
           \/ VM!CreateCopy \/ VM!CreateDefine \/ VM!CreateVerify
  <2>1. pc = "creating"
    BY <1>3, <1>4 DEF VM!CreateCheck, VM!CreateImage, VM!CreateOverlay,
      VM!CreateCopy, VM!CreateDefine, VM!CreateVerify, CreateCommands,
      Unfinished
  <2>2. dom # "running" /\ hook = "config-changed"
    BY <2>1 DEF DomInv, DomFlow, Flow, HookFlow, Configuring
  <2>3. 1 # 0
    OBVIOUS
  <2>4. DomFlow'
    <3> USE DEF DomInv, DomFlow, Undefined, DiskInv, Unfinished
    <3>1. CASE VM!CreateCheck
      BY <1>1, <1>2, <2>1, <2>2, <3>1 DEF VM!CreateCheck, VM!Exit, VM!Goto
    <3>2. CASE VM!CreateImage \/ VM!CreateOverlay
      <4>1. /\ script \in Unfinished /\ dom' = dom
            /\ \/ script' \in {"overlay", "copy", "define"}
               \/ script' = "idle" /\ rc' # 0
        BY <2>3, <3>2 DEF VM!CreateImage, VM!CreateOverlay, VM!Exit, VM!Goto
      <4>2. QED
        BY <1>2, <2>1, <4>1
    <3>3. CASE VM!CreateCopy
      BY <1>1, <1>2, <1>3, <2>1, <2>2, <3>3
         DEF VM!CreateCopy, VM!Exit, VM!Goto
    <3>4. CASE VM!CreateDefine
      <4>1. /\ script = "define" /\ dom = "undefined"
            /\ \/ script' = "verify" /\ dom' \in {dom, "shut off"}
               \/ script' = "idle" /\ rc' # 0 /\ dom' = dom
        BY <1>3, <2>3, <3>4 DEF VM!CreateDefine, VM!Exit, VM!Goto
      <4>2. QED
        BY <1>2, <2>1, <4>1
    <3>5. CASE VM!CreateVerify
      <4>1. /\ script = "verify" /\ script' = "idle" /\ dom' = dom
            /\ rc' = 0 <=> dom = "shut off"
        BY <1>1, <2>3, <3>5 DEF VM!CreateVerify, VM!Exit
      <4>2. QED
        BY <1>2, <2>1, <2>2, <4>1
    <3>6. QED
      BY <1>4, <3>1, <3>2, <3>3, <3>4, <3>5
  <2>5. QED
    BY <1>2, <1>3, <2>1, <2>2, <2>4
       DEF DomInv, Served, ServedBy, TeardownFlow, NewAlone
<1>5. CASE VM!StartDomain
  <2>1. script = "dominfo" /\ pc = "starting" /\ dom # "undefined"
    BY <1>3, <1>5 DEF VM!StartDomain, DomInv, DomFlow
  <2>2. disk \in Images
    BY <2>1 DEF DiskInv
  <2>3. dom' = "running" /\ script' = "idle"
    BY <1>1, <1>3, <1>5, <2>1, <2>2, AbsenceAssumption
       DEF VM!StartDomain, VM!Exit
  <2>4. QED
    BY <1>2, <1>3, <2>1, <2>3
       DEF DomInv, DomFlow, Undefined, Served, ServedBy, TeardownFlow, NewAlone
<1>6. CASE VM!StopShutdown \/ VM!StopDestroy \/ VM!StopUndefine
  <2>1. pc = "stopping" /\ script \in StopCommands
    BY <1>3, <1>6
       DEF VM!StopShutdown, VM!StopDestroy, VM!StopUndefine, StopCommands
  <2>2. hook = "config-changed" \/ phase = "removed"
    BY <2>1 DEF Flow, HookFlow, PhaseFlow
  <2>3. DomFlow'
    <3> USE DEF DomInv, DomFlow, Undefined, VM!Halt, VM!Stopped
    <3>1. CASE VM!StopShutdown
      BY <1>1, <1>2, <2>1, <3>1 DEF VM!StopShutdown, VM!Goto
    <3>2. CASE VM!StopDestroy
      BY <1>1, <1>2, <1>3, <2>1, <3>2 DEF VM!StopDestroy, VM!Goto
    <3>3. CASE VM!StopUndefine
      BY <1>1, <1>2, <1>3, <2>1, <3>3 DEF VM!StopUndefine, VM!Exit
    <3>4. QED
      BY <1>6, <3>1, <3>2, <3>3
  <2>4. QED
    BY <1>2, <1>3, <2>1, <2>2, <2>3
       DEF DomInv, Served, ServedBy, TeardownFlow, NewAlone
<1>7. QED
  BY <1>2, <1>4, <1>5, <1>6 DEF VM!ScriptStep

LEMMA DomWorld ==
  ASSUME DomInv, World
  PROVE  DomInv'
<1> USE DEF DomInv, DomFlow, Undefined, Served, ServedBy, TeardownFlow, NewAlone
<1>1. CASE \E o \in Options : \E v \in Values[o] : Edit(o, v)
  BY <1>1 DEF Edit, vmVars, process
<1>2. CASE \E r \in Rels : Join(r)
  BY <1>2 DEF Join, vmVars, process
<1>3. CASE VsdPublishes \/ Upgrade
  BY <1>3 DEF VsdPublishes, Upgrade, vmVars, process
<1>4. CASE Remove
  BY <1>4 DEF Remove, vmVars, process
<1>5. QED
  BY <1>1, <1>2, <1>3, <1>4 DEF World

LEMMA DomInvariant ==
  ASSUME Calm
  PROVE  Spec => []DomInv
<1>1. Init => DomInv
  BY DEF Init, DomInv, DomFlow, Undefined, Served, ServedBy, TeardownFlow,
         NewAlone
<1>2. /\ TypeOK /\ ControlInv /\ ToolsInv /\ Flow /\ DiskInv /\ GuestInv
      /\ DomInv /\ [Next]_vars
      => DomInv'
  <2> SUFFICES ASSUME TypeOK, ControlInv, ToolsInv, Flow, DiskInv, GuestInv,
                      DomInv, [Next]_vars
               PROVE  DomInv'
    OBVIOUS
  <2>1. CASE Run \/ Retry
    BY <2>1, DomEnter
  <2>2. CASE HookStep
    BY <2>2, DomFlowHook, ServedHook, TeardownHook, NewAloneHook DEF DomInv
  <2>3. CASE ScriptStep
    BY <2>3, DomScript DEF GuestInv
  <2>4. CASE World
    BY <2>4, DomWorld
  <2>5. CASE UNCHANGED vars
    BY <2>5 DEF vars, vmVars, process, queue, DomInv, DomFlow, Undefined,
                Served, ServedBy, TeardownFlow, NewAlone
  <2>6. QED
    BY <2>1, <2>2, <2>3, <2>4, <2>5, CalmSteps
<1>3. /\ VM!NameIsUnique /\ "guestfs" \notin Env
      /\ Address \in Required /\ WholeArchives
  BY DEF Calm, VM!NameIsUnique, VM!Similar
<1>4. Spec => []DiskInv /\ []GuestInv
  BY <1>3, DiskInvariant, GuestInvariant, PTL
<1>5. QED
  BY <1>1, <1>2, <1>4, TypeCorrect, ControlInvariant, ToolsInvariant,
     FlowInvariant, PTL DEF Spec

-----------------------------------------------------------------------------
(* The address.                                                             *)

\* The running guest, whose disk this is, has another address.
Wrong == dom = "running" /\ disk.address # config[Address]

StagedRight ==
  pc \in {"create", "creating"} /\ Staged # None
    => Staged.address = config[Address]

DiskRight ==
  \/ script = "define"
  \/ dom = "shut off" /\ pc \in {"creating", "start", "starting"}
  => disk.address = config[Address]

\* config-changed will see that, or has seen it.
Noticed ==
  Wrong /\ phase # "removed" =>
    /\ "config-changed" \in pending
    /\ pc \in {"detectSvc", "early", "teardown"} => proc.vmChanged
    /\ \/ pc \in {"detectSvc", "early", "teardown", "stopping"}
       \/ Changed(Address)

Redeployed ==
  \/ pc = "svcOnly"
  \/ /\ hook = "config-changed"
     /\ pc \in {"start", "starting", "setDomain", "atexit"}
  => ~Wrong

AddrInv == StagedRight /\ DiskRight /\ Noticed /\ Redeployed

(* Only the operator changes the configuration, and no hook runs then.      *)
LEMMA ConfigKept ==
  ASSUME Calm, [Next]_vars
  PROVE  \/ config' = config
         \/ pc \in {"idle", "failed"} /\ UNCHANGED <<pc, vmVars>>
<1>1. CASE Run \/ Retry
  BY <1>1 DEF Run, Retry, Enter, world
<1>2. CASE HookStep
  BY <1>2, HooksFrame
<1>3. CASE ScriptStep
  BY <1>3 DEF ScriptStep, world
<1>4. CASE World
  BY <1>4 DEF World, Between, Edit, Join, VsdPublishes, Upgrade, Remove, world
<1>5. CASE UNCHANGED vars
  BY <1>5 DEF vars, world
<1>6. QED
  BY <1>1, <1>2, <1>3, <1>4, <1>5, CalmSteps

(* guestfish has written the address when create starts.                    *)
LEMMA StagedRightStep ==
  ASSUME Calm, ControlInv, ToolsInv, Flow, GuestInv, StagedRight, [Next]_vars
  PROVE  StagedRight'
<1> USE DEF StagedRight
<1>1. pc' \in {"create", "creating"} => config' = config \/ UNCHANGED pc
  BY ConfigKept
<1>2. CASE WriteAddress
  <2>1. config' = config /\ bofFile /\ "guestfish" \in tools
    BY <1>2 DEF WriteAddress, GuestInv, BofMoved, FishThere, ToolsInv,
                Installing, world
  <2>2. CASE Staged = None
    <3>1. Staged' = None
      BY <1>2, <2>2 DEF WriteAddress, Staged
    <3>2. QED
      BY <3>1
  <2>3. CASE Staged # None
    <3>1. Staged \in Images /\ Staged.whole
      BY <1>2, <2>3, AddressWritten DEF GuestInv, StagedWhole, Flow
    <3>2. Staged' = [Staged EXCEPT !.address = config[Address]]
      BY <1>2, <2>1, <2>3, <3>1, AddressWritten DEF Calm
    <3>3. QED
      BY <2>1, <3>1, <3>2 DEF Images
  <2>4. QED
    BY <2>2, <2>3
<1>3. CASE Fetch \/ MoveBof \/ LocateImage \/ LocateTemplate \/ LocateBof
  BY <1>3 DEF Fetch, MoveBof, LocateImage, LocateTemplate, LocateBof, Locate,
              Goto, Raise
<1>4. CASE \/ /\ UNCHANGED tree
              /\ \A p \in Paths : kv'[p] = kv[p]
              /\ pc' \in {"create", "creating"} => pc \in {"create", "creating"}
           \/ UNCHANGED <<tree, kv, pc>>
  <2>1. Staged' = Staged
    BY <1>4, PathFacts DEF Staged
  <2>2. pc' \in {"create", "creating"} => config' = config
    BY <1>4, ConfigKept
  <2>3. QED
    BY <1>4, <2>1, <2>2
<1>5. QED
  BY <1>2, <1>3, <1>4, FilesKept

(* What was copied and defined has it.                                      *)
LEMMA DiskRightStep ==
  ASSUME Calm, TypeOK, ControlInv, Flow, DiskInv, GuestInv, DomInv,
         StagedRight, DiskRight, [Next]_vars
  PROVE  DiskRight'
<1> USE DEF DiskRight
<1>1. script # "idle" => pc \in Waits
  BY DEF ControlInv, Control, ScriptRuns
<1>2. CASE Run \/ Retry
  <2>1. PICK h \in Hooks : Enter(h)
    BY <1>2 DEF Run, Retry, ControlInv, UnitTypeOK
  <2>2. /\ UNCHANGED <<script, dom, disk, config>>
        /\ pc \in {"idle", "failed"}
    BY <1>2, <2>1 DEF Run, Retry, Enter, vmVars, world
  <2>3. script' = "idle" /\ dom' # "shut off"
    BY <1>1, <2>2 DEF Waits, DomInv, DomFlow
  <2>4. QED
    BY <2>3
<1>3. CASE HookStep
  <2>1. /\ UNCHANGED <<dom, disk, config>>
        /\ script' = "define" => script = "define"
    BY <1>3, HooksFrame
  <2>2. CASE Create
    BY <2>1, <2>2 DEF Create, DomInv, DomFlow, Undefined
  <2>3. CASE Created
    BY <2>1, <2>3 DEF Created, Raise, Goto, vmVars
  <2>4. CASE Start
    BY <2>1, <2>4 DEF Start, Goto, VM!Invoke
  <2>5. CASE Started
    BY <2>1, <2>5 DEF Started, Raise, Block, vmVars
  <2>6. CASE ~(Create \/ Created \/ Start \/ Started)
    <3>1. pc' \notin {"creating", "start", "starting"}
      BY <1>3, <2>6 DEF HookStep, Install, AptUpdate, AptInstall, AptGet,
        LeaveLoop, Binaries, CheckRequired, DetectVm, DetectSvc, Detect,
        Compared, ReturnEarly, Teardown, Stopped, ServiceOnly, Refetch, Fetch,
        LocateImage, LocateTemplate, LocateBof, Locate, Render, MoveBof,
        WriteAddress, SetDomain, RelationJoined, VsdChanged, VsdRunning,
        UpgradeCharm, Stop, AtExit, Finish, Goto, Raise, Block, Done
    <3>2. QED
      BY <2>1, <3>1
  <2>7. QED
    BY <2>2, <2>3, <2>4, <2>5, <2>6
<1>4. CASE ScriptStep
  <2>1. VM!ScriptStep /\ UNCHANGED <<pc, config>>
    BY <1>4 DEF ScriptStep, world
  <2>2. /\ script \in CreateCommands => pc = "creating"
        /\ script \in StopCommands => pc = "stopping"
    BY DEF GuestInv, CreatesWhileCreating, Flow, ScriptFlow
  <2>3. CASE VM!CreateCheck \/ VM!CreateImage \/ VM!CreateOverlay
    <3>1. dom = "undefined" /\ UNCHANGED <<dom, disk>>
      BY <2>3 DEF VM!CreateCheck, VM!CreateImage, VM!CreateOverlay, DomInv,
                  DomFlow, Undefined, DiskInv, Unfinished
    <3>2. ~VmRunning
      BY <3>1, CalmListing DEF TypeOK, DomInv
    <3>3. script' # "define"
      BY <2>3, <3>2 DEF VM!CreateCheck, VM!CreateImage, VM!CreateOverlay,
                        VM!Goto, VM!Exit, VmRunning
    <3>4. QED
      BY <3>1, <3>3
  <2>4. CASE VM!CreateCopy
    <3>1. /\ script = "copy" /\ disk' = Staged /\ dom' = dom
          /\ "virsh" \notin Env
      BY <2>4 DEF VM!CreateCopy, Calm
    <3>2. Staged # None /\ pc = "creating" /\ dom = "undefined"
      BY <2>2, <3>1 DEF DiskInv, Unfinished, CreateCommands
    <3>3. QED
      BY <2>1, <3>1, <3>2 DEF StagedRight
  <2>5. CASE VM!CreateDefine \/ VM!CreateVerify
    BY <2>1, <2>2, <2>5 DEF VM!CreateDefine, VM!CreateVerify, VM!Goto, VM!Exit,
                            CreateCommands, Unfinished
  <2>6. CASE VM!StartDomain
    BY <2>1, <2>6 DEF VM!StartDomain, VM!Exit, Flow, ScriptFlow
  <2>7. CASE VM!StopShutdown \/ VM!StopDestroy \/ VM!StopUndefine
    BY <2>1, <2>2, <2>7 DEF VM!StopShutdown, VM!StopDestroy, VM!StopUndefine,
                            VM!Goto, VM!Exit, StopCommands
  <2>8. QED
    BY <2>1, <2>3, <2>4, <2>5, <2>6, <2>7 DEF VM!ScriptStep
<1>5. CASE World
  <2>1. /\ UNCHANGED <<pc, script, dom>>
        /\ pc \in {"idle", "failed"}
    BY <1>5 DEF World, Between, Edit, Join, VsdPublishes, Upgrade, Remove,
                vmVars
  <2>2. QED
    BY <1>1, <2>1 DEF Waits
<1>6. CASE UNCHANGED vars
  BY <1>6 DEF vars, vmVars, world
<1>7. QED
  BY <1>2, <1>3, <1>4, <1>5, <1>6, CalmSteps

(* A comparison of the options does not pass over a wrong address.          *)
LEMMA NoticedDetect ==
  ASSUME Calm, TypeOK, ControlInv, DetectInv, DetectInv', Flow, GuestInv,
         Noticed, DetectVm, Wrong', phase' # "removed"
  PROVE  /\ "config-changed" \in pending'
         /\ \/ pc' = "detectVm" /\ Changed(Address)'
            \/ pc' = "detectSvc" /\ proc'.vmChanged
<1> DEFINE o == Current(VmOptions)
<1>1. /\ pc = "detectVm" /\ Record(o) /\ ~confTorn
      /\ Compared(Changed(o) \/ proc.option = Len(VmOptions),
                  [proc EXCEPT !.vmChanged = Changed(o)], "detectSvc")
      /\ UNCHANGED <<dom, disk, config>>
  BY DEF DetectVm, Detect, Flow, vmVars, world
<1>2. /\ UNCHANGED <<phase, pending>> /\ Wrong
      /\ proc'.vmChanged = Changed(o)
      /\ pc' = IF Changed(o) \/ proc.option = Len(VmOptions)
               THEN "detectSvc" ELSE "detectVm"
  <2>1. proc' = [[proc EXCEPT !.vmChanged = Changed(o)] EXCEPT
                   !.option = IF Changed(o) \/ proc.option = Len(VmOptions)
                              THEN 1 ELSE @ + 1]
    BY <1>1 DEF Compared
  <2>2. proc'.vmChanged = Changed(o)
    BY <2>1 DEF ControlInv, UnitTypeOK
  <2>3. QED
    BY <1>1, <2>2 DEF Compared, queue, Wrong
<1>3. Changed(Address) /\ "config-changed" \in pending
  BY <1>1, <1>2 DEF Noticed
<1>4. config[Address] # None
  BY <1>1 DEF GuestInv, AddressGiven, Deploying
<1>5. CASE Changed(o)
  BY <1>2, <1>3, <1>5
<1>6. CASE ~Changed(o)
  <2>1. o # Address
    BY <1>3, <1>6
  <2>2. kv'[Address] = kv[Address]
    <3>1. DOMAIN kv = Options \cup Paths /\ Address \in Options
      BY OptionFacts DEF ControlInv, UnitTypeOK
    <3>2. QED
      BY <1>1, <2>1, <3>1 DEF Record
  <2>3. Changed(Address)'
    BY <1>1, <1>3, <2>2 DEF Changed
  <2>4. pc' # "detectSvc"
    <3>1. SUFFICES ASSUME pc' = "detectSvc" PROVE FALSE
      OBVIOUS
    <3>2. ~proc'.vmChanged
      BY <1>2, <1>6
    <3>3. \A i \in 1..Len(VmOptions) : kv'[VmOptions[i]] = config'[VmOptions[i]]
      BY <3>1, <3>2 DEF DetectInv
    <3>4. PICK i \in 1..Len(VmOptions) : VmOptions[i] = Address
      BY OptionsAssumption DEF SeqElems
    <3>5. kv'[Address] = config'[Address]
      BY <3>3, <3>4
    <3>6. QED
      BY <1>1, <1>4, <2>3, <3>5 DEF Changed
  <2>5. QED
    BY <1>2, <1>3, <2>3, <2>4
<1>7. QED
  BY <1>5, <1>6

(* An edit of a unit that has its VM queues config-changed.                 *)
LEMMA EditQueued ==
  ASSUME ControlInv, Flow, DomInv, dom = "running", phase # "removed",
         NEW o \in Options, NEW v \in Values[o], Edit(o, v)
  PROVE  "config-changed" \in pending'
<1>1. CASE phase \in {"configured", "started"}
  BY <1>1 DEF Edit
<1>2. CASE phase = "installed"
  BY <1>2 DEF Edit, Flow, PhaseFlow
<1>3. phase # "new"
  BY DEF DomInv, NewAlone
<1>4. QED
  BY <1>1, <1>2, <1>3 DEF ControlInv, UnitTypeOK

(* The operator cannot ask for another address without its being noticed.   *)
LEMMA NoticedEdit ==
  ASSUME Calm, ControlInv, ToolsInv, Flow, DiskInv, DomInv, Noticed,
         NEW o \in Options, NEW v \in Values[o], Edit(o, v)
  PROVE  Noticed'
<1>1. /\ config' = [config EXCEPT ![o] = v] /\ pc \in {"idle", "failed"}
      /\ UNCHANGED <<pc, phase, kv, dom, disk, guest>>
      /\ v # kv[o] \/ ~Outdated(o)
  BY DEF Edit, Between, Calm, vmVars
<1>2. SUFFICES ASSUME Wrong', phase # "removed"
               PROVE  "config-changed" \in pending' /\ Changed(Address)'
  BY <1>1 DEF Noticed
<1>3. dom = "running" /\ guest # None /\ guest.disk = disk
  BY <1>1, <1>2 DEF Wrong, DiskInv, VM!Active
<1>4. "config-changed" \in pending'
  BY <1>2, <1>3, EditQueued
<1>5. Changed(Address)'
  <2>1. DOMAIN config = Options /\ Address \in Options
    BY OptionFacts DEF ControlInv, UnitTypeOK
  <2>2. CASE o = Address
    <3>1. config'[Address] = v
      BY <1>1, <2>1, <2>2
    <3>2. disk.address # v
      BY <1>1, <1>2, <3>1 DEF Wrong
    <3>3. kv[Address] # v
      BY <1>1, <1>3, <2>2, <3>2 DEF Outdated
    <3>4. QED
      BY <1>1, <3>1, <3>3 DEF Changed
  <2>3. CASE o # Address
    <3>1. config'[Address] = config[Address]
      BY <1>1, <2>1, <2>3
    <3>2. Wrong
      BY <1>1, <1>2, <3>1 DEF Wrong
    <3>3. Changed(Address)
      BY <1>1, <1>2, <3>2 DEF Noticed
    <3>4. QED
      BY <1>1, <3>1, <3>3 DEF Changed
  <2>4. QED
    BY <2>2, <2>3
<1>6. QED
  BY <1>4, <1>5

(* No other step hides it.                                                  *)
LEMMA NoticedHook ==
  ASSUME Calm, TypeOK, ControlInv, DetectInv, DetectInv', ToolsInv, Flow,
         DomInv, GuestInv, Noticed, Redeployed, HookStep
  PROVE  Noticed'
<1>1. /\ UNCHANGED <<dom, disk, config>>
      /\ VmRunning <=> dom = "running"
  BY HooksFrame, CalmListing DEF TypeOK, DomInv
<1>2. Wrong' <=> Wrong
  BY <1>1 DEF Wrong
<1>3. SUFFICES ASSUME Wrong, phase' # "removed"
               PROVE  /\ "config-changed" \in pending'
                      /\ pc' \in {"detectSvc", "early", "teardown"}
                           => proc'.vmChanged
                      /\ \/ pc' \in {"detectSvc", "early", "teardown",
                                    "stopping"}
                         \/ Changed(Address)'
  BY <1>2, Zenon DEF Noticed
<1>4. CASE AtExit
  <2>1. pc = "atexit" /\ pc' = "idle" /\ kv' = kv /\ Finish
    BY <1>4 DEF AtExit, Finish
  <2>2. hook # "config-changed"
    BY <1>3, <2>1 DEF Redeployed
  <2>3. \A h \in pending : h # hook => h \in pending'
    BY <2>1 DEF Finish
  <2>4. phase = "removed" => phase' = "removed"
    BY <2>1 DEF Finish, Flow, PhaseFlow
  <2>5. QED
    BY <1>1, <1>3, <2>1, <2>2, <2>3, <2>4 DEF Noticed, Changed
<1>5. CASE ~AtExit
  <2>1. UNCHANGED <<hook, pending, phase>>
    BY <1>5, HooksStay DEF queue
  <2>2. /\ "config-changed" \in pending
        /\ pc \in {"detectSvc", "early", "teardown"} => proc.vmChanged
        /\ \/ pc \in {"detectSvc", "early", "teardown", "stopping"}
           \/ Changed(Address)
    BY <1>3, <2>1 DEF Noticed
  <2>3. CASE DetectVm
    BY <1>2, <1>3, <2>3, NoticedDetect
  <2>4. CASE DetectSvc
    <3>1. /\ pc = "detectSvc" /\ pc' \in {"detectSvc", "early"}
          /\ proc'.vmChanged = proc.vmChanged
      BY <2>4 DEF DetectSvc, Detect, Compared, Flow, ControlInv, UnitTypeOK
    <3>2. QED
      BY <2>1, <2>2, <3>1
  <2>5. CASE ReturnEarly \/ Teardown
    <3>1. pc \in {"early", "teardown"} /\ proc.vmChanged /\ VmRunning
      BY <1>1, <1>3, <2>2, <2>5 DEF ReturnEarly, Teardown, Wrong
    <3>2. pc' \in {"teardown", "stopping"} /\ proc' = proc
      BY <2>5, <3>1 DEF ReturnEarly, Teardown, Goto, Done, process, Calm
    <3>3. QED
      BY <2>1, <2>2, <3>1, <3>2
  <2>6. CASE \/ Stopped \/ ServiceOnly \/ Refetch \/ Fetch \/ LocateImage
             \/ LocateTemplate \/ LocateBof \/ Render \/ MoveBof
             \/ WriteAddress \/ Create
    <3>1. pc = "svcOnly" \/ Undefined
      BY <2>6 DEF Stopped, ServiceOnly, Refetch, Fetch, LocateImage,
        LocateTemplate, Locate, LocateBof, Render, MoveBof, WriteAddress,
        Create, Undefined
    <3>2. FALSE
      BY <1>3, <3>1 DEF Redeployed, DomInv, DomFlow, Wrong
    <3>3. QED
      BY <3>2
  <2>7. CASE \/ Install \/ AptUpdate \/ AptInstall \/ Binaries
             \/ CheckRequired \/ Created \/ Start \/ Started \/ SetDomain
             \/ RelationJoined \/ VsdChanged \/ VsdRunning \/ UpgradeCharm
             \/ Stop
    <3>1. /\ pc \notin {"detectSvc", "early", "teardown", "stopping"}
          /\ pc' \notin {"detectSvc", "early", "teardown"}
          /\ kv' = kv
      BY <2>7 DEF Install, AptUpdate, AptInstall, AptGet, LeaveLoop, Binaries,
        CheckRequired, Created, Start, Started, SetDomain, RelationJoined,
        VsdChanged, VsdRunning, UpgradeCharm, Stop, Goto, Raise, Block, Done
    <3>2. Changed(Address)'
      BY <1>1, <2>2, <3>1 DEF Changed
    <3>3. QED
      BY <2>1, <2>2, <3>1, <3>2
  <2>8. QED
    BY <1>5, <2>3, <2>4, <2>5, <2>6, <2>7 DEF HookStep
<1>6. QED
  BY <1>4, <1>5

(* The scripts put no wrong address into the guest.                         *)
LEMMA ScriptsRight ==
  ASSUME Calm, TypeOK, ControlInv, Flow, DiskInv, GuestInv, DomInv, DiskRight,
         ScriptStep, Wrong'
  PROVE  Wrong
<1>1. /\ VM!ScriptStep /\ UNCHANGED <<pc, config>>
      /\ VmRunning <=> dom = "running"
  BY CalmListing DEF ScriptStep, world, TypeOK, DomInv
<1>2. CASE VM!StartDomain
  BY <1>1, <1>2 DEF VM!StartDomain, Flow, ScriptFlow, DiskRight, Wrong
<1>3. CASE \/ VM!CreateCheck \/ VM!CreateImage \/ VM!CreateOverlay
           \/ VM!CreateCopy \/ VM!CreateDefine \/ VM!CreateVerify
  <2>1. /\ pc = "creating"
        /\ dom' \in {dom, "shut off"}
    BY <1>3 DEF VM!CreateCheck, VM!CreateImage, VM!CreateOverlay,
      VM!CreateCopy, VM!CreateDefine, VM!CreateVerify, GuestInv,
      CreatesWhileCreating, CreateCommands, Unfinished
  <2>2. QED
    BY <2>1 DEF DomInv, DomFlow, Wrong
<1>4. CASE VM!StopShutdown \/ VM!StopDestroy \/ VM!StopUndefine
  <2>1. disk' = disk /\ (dom' = "running" => dom = "running")
    BY <1>4 DEF VM!StopShutdown, VM!StopDestroy, VM!StopUndefine, VM!Halt,
                VM!Stopped
  <2>2. QED
    BY <1>1, <2>1 DEF Wrong
<1>5. QED
  BY <1>1, <1>2, <1>3, <1>4 DEF VM!ScriptStep

LEMMA NoticedStep ==
  ASSUME Calm, TypeOK, ControlInv, DetectInv, DetectInv', ToolsInv, Flow,
         DiskInv, GuestInv, DomInv, AddrInv, [Next]_vars
  PROVE  Noticed'
<1> USE DEF AddrInv
<1>1. CASE Run \/ Retry
  <2>1. PICK h \in Hooks : Enter(h)
    BY <1>1 DEF Run, Retry, ControlInv, UnitTypeOK
  <2>2. /\ UNCHANGED <<dom, disk, config, kv, pending, phase>>
        /\ pc \in {"idle", "failed"}
        /\ pc' \notin {"detectSvc", "early", "teardown"}
    BY <1>1, <2>1, EntryOf DEF Run, Retry, Enter, vmVars, world, queue,
                               Elsewhere
  <2>3. QED
    BY <2>2 DEF Noticed, Wrong, Changed
<1>2. CASE HookStep
  BY <1>2, NoticedHook
<1>3. CASE ScriptStep
  <2>1. UNCHANGED <<pc, proc, config, kv, pending, phase>>
    BY <1>3 DEF ScriptStep, world, process, queue
  <2>2. Wrong' => Wrong
    BY <1>3, ScriptsRight
  <2>3. QED
    BY <2>1, <2>2 DEF Noticed, Changed
<1>4. CASE World
  <2>1. CASE \E o \in Options : \E v \in Values[o] : Edit(o, v)
    BY <2>1, NoticedEdit
  <2>2. CASE \/ \E r \in Rels : Join(r)
             \/ VsdPublishes \/ Upgrade \/ Remove
    <3>1. /\ UNCHANGED <<pc, proc, config, kv, dom, disk>>
          /\ \/ pending \subseteq pending' /\ phase' = phase
             \/ phase' = "removed"
      BY <2>2 DEF Join, VsdPublishes, Upgrade, Remove, vmVars, process, world
    <3>2. QED
      BY <3>1 DEF Noticed, Wrong, Changed
  <2>3. QED
    BY <1>4, <2>1, <2>2 DEF World
<1>5. CASE UNCHANGED vars
  BY <1>5 DEF vars, vmVars, world, queue, process, Noticed, Wrong, Changed
<1>6. QED
  BY <1>1, <1>2, <1>3, <1>4, <1>5, CalmSteps

(* Past the teardown config-changed has redeployed what was wrong.          *)
LEMMA RedeployedHook ==
  ASSUME Calm, TypeOK, ControlInv, Flow, DomInv, AddrInv, HookStep
  PROVE  Redeployed'
<1> USE DEF AddrInv
<1>1. /\ VmRunning <=> dom = "running"
      /\ Wrong' <=> Wrong
  <2>1. UNCHANGED <<dom, disk, config>>
    BY HooksFrame
  <2>2. VmRunning <=> dom = "running"
    BY CalmListing DEF TypeOK, DomInv
  <2>3. QED
    BY <2>1, <2>2 DEF Wrong
<1>2. CASE AtExit
  BY <1>2 DEF AtExit, Finish, Redeployed
<1>3. CASE ~AtExit
  <2>1. hook' = hook
    BY <1>3, HooksStay
  <2>2. CASE ReturnEarly \/ Teardown
    <3>1. pc \in {"early", "teardown"} /\ hook = "config-changed"
      BY <2>2 DEF ReturnEarly, Teardown, Flow, HookFlow, Configuring
    <3>2. Wrong => proc.vmChanged /\ VmRunning
      BY <1>1, <3>1 DEF Noticed, Flow, PhaseFlow, Wrong
    <3>3. Wrong => pc' \in {"teardown", "stopping"}
      BY <2>2, <3>2 DEF ReturnEarly, Teardown, Goto, Done, Calm
    <3>4. QED
      BY <1>1, <3>3 DEF Redeployed
  <2>3. CASE Stopped \/ Created
    <3>1. ~Wrong \/ pc' = "failed"
      BY <2>3 DEF Stopped, Created, Goto, Raise, DomInv, DomFlow, Undefined,
                  DiskRight, Wrong
    <3>2. QED
      BY <1>1, <3>1 DEF Redeployed
  <2>4. CASE ServiceOnly \/ Start \/ Started \/ SetDomain
    <3>1. pc \in {"svcOnly", "start", "starting", "setDomain"}
      BY <2>4 DEF ServiceOnly, Start, Started, SetDomain
    <3>2. pc = "svcOnly" => pc' # "svcOnly"
      BY <2>4 DEF ServiceOnly, Start, Started, SetDomain, Goto, Raise, Block,
                  Done
    <3>3. pc = "svcOnly" => ~Wrong
      BY DEF Redeployed
    <3>4. pc # "svcOnly" => pc' # "svcOnly"
      BY <2>4 DEF ServiceOnly, Start, Started, SetDomain, Goto, Raise, Block,
                  Done
    <3>5. hook = "config-changed" => ~Wrong
      BY <3>1 DEF Redeployed
    <3>6. QED
      BY <1>1, <2>1, <3>2, <3>4, <3>5 DEF Redeployed
  <2>5. CASE \/ Install \/ AptUpdate \/ AptInstall \/ Binaries
             \/ RelationJoined \/ VsdChanged \/ VsdRunning \/ UpgradeCharm
             \/ Stop
    <3>1. pc \in Elsewhere /\ pc' # "svcOnly"
      BY <2>5 DEF Install, AptUpdate, AptInstall, AptGet, LeaveLoop, Binaries,
        RelationJoined, VsdChanged, VsdRunning, UpgradeCharm, Stop, Elsewhere,
        Goto, Raise, Block, Done
    <3>2. hook # "config-changed"
      BY <3>1 DEF Flow, HookFlow
    <3>3. QED
      BY <2>1, <3>1, <3>2 DEF Redeployed
  <2>6. CASE \/ CheckRequired \/ DetectVm \/ DetectSvc
             \/ Refetch \/ Fetch \/ LocateImage \/ LocateTemplate
             \/ LocateBof \/ Render \/ MoveBof \/ WriteAddress \/ Create
    <3>1. pc' \notin {"svcOnly", "start", "starting", "setDomain", "atexit"}
      BY <2>6 DEF CheckRequired, DetectVm, DetectSvc, Detect, Compared,
        Refetch, Fetch, LocateImage, LocateTemplate, Locate, LocateBof, Render,
        MoveBof, WriteAddress, Create, Goto, Raise, Block
    <3>2. QED
      BY <3>1 DEF Redeployed
  <2>7. QED
    BY <1>3, <2>2, <2>3, <2>4, <2>5, <2>6 DEF HookStep
<1>4. QED
  BY <1>2, <1>3

LEMMA RedeployedStep ==
  ASSUME Calm, TypeOK, ControlInv, Flow, DiskInv, GuestInv, DomInv, AddrInv,
         [Next]_vars
  PROVE  Redeployed'
<1>1. CASE Run \/ Retry
  <2>1. PICK h \in Hooks : Enter(h)
    BY <1>1 DEF Run, Retry, ControlInv, UnitTypeOK
  <2>2. QED
    BY <2>1, EntryOf DEF Enter, Redeployed, Elsewhere
<1>2. CASE HookStep
  BY <1>2, RedeployedHook
<1>3. CASE ScriptStep
  <2>1. Wrong' => Wrong
    BY <1>3, ScriptsRight DEF AddrInv
  <2>2. UNCHANGED <<pc, hook>>
    BY <1>3 DEF ScriptStep, process
  <2>3. QED
    BY <2>1, <2>2 DEF AddrInv, Redeployed
<1>4. CASE World
  <2>1. pc \in {"idle", "failed"} /\ pc' = pc
    BY <1>4 DEF World, Between, Edit, Join, VsdPublishes, Upgrade, Remove
  <2>2. QED
    BY <2>1 DEF Redeployed
<1>5. CASE UNCHANGED vars
  BY <1>5 DEF vars, vmVars, world, process, AddrInv, Redeployed, Wrong
<1>6. QED
  BY <1>1, <1>2, <1>3, <1>4, <1>5, CalmSteps

LEMMA AddrInvariant ==
  ASSUME Calm
  PROVE  Spec => []AddrInv
<1>1. Init => AddrInv
  BY DEF Init, AddrInv, StagedRight, DiskRight, Noticed, Redeployed, Wrong
<1>2. /\ TypeOK /\ ControlInv /\ DetectInv /\ DetectInv' /\ ToolsInv /\ Flow
      /\ DiskInv /\ GuestInv /\ DomInv /\ AddrInv /\ [Next]_vars
      => AddrInv'
  BY StagedRightStep, DiskRightStep, NoticedStep, RedeployedStep DEF AddrInv
<1>3. /\ VM!NameIsUnique /\ "guestfs" \notin Env
      /\ Address \in Required /\ WholeArchives
  BY DEF Calm, VM!NameIsUnique, VM!Similar
<1>4. Spec => []DiskInv /\ []GuestInv /\ []DomInv /\ []Flow
  BY <1>3, DiskInvariant, GuestInvariant, DomInvariant, FlowInvariant, PTL
<1>5. QED
  BY <1>1, <1>2, <1>4, TypeCorrect, ControlInvariant, DetectInvariant,
     ToolsInvariant, PTL DEF Spec

(* Whenever no hook is left to run and none has failed, the running guest   *)
(* was booted with the address the operator set last, whatever was edited,  *)
(* in whatever order and however often, between hooks that failed, ran      *)
(* again and were overtaken: on a calm host.                                *)
THEOREM LastAddressApplied ==
  ASSUME Calm
  PROVE  Spec => []AddressApplied
<1>1. /\ TypeOK /\ DiskInv /\ DomInv /\ AddrInv
      => AddressApplied
  <2> SUFFICES ASSUME DiskInv, DomInv, AddrInv, Settled
               PROVE  guest # None /\ guest.disk.address = config[Address]
    BY DEF AddressApplied
  <2>1. pc = "idle" /\ phase = "started" /\ pending = {}
    BY DEF Settled
  <2>2. dom = "running"
    BY <2>1 DEF DomInv, Served
  <2>3. guest # None /\ guest.disk = disk
    BY <2>2 DEF DiskInv, VM!Active
  <2>4. ~Wrong
    BY <2>1 DEF AddrInv, Noticed
  <2>5. QED
    BY <2>2, <2>3, <2>4 DEF Wrong
<1>2. /\ VM!NameIsUnique /\ "guestfs" \notin Env
      /\ Address \in Required /\ WholeArchives
  BY DEF Calm, VM!NameIsUnique, VM!Similar
<1>3. QED
  BY <1>1, <1>2, TypeCorrect, DiskInvariant, DomInvariant, AddrInvariant, PTL

-----------------------------------------------------------------------------
(* The domain of the XMPP cluster and the relations, where ssh works and    *)
(* install got pexpect.                                                     *)

\* A start that returned has started the domain.
StartedWell == pc = "starting" /\ script = "idle" => rc = 0

\* The running guest is not configured with the domain asked for, and could be.
Unset == /\ "pexpect" \in tools
         /\ dom = "running" /\ config[Domain] # None /\ xmpp # config[Domain]

\* config-changed on its way to the guest.
Setting == hook = "config-changed" /\ pc \in {"starting", "setDomain"}

\* config-changed will see that, or has seen it, or is about to change it.
DomainNoticed ==
  Unset /\ phase # "removed" =>
    /\ "config-changed" \in pending
    /\ pc = "detectSvc" => proc.vmChanged \/ Changed(Domain)
    /\ pc \in {"early", "teardown"} => proc.vmChanged \/ proc.svcChanged
    /\ \/ pc \in {"detectSvc", "early", "teardown", "svcOnly", "stopping"}
       \/ Setting \/ Changed(Domain)

DomainSet == hook = "config-changed" /\ pc = "atexit" => ~Unset

HookQueued == pc # "idle" => hook \in pending

\* No option the second test has passed was changed.
SvcCompared ==
  pc = "detectSvc" => \A i \in 1..(proc.option - 1) : ~Changed(SvcOptions[i])

DomainInv ==
  StartedWell /\ HookQueued /\ SvcCompared /\ DomainNoticed /\ DomainSet

(* What a hook that started the VM relies on: an address that answers.      *)
LEMMA AddressAnswers ==
  ASSUME Calm, TypeOK, Flow, DiskInv, GuestInv, DomInv, AddrInv,
         hook = "config-changed", pc \in {"starting", "setDomain"},
         dom = "running"
  PROVE  /\ config[Address] # None
         /\ Reachable(config[Address])
<1>1. guest # None /\ guest.disk = disk /\ disk \in Images
  BY DEF DiskInv, VM!Active
<1>2. disk.address = config[Address]
  BY DEF AddrInv, Redeployed, Wrong
<1>3. disk.whole /\ disk.address # None /\ disk # Torn
  BY <1>1, AbsenceAssumption DEF GuestInv, DiskAddressed, Flow
<1>4. QED
  BY <1>1, <1>2, <1>3 DEF Reachable

(* Once the unit has a VM its packages are what they are.                   *)
LEMMA ToolsKept ==
  ASSUME Calm, ToolsInv, Flow, DomInv, dom = "running", [Next]_vars
  PROVE  tools' = tools
<1>1. phase # "new"
  BY DEF DomInv, NewAlone
<1>2. CASE Run \/ Retry
  BY <1>2 DEF Run, Retry, Enter, files
<1>3. CASE HookStep
  <2>1. pc \notin Installing \ {"idle", "atexit", "failed"}
    BY <1>1 DEF ToolsInv, Flow, InstallAlone
  <2>2. QED
    BY <1>3, <2>1 DEF HookStep, Install, AptUpdate, AptInstall, Binaries,
      CheckRequired, DetectVm, DetectSvc, ReturnEarly, Teardown, Stopped,
      ServiceOnly, Refetch, Fetch, LocateImage, LocateTemplate, LocateBof,
      Locate, Render, MoveBof, WriteAddress, Create, Created, Start, Started,
      SetDomain, RelationJoined, VsdChanged, VsdRunning, UpgradeCharm, Stop,
      AtExit, files, Installing
<1>4. CASE ScriptStep
  BY <1>4 DEF ScriptStep, files
<1>5. CASE World
  BY <1>5 DEF World, Edit, Join, VsdPublishes, Upgrade, Remove, files
<1>6. CASE UNCHANGED vars
  BY <1>6 DEF vars, files
<1>7. QED
  BY <1>2, <1>3, <1>4, <1>5, <1>6, CalmSteps

LEMMA StartedWellStep ==
  ASSUME Calm, TypeOK, ControlInv, Flow, DiskInv, GuestInv, DomInv,
         StartedWell, [Next]_vars
  PROVE  StartedWell'
<1> USE DEF StartedWell
<1>1. CASE Run \/ Retry
  <2>1. PICK h \in Hooks : Enter(h)
    BY <1>1 DEF Run, Retry, ControlInv, UnitTypeOK
  <2>2. QED
    BY <2>1, EntryOf DEF Enter, Elsewhere
<1>2. CASE HookStep
  <2>1. CASE Start
    BY <2>1 DEF Start, VM!Invoke
  <2>2. CASE ~Start
    <3>1. pc' # "starting"
      BY <1>2, <2>2 DEF HookStep, Install, AptUpdate, AptInstall, AptGet,
        LeaveLoop, Binaries, CheckRequired, DetectVm, DetectSvc, Detect,
        Compared, ReturnEarly, Teardown, Stopped, ServiceOnly, Refetch, Fetch,
        LocateImage, LocateTemplate, LocateBof, Locate, Render, MoveBof,
        WriteAddress, Create, Created, Started, SetDomain, RelationJoined,
        VsdChanged, VsdRunning, UpgradeCharm, Stop, AtExit, Finish, Goto,
        Raise, Block, Done
    <3>2. QED
      BY <3>1
  <2>3. QED
    BY <2>1, <2>2
<1>3. CASE ScriptStep
  <2>1. VM!ScriptStep /\ pc' = pc
    BY <1>3 DEF ScriptStep
  <2>2. CASE VM!StartDomain
    <3>1. script = "dominfo" /\ dom # "undefined"
      BY <2>2 DEF VM!StartDomain, DomInv, DomFlow
    <3>2. disk # None
      BY <3>1, AbsenceAssumption DEF DiskInv
    <3>3. rc' = 0
      BY <2>2, <3>2 DEF VM!StartDomain, VM!Exit, Calm
    <3>4. QED
      BY <3>3
  <2>3. CASE ~VM!StartDomain
    <3>1. script \in CreateCommands \cup StopCommands
      BY <2>1, <2>3 DEF VM!ScriptStep, VM!CreateCheck, VM!CreateImage,
        VM!CreateOverlay, VM!CreateCopy, VM!CreateDefine, VM!CreateVerify,
        VM!StopShutdown, VM!StopDestroy, VM!StopUndefine, CreateCommands,
        Unfinished, StopCommands
    <3>2. pc # "starting"
      BY <3>1 DEF GuestInv, CreatesWhileCreating, Flow, ScriptFlow
    <3>3. QED
      BY <2>1, <3>2
  <2>4. QED
    BY <2>2, <2>3
<1>4. CASE World
  BY <1>4 DEF World, Between, Edit, Join, VsdPublishes, Upgrade, Remove
<1>5. CASE UNCHANGED vars
  BY <1>5 DEF vars, vmVars
<1>6. QED
  BY <1>1, <1>2, <1>3, <1>4, <1>5, CalmSteps

LEMMA HookQueuedStep ==
  ASSUME Calm, ControlInv, HookQueued, [Next]_vars
  PROVE  HookQueued'
<1> USE DEF HookQueued
<1>1. CASE Run
  BY <1>1 DEF Run, Enter, queue
<1>2. CASE Retry
  BY <1>2 DEF Retry, Enter, queue
<1>3. CASE HookStep
  BY <1>3, HooksStay DEF AtExit, Finish, queue
<1>4. CASE ScriptStep
  BY <1>4 DEF ScriptStep, process, queue
<1>5. CASE World
  <2>1. /\ UNCHANGED <<pc, hook>>
        /\ pc = "idle" \/ pending \subseteq pending'
    BY <1>5 DEF World, Edit, Join, VsdPublishes, Upgrade, Remove, process
  <2>2. QED
    BY <2>1
<1>6. CASE UNCHANGED vars
  BY <1>6 DEF vars, process, queue
<1>7. QED
  BY <1>1, <1>2, <1>3, <1>4, <1>5, <1>6, CalmSteps

(* One comparison of the second test.                                       *)
LEMMA SvcComparison ==
  ASSUME Calm, ControlInv, Flow, SvcCompared, DetectSvc
  PROVE  LET o == Current(SvcOptions) IN
         /\ UNCHANGED config /\ Record(o)
         /\ proc'.vmChanged = proc.vmChanged
         /\ IF Changed(o)
            THEN pc' = "early" /\ proc'.svcChanged
            ELSE /\ \A q \in Options : kv'[q] = kv[q]
                 /\ \/ /\ pc' = "detectSvc"
                       /\ proc'.option = proc.option + 1
                       /\ \A i \in 1..proc.option : ~Changed(SvcOptions[i])
                    \/ /\ pc' = "early"
                       /\ \A i \in 1..Len(SvcOptions) :
                            ~Changed(SvcOptions[i])
<1> DEFINE o == Current(SvcOptions)
           last == Changed(o) \/ proc.option = Len(SvcOptions)
<1>1. /\ pc = "detectSvc" /\ Record(o) /\ config' = config
      /\ Compared(last, [proc EXCEPT !.svcChanged = Changed(o)], "early")
  BY DEF DetectSvc, Detect, Flow, world
<1>2. /\ proc.option \in Nat \ {0} /\ proc.option <= Len(SvcOptions)
      /\ Len(SvcOptions) \in Nat /\ o = SvcOptions[proc.option]
      /\ o \in Options
  BY <1>1, OptionFacts
     DEF ControlInv, UnitTypeOK, Control, WithinList, Current
<1>3. /\ proc'.vmChanged = proc.vmChanged
      /\ proc'.svcChanged = Changed(o)
      /\ proc'.option = IF last THEN 1 ELSE proc.option + 1
      /\ pc' = IF last THEN "early" ELSE "detectSvc"
  <2>1. proc' = [[proc EXCEPT !.svcChanged = Changed(o)] EXCEPT
                   !.option = IF last THEN 1 ELSE @ + 1]
    BY <1>1 DEF Compared
  <2>2. proc \in [option : Nat \ {0}, vmChanged : BOOLEAN,
                  svcChanged : BOOLEAN, domain : {None, VsdName},
                  tries : 0..MaxTries]
    BY DEF ControlInv, UnitTypeOK
  <2>3. pc' = IF last THEN "early" ELSE "detectSvc"
    BY <1>1 DEF Compared
  <2>4. QED
    BY <2>1, <2>2, <2>3
<1>4. CASE Changed(o)
  BY <1>1, <1>3, <1>4
<1>5. CASE ~Changed(o)
  <2>1. \A q \in Options : kv'[q] = kv[q]
    BY <1>1, <1>2, <1>5, RecordFacts DEF Changed, ControlInv
  <2>2. \A i \in 1..proc.option : ~Changed(SvcOptions[i])
    <3>1. \A i \in 1..proc.option : i = proc.option \/ i \in 1..(proc.option - 1)
      BY <1>2
    <3>2. QED
      BY <1>1, <1>2, <1>5, <3>1 DEF SvcCompared
  <2>3. QED
    BY <1>1, <1>2, <1>3, <1>5, <2>1, <2>2
<1>6. QED
  BY <1>4, <1>5

LEMMA SvcComparedStep ==
  ASSUME Calm, ControlInv, Flow, SvcCompared, [Next]_vars
  PROVE  SvcCompared'
<1> USE DEF SvcCompared
<1>1. CASE Run \/ Retry
  <2>1. PICK h \in Hooks : Enter(h)
    BY <1>1 DEF Run, Retry, ControlInv, UnitTypeOK
  <2>2. QED
    BY <2>1, EntryOf DEF Enter, Elsewhere
<1>2. CASE HookStep
  <2>1. CASE DetectSvc
    <3>1. /\ proc.option \in Nat /\ proc.option <= Len(SvcOptions)
          /\ \A i \in 1..proc.option : SvcOptions[i] \in Options
      BY <2>1, OptionFacts
         DEF DetectSvc, ControlInv, UnitTypeOK, Control, WithinList
    <3>2. QED
      BY <2>1, <3>1, SvcComparison DEF Changed
  <2>2. CASE DetectVm
    <3>1. pc' = "detectSvc" => proc'.option = 1
      BY <2>2 DEF DetectVm, Detect, Compared, Raise, ControlInv, UnitTypeOK
    <3>2. QED
      BY <3>1
  <2>3. CASE ~(DetectSvc \/ DetectVm)
    <3>1. pc' # "detectSvc"
      BY <1>2, <2>3 DEF HookStep, Install, AptUpdate, AptInstall, AptGet,
        LeaveLoop, Binaries, CheckRequired, ReturnEarly, Teardown, Stopped,
        ServiceOnly, Refetch, Fetch, LocateImage, LocateTemplate, LocateBof,
        Locate, Render, MoveBof, WriteAddress, Create, Created, Start, Started,
        SetDomain, RelationJoined, VsdChanged, VsdRunning, UpgradeCharm, Stop,
        AtExit, Finish, Goto, Raise, Block, Done
    <3>2. QED
      BY <3>1
  <2>4. QED
    BY <2>1, <2>2, <2>3
<1>3. CASE ScriptStep
  BY <1>3 DEF ScriptStep, process, world, Changed
<1>4. CASE World
  BY <1>4 DEF World, Between, Edit, Join, VsdPublishes, Upgrade, Remove
<1>5. CASE UNCHANGED vars
  BY <1>5 DEF vars, process, world, Changed
<1>6. QED
  BY <1>1, <1>2, <1>3, <1>4, <1>5, CalmSteps

(* The step that sets the domain, from config-changed and from the others.  *)
LEMMA SetDomainSets ==
  ASSUME Calm, "ssh" \notin Env, TypeOK, Flow, DiskInv, GuestInv, DomInv,
         AddrInv, SetDomain
  PROVE  /\ hook = "config-changed" =>
              ~Unset' /\ ("pexpect" \in tools => pc' = "atexit")
         /\ Unset' => Unset
         /\ UNCHANGED <<kv, config, dom, pending, phase, hook>>
         /\ pc = "setDomain" /\ pc' \in {"atexit", "failed"}
<1>1. /\ UNCHANGED <<kv, config, dom, pending, phase, hook, tools>>
      /\ pc = "setDomain" /\ pc' \in {"atexit", "failed"}
      /\ xmpp' = xmpp \/ xmpp' = DomainToSet
  BY DEF SetDomain, Raise, Block, Done, process, queue, world, files
<1>2. Unset' => Unset
  BY <1>1 DEF Unset, DomainToSet
<1>3. CASE hook = "config-changed"
  <2>1. dom = "running"
    BY <1>1, <1>3 DEF DomInv, ServedBy
  <2>2. config[Address] # None /\ Reachable(config[Address])
    BY <1>1, <1>3, <2>1, AddressAnswers
  <2>3. AddressFound = {config[Address]}
    BY <2>2 DEF AddressFound
  <2>4. "pexpect" \in tools =>
          /\ pc' = "atexit"
          /\ DomainToSet # None => xmpp' = DomainToSet
    BY <2>2, <2>3 DEF SetDomain, Done
  <2>5. ~Unset'
    BY <1>1, <2>4 DEF Unset, DomainToSet
  <2>6. QED
    BY <1>1, <1>2, <2>4, <2>5
<1>4. QED
  BY <1>1, <1>2, <1>3

(* No step of a hook passes over a domain that is not set.                  *)
LEMMA DomainHook ==
  ASSUME Calm, "ssh" \notin Env, TypeOK, ControlInv, ToolsInv, Flow, DiskInv,
         GuestInv, DomInv, AddrInv, DomainInv, HookStep
  PROVE  DomainNoticed' /\ DomainSet'
<1> USE DEF DomainInv
<1>1. CASE SetDomain
  <2>1. /\ hook = "config-changed" => ~Unset'
        /\ Unset' => Unset
        /\ UNCHANGED <<kv, config, dom, pending, phase, hook>>
        /\ pc = "setDomain" /\ pc' \in {"atexit", "failed"}
    BY <1>1, SetDomainSets
  <2>2. Unset' /\ phase # "removed"
          => "config-changed" \in pending /\ Changed(Domain)
    BY <2>1 DEF DomainNoticed, Setting
  <2>3. QED
    BY <2>1, <2>2 DEF DomainNoticed, DomainSet, Changed
<1>2. CASE ~SetDomain
  <2>1. /\ UNCHANGED <<config, dom>>
        /\ Unset' => Unset
        /\ VmRunning <=> dom = "running"
    <3>1. UNCHANGED <<config, dom>>
      BY HooksFrame
    <3>2. xmpp' = xmpp
      BY <1>2 DEF HookStep, Install, AptUpdate, AptInstall, Binaries,
        CheckRequired, DetectVm, DetectSvc, ReturnEarly, Teardown, Stopped,
        ServiceOnly, Refetch, Fetch, LocateImage, LocateTemplate, LocateBof,
        Locate, Render, MoveBof, WriteAddress, Create, Created, Start, Started,
        RelationJoined, VsdChanged, VsdRunning, UpgradeCharm, Stop, AtExit,
        vmVars
    <3>3. dom = "running" => tools' = tools
      BY ToolsKept DEF Next
    <3>4. QED
      BY <3>1, <3>2, <3>3, CalmListing DEF Unset, TypeOK, DomInv
  <2>2. SUFFICES ASSUME Unset, phase' # "removed"
                 PROVE  DomainNoticed' /\ DomainSet'
    <3>1. phase' = "removed" => hook' = "stop" \/ pc' = "idle"
      BY HooksStay DEF AtExit, Finish, Flow, PhaseFlow, queue
    <3>2. QED
      BY <2>1, <3>1 DEF DomainNoticed, DomainSet
  <2>3. CASE AtExit
    <3>1. pc = "atexit" /\ pc' = "idle" /\ kv' = kv /\ Finish
      BY <2>3 DEF AtExit, Finish
    <3>2. hook # "config-changed"
      BY <2>2, <3>1 DEF DomainSet
    <3>3. \A h \in pending : h # hook => h \in pending'
      BY <3>1 DEF Finish
    <3>4. phase # "removed"
      BY <2>2, <3>1 DEF Finish, Flow, PhaseFlow
    <3>5. "config-changed" \in pending /\ Changed(Domain)
      BY <2>2, <3>1, <3>4 DEF DomainNoticed, Setting
    <3>6. QED
      BY <2>1, <3>1, <3>2, <3>3, <3>5 DEF DomainNoticed, DomainSet, Changed
  <2>4. CASE ~AtExit
    <3>1. UNCHANGED <<hook, pending, phase>>
      BY <2>4, HooksStay DEF queue
    <3>2. /\ "config-changed" \in pending
          /\ pc = "detectSvc" => proc.vmChanged \/ Changed(Domain)
          /\ pc \in {"early", "teardown"} => proc.vmChanged \/ proc.svcChanged
          /\ \/ pc \in {"detectSvc", "early", "teardown", "svcOnly", "stopping"}
             \/ Setting \/ Changed(Domain)
      BY <2>2, <3>1 DEF DomainNoticed
    <3>3. SUFFICES
            /\ pc' = "detectSvc" => proc'.vmChanged \/ Changed(Domain)'
            /\ pc' \in {"early", "teardown"}
                 => proc'.vmChanged \/ proc'.svcChanged
            /\ \/ pc' \in {"detectSvc", "early", "teardown", "svcOnly",
                           "stopping"}
               \/ hook = "config-changed" /\ pc' \in {"starting", "setDomain"}
               \/ Changed(Domain)'
            /\ hook = "config-changed" => pc' # "atexit"
      BY <2>2, <3>1, <3>2 DEF DomainNoticed, DomainSet, Setting
    <3>4. CASE DetectVm
      <4>1. /\ pc = "detectVm" /\ Record(Current(VmOptions))
            /\ pc' \in {"detectVm", "detectSvc"}
            /\ pc' = "detectVm" => ~Changed(Current(VmOptions))
            /\ proc'.vmChanged = Changed(Current(VmOptions))
        BY <3>4 DEF DetectVm, Detect, Compared, Flow, ControlInv, UnitTypeOK
      <4>2. Changed(Domain)
        BY <3>2, <4>1 DEF Setting
      <4>3. Current(VmOptions) \in Options /\ Domain \in Options
        BY <4>1, OptionFacts
           DEF Current, ControlInv, UnitTypeOK, Control, WithinList
      <4>4. Current(VmOptions) # Domain => Changed(Domain)'
        BY <2>1, <4>1, <4>2, <4>3, RecordFacts DEF Changed, ControlInv
      <4>5. QED
        BY <4>1, <4>2, <4>4
    <3>5. CASE DetectSvc
      <4>1. PICK k \in 1..Len(SvcOptions) : SvcOptions[k] = Domain
        BY OptionsAssumption DEF SeqElems
      <4>2. CASE Changed(Current(SvcOptions))
        <5>1. pc' = "early" /\ proc'.svcChanged
          BY <3>5, <4>2, SvcComparison
        <5>2. QED
          BY <5>1
      <4>3. CASE ~Changed(Current(SvcOptions))
        <5>1. /\ pc = "detectSvc" /\ proc'.vmChanged = proc.vmChanged
              /\ \A q \in Options : kv'[q] = kv[q]
              /\ \/ pc' = "detectSvc"
                 \/ pc' = "early" /\ ~Changed(Domain)
          BY <3>5, <4>1, <4>3, SvcComparison DEF DetectSvc
        <5>2. Changed(Domain)' <=> Changed(Domain)
          BY <2>1, <5>1, OptionFacts DEF Changed
        <5>3. proc'.vmChanged \/ Changed(Domain)
          BY <3>2, <5>1
        <5>4. QED
          BY <5>1, <5>2, <5>3
      <4>4. QED
        BY <4>2, <4>3
    <3>6. CASE ReturnEarly \/ Teardown
      <4>1. /\ pc \in {"early", "teardown"}
            /\ proc.vmChanged \/ proc.svcChanged
        BY <3>2, <3>6 DEF ReturnEarly, Teardown
      <4>2. pc' \in {"teardown", "stopping", "svcOnly"} /\ proc' = proc
        BY <3>6, <4>1 DEF ReturnEarly, Teardown, Goto, Done, process, Calm
      <4>3. QED
        BY <4>1, <4>2
    <3>7. CASE ServiceOnly
      <4>1. pc = "svcOnly" /\ VmRunning /\ hook = "config-changed"
        BY <2>1, <2>2, <3>7
           DEF ServiceOnly, Unset, Flow, HookFlow, Configuring
      <4>2. pc' = "setDomain"
        BY <2>1, <3>7, <4>1 DEF ServiceOnly, Goto, Calm, DomInv, TeardownFlow
      <4>3. QED
        BY <4>1, <4>2
    <3>8. CASE \/ Stopped \/ Refetch \/ Fetch \/ LocateImage
               \/ LocateTemplate \/ LocateBof \/ Render \/ MoveBof
               \/ WriteAddress \/ Create \/ Created
      <4>1. Undefined \/ pc = "creating"
        BY <3>8 DEF Stopped, Refetch, Fetch, LocateImage, LocateTemplate,
          Locate, LocateBof, Render, MoveBof, WriteAddress, Create, Created,
          Undefined
      <4>2. FALSE
        BY <2>2, <4>1 DEF DomInv, DomFlow, Unset
      <4>3. QED
        BY <4>2
    <3>9. CASE Started
      <4>1. pc = "starting" /\ kv' = kv /\ pc' \in {"setDomain", "failed"}
        BY <3>9 DEF Started, Raise, Block
      <4>2. CASE hook = "config-changed"
        <5>1. config[Address] # None
          BY <2>2, <4>1, <4>2, AddressAnswers DEF Unset
        <5>2. rc = 0
          BY <3>9 DEF Started, StartedWell
        <5>3. pc' = "setDomain"
          BY <3>9, <5>1, <5>2 DEF Started, AddressFound
        <5>4. QED
          BY <4>2, <5>3
      <4>3. CASE hook # "config-changed"
        <5>1. Changed(Domain)
          BY <3>2, <4>1, <4>3 DEF Setting
        <5>2. QED
          BY <2>1, <4>1, <4>3, <5>1 DEF Changed
      <4>4. QED
        BY <4>2, <4>3
    <3>10. CASE CheckRequired \/ Start
      <4>1. /\ pc \in {"required", "start"} /\ kv' = kv
            /\ pc' \in {"detectVm", "failed", "starting"}
        BY <3>10 DEF CheckRequired, Start, Goto, Block, Raise
      <4>2. Changed(Domain)
        BY <3>2, <4>1 DEF Setting
      <4>3. QED
        BY <2>1, <4>1, <4>2 DEF Changed
    <3>11. CASE \/ Install \/ AptUpdate \/ AptInstall \/ Binaries
                \/ RelationJoined \/ VsdChanged \/ VsdRunning \/ UpgradeCharm
                \/ Stop
      <4>1. /\ pc \in Elsewhere /\ kv' = kv
            /\ pc' \notin {"detectSvc", "early", "teardown"}
        BY <3>11 DEF Install, AptUpdate, AptInstall, AptGet, LeaveLoop,
          Binaries, RelationJoined, VsdChanged, VsdRunning, UpgradeCharm, Stop,
          Elsewhere, Goto, Raise, Block, Done
      <4>2. hook # "config-changed" /\ Changed(Domain)
        BY <3>2, <4>1 DEF Setting, Elsewhere, Flow, HookFlow
      <4>3. QED
        BY <2>1, <4>1, <4>2 DEF Changed
    <3>12. QED
      BY <1>2, <2>4, <3>4, <3>5, <3>6, <3>7, <3>8, <3>9, <3>10, <3>11
         DEF HookStep
  <2>5. QED
    BY <2>3, <2>4
<1>3. QED
  BY <1>1, <1>2

(* Nor does a script: a guest that starts is one config-changed started.    *)
LEMMA DomainScript ==
  ASSUME Calm, TypeOK, ControlInv, ToolsInv, Flow, DiskInv, GuestInv, DomInv,
         DomainInv, ScriptStep
  PROVE  DomainNoticed' /\ DomainSet'
<1> USE DEF DomainInv
<1>1. /\ VM!ScriptStep /\ Forgotten
      /\ UNCHANGED <<pc, hook, proc, config, kv, pending, phase>>
  BY DEF ScriptStep, world, process, queue
<1>2. pc # "atexit"
  <2>1. script # "idle"
    BY <1>1 DEF VM!ScriptStep, VM!CreateCheck, VM!CreateImage,
      VM!CreateOverlay, VM!CreateCopy, VM!CreateDefine, VM!CreateVerify,
      VM!StartDomain, VM!StopShutdown, VM!StopDestroy, VM!StopUndefine
  <2>2. QED
    BY <2>1 DEF ControlInv, Control, ScriptRuns, Waits
<1>3. CASE dom = "running" /\ guest' = guest
  <2>1. Unset' => Unset
    BY <1>1, <1>3, ToolsKept DEF Forgotten, Unset, Next
  <2>2. QED
    BY <1>1, <1>2, <2>1 DEF DomainNoticed, DomainSet, Setting, Changed
<1>4. CASE dom' # "running"
  BY <1>4 DEF DomainNoticed, DomainSet, Unset
<1>5. CASE ~(dom = "running" /\ guest' = guest) /\ dom' = "running"
  <2>1. VM!StartDomain
    BY <1>1, <1>5, CalmListing DEF VM!ScriptStep, VM!CreateCheck,
      VM!CreateImage, VM!CreateOverlay, VM!CreateCopy, VM!CreateDefine,
      VM!CreateVerify, VM!StopShutdown, VM!StopDestroy, VM!StopUndefine,
      VM!Halt, VM!Stopped
  <2>2. pc = "starting" /\ dom # "running"
    BY <1>5, <2>1 DEF VM!StartDomain, Flow, ScriptFlow
  <2>3. hook = "config-changed"
    BY <2>2, ServedBetween DEF Flow, HookFlow, DomInv
  <2>4. "config-changed" \in pending /\ Setting
    BY <2>2, <2>3 DEF HookQueued, Setting
  <2>5. QED
    BY <1>1, <2>2, <2>4 DEF DomainNoticed, DomainSet, Setting
<1>6. QED
  BY <1>3, <1>4, <1>5

(* Nor does the operator.                                                   *)
LEMMA DomainEdit ==
  ASSUME Calm, ControlInv, Flow, DiskInv, DomInv, DomainInv,
         NEW o \in Options, NEW v \in Values[o], Edit(o, v)
  PROVE  DomainNoticed'
<1>1. /\ config' = [config EXCEPT ![o] = v] /\ pc \in {"idle", "failed"}
      /\ UNCHANGED <<pc, phase, kv, dom, guest, xmpp, tools>>
      /\ v # kv[o] \/ ~Outdated(o)
  BY DEF Edit, Between, Calm, vmVars, files
<1>2. SUFFICES ASSUME Unset', phase # "removed"
               PROVE  "config-changed" \in pending' /\ Changed(Domain)'
  BY <1>1 DEF DomainNoticed
<1>3. dom = "running" /\ guest # None
  BY <1>1, <1>2 DEF Unset, DiskInv, VM!Active
<1>4. "config-changed" \in pending'
  BY <1>2, <1>3, EditQueued
<1>5. Changed(Domain)'
  <2>1. DOMAIN config = Options /\ Domain \in Options
    BY OptionFacts DEF ControlInv, UnitTypeOK
  <2>2. CASE o = Domain
    <3>1. config'[Domain] = v
      BY <1>1, <2>1, <2>2
    <3>2. xmpp # v
      BY <1>1, <1>2, <3>1 DEF Unset
    <3>3. kv[Domain] # v
      BY <1>1, <1>3, <2>2, <3>2 DEF Outdated
    <3>4. QED
      BY <1>1, <3>1, <3>3 DEF Changed
  <2>3. CASE o # Domain
    <3>1. config'[Domain] = config[Domain]
      BY <1>1, <2>1, <2>3
    <3>2. Unset
      BY <1>1, <1>2, <3>1 DEF Unset
    <3>3. Changed(Domain)
      BY <1>1, <1>2, <3>2 DEF DomainInv, DomainNoticed, Setting
    <3>4. QED
      BY <1>1, <3>1, <3>3 DEF Changed
  <2>4. QED
    BY <2>2, <2>3
<1>6. QED
  BY <1>4, <1>5

LEMMA DomainStep ==
  ASSUME Calm, "ssh" \notin Env, TypeOK, ControlInv, ToolsInv, Flow, DiskInv,
         GuestInv, DomInv, AddrInv, DomainInv, [Next]_vars
  PROVE  DomainNoticed' /\ DomainSet'
<1>1. CASE Run \/ Retry
  <2>1. PICK h \in Hooks : Enter(h)
    BY <1>1 DEF Run, Retry, ControlInv, UnitTypeOK
  <2>2. /\ UNCHANGED <<dom, xmpp, config, kv, pending, phase, tools>>
        /\ pc \in {"idle", "failed"}
        /\ pc' \notin {"detectSvc", "early", "teardown", "atexit"}
    BY <1>1, <2>1, EntryOf DEF Run, Retry, Enter, vmVars, world, queue, files,
                               Elsewhere
  <2>3. Unset /\ phase # "removed"
          => "config-changed" \in pending /\ Changed(Domain)
    BY <2>2 DEF DomainInv, DomainNoticed, Setting
  <2>4. QED
    BY <2>2, <2>3 DEF DomainNoticed, DomainSet, Unset, Changed
<1>2. CASE HookStep
  BY <1>2, DomainHook
<1>3. CASE ScriptStep
  BY <1>3, DomainScript
<1>4. CASE World
  <2>1. pc \in {"idle", "failed"} /\ pc' = pc
    BY <1>4 DEF World, Between, Edit, Join, VsdPublishes, Upgrade, Remove
  <2>2. CASE \E o \in Options : \E v \in Values[o] : Edit(o, v)
    BY <2>1, <2>2, DomainEdit DEF DomainSet
  <2>3. CASE \/ \E r \in Rels : Join(r)
             \/ VsdPublishes \/ Upgrade \/ Remove
    <3>1. /\ UNCHANGED <<hook, proc, config, kv, dom, xmpp, tools>>
          /\ \/ pending \subseteq pending' /\ phase' = phase
             \/ phase' = "removed"
      BY <2>3 DEF Join, VsdPublishes, Upgrade, Remove, vmVars, process, world,
                  files
    <3>2. Unset /\ phase # "removed"
            => "config-changed" \in pending /\ Changed(Domain)
      BY <2>1 DEF DomainInv, DomainNoticed, Setting
    <3>3. QED
      BY <2>1, <3>1, <3>2 DEF DomainNoticed, DomainSet, Unset, Changed
  <2>4. QED
    BY <1>4, <2>2, <2>3 DEF World
<1>5. CASE UNCHANGED vars
  BY <1>5 DEF vars, vmVars, files, world, queue, process, DomainInv, DomainNoticed,
              DomainSet, Unset, Setting, Changed
<1>6. QED
  BY <1>1, <1>2, <1>3, <1>4, <1>5, CalmSteps

(* What every state of a calm unit satisfies.                               *)
CalmInv == /\ TypeOK /\ ControlInv /\ DetectInv /\ ToolsInv /\ Flow
           /\ DiskInv /\ GuestInv /\ DomInv /\ AddrInv

LEMMA CalmInvariant ==
  ASSUME Calm
  PROVE  Spec => []CalmInv
<1>1. /\ VM!NameIsUnique /\ "guestfs" \notin Env
      /\ Address \in Required /\ WholeArchives
  BY DEF Calm, VM!NameIsUnique, VM!Similar
<1>2. Spec => []DiskInv /\ []GuestInv
  BY <1>1, DiskInvariant, GuestInvariant, PTL
<1>3. QED
  BY <1>2, TypeCorrect, ControlInvariant, DetectInvariant, ToolsInvariant,
     FlowInvariant, DomInvariant, AddrInvariant, PTL DEF CalmInv

LEMMA DomainInvariant ==
  ASSUME Calm, "ssh" \notin Env
  PROVE  Spec => []DomainInv
<1>1. Init => DomainInv
  BY DEF Init, DomainInv, StartedWell, HookQueued, SvcCompared, DomainNoticed,
         DomainSet, Unset
<1>2. CalmInv /\ DomainInv /\ [Next]_vars => DomainInv'
  BY StartedWellStep, HookQueuedStep, SvcComparedStep, DomainStep
     DEF CalmInv, DomainInv
<1>3. QED
  BY <1>1, <1>2, CalmInvariant, PTL DEF Spec

(* Whenever no hook is left to run and none has failed, the guest is        *)
(* configured with the domain of xmpp-cluster-domain-name, through every    *)
(* redeployment that lost it and every name the VSD gave in its place: on a *)
(* calm host where ssh works and install got pexpect.                       *)
THEOREM LastDomainApplied ==
  ASSUME Calm, "ssh" \notin Env
  PROVE  Spec => []DomainApplied
<1>1. CalmInv /\ DomainInv => DomainApplied
  <2> SUFFICES ASSUME CalmInv, DomainInv, Settled, "pexpect" \in tools,
                      config[Domain] # None
               PROVE  xmpp = config[Domain]
    BY DEF DomainApplied
  <2>1. pc = "idle" /\ phase = "started" /\ pending = {}
    BY DEF Settled
  <2>2. dom = "running"
    BY <2>1 DEF CalmInv, DomInv, Served
  <2>3. ~Unset
    BY <2>1 DEF DomainInv, DomainNoticed
  <2>4. QED
    BY <2>2, <2>3 DEF Unset
<1>2. QED
  BY <1>1, CalmInvariant, DomainInvariant, PTL

-----------------------------------------------------------------------------
(* The relations, where no hook overtakes config-changed.                   *)

\* Relations that joined early are told when they come to run.
JoinedEarly ==
  /\ phase \in {"new", "installed", "configured"} => joined \subseteq pending
  /\ "start" \in pending => phase = "configured"
  /\ "install" \in pending => phase = "new"
  /\ hook = "start" /\ pc # "idle" => phase = "configured"
  /\ hook = "install" /\ pc # "idle" => phase = "new"

\* A relation-joined hook runs on a unit that needs no config-changed.
JoinsServed ==
  /\ pc = "joined" => hook \in Rels
  /\ hook \in Rels /\ pc # "idle" =>
       /\ pc \in {"joined", "atexit"}
       /\ phase = "started" /\ dom = "running" /\ ~Wrong
       /\ pc = "atexit" => outbox[hook] = config[Address]

\* What a hook of a started unit is about to send.
OutboxRight ==
  /\ pc \notin {"idle", "failed", "setDomain", "atexit"} => outbox = NoOutput
  /\ phase = "started" /\ pc \in {"setDomain", "atexit"} =>
       \A r \in Rels : outbox[r] # None => /\ dom = "running" /\ ~Wrong
                                           /\ outbox[r] = config[Address]

Telling(r) ==
  /\ hook = "config-changed"
  /\ \/ pc = "starting"
     \/ pc \in {"setDomain", "atexit"} /\ outbox[r] = config[Address]

Told ==
  phase = "started" /\ dom = "running" /\ "pexpect" \in tools =>
    \A r \in (joined \cap VrsRels) \ pending :
      published[r] = disk.address \/ Telling(r)

ToldInv == JoinedEarly /\ JoinsServed /\ OutboxRight /\ Told

(* The address a served unit gives away.                                    *)
LEMMA AddressServed ==
  ASSUME CalmInv, dom = "running", ~Wrong
  PROVE  /\ config[Address] = disk.address /\ config[Address] # None
         /\ AddressFound = {config[Address]}
<1>1. disk \in Images
  BY DEF CalmInv, DiskInv
<1>2. config[Address] = disk.address /\ config[Address] # None
  BY <1>1 DEF CalmInv, GuestInv, DiskAddressed, Flow, Wrong
<1>3. QED
  BY <1>2 DEF AddressFound

LEMMA EntryJoined ==
  ASSUME NEW h \in Hooks
  PROVE  Entry(h) = "joined" <=> h \in Rels
<1>1. CASE h \in Rels
  BY <1>1, WorldAssumption DEF Entry, EventHooks
<1>2. CASE h \in EventHooks
  BY <1>2, WorldAssumption DEF Entry, EventHooks
<1>3. QED
  BY <1>1, <1>2 DEF Hooks

(* Finish takes the hook, and nothing else, off the queue.                  *)
LEMMA FinishQueue ==
  ASSUME Finish
  PROVE  /\ \A h \in pending : h # hook => h \in pending'
         /\ "start" \in pending' =>
              \/ "start" \in pending /\ hook # "start"
              \/ hook = "config-changed" /\ phase = "installed"
         /\ "install" \in pending' => "install" \in pending /\ hook # "install"
<1>1. \A h \in pending : h # hook => h \in pending'
  BY DEF Finish
<1>2. "start" \in pending' =>
        \/ "start" \in pending /\ hook # "start"
        \/ hook = "config-changed" /\ phase = "installed"
  BY DEF Finish
<1>3. "install" \in pending' => "install" \in pending /\ hook # "install"
  BY DEF Finish
<1>4. QED
  BY <1>1, <1>2, <1>3

LEMMA JoinedEarlyStep ==
  ASSUME Calm, CalmInv, JoinedEarly, JoinsServed, [Next]_vars
  PROVE  JoinedEarly'
<1> USE DEF JoinedEarly
<1>1. /\ joined \subseteq Rels /\ "install" \notin Rels /\ "start" \notin Rels
      /\ "config-changed" \notin Rels
  BY WorldAssumption DEF CalmInv, ControlInv, UnitTypeOK, EventHooks
<1>2. CASE Run
  <2>1. PICK h \in pending \cap Eligible : Enter(h)
    BY <1>2 DEF Run
  <2>2. hook' = h /\ UNCHANGED <<phase, pending, joined>>
    BY <2>1 DEF Enter, queue, world
  <2>3. QED
    BY <2>1, <2>2
<1>3. CASE Retry
  BY <1>3 DEF Retry, Enter, queue, world
<1>4. CASE HookStep
  <2>1. CASE AtExit
    <3>1. /\ Finish /\ UNCHANGED joined /\ pc' = "idle" /\ pc = "atexit"
      BY <2>1 DEF AtExit, Finish, world
    <3>2. CASE hook \in {"install", "start"}
      <4>1. \/ hook = "install" /\ phase = "new" /\ phase' = "installed"
            \/ hook = "start" /\ phase = "configured" /\ phase' = "started"
        BY <3>1, <3>2 DEF Finish
      <4>2. QED
        BY <1>1, <3>1, <4>1, FinishQueue
    <3>3. CASE hook = "config-changed"
      <4>1. \/ phase = "installed" /\ phase' = "configured"
            \/ phase # "installed" /\ phase' = phase
        BY <3>1, <3>3 DEF Finish
      <4>2. QED
        BY <1>1, <3>1, <3>3, <4>1, FinishQueue
    <3>4. CASE hook \notin {"install", "start", "config-changed"}
      <4>1. phase' = phase
        BY <3>1, <3>4 DEF Finish
      <4>2. hook \in Rels => phase = "started"
        BY <3>1 DEF JoinsServed
      <4>3. QED
        BY <1>1, <3>1, <3>4, <4>1, <4>2, FinishQueue
    <3>5. QED
      BY <3>2, <3>3, <3>4
  <2>2. CASE ~AtExit
    <3>1. joined' = joined
      BY <1>4 DEF HookStep, Install, AptUpdate, AptInstall, Binaries,
        CheckRequired, DetectVm, DetectSvc, ReturnEarly, Teardown, Stopped,
        ServiceOnly, Refetch, Fetch, LocateImage, LocateTemplate, LocateBof,
        Locate, Render, MoveBof, WriteAddress, Create, Created, Start, Started,
        SetDomain, RelationJoined, VsdChanged, VsdRunning, UpgradeCharm, Stop,
        AtExit, world
    <3>2. QED
      BY <1>4, <2>2, <3>1, HooksStay DEF queue
  <2>3. QED
    BY <2>1, <2>2
<1>5. CASE ScriptStep
  BY <1>5 DEF ScriptStep, process, queue, world
<1>6. CASE World
  <2>1. CASE \E o \in Options : \E v \in Values[o] : Edit(o, v)
    BY <2>1 DEF Edit, process
  <2>2. CASE \E r \in Rels : Join(r)
    BY <1>1, <2>2 DEF Join, process
  <2>3. CASE VsdPublishes \/ Upgrade
    BY <2>3 DEF VsdPublishes, Upgrade, process, world
  <2>4. CASE Remove
    BY <2>4 DEF Remove, process, world
  <2>5. QED
    BY <1>6, <2>1, <2>2, <2>3, <2>4 DEF World
<1>7. CASE UNCHANGED vars
  BY <1>7 DEF vars, process, queue, world
<1>8. QED
  BY <1>2, <1>3, <1>4, <1>5, <1>6, <1>7, CalmSteps

LEMMA JoinsServedStep ==
  ASSUME Calm, "overtake" \notin Env, CalmInv, JoinsServed, [Next]_vars
  PROVE  JoinsServed'
<1> USE DEF JoinsServed
<1>1. script # "idle" => pc \in Waits
  BY DEF CalmInv, ControlInv, Control, ScriptRuns
<1>2. CASE Run
  <2>1. PICK h \in pending \cap Eligible : Enter(h)
    BY <1>2 DEF Run
  <2>2. /\ h \in Hooks /\ pc = "idle" /\ hook' = h /\ pc' = Entry(h)
        /\ UNCHANGED <<dom, disk, config, phase>>
    BY <1>2, <2>1
       DEF Run, Enter, vmVars, world, queue, CalmInv, ControlInv, UnitTypeOK
  <2>3. h \in Rels => phase = "started" /\ "config-changed" \notin pending
    BY <2>1, WorldAssumption
       DEF Eligible, EventHooks, CalmInv, ControlInv, UnitTypeOK
  <2>4. h \in Rels => dom = "running" /\ ~Wrong
    BY <2>2, <2>3 DEF CalmInv, DomInv, Served, AddrInv, Noticed
  <2>5. Entry(h) = "joined" <=> h \in Rels
    BY <2>2, EntryJoined
  <2>6. QED
    BY <2>2, <2>3, <2>4, <2>5 DEF Wrong
<1>3. CASE Retry
  <2>1. hook \in Hooks /\ hook' = hook /\ pc' = Entry(hook) /\ pc = "failed"
    BY <1>3 DEF Retry, Enter, CalmInv, ControlInv, UnitTypeOK
  <2>2. QED
    BY <2>1, EntryJoined
<1>4. CASE HookStep
  <2>1. CASE AtExit
    BY <2>1 DEF AtExit, Finish
  <2>2. CASE RelationJoined
    <3>1. pc = "joined" /\ hook \in Rels /\ dom = "running" /\ ~Wrong
      BY <2>2 DEF RelationJoined
    <3>2. AddressFound = {config[Address]} /\ config[Address] # None
      BY <3>1, AddressServed
    <3>3. /\ Done([outbox EXCEPT ![hook] = config[Address]])
          /\ UNCHANGED <<dom, disk, config>>
      BY <2>2, <3>2 DEF RelationJoined, vmVars, world
    <3>4. /\ pc' = "atexit" /\ UNCHANGED <<hook, phase>>
          /\ outbox'[hook] = config[Address]
      BY <3>1, <3>3 DEF Done, queue, CalmInv, ControlInv, UnitTypeOK
    <3>5. QED
      BY <3>1, <3>3, <3>4 DEF Wrong
  <2>3. CASE ~AtExit /\ ~RelationJoined
    <3>1. pc \notin {"joined", "atexit"} /\ pc' # "joined" /\ pc # "idle"
      BY <1>4, <2>3 DEF HookStep, Install, AptUpdate, AptInstall, AptGet,
        LeaveLoop, Binaries, CheckRequired, DetectVm, DetectSvc, Detect,
        Compared, ReturnEarly, Teardown, Stopped, ServiceOnly, Refetch, Fetch,
        LocateImage, LocateTemplate, LocateBof, Locate, Render, MoveBof,
        WriteAddress, Create, Created, Start, Started, SetDomain, VsdChanged,
        VsdRunning, UpgradeCharm, Stop, Goto, Raise, Block, Done
    <3>2. hook' = hook
      BY <1>4, <2>3, HooksStay
    <3>3. QED
      BY <3>1, <3>2
  <2>4. QED
    BY <2>1, <2>2, <2>3
<1>5. CASE ScriptStep
  <2>1. UNCHANGED <<pc, hook>> /\ script # "idle"
    BY <1>5 DEF ScriptStep, process, VM!ScriptStep, VM!CreateCheck,
      VM!CreateImage, VM!CreateOverlay, VM!CreateCopy, VM!CreateDefine,
      VM!CreateVerify, VM!StartDomain, VM!StopShutdown, VM!StopDestroy,
      VM!StopUndefine
  <2>2. pc \in Waits
    BY <1>1, <2>1
  <2>3. QED
    BY <2>1, <2>2 DEF Waits
<1>6. CASE World
  <2>1. UNCHANGED <<pc, hook>> /\ pc \in {"idle", "failed"}
    BY <1>6 DEF World, Between, Edit, Join, VsdPublishes, Upgrade, Remove,
                process
  <2>2. QED
    BY <2>1
<1>7. CASE UNCHANGED vars
  BY <1>7 DEF vars, vmVars, world, queue, process, Wrong
<1>8. QED
  BY <1>2, <1>3, <1>4, <1>5, <1>6, <1>7, CalmSteps

LEMMA OutboxRightStep ==
  ASSUME Calm, CalmInv, DomainInv, JoinedEarly, JoinsServed, OutboxRight,
         [Next]_vars
  PROVE  OutboxRight'
<1> USE DEF OutboxRight
<1>1. CASE Run \/ Retry
  <2>1. PICK h \in Hooks : Enter(h)
    BY <1>1 DEF Run, Retry, CalmInv, ControlInv, UnitTypeOK
  <2>2. outbox' = NoOutput /\ pc' \notin {"setDomain", "atexit"}
    BY <2>1, EntryOf DEF Enter, Elsewhere
  <2>3. QED
    BY <2>2
<1>2. CASE HookStep
  <2>1. UNCHANGED <<dom, disk, config>>
    BY <1>2, HooksFrame
  <2>2. CASE AtExit
    BY <2>2 DEF AtExit, Finish
  <2>3. ~AtExit => phase' = phase /\ hook' = hook
    BY <1>2, HooksStay DEF queue
  <2>4. CASE RelationJoined
    <3>1. pc = "joined" /\ hook \in Rels /\ dom = "running" /\ ~Wrong
      BY <2>4 DEF RelationJoined, JoinsServed
    <3>2. AddressFound = {config[Address]} /\ config[Address] # None
      BY <3>1, AddressServed
    <3>3. Done([outbox EXCEPT ![hook] = config[Address]]) /\ outbox = NoOutput
      BY <2>4, <3>1, <3>2 DEF RelationJoined
    <3>4. /\ pc' = "atexit"
          /\ \A r \in Rels : outbox'[r] \in {None, config[Address]}
      BY <3>3 DEF Done, NoOutput
    <3>5. QED
      BY <2>1, <3>1, <3>4 DEF Wrong
  <2>5. CASE Started
    <3>1. pc = "starting" /\ script = "idle" /\ rc = 0
      BY <2>5 DEF Started, DomainInv, StartedWell
    <3>2. dom = "running" /\ hook \in {"config-changed", "start"}
      BY <3>1 DEF CalmInv, DomInv, DomFlow, Flow, HookFlow
    <3>3. ~AtExit
      BY <3>1 DEF AtExit
    <3>4. CASE phase = "started"
      <4>1. hook = "config-changed"
        BY <3>1, <3>2, <3>4 DEF JoinedEarly
      <4>2. ~Wrong
        BY <3>1, <4>1 DEF CalmInv, AddrInv, Redeployed
      <4>3. AddressFound = {config[Address]} /\ config[Address] # None
        BY <3>2, <4>2, AddressServed
      <4>4. pc' = "setDomain"
        BY <2>5, <3>1, <4>3 DEF Started
      <4>5. \A r \in Rels : outbox'[r] \in {outbox[r], config[Address]}
        BY <2>5, <3>1, <4>3 DEF Started
      <4>6. \A r \in Rels : outbox'[r] \in {None, config[Address]}
        BY <3>1, <4>5 DEF NoOutput
      <4>7. QED
        BY <2>1, <3>2, <4>2, <4>4, <4>6 DEF Wrong
    <3>5. CASE phase # "started"
      <4>1. pc' \in {"setDomain", "failed"}
        BY <2>5 DEF Started, Raise, Block
      <4>2. QED
        BY <2>3, <3>3, <3>5, <4>1
    <3>6. QED
      BY <3>4, <3>5
  <2>6. CASE SetDomain
    <3>1. outbox' = outbox /\ pc = "setDomain" /\ pc' \in {"atexit", "failed"}
      BY <2>6 DEF SetDomain, Block, Raise, Done, process
    <3>2. ~AtExit
      BY <3>1 DEF AtExit
    <3>3. QED
      BY <2>1, <2>3, <3>1, <3>2 DEF Wrong
  <2>7. CASE ~AtExit /\ ~RelationJoined /\ ~Started /\ ~SetDomain
    <3>1. /\ outbox' = outbox
          /\ pc \notin {"idle", "failed", "setDomain", "atexit"}
      BY <1>2, <2>7 DEF HookStep, Install, AptUpdate, AptInstall, AptGet,
        LeaveLoop, Binaries, CheckRequired, DetectVm, DetectSvc, Detect,
        Compared, ReturnEarly, Teardown, Stopped, ServiceOnly, Refetch, Fetch,
        LocateImage, LocateTemplate, LocateBof, Locate, Render, MoveBof,
        WriteAddress, Create, Created, Start, VsdChanged, VsdRunning,
        UpgradeCharm, Stop, Goto, Raise, Block, Done, process
    <3>2. outbox' = NoOutput
      BY <3>1
    <3>3. \A r \in Rels : outbox'[r] = None
      BY <3>2 DEF NoOutput
    <3>4. QED
      BY <3>2, <3>3
  <2>8. QED
    BY <2>2, <2>4, <2>5, <2>6, <2>7
<1>3. CASE ScriptStep
  <2>1. UNCHANGED <<pc, outbox>> /\ script # "idle"
    BY <1>3 DEF ScriptStep, process, VM!ScriptStep, VM!CreateCheck,
      VM!CreateImage, VM!CreateOverlay, VM!CreateCopy, VM!CreateDefine,
      VM!CreateVerify, VM!StartDomain, VM!StopShutdown, VM!StopDestroy,
      VM!StopUndefine
  <2>2. pc \in Waits
    BY <2>1 DEF CalmInv, ControlInv, Control, ScriptRuns
  <2>3. QED
    BY <2>1, <2>2 DEF Waits
<1>4. CASE World
  <2>1. pc' = pc /\ pc \in {"idle", "failed"}
    BY <1>4 DEF World, Between, Edit, Join, VsdPublishes, Upgrade, Remove
  <2>2. QED
    BY <2>1
<1>5. CASE UNCHANGED vars
  BY <1>5 DEF vars, vmVars, world, queue, process, Wrong
<1>6. QED
  BY <1>1, <1>2, <1>3, <1>4, <1>5, CalmSteps

(* Config-changed that has started the VM, or is about to end, tells the    *)
(* relations.                                                               *)
LEMMA ToldHook ==
  ASSUME Calm, "ssh" \notin Env, CalmInv, DomainInv, ToldInv, HookStep
  PROVE  Told'
<1> USE DEF ToldInv
<1>1. UNCHANGED <<dom, disk, config, joined>>
  <2>1. joined' = joined
    BY DEF HookStep, Install, AptUpdate, AptInstall, Binaries,
      CheckRequired, DetectVm, DetectSvc, ReturnEarly, Teardown, Stopped,
      ServiceOnly, Refetch, Fetch, LocateImage, LocateTemplate, LocateBof,
      Locate, Render, MoveBof, WriteAddress, Create, Created, Start, Started,
      SetDomain, RelationJoined, VsdChanged, VsdRunning, UpgradeCharm, Stop,
      AtExit, world
  <2>2. QED
    BY <2>1, HooksFrame
<1>2. SUFFICES ASSUME phase' = "started", dom = "running",
                      "pexpect" \in tools,
                      NEW r \in (joined \cap VrsRels) \ pending'
               PROVE  published'[r] = disk.address \/ Telling(r)'
  <2>1. dom = "running" => tools' = tools
    BY ToolsKept DEF Next, CalmInv
  <2>2. QED
    BY <1>1, <2>1 DEF Told
<1>3. /\ r \in Rels /\ r # "start"
      /\ hook = "config-changed" /\ pc \in {"starting", "setDomain", "atexit"}
           => ~Wrong
  BY WorldAssumption
     DEF CalmInv, ControlInv, UnitTypeOK, EventHooks, AddrInv, Redeployed, Rels
<1>4. CASE AtExit
  <2>1. /\ pc = "atexit" /\ Finish
        /\ published'[r] = IF outbox[r] = None THEN published[r] ELSE outbox[r]
    BY <1>3, <1>4 DEF AtExit
  <2>2. phase = "started"
    <3>1. phase = "started" \/ hook = "start"
      BY <1>2, <2>1 DEF Finish
    <3>2. hook = "start" => joined \subseteq pending
      BY <2>1 DEF JoinedEarly
    <3>3. hook = "start" => r \in pending'
      BY <1>3, <2>1, <3>2, FinishQueue
    <3>4. QED
      BY <3>1, <3>3
  <2>3. outbox[r] # None => outbox[r] = disk.address
    BY <1>3, <2>1, <2>2 DEF OutboxRight, Wrong
  <2>4. CASE r \in pending
    <3>1. r = hook
      BY <2>1, <2>4, FinishQueue
    <3>2. ~Wrong /\ outbox[r] = config[Address]
      BY <1>3, <2>1, <3>1 DEF JoinsServed
    <3>3. outbox[r] # None
      BY <1>2, <3>2, AddressServed
    <3>4. QED
      BY <2>1, <2>3, <3>3
  <2>5. CASE r \notin pending
    <3>1. published[r] = disk.address \/ Telling(r)
      BY <1>2, <2>2, <2>5 DEF Told
    <3>2. Telling(r) => outbox[r] # None
      <4>1. SUFFICES ASSUME Telling(r)
                     PROVE  outbox[r] # None
        OBVIOUS
      <4>2. outbox[r] = config[Address] /\ ~Wrong
        BY <1>3, <2>1, <4>1 DEF Telling
      <4>3. QED
        BY <1>2, <4>2, AddressServed
    <3>3. QED
      BY <2>1, <2>3, <3>1, <3>2
  <2>6. QED
    BY <2>4, <2>5
<1>5. CASE ~AtExit
  <2>1. UNCHANGED <<hook, pending, phase, published>>
    BY <1>5, HooksStay DEF queue
  <2>2. published[r] = disk.address \/ Telling(r)
    BY <1>2, <2>1 DEF Told
  <2>3. CASE pc = "starting" /\ hook = "config-changed"
    <3>1. Started
      BY <1>5, <2>3 DEF HookStep, Install, AptUpdate, AptInstall, Binaries,
        CheckRequired, DetectVm, DetectSvc, ReturnEarly, Teardown, Stopped,
        ServiceOnly, Refetch, Fetch, LocateImage, LocateTemplate, LocateBof,
        Render, MoveBof, WriteAddress, Create, Created, Start,
        SetDomain, RelationJoined, VsdChanged, VsdRunning, UpgradeCharm, Stop
    <3>2. AddressFound = {config[Address]} /\ config[Address] # None
      BY <1>2, <1>3, <2>3, AddressServed
    <3>3. script = "idle" /\ rc = 0
      BY <2>3, <3>1 DEF Started, DomainInv, StartedWell
    <3>4. pc' = "setDomain" /\ outbox'[r] = config[Address]
      BY <1>3, <3>1, <3>2, <3>3 DEF Started
    <3>5. QED
      BY <1>1, <2>1, <2>3, <3>4 DEF Telling
  <2>4. CASE pc = "setDomain" /\ hook = "config-changed"
    <3>1. SetDomain
      BY <1>5, <2>4 DEF HookStep, Install, AptUpdate, AptInstall, Binaries,
        CheckRequired, DetectVm, DetectSvc, ReturnEarly, Teardown, Stopped,
        ServiceOnly, Refetch, Fetch, LocateImage, LocateTemplate, LocateBof,
        Render, MoveBof, WriteAddress, Create, Created, Start, Started,
        RelationJoined, VsdChanged, VsdRunning, UpgradeCharm, Stop
    <3>2. pc' = "atexit"
      BY <1>2, <2>4, <3>1, SetDomainSets DEF CalmInv
    <3>3. outbox' = outbox
      BY <3>1, <3>2 DEF SetDomain, Done, Block, Raise, process
    <3>4. QED
      BY <1>1, <2>1, <2>2, <2>4, <3>2, <3>3 DEF Telling
  <2>5. CASE pc = "atexit"
    <3>1. FALSE
      BY <1>5, <2>5 DEF HookStep, Install, AptUpdate, AptInstall, Binaries,
        CheckRequired, DetectVm, DetectSvc, ReturnEarly, Teardown, Stopped,
        ServiceOnly, Refetch, Fetch, LocateImage, LocateTemplate, LocateBof,
        Render, MoveBof, WriteAddress, Create, Created, Start, Started,
        SetDomain, RelationJoined, VsdChanged, VsdRunning, UpgradeCharm, Stop
    <3>2. QED
      BY <3>1
  <2>6. CASE ~Telling(r)
    BY <1>1, <2>1, <2>2, <2>6
  <2>7. QED
    BY <2>3, <2>4, <2>5, <2>6 DEF Telling
<1>6. QED
  BY <1>4, <1>5

LEMMA ToldStep ==
  ASSUME Calm, "ssh" \notin Env, "overtake" \notin Env, CalmInv, CalmInv',
         DomainInv, ToldInv, [Next]_vars
  PROVE  Told'
<1>1. CASE Run \/ Retry
  <2>1. PICK h \in Hooks : Enter(h)
    BY <1>1 DEF Run, Retry, CalmInv, ControlInv, UnitTypeOK
  <2>2. /\ UNCHANGED <<dom, disk, joined, pending, phase, published, tools>>
        /\ pc \in {"idle", "failed"}
    BY <1>1, <2>1 DEF Run, Retry, Enter, vmVars, world, queue, files
  <2>3. \A r : ~Telling(r)
    BY <2>2 DEF Telling
  <2>4. QED
    BY <2>2, <2>3 DEF ToldInv, Told
<1>2. CASE HookStep
  BY <1>2, ToldHook
<1>3. CASE ScriptStep
  <2>1. /\ VM!ScriptStep
        /\ UNCHANGED <<pc, hook, outbox, config, joined, pending, phase,
                       published, tools>>
    BY <1>3 DEF ScriptStep, world, process, queue, files
  <2>2. \A r : Telling(r)' <=> Telling(r)
    BY <2>1 DEF Telling
  <2>3. CASE dom = "running" /\ dom' = "running" /\ guest' = guest
    <3>1. guest.disk = disk /\ guest'.disk = disk'
      BY <2>3 DEF CalmInv, DiskInv, VM!Active
    <3>2. disk' = disk
      BY <2>3, <3>1
    <3>3. QED
      BY <2>1, <2>2, <2>3, <3>2 DEF ToldInv, Told
  <2>4. CASE dom' # "running"
    BY <2>4 DEF Told
  <2>5. CASE ~(dom = "running" /\ guest' = guest) /\ dom' = "running"
    <3>1. VM!StartDomain
      BY <2>1, <2>5, CalmListing DEF VM!ScriptStep, VM!CreateCheck,
        VM!CreateImage, VM!CreateOverlay, VM!CreateCopy, VM!CreateDefine,
        VM!CreateVerify, VM!StopShutdown, VM!StopDestroy, VM!StopUndefine,
        VM!Halt, VM!Stopped, CalmInv, TypeOK, DomInv
    <3>2. pc = "starting" /\ dom # "running"
      BY <2>5, <3>1 DEF VM!StartDomain, CalmInv, Flow, ScriptFlow
    <3>3. hook = "config-changed"
      BY <3>2, ServedBetween DEF CalmInv, Flow, HookFlow, DomInv
    <3>4. QED
      BY <2>1, <3>2, <3>3 DEF Told, Telling
  <2>6. QED
    BY <2>3, <2>4, <2>5
<1>4. CASE World
  <2>1. /\ pc \in {"idle", "failed"}
        /\ UNCHANGED <<dom, disk, published, tools>>
        /\ phase' = "started" =>
             /\ phase = "started"
             /\ joined' \ pending' \subseteq joined \ pending
    BY <1>4 DEF World, Between, Edit, Join, VsdPublishes, Upgrade, Remove,
                vmVars, world, files
  <2>2. \A r : ~Telling(r)
    BY <2>1 DEF Telling
  <2>3. QED
    BY <2>1, <2>2 DEF ToldInv, Told
<1>5. CASE UNCHANGED vars
  BY <1>5 DEF vars, vmVars, files, world, queue, process, ToldInv, Told, Telling
<1>6. QED
  BY <1>1, <1>2, <1>3, <1>4, <1>5, CalmSteps

LEMMA ToldInvariant ==
  ASSUME Calm, "ssh" \notin Env, "overtake" \notin Env
  PROVE  Spec => []ToldInv
<1>1. Init => ToldInv
  BY DEF Init, ToldInv, JoinedEarly, JoinsServed, OutboxRight, Told
<1>2. CalmInv /\ CalmInv' /\ DomainInv /\ ToldInv /\ [Next]_vars => ToldInv'
  BY JoinedEarlyStep, JoinsServedStep, OutboxRightStep, ToldStep DEF ToldInv
<1>3. QED
  BY <1>1, <1>2, CalmInvariant, DomainInvariant, PTL DEF Spec

(* Whenever no hook is left to run and none has failed, every relation of   *)
(* vrs-controller-service sees the configured address, whether it joined    *)
(* before the unit was installed, while a hook was failing, or after the    *)
(* address changed: on a calm host where ssh works, install got pexpect and *)
(* Juju prefers config-changed to the other hooks.                          *)
THEOREM LastAddressPublished ==
  ASSUME Calm, "ssh" \notin Env, "overtake" \notin Env
  PROVE  Spec => []AddressPublished
<1>1. CalmInv /\ ToldInv => AddressPublished
  <2> SUFFICES ASSUME CalmInv, ToldInv, Settled, "pexpect" \in tools,
                      NEW r \in joined \cap VrsRels
               PROVE  published[r] = config[Address]
    BY DEF AddressPublished
  <2>1. pc = "idle" /\ phase = "started" /\ pending = {}
    BY DEF Settled
  <2>2. dom = "running"
    BY <2>1 DEF CalmInv, DomInv, Served
  <2>3. disk.address = config[Address]
    BY <2>1, <2>2 DEF CalmInv, AddrInv, Noticed, Wrong
  <2>4. published[r] = disk.address
    BY <2>1, <2>2 DEF ToldInv, Told, Telling
  <2>5. QED
    BY <2>3, <2>4
<1>2. QED
  BY <1>1, CalmInvariant, ToldInvariant, PTL

-----------------------------------------------------------------------------
(* What a guest is booted with.                                             *)

(* A guest comes up by start_vsp_vm alone.                                  *)
LEMMA BootStep ==
  ASSUME Calm, CalmInv, [Next]_vars, guest = None, guest' # None
  PROVE  /\ pc = "starting" /\ dom = "shut off"
         /\ guest' = [disk |-> disk, defn |-> defn]
         /\ config' = config
<1>1. CASE Run \/ Retry \/ World \/ UNCHANGED vars
  BY <1>1 DEF Run, Retry, Enter, World, Edit, Join, VsdPublishes, Upgrade,
              Remove, vars, vmVars
<1>2. CASE HookStep
  BY <1>2, HooksFrame
<1>3. CASE ScriptStep
  <2>1. VM!ScriptStep /\ UNCHANGED <<pc, config>>
    BY <1>3 DEF ScriptStep, process, world
  <2>2. VM!StartDomain
    BY <2>1 DEF VM!ScriptStep, VM!CreateCheck, VM!CreateImage,
      VM!CreateOverlay, VM!CreateCopy, VM!CreateDefine, VM!CreateVerify,
      VM!StopShutdown, VM!StopDestroy, VM!StopUndefine, VM!Halt, VM!Stopped
  <2>3. script = "dominfo" /\ dom = "shut off"
    BY <2>2 DEF VM!StartDomain
  <2>4. pc = "starting"
    BY <2>3 DEF CalmInv, Flow, ScriptFlow
  <2>5. QED
    BY <2>1, <2>2, <2>3, <2>4 DEF VM!StartDomain
<1>4. QED
  BY <1>1, <1>2, <1>3, CalmSteps

(* Every guest that comes up, whichever hook starts it and whatever failed  *)
(* or was edited before, boots from a disk with the address that is         *)
(* configured at that moment: on a calm host.                               *)
THEOREM BootsWithAddress ==
  ASSUME Calm
  PROVE  Spec => BootsAsConfigured
<1>1. CalmInv /\ [Next]_vars
      => (guest = None /\ guest' # None
            => guest'.disk.address = config[Address])
  <2> SUFFICES ASSUME CalmInv, [Next]_vars, guest = None, guest' # None
               PROVE  guest'.disk.address = config[Address]
    OBVIOUS
  <2>1. /\ pc = "starting" /\ dom = "shut off"
        /\ guest' = [disk |-> disk, defn |-> defn]
    BY BootStep
  <2>2. disk.address = config[Address]
    BY <2>1 DEF CalmInv, AddrInv, DiskRight
  <2>3. QED
    BY <2>1, <2>2
<1>2. QED
  BY <1>1, CalmInvariant, PTL DEF Spec, BootsAsConfigured
=============================================================================
