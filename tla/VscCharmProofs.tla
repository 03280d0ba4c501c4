--------------------------- MODULE VscCharmProofs ---------------------------
(***************************************************************************)
(* Proofs about VscCharm, for every list of options, every repository,     *)
(* every set of relations and whatever may go wrong: the types of what the *)
(* hooks keep; that the hooks implement VspVm, of which they are one of    *)
(* the clients, and with it PersistentDomain; that a test that finds no    *)
(* change has seen every option; that every step of a hook brings it       *)
(* nearer to its end; and that config-changed tears the VM down at most    *)
(* once for each option between two edits.                                 *)
(***************************************************************************)
EXTENDS VscTeardowns, FiniteSetTheorems, TLAPS

(* The strengthening: what a step relies on that an earlier one has         *)
(* ensured.  A script runs only while the hook waits for it; from the test  *)
(* of the required options to the fetch there is a URL; the hook of a stop  *)
(* that nothing follows is stop itself; a template was located before it is *)
(* read; and the test of the options is within their list.                  *)

ScriptRuns == script # "idle" => pc \in Waits

UrlGiven ==
  \/ pc \in {"detectVm", "detectSvc", "early", "teardown", "svcOnly",
             "refetch", "fetch"}
  \/ pc = "stopping" /\ hook # "stop"
  => config[Url] # None

StopsAlone == pc = "stop" => hook = "stop"

TemplateFound == pc \in {"locateBof", "render"} => kv[TemplatePath] # None

WithinList == /\ pc = "required"  => proc.option = 1
              /\ pc = "detectVm"  => proc.option <= Len(VmOptions)
              /\ pc = "detectSvc" => proc.option <= Len(SvcOptions)

Control ==
  ScriptRuns /\ UrlGiven /\ StopsAlone /\ TemplateFound /\ WithinList

ControlInv == UnitTypeOK /\ Control

-----------------------------------------------------------------------------
(* Constants.                                                               *)

(* What the assumptions say of the options.                                 *)
LEMMA OptionFacts ==
  /\ Len(VmOptions) \in Nat \ {0} /\ Len(SvcOptions) \in Nat \ {0}
  /\ \A i \in 1..Len(VmOptions) : VmOptions[i] \in Options
  /\ \A i \in 1..Len(SvcOptions) : SvcOptions[i] \in Options
  /\ Url \in Options /\ Address \in Options /\ Domain \in Options
  /\ Url \in Required
  /\ \A p \in Paths : p \notin Options
<1>1. /\ Len(VmOptions) \in Nat \ {0}
      /\ Len(SvcOptions) \in Nat \ {0}
  BY OptionsAssumption
<1>2. /\ \A i \in 1..Len(VmOptions) : VmOptions[i] \in Options
      /\ \A i \in 1..Len(SvcOptions) : SvcOptions[i] \in Options
  BY DEF Options, SeqElems
<1>3. Url \in Options /\ Address \in Options /\ Domain \in Options
  BY OptionsAssumption DEF Options
<1>4. QED
  BY <1>1, <1>2, <1>3, OptionsAssumption

(* The keys of the store that hold paths.                                   *)
LEMMA PathFacts ==
  /\ FetchPath \in Paths /\ ImagePath \in Paths
  /\ TemplatePath \in Paths /\ BofPath \in Paths
  /\ TemplatePath \notin {BofPath, FetchPath, ImagePath}
BY DEF Paths, FetchPath, ImagePath, TemplatePath, BofPath

(* Where a hook starts.                                                     *)
LEMMA EntryFacts ==
  ASSUME NEW h \in Hooks
  PROVE  /\ Entry(h) \in {"install", "required", "joined", "vsd", "start",
                          "stop", "upgrade"}
         /\ Entry(h) = "stop" => h = "stop"
<1>1. CASE h \in Rels
  BY <1>1, WorldAssumption DEF Entry, EventHooks
<1>2. CASE h \in EventHooks
  BY <1>2, WorldAssumption DEF Entry, EventHooks
<1>3. QED
  BY <1>1, <1>2 DEF Hooks

-----------------------------------------------------------------------------
(* Juju and the hooks' ends.                                                *)

(* A hook starts, for the first time or again.                              *)
LEMMA EnterStep ==
  ASSUME ControlInv, NEW h \in Hooks, Enter(h), pc \in {"idle", "failed"}
  PROVE  ControlInv'
<1> USE DEF ControlInv, Control
<1>1. /\ UNCHANGED <<vmVars, files, world, queue, kv, status>>
      /\ pc' = Entry(h) /\ hook' = h
      /\ proc' = Fresh /\ outbox' = NoOutput
  BY DEF Enter
<1>2. Fresh \in [option : Nat \ {0}, vmChanged : BOOLEAN,
                 svcChanged : BOOLEAN, domain : {None, VsdName},
                 tries : 0..MaxTries]
  BY WorldAssumption DEF Fresh
<1>3. NoOutput \in [Rels -> Addresses \cup {None}]
  BY DEF NoOutput
<1>4. UnitTypeOK'
  BY <1>1, <1>2, <1>3, EntryFacts
     DEF UnitTypeOK, vmVars, files, world, queue, Steps, Probes, Waits
<1>5. ScriptRuns'
  BY <1>1, EntryFacts DEF ScriptRuns, Waits, vmVars
<1>6. UrlGiven' /\ StopsAlone' /\ TemplateFound' /\ WithinList'
  BY <1>1, EntryFacts DEF Fresh, UrlGiven, StopsAlone, TemplateFound, WithinList
<1>7. QED
  BY <1>4, <1>5, <1>6

(* What follows a hook keeps the queue in its types.                        *)
LEMMA FinishTypes ==
  ASSUME UnitTypeOK, Finish
  PROVE  /\ pc' = "idle" /\ hook' = hook /\ proc' = proc /\ confTorn' = confTorn
         /\ phase' \in {"new", "installed", "configured", "started", "removed"}
         /\ pending' \subseteq Hooks
         /\ outbox' \in [Rels -> Addresses \cup {None}]
<1>1. outbox' \in [Rels -> Addresses \cup {None}]
  BY DEF Finish, NoOutput
<1>2. phase' \in {"new", "installed", "configured", "started", "removed"}
  BY DEF Finish, UnitTypeOK
<1>3. pending' \subseteq Hooks
  BY DEF Finish, UnitTypeOK, Hooks, EventHooks
<1>4. QED
  BY <1>1, <1>2, <1>3 DEF Finish

(* The end of a hook that succeeded.                                        *)
LEMMA AtExitStep == ControlInv /\ AtExit => ControlInv'
<1> SUFFICES ASSUME ControlInv, AtExit PROVE ControlInv'
  OBVIOUS
<1>1. published' \in [Rels -> Addresses \cup {None}]
  BY DEF AtExit, ControlInv, UnitTypeOK
<1>2. UnitTypeOK'
  BY <1>1, FinishTypes DEF AtExit, ControlInv, UnitTypeOK, vmVars, files, world
<1>3. Control'
  BY FinishTypes
     DEF AtExit, vmVars, ControlInv, UnitTypeOK, Control, ScriptRuns, Waits,
         UrlGiven, StopsAlone,
     TemplateFound, WithinList
<1>4. QED
  BY <1>2, <1>3 DEF ControlInv

(* A failed hook the operator skips.                                        *)
LEMMA SkipStep == ControlInv /\ Skip => ControlInv'
<1> SUFFICES ASSUME ControlInv, Skip PROVE ControlInv'
  OBVIOUS
<1>1. UnitTypeOK'
  BY FinishTypes DEF Skip, ControlInv, UnitTypeOK, vmVars, files, world
<1>2. Control'
  BY FinishTypes
     DEF Skip, vmVars, ControlInv, UnitTypeOK, Control, ScriptRuns, Waits,
         UrlGiven, StopsAlone,
     TemplateFound, WithinList
<1>3. QED
  BY <1>1, <1>2 DEF ControlInv


(* Past the test of the required options there is a URL, and the test of    *)
(* the VM options starts with the first.                                    *)
LEMMA CheckRequiredStep == ControlInv /\ CheckRequired => ControlInv'
<1> SUFFICES ASSUME ControlInv, CheckRequired PROVE ControlInv'
  OBVIOUS
<1> USE DEF CheckRequired, ControlInv, UnitTypeOK, Control, ScriptRuns,
            UrlGiven, StopsAlone, TemplateFound, WithinList, Steps, Probes,
            Waits, vmVars, files, world, queue, process
<1>1. CASE \E o \in Required : config[o] = None
  BY <1>1 DEF Block, Raise
<1>2. CASE ~\E o \in Required : config[o] = None
  <2>1. config[Url] # None
    BY <1>2, OptionFacts
  <2>2. pc' = "detectVm" /\ UNCHANGED <<vmVars, files, world, kv, status, process, queue>>
    BY <1>2 DEF Goto
  <2>3. QED
    BY <2>1, <2>2, OptionFacts
<1>3. QED
  BY <1>1, <1>2

(* bof.cfg leaves the directory it was unpacked into.                       *)
LEMMA MoveBofStep == ControlInv /\ MoveBof => ControlInv'
<1> SUFFICES ASSUME ControlInv, MoveBof PROVE ControlInv'
  OBVIOUS
<1>1. kv[BofPath] \in Dirs \cup {None}
  BY PathFacts DEF ControlInv, UnitTypeOK
<1>2. tree' \in [Dirs -> [image : Images \cup {None},
                          template : Urls \cup {None, Torn}, bof : BOOLEAN]]
  <2>1. CASE tree' = tree
    BY <2>1 DEF ControlInv, UnitTypeOK
  <2>2. CASE tree' = [tree EXCEPT ![kv[BofPath]].bof = FALSE]
    BY <2>2, <1>1 DEF ControlInv, UnitTypeOK
  <2>3. QED
    BY <2>1, <2>2 DEF MoveBof, files
<1>3. /\ bofFile' \in BOOLEAN /\ UNCHANGED <<template, spoiled, tools>>
      /\ pc' \in {"guestfs", "failed"}
      /\ UNCHANGED <<vmVars, world, kv, status, queue, process>>
      /\ pc = "moveBof"
  BY DEF MoveBof, Raise, Goto, files, ControlInv, UnitTypeOK
<1>4. QED
  BY <1>2, <1>3
     DEF ControlInv, UnitTypeOK, Control, ScriptRuns, UrlGiven, StopsAlone,
         TemplateFound, WithinList, Steps, Probes, Waits, vmVars, files,
         world, queue, process

(* The address is written only into an image that is there.                 *)
LEMMA WriteAddressStep == ControlInv /\ WriteAddress => ControlInv'
<1> SUFFICES ASSUME ControlInv, WriteAddress PROVE ControlInv'
  OBVIOUS
<1> DEFINE d == kv[FetchPath]
           Dir == [image : Images \cup {None}, template : Urls \cup {None, Torn},
                   bof : BOOLEAN]
<1>1. d \in Dirs \cup {None} /\ config[Address] \in Addresses \cup {None}
  BY PathFacts, OptionFacts DEF ControlInv, UnitTypeOK, Addresses
<1>2. tree' \in [Dirs -> Dir]
  <2>1. CASE tree' = tree
    BY <2>1 DEF ControlInv, UnitTypeOK
  <2>2. CASE /\ tree' = [tree EXCEPT ![d].image.address = config[Address]]
             /\ Staged # None
    <3>1. d \in Dirs /\ tree[d] \in Dir /\ tree[d].image \in Images
      BY <1>1, <2>2 DEF Staged, ControlInv, UnitTypeOK
    <3>2. [tree[d].image EXCEPT !.address = config[Address]] \in Images
      BY <3>1, <1>1 DEF Images
    <3>3. [tree[d] EXCEPT !.image =
             [tree[d].image EXCEPT !.address = config[Address]]] \in Dir
      BY <3>1, <3>2
    <3>4. tree' = [tree EXCEPT ![d] = [tree[d] EXCEPT !.image =
             [tree[d].image EXCEPT !.address = config[Address]]]]
      BY <2>2
    <3>5. tree \in [Dirs -> Dir]
      BY DEF ControlInv, UnitTypeOK
    <3> HIDE DEF d, Dir
    <3>6. QED
      BY <3>1, <3>3, <3>4, <3>5
  <2>3. QED
    BY <2>1, <2>2 DEF WriteAddress
<1>3. /\ UNCHANGED <<bofFile, template, spoiled, tools, vmVars, world, kv, status,
                      queue, process>>
      /\ pc' = "create" /\ pc = "guestfs"
  BY DEF WriteAddress, Goto
<1>4. QED
  BY <1>2, <1>3
     DEF ControlInv, UnitTypeOK, Control, ScriptRuns, UrlGiven, StopsAlone,
         TemplateFound, WithinList, Steps, Probes, Waits, vmVars, files,
         world, queue, process

(* An archive, whole or not, is unpacked into a directory of its own name.  *)
LEMMA FetchStep == ControlInv /\ Fetch => ControlInv'
<1> SUFFICES ASSUME ControlInv, Fetch PROVE ControlInv'
  OBVIOUS
<1> DEFINE u == config[Url]
           d == DirOf[u]
           Dir == [image : Images \cup {None}, template : Urls \cup {None, Torn},
                   bof : BOOLEAN]
<1>1. u \in Urls /\ d \in Dirs
  BY OptionFacts
     DEF Fetch, ControlInv, UnitTypeOK, Control, UrlGiven, Urls, Dirs
<1>2. ASSUME NEW S, NEW Cut, NEW t \in Dir
      PROVE  Unpacked(t, u, S, Cut) \in Dir
  <2>1. [from |-> u, address |-> None, whole |-> "image" \in S] \in Images
    BY <1>1 DEF Images
  <2>2. QED
    BY <1>1, <2>1 DEF Unpacked
<1>3. tree \in [Dirs -> Dir]
  BY DEF ControlInv, UnitTypeOK
<1>4. tree' \in [Dirs -> Dir]
  <2>1. PICK S, Cut : tree' = [tree EXCEPT ![d] = Unpacked(tree[d], u, S, Cut)]
    BY DEF Fetch, ExtractionFails
  <2>2. Unpacked(tree[d], u, S, Cut) \in Dir
    BY <1>1, <1>2, <1>3
  <2> HIDE DEF u, d, Dir
  <2>3. QED
    BY <2>1, <2>2, <1>3
<1>5. kv' = kv \/ kv' = [kv EXCEPT ![FetchPath] = d]
  BY DEF Fetch
<1>6. /\ DOMAIN kv' = Options \cup Paths
      /\ \A o \in Options : kv'[o] = kv[o]
      /\ \A p \in Paths : kv'[p] \in Dirs \cup {None}
  BY <1>1, <1>5, PathFacts, OptionFacts DEF ControlInv, UnitTypeOK
<1>7. /\ UNCHANGED <<bofFile, template, tools, vmVars, world, status, queue, process>>
      /\ pc' \in {"locateImage", "failed"} /\ pc = "fetch"
      /\ spoiled' \in BOOLEAN
  BY DEF Fetch, ExtractionFails, Goto, Raise, ControlInv, UnitTypeOK
<1>8. QED
  BY <1>4, <1>6, <1>7
     DEF ControlInv, UnitTypeOK, Control, ScriptRuns, UrlGiven, StopsAlone,
         TemplateFound, WithinList, Steps, Probes, Waits, vmVars, files,
         world, queue, process

(* Recording an option changes that key only, to the present value.         *)
LEMMA RecordFacts ==
  ASSUME UnitTypeOK, NEW o \in Options, Record(o)
  PROVE  /\ DOMAIN kv' = Options \cup Paths
         /\ kv'[o] = config[o]
         /\ \A q \in Options \cup Paths : q # o => kv'[q] = kv[q]
         /\ \A q \in Options : kv'[q] \in Values[q] \cup {None}
         /\ \A p \in Paths : kv'[p] \in Dirs \cup {None}
BY OptionFacts DEF UnitTypeOK, Record

\* The variables of a hook's process.
Process == [option : Nat \ {0}, vmChanged : BOOLEAN, svcChanged : BOOLEAN,
            domain : {None, VsdName}, tries : 0..MaxTries]

(* A comparison of a VM option stays within the list.                       *)
LEMMA DetectVmStep == ControlInv /\ DetectVm => ControlInv'
<1> SUFFICES ASSUME ControlInv, DetectVm PROVE ControlInv'
  OBVIOUS
<1>1. CASE confTorn /\ Raise /\ UNCHANGED kv
  BY <1>1 DEF DetectVm, Raise, ControlInv, UnitTypeOK, Control, ScriptRuns,
              UrlGiven, StopsAlone, TemplateFound, WithinList, Steps, Probes,
              Waits, vmVars, files, world, queue, process
<1>2. CASE /\ Record(Current(VmOptions))
           /\ Compared(Changed(Current(VmOptions)) \/ proc.option = Len(VmOptions),
                       [proc EXCEPT !.vmChanged = Changed(Current(VmOptions))],
                       "detectSvc")
  <2>1. Current(VmOptions) \in Options
    BY OptionFacts
       DEF Current, ControlInv, UnitTypeOK, Control, WithinList, DetectVm
  <2>2. /\ DOMAIN kv' = Options \cup Paths
        /\ \A q \in Options : kv'[q] \in Values[q] \cup {None}
        /\ \A p \in Paths : kv'[p] \in Dirs \cup {None}
    BY <2>1, <1>2, RecordFacts DEF ControlInv
  <2> DEFINE p == [proc EXCEPT !.vmChanged = Changed(Current(VmOptions))]
  <2>3. /\ Changed(Current(VmOptions)) \in BOOLEAN
        /\ p \in Process /\ p.option = proc.option
        /\ p.option <= Len(VmOptions)
        /\ pc = "detectVm"
    BY DEF Changed, Process, ControlInv, UnitTypeOK, Control, WithinList,
           DetectVm
  <2>4. /\ proc' \in Process /\ proc'.option <= Len(VmOptions)
        /\ \/ pc' = pc
           \/ pc' = "detectSvc" /\ proc'.option = 1
        /\ UNCHANGED <<hook, outbox, queue>>
    <3>1. Compared(Changed(Current(VmOptions)) \/ p.option = Len(VmOptions),
                   p, "detectSvc")
      BY <1>2, <2>3
    <3>2. p.option <= Len(VmOptions) /\ Len(VmOptions) \in Nat \ {0}
      BY <2>3, OptionFacts
    <3> HIDE DEF p
    <3>3. CASE Changed(Current(VmOptions)) \/ p.option = Len(VmOptions)
      BY <3>1, <3>2, <3>3, <2>3 DEF Compared, Process
    <3>4. CASE ~(Changed(Current(VmOptions)) \/ p.option = Len(VmOptions))
      BY <3>1, <3>2, <3>4, <2>3 DEF Compared, Process
    <3>5. QED
      BY <3>3, <3>4
  <2>5. UNCHANGED <<vmVars, files, world, status>>
    BY DEF DetectVm
  <2>6. QED
    BY <2>2, <2>3, <2>4, <2>5, OptionFacts
       DEF Process, ControlInv, UnitTypeOK, Control, ScriptRuns, UrlGiven,
           StopsAlone, TemplateFound, WithinList, Steps, Probes, Waits,
           vmVars, files, world, queue, process
<1>3. QED
  BY <1>1, <1>2 DEF DetectVm, Detect

(* So does one of a service option.                                         *)
LEMMA DetectSvcStep == ControlInv /\ DetectSvc => ControlInv'
<1> SUFFICES ASSUME ControlInv, DetectSvc PROVE ControlInv'
  OBVIOUS
<1>1. CASE confTorn /\ Raise /\ UNCHANGED kv
  BY <1>1 DEF DetectSvc, Raise, ControlInv, UnitTypeOK, Control, ScriptRuns,
              UrlGiven, StopsAlone, TemplateFound, WithinList, Steps, Probes,
              Waits, vmVars, files, world, queue, process
<1>2. CASE /\ Record(Current(SvcOptions))
           /\ Compared(Changed(Current(SvcOptions)) \/ proc.option = Len(SvcOptions),
                       [proc EXCEPT !.svcChanged = Changed(Current(SvcOptions))],
                       "early")
  <2>1. Current(SvcOptions) \in Options
    BY OptionFacts
       DEF Current, ControlInv, UnitTypeOK, Control, WithinList, DetectSvc
  <2>2. /\ DOMAIN kv' = Options \cup Paths
        /\ \A q \in Options : kv'[q] \in Values[q] \cup {None}
        /\ \A p \in Paths : kv'[p] \in Dirs \cup {None}
    BY <2>1, <1>2, RecordFacts DEF ControlInv
  <2> DEFINE p == [proc EXCEPT !.svcChanged = Changed(Current(SvcOptions))]
  <2>3. /\ Changed(Current(SvcOptions)) \in BOOLEAN
        /\ p \in Process /\ p.option = proc.option
        /\ p.option <= Len(SvcOptions)
        /\ pc = "detectSvc"
    BY DEF Changed, Process, ControlInv, UnitTypeOK, Control, WithinList,
           DetectSvc
  <2>4. /\ proc' \in Process /\ proc'.option <= Len(SvcOptions)
        /\ \/ pc' = pc
           \/ pc' = "early" /\ proc'.option = 1
        /\ UNCHANGED <<hook, outbox, queue>>
    <3>1. Compared(Changed(Current(SvcOptions)) \/ p.option = Len(SvcOptions),
                   p, "early")
      BY <1>2, <2>3
    <3>2. p.option <= Len(SvcOptions) /\ Len(SvcOptions) \in Nat \ {0}
      BY <2>3, OptionFacts
    <3> HIDE DEF p
    <3>3. CASE Changed(Current(SvcOptions)) \/ p.option = Len(SvcOptions)
      BY <3>1, <3>2, <3>3, <2>3 DEF Compared, Process
    <3>4. CASE ~(Changed(Current(SvcOptions)) \/ p.option = Len(SvcOptions))
      BY <3>1, <3>2, <3>4, <2>3 DEF Compared, Process
    <3>5. QED
      BY <3>3, <3>4
  <2>5. UNCHANGED <<vmVars, files, world, status>>
    BY DEF DetectSvc
  <2>6. QED
    BY <2>2, <2>3, <2>4, <2>5, OptionFacts
       DEF Process, ControlInv, UnitTypeOK, Control, ScriptRuns, UrlGiven,
           StopsAlone, TemplateFound, WithinList, Steps, Probes, Waits,
           vmVars, files, world, queue, process
<1>3. QED
  BY <1>1, <1>2 DEF DetectSvc, Detect

(* The commands of install count their failures up to the bound.            *)
LEMMA AptSteps ==
  ASSUME ControlInv, AptUpdate \/ AptInstall
  PROVE  ControlInv'
<1>1. PICK next \in {"aptInstall", "binaries"}, T \in {{}, Packages} :
        AptGet(next, T)
  BY DEF AptUpdate, AptInstall
<1>2. /\ pc \in {"aptUpdate", "aptInstall"}
      /\ UNCHANGED <<vmVars, tree, bofFile, template, spoiled, world, kv, status>>
  BY DEF AptUpdate, AptInstall
<1>3. tools' \subseteq Tools
  BY <1>1 DEF AptGet, Tools, Packages, ControlInv, UnitTypeOK
<1>4. proc' \in Process /\ proc'.option = proc.option
  <2>1. proc \in Process
    BY DEF Process, ControlInv, UnitTypeOK
  <2>2. \/ proc' = proc
        \/ proc' = [proc EXCEPT !.tries = 0]
        \/ proc.tries < MaxTries /\ proc' = [proc EXCEPT !.tries = @ + 1]
    BY <1>1 DEF AptGet, LeaveLoop, Raise, process
  <2>3. QED
    BY <2>1, <2>2, WorldAssumption DEF Process
<1>5. pc' \in {pc, next, "failed"} /\ UNCHANGED <<hook, outbox, queue>>
  BY <1>1 DEF AptGet, LeaveLoop, Raise, process
<1>6. QED
  BY <1>1, <1>2, <1>3, <1>4, <1>5
     DEF Process, ControlInv, UnitTypeOK, Control, ScriptRuns, UrlGiven,
         StopsAlone, TemplateFound, WithinList, Steps, Probes, Waits, vmVars,
         world, queue

(* Every step of a hook.                                                    *)
LEMMA HookSteps ==
  ControlInv /\ HookStep => ControlInv'
<1> SUFFICES ASSUME ControlInv, HookStep PROVE ControlInv'
  OBVIOUS
<1> USE OptionFacts, PathFacts
    DEF ControlInv, UnitTypeOK, Control, ScriptRuns, UrlGiven, StopsAlone,
        TemplateFound, WithinList, Steps, Probes, Waits, vmVars, files, world,
        queue, process, Raise, Goto, Block, Done
<1>1. CASE Install          BY <1>1 DEF Install
<1>2. CASE CheckRequired    BY <1>2, CheckRequiredStep
<1>3. CASE DetectVm         BY <1>3, DetectVmStep
<1>4. CASE DetectSvc        BY <1>4, DetectSvcStep
<1>5. CASE ReturnEarly      BY <1>5 DEF ReturnEarly
<1>6. CASE Teardown         BY <1>6 DEF Teardown, VM!Invoke
<1>7. CASE Stopped          BY <1>7 DEF Stopped
<1>8. CASE ServiceOnly      BY <1>8 DEF ServiceOnly
<1>9. CASE Refetch          BY <1>9 DEF Refetch, Record
<1>10. CASE Fetch           BY <1>10, FetchStep
<1>11. CASE LocateImage     BY <1>11 DEF LocateImage, Locate
<1>12. CASE LocateTemplate  BY <1>12 DEF LocateTemplate, Locate
<1>13. CASE LocateBof       BY <1>13 DEF LocateBof
<1>14. CASE Render          BY <1>14 DEF Render
<1>15. CASE MoveBof         BY <1>15, MoveBofStep
<1>16. CASE WriteAddress    BY <1>16, WriteAddressStep
<1>17. CASE Create          BY <1>17 DEF Create, VM!Invoke
<1>18. CASE Created         BY <1>18 DEF Created
<1>19. CASE Start           BY <1>19 DEF Start, VM!Invoke
<1>20. CASE Started         BY <1>20 DEF Started, AddressFound, Addresses
<1>21. CASE SetDomain
  BY <1>21 DEF SetDomain, AddressFound, DomainToSet, Domains
<1>22. CASE RelationJoined
  BY <1>22 DEF RelationJoined, AddressFound, Addresses
<1>23. CASE VsdChanged      BY <1>23 DEF VsdChanged
<1>24. CASE VsdRunning      BY <1>24 DEF VsdRunning
<1>25. CASE UpgradeCharm    BY <1>25 DEF UpgradeCharm
<1>26. CASE Stop            BY <1>26 DEF Stop, VM!Invoke
<1>27. CASE AtExit          BY <1>27, AtExitStep
<1>28. CASE AptUpdate \/ AptInstall
  BY <1>28, AptSteps
<1>29. CASE Binaries        BY <1>29 DEF Binaries, Tools
<1>30. QED
  BY <1>1, <1>2, <1>3, <1>4, <1>5, <1>6, <1>7, <1>8, <1>9, <1>10, <1>11,
     <1>12, <1>13, <1>14, <1>15, <1>16, <1>17, <1>18, <1>19, <1>20, <1>21,
     <1>22, <1>23, <1>24, <1>25, <1>26, <1>27, <1>28, <1>29 DEF HookStep

-----------------------------------------------------------------------------
(* The host, the operator and the other units.                              *)

(* A script of VspVm runs, and what it does not touch.                      *)
LEMMA ScriptFacts ==
  ASSUME VM!ScriptStep
  PROVE  script # "idle"
BY DEF VM!ScriptStep, VM!CreateCheck, VM!CreateImage, VM!CreateOverlay,
       VM!CreateCopy, VM!CreateDefine, VM!CreateVerify, VM!StartDomain,
       VM!StopShutdown, VM!StopDestroy, VM!StopUndefine

(* The scripts, the guest and kills.                                        *)
LEMMA HostSteps ==
  /\ ControlInv /\ ScriptStep => ControlInv'
  /\ ControlInv /\ GuestDown => ControlInv'
  /\ ControlInv /\ Crash => ControlInv'
<1>1. ControlInv /\ ScriptStep => ControlInv'
  BY ScriptFacts
     DEF ScriptStep, Forgotten, ControlInv, UnitTypeOK, Control, ScriptRuns,
         UrlGiven, StopsAlone, TemplateFound, WithinList, Steps, Probes,
         Waits, vmVars, files, world, queue, process
<1>2. ControlInv /\ GuestDown => ControlInv'
  BY DEF GuestDown, VM!GuestDown, Forgotten, ControlInv, UnitTypeOK, Control,
         ScriptRuns, UrlGiven, StopsAlone, TemplateFound, WithinList, Steps,
         Probes, Waits, vmVars, files, world, queue, process
<1>3. ControlInv /\ Crash => ControlInv'
  <2> SUFFICES ASSUME ControlInv, Crash PROVE ControlInv'
    OBVIOUS
  <2>1. /\ UNCHANGED <<files, world, process, pending, phase, published, kv,
                      status, xmpp>>
        /\ confTorn' \in BOOLEAN /\ pc' = "failed"
    BY DEF Crash, ControlInv, UnitTypeOK
  <2>2. UnitTypeOK'
    BY <2>1 DEF ControlInv, UnitTypeOK, files, world, process
  <2>3. Control'
    BY <2>1 DEF Crash, VM!Kill, Control, ScriptRuns, UrlGiven, StopsAlone,
       TemplateFound, WithinList, Waits
  <2>4. QED
    BY <2>2, <2>3 DEF ControlInv
<1>4. QED
  BY <1>1, <1>2, <1>3

(* What the operator and the other units do touches no running hook.        *)
LEMMA WorldSteps == ControlInv /\ World => ControlInv'
<1> SUFFICES ASSUME ControlInv, World PROVE ControlInv'
  OBVIOUS
<1> USE DEF Between, ControlInv, UnitTypeOK, Control, ScriptRuns, UrlGiven,
            StopsAlone, TemplateFound, WithinList, Steps, Probes, Waits,
            vmVars, files, world, queue, process
<1>1. ASSUME NEW o \in Options, NEW v \in Values[o], Edit(o, v)
      PROVE  ControlInv'
  <2>1. config' = [config EXCEPT ![o] = v]
    BY <1>1 DEF Edit
  <2>2. /\ config' \in [Options -> (UNION {Values[q] : q \in Options}) \cup {None}]
        /\ \A q \in Options : config'[q] \in Values[q] \cup {None}
    BY <2>1
  <2>3. edits' \in 0..MaxEdits
    BY <1>1, WorldAssumption DEF Edit
  <2>4. pending' \subseteq Hooks
    BY <1>1 DEF Edit, Hooks, EventHooks
  <2>5. QED
    BY <1>1, <2>2, <2>3, <2>4 DEF Edit
<1>2. ASSUME NEW r \in Rels, Join(r)
      PROVE  ControlInv'
  BY <1>2 DEF Join, Hooks
<1>3. CASE VsdPublishes
  BY <1>3 DEF VsdPublishes, Hooks, EventHooks
<1>4. CASE Upgrade
  BY <1>4 DEF Upgrade, Hooks, EventHooks
<1>5. CASE Remove
  BY <1>5 DEF Remove, Hooks, EventHooks
<1>6. QED
  BY <1>1, <1>2, <1>3, <1>4, <1>5 DEF World

(* Every step keeps the control invariant.                                  *)
LEMMA ControlStep == ControlInv /\ [Next]_vars => ControlInv'
<1> SUFFICES ASSUME ControlInv, [Next]_vars PROVE ControlInv'
  OBVIOUS
<1>1. CASE Run
  BY <1>1, EnterStep DEF Run, ControlInv, UnitTypeOK
<1>2. CASE Retry
  BY <1>2, EnterStep DEF Retry, ControlInv, UnitTypeOK
<1>3. CASE UNCHANGED vars
  BY <1>3 DEF vars, ControlInv, UnitTypeOK, Control, ScriptRuns, UrlGiven,
              StopsAlone, TemplateFound, WithinList, Steps, Probes, Waits,
              vmVars, files, world, queue, process
<1>4. QED
  BY <1>1, <1>2, <1>3, SkipStep, HookSteps, HostSteps, WorldSteps DEF Next

(* It holds when the unit is deployed.                                      *)
LEMMA ControlInit == Init => ControlInv
<1> SUFFICES ASSUME Init PROVE ControlInv
  OBVIOUS
<1>1. /\ \A o \in Options \cup Paths : kv[o] = None
      /\ DOMAIN kv = Options \cup Paths
  BY DEF Init
<1>2. Fresh \in [option : Nat \ {0}, vmChanged : BOOLEAN,
                 svcChanged : BOOLEAN, domain : {None, VsdName},
                 tries : 0..MaxTries]
  BY WorldAssumption DEF Fresh
<1>3. tree \in [Dirs -> [image : Images \cup {None},
                         template : Urls \cup {None, Torn}, bof : BOOLEAN]]
  <2>1. NoFiles \in [image : Images \cup {None},
                     template : Urls \cup {None, Torn}, bof : BOOLEAN]
    BY DEF NoFiles
  <2>2. QED
    BY <2>1 DEF Init
<1>4. /\ config \in [Options -> (UNION {Values[o] : o \in Options}) \cup {None}]
      /\ \A o \in Options : config[o] \in Values[o] \cup {None}
  BY OptionsAssumption DEF Init
<1>5. published \in [Rels -> Addresses \cup {None}] /\ outbox = published
  BY DEF Init, NoOutput
<1>6. edits \in 0..MaxEdits
  BY WorldAssumption DEF Init
<1>7. UnitTypeOK
  BY <1>1, <1>2, <1>3, <1>4, <1>5, <1>6
     DEF Init, UnitTypeOK, Hooks, EventHooks
<1>8. QED
  BY <1>7 DEF Init, ControlInv, Control, ScriptRuns, UrlGiven, StopsAlone,
              TemplateFound, WithinList

(* It holds for ever.                                                       *)
LEMMA ControlInvariant == Spec => []ControlInv
BY ControlInit, ControlStep, PTL DEF Spec

-----------------------------------------------------------------------------
(* The hooks are clients of VspVm: a step of theirs invokes a script,       *)
(* changes the files between two scripts, or is one of the host.            *)

vm == <<dom, defn, disk, guest, script, rc>>

(* A step that leaves the domain alone while no script runs.                *)
LEMMA StageStep ==
  ASSUME UnitTypeOK', script = "idle", UNCHANGED vm
  PROVE  VM!Next
<1>1. Staged' \in Images \cup {None}
  <2>1. kv'[FetchPath] \in Dirs \cup {None}
    BY PathFacts DEF UnitTypeOK
  <2>2. QED
    BY <2>1 DEF Staged, UnitTypeOK
<1>2. QED
  BY <1>1 DEF UnitTypeOK, VM!Next, VM!Stage, VM!vmVars, vm

(* A step that runs a script.                                               *)
LEMMA InvokeStep ==
  ASSUME NEW s \in {"check", "dominfo", "shutdown"}, VM!Invoke(s),
         UNCHANGED <<kv, tree, template>>
  PROVE  VM!Next
<1>1. UNCHANGED <<Staged, template>>
  BY DEF Staged
<1>2. QED
  BY <1>1 DEF VM!Next, VM!inputs, VM!Scripts

(* A step of the unit is one of VspVm, or leaves what VspVm sees alone.     *)
LEMMA VmStep ==
  ASSUME ControlInv, ControlInv', [Next]_vars
  PROVE  [VM!Next]_(VM!vars)
<1>1. UnitTypeOK' /\ (pc \notin Waits => script = "idle")
  BY DEF ControlInv, Control, ScriptRuns
<1> USE DEF vmVars, vm
<1>2. CASE Run \/ Retry
  <2>1. pc \notin Waits /\ UNCHANGED vm
    BY <1>2 DEF Run, Retry, Enter, Waits
  <2>2. QED
    BY <1>1, <2>1, StageStep
<1>3. CASE Skip \/ World
  <2>1. pc \notin Waits /\ UNCHANGED vm
    BY <1>3 DEF Skip, World, Between, Edit, Join, VsdPublishes, Upgrade,
                Remove, Waits
  <2>2. QED
    BY <1>1, <2>1, StageStep
<1>4. CASE HookStep
  <2>1. CASE Teardown
    <3>1. CASE UNCHANGED vmVars
      BY <1>1, <2>1, <3>1, StageStep DEF Teardown, Waits
    <3>2. CASE VM!Invoke("shutdown")
      BY <2>1, <3>2, InvokeStep DEF Teardown, files
    <3>3. QED
      BY <2>1, <3>1, <3>2 DEF Teardown
  <2>2. CASE Create
    BY <2>2, InvokeStep DEF Create, files
  <2>3. CASE Start
    BY <2>3, InvokeStep DEF Start, files
  <2>4. CASE Stop
    BY <2>4, InvokeStep DEF Stop, files
  <2>5. CASE Stopped \/ Created \/ Started
    BY <1>1, <2>5, StageStep DEF Stopped, Created, Started
  <2>6. CASE \/ Install \/ AptUpdate \/ AptInstall \/ Binaries
             \/ CheckRequired \/ DetectVm \/ DetectSvc
             \/ ReturnEarly \/ ServiceOnly \/ SetDomain \/ RelationJoined
             \/ VsdChanged \/ VsdRunning \/ UpgradeCharm \/ AtExit
    <3>1. pc \notin Waits /\ UNCHANGED vm
      BY <2>6 DEF Install, AptUpdate, AptInstall, Binaries, CheckRequired, DetectVm, DetectSvc, ReturnEarly,
                  ServiceOnly, SetDomain, RelationJoined, VsdChanged,
                  VsdRunning, UpgradeCharm, AtExit, Waits
    <3>2. QED
      BY <1>1, <3>1, StageStep
  <2>7. CASE \/ Refetch \/ Fetch \/ LocateImage \/ LocateTemplate
             \/ LocateBof \/ Render \/ MoveBof \/ WriteAddress
    <3>1. pc \notin Waits /\ UNCHANGED vm
      BY <2>7 DEF Refetch, Fetch, LocateImage, LocateTemplate, LocateBof,
                  Locate, Render, MoveBof, WriteAddress, Waits
    <3>2. QED
      BY <1>1, <3>1, StageStep
  <2>8. QED
    BY <1>4, <2>1, <2>2, <2>3, <2>4, <2>5, <2>6, <2>7 DEF HookStep
<1>5. ASSUME UNCHANGED <<files, kv>>
      PROVE  UNCHANGED VM!inputs
  BY <1>5 DEF files, Staged, VM!inputs
<1>6. CASE ScriptStep
  BY <1>5, <1>6 DEF ScriptStep, VM!Next
<1>7. CASE GuestDown
  BY <1>5, <1>7 DEF GuestDown, VM!Next
<1>8. CASE Crash
  BY <1>5, <1>8 DEF Crash, VM!Next
<1>9. CASE UNCHANGED vars
  BY <1>9 DEF vars, files, Staged, VM!vars
<1>10. QED
  BY <1>2, <1>3, <1>4, <1>6, <1>7, <1>8, <1>9 DEF Next

(* The unit implements VspVm: a script is never run over another, and the   *)
(* files it reads do not change under it, however hooks fail, are killed,   *)
(* retried or skipped and whatever the operator edits in between.           *)
THEOREM HooksImplementVspVm == Spec => ImplementsVspVm
<1>1. Init => VM!Init
  BY PathFacts DEF Init, VM!Init, Staged
<1>2. ControlInv /\ ControlInv' /\ [Next]_vars => [VM!Next]_(VM!vars)
  BY VmStep
<1>3. QED
  BY <1>1, <1>2, ControlInvariant, PTL DEF Spec, ImplementsVspVm, VM!Spec

-----------------------------------------------------------------------------
(* The test of the options.                                                 *)

(* While the test runs it has found no change, and the options it has been  *)
(* through are recorded; so are all of them once it has ended that way.     *)
DetectInv ==
  /\ pc \in {"required", "detectVm"} => ~proc.vmChanged
  /\ pc = "detectVm" =>
       \A i \in 1..(proc.option - 1) : kv[VmOptions[i]] = config[VmOptions[i]]
  /\ pc \in {"detectSvc", "early", "teardown"} /\ ~proc.vmChanged =>
       \A i \in 1..Len(VmOptions) : kv[VmOptions[i]] = config[VmOptions[i]]

(* Recording an option leaves recorded what was.                            *)
LEMMA RecordedKept ==
  ASSUME UnitTypeOK, NEW o \in Options, Record(o), config' = config
  PROVE  \A q \in Options : q = o \/ kv[q] = config[q] => kv'[q] = config'[q]
BY RecordFacts

(* One comparison of a VM option records one more, or reports the change.   *)
LEMMA DetectVmRecords ==
  ASSUME ControlInv, DetectInv, DetectVm
  PROVE  DetectInv'
<1> DEFINE o == Current(VmOptions)
           p == [proc EXCEPT !.vmChanged = Changed(o)]
<1>1. CASE confTorn /\ Raise
  BY <1>1 DEF Raise, DetectInv
<1>2. CASE /\ Record(o)
           /\ Compared(Changed(o) \/ proc.option = Len(VmOptions), p, "detectSvc")
  <2>1. /\ proc.option \in 1..Len(VmOptions) /\ o \in Options
        /\ o = VmOptions[proc.option]
        /\ Len(VmOptions) \in Nat \ {0}
        /\ pc = "detectVm" /\ config' = config
        /\ UnitTypeOK
    BY OptionFacts DEF ControlInv, UnitTypeOK, Control, WithinList, DetectVm,
                       Current, world
  <2>2. /\ p.vmChanged = Changed(o) /\ p.option = proc.option
        /\ p \in Process
    BY <2>1 DEF UnitTypeOK, Process, Changed
  <2>3. \A i \in 1..proc.option : kv'[VmOptions[i]] = config'[VmOptions[i]]
    <3>1. SUFFICES ASSUME NEW i \in 1..proc.option
                   PROVE  kv'[VmOptions[i]] = config'[VmOptions[i]]
      OBVIOUS
    <3>2. VmOptions[i] \in Options
      BY <2>1, OptionFacts
    <3>3. VmOptions[i] = o \/ kv[VmOptions[i]] = config[VmOptions[i]]
      BY <2>1 DEF DetectInv
    <3> HIDE DEF o
    <3>4. QED
      BY <1>2, <2>1, <3>2, <3>3, RecordedKept
  <2> HIDE DEF o, p
  <2>4. CASE Changed(o)
    <3>1. pc' = "detectSvc" /\ proc'.vmChanged = TRUE
      BY <1>2, <2>2, <2>4 DEF Compared, Process
    <3>2. QED
      BY <3>1 DEF DetectInv
  <2>5. CASE ~Changed(o) /\ proc.option = Len(VmOptions)
    <3>1. pc' = "detectSvc"
      BY <1>2, <2>5 DEF Compared
    <3>2. QED
      BY <2>3, <2>5, <3>1 DEF DetectInv
  <2>6. CASE ~Changed(o) /\ proc.option # Len(VmOptions)
    <3>1. /\ pc' = "detectVm" /\ proc'.vmChanged = FALSE
          /\ proc'.option = proc.option + 1
      BY <1>2, <2>1, <2>2, <2>6 DEF Compared, Process
    <3>2. proc'.option - 1 = proc.option
      BY <2>1, <3>1
    <3>3. QED
      BY <2>3, <3>1, <3>2 DEF DetectInv
  <2>7. QED
    BY <2>4, <2>5, <2>6
<1>3. QED
  BY <1>1, <1>2 DEF DetectVm, Detect

(* The test of the service options hides no VM option again.                *)
LEMMA DetectSvcRecords ==
  ASSUME ControlInv, DetectInv, DetectSvc
  PROVE  DetectInv'
<1> DEFINE o == Current(SvcOptions)
           p == [proc EXCEPT !.svcChanged = Changed(o)]
<1>1. CASE confTorn /\ Raise
  BY <1>1 DEF Raise, DetectInv
<1>2. CASE /\ Record(o)
           /\ Compared(Changed(o) \/ proc.option = Len(SvcOptions), p, "early")
  <2>1. /\ o \in Options /\ pc = "detectSvc" /\ config' = config
        /\ UnitTypeOK
    BY OptionFacts DEF ControlInv, UnitTypeOK, Control, WithinList, DetectSvc,
                       Current, world
  <2>2. p.vmChanged = proc.vmChanged /\ p \in Process
    BY <2>1 DEF UnitTypeOK, Process, Changed
  <2> HIDE DEF o, p
  <2>3. /\ pc' \in {"detectSvc", "early"}
        /\ proc'.vmChanged = proc.vmChanged
    BY <1>2, <2>1, <2>2 DEF Compared, Process
  <2>4. ASSUME ~proc.vmChanged, NEW i \in 1..Len(VmOptions)
        PROVE  kv'[VmOptions[i]] = config'[VmOptions[i]]
    BY <1>2, <2>1, <2>4, RecordedKept, OptionFacts DEF DetectInv
  <2>5. QED
    BY <2>3, <2>4 DEF DetectInv
<1>3. QED
  BY <1>1, <1>2 DEF DetectSvc, Detect

(* Every step keeps the record of the test.                                 *)
LEMMA DetectStep ==
  ASSUME ControlInv, DetectInv, [Next]_vars
  PROVE  DetectInv'
<1>1. CASE Run \/ Retry
  <2>1. PICK h \in Hooks : Enter(h)
    BY <1>1 DEF Run, Retry, ControlInv, UnitTypeOK
  <2>2. QED
    BY <2>1, EntryFacts DEF Enter, Fresh, DetectInv
<1>2. CASE UNCHANGED <<pc, proc, kv, config>>
  BY <1>2 DEF DetectInv
<1>3. CASE pc' \notin {"required", "detectVm", "detectSvc", "early", "teardown"}
  BY <1>3 DEF DetectInv
<1>4. CASE Skip \/ World
  <2>1. pc' \in {"idle", "failed"}
    BY <1>4 DEF Skip, Finish, World, Between, Edit, Join, VsdPublishes,
                Upgrade, Remove
  <2>2. QED
    BY <1>3, <2>1
<1>5. CASE HookStep
  <2>1. CASE CheckRequired
    BY <2>1 DEF CheckRequired, Block, Raise, Goto, process, DetectInv,
                ControlInv, Control, WithinList
  <2>2. CASE DetectVm
    BY <2>2, DetectVmRecords
  <2>3. CASE DetectSvc
    BY <2>3, DetectSvcRecords
  <2>4. CASE ReturnEarly
    BY <2>4 DEF ReturnEarly, Raise, Done, Goto, process, world, DetectInv
  <2>5. CASE \/ Install \/ AptUpdate \/ AptInstall \/ Binaries \/ Teardown \/ Stopped \/ ServiceOnly
             \/ Refetch \/ Fetch \/ LocateImage \/ LocateTemplate
             \/ LocateBof \/ Render \/ MoveBof \/ WriteAddress
             \/ Create \/ Created \/ Start \/ Started \/ SetDomain
             \/ RelationJoined \/ VsdChanged \/ VsdRunning
             \/ UpgradeCharm \/ Stop \/ AtExit
    <3>1. pc' \notin {"required", "detectVm", "detectSvc", "early", "teardown"}
      BY <2>5 DEF Install, AptUpdate, AptInstall, AptGet, LeaveLoop,
        Binaries, Teardown, Stopped, ServiceOnly, Refetch, Fetch,
        LocateImage, LocateTemplate, LocateBof, Locate, Render, MoveBof,
        WriteAddress, Create, Created, Start, Started, SetDomain,
        RelationJoined, VsdChanged, VsdRunning, UpgradeCharm, Stop, AtExit,
        Finish, Done, Raise, Block, Goto
    <3>2. QED
      BY <1>3, <3>1
  <2>6. QED
    BY <1>5, <2>1, <2>2, <2>3, <2>4, <2>5 DEF HookStep
<1>6. CASE ScriptStep \/ GuestDown
  BY <1>2, <1>6 DEF ScriptStep, GuestDown, world, process
<1>7. CASE Crash
  BY <1>3, <1>7 DEF Crash
<1>8. CASE UNCHANGED vars
  BY <1>2, <1>8 DEF vars, world, process
<1>9. QED
  BY <1>1, <1>4, <1>5, <1>6, <1>7, <1>8 DEF Next

(* What the comparisons have recorded, of every state.                      *)
LEMMA DetectInvariant == Spec => []DetectInv
<1>1. Init => DetectInv
  BY DEF Init, DetectInv
<1>2. ControlInv /\ DetectInv /\ [Next]_vars => DetectInv'
  BY DetectStep
<1>3. QED
  BY <1>1, <1>2, ControlInvariant, PTL DEF Spec

(* Past a test of the options that found no change, the store holds the     *)
(* present value of every one of them: no failed, killed or skipped run of  *)
(* the hook, nor one that stopped comparing early, hides an edit from it.   *)
THEOREM NothingUnseen == Spec => []DetectionSound
<1>1. DetectInv => DetectionSound
  BY OptionFacts DEF DetectInv, DetectionSound, SeqElems
<1>2. QED
  BY <1>1, DetectInvariant, PTL

-----------------------------------------------------------------------------
(* The tools.                                                               *)

\* Where a run of install can be.
Installing == {"idle", "install", "aptUpdate", "aptInstall", "binaries",
               "atexit", "failed"}

(* A new unit runs install only; past the test of the binaries, and for the *)
(* rest of the unit's life, the tools are there.                            *)
ToolsInv ==
  /\ phase = "new" => hook = "install" /\ pc \in Installing
  /\ pc \in Installing \ {"idle", "atexit", "failed"} => hook = "install"
  /\ phase # "new" \/ pc = "atexit" => Needed \subseteq tools

(* A hook starts.                                                           *)
LEMMA ToolsEnter ==
  ASSUME ControlInv, ToolsInv, NEW h \in Hooks, Enter(h),
         phase = "new" => h = "install"
  PROVE  ToolsInv'
<1>1. /\ UNCHANGED <<phase, tools>> /\ hook' = h /\ pc' = Entry(h)
  BY DEF Enter, files, queue
<1>2. h # "install" => Entry(h) # "install"
  <2>1. CASE h \in Rels
    BY <2>1, WorldAssumption DEF Entry, EventHooks
  <2>2. CASE h \in EventHooks
    BY <2>2 DEF Entry, EventHooks
  <2>3. QED
    BY <2>1, <2>2 DEF Hooks
<1>3. h = "install" => Entry(h) = "install"
  BY WorldAssumption DEF Entry, EventHooks
<1>4. QED
  BY <1>1, <1>2, <1>3, EntryFacts DEF ToolsInv, Installing

(* What follows a hook.                                                     *)
LEMMA ToolsFinish ==
  ASSUME ControlInv, ToolsInv, Finish, tools' = tools,
         hook = "install" => Needed \subseteq tools
  PROVE  ToolsInv'
<1>1. phase' = "new" => phase = "new" /\ hook # "install"
  BY DEF Finish
<1>2. phase' # "new" => phase # "new" \/ hook = "install"
  BY DEF Finish, ToolsInv
<1>3. QED
  BY <1>1, <1>2 DEF Finish, ToolsInv, Installing

(* Every step keeps them.                                                   *)
LEMMA ToolsStep ==
  ASSUME ControlInv, ToolsInv, [Next]_vars
  PROVE  ToolsInv'
<1>1. CASE Run
  <2>1. PICK h \in pending \cap Eligible : Enter(h)
    BY <1>1 DEF Run
  <2>2. h \in Hooks /\ (phase = "new" => h = "install")
    BY <2>1 DEF Eligible, ControlInv, UnitTypeOK
  <2>3. QED
    BY <2>1, <2>2, ToolsEnter
<1>2. CASE Retry
  BY <1>2, ToolsEnter DEF Retry, ToolsInv, ControlInv, UnitTypeOK
<1>3. CASE Skip
  BY <1>3, ToolsFinish DEF Skip, files
<1>4. CASE HookStep
  <2>1. CASE AtExit
    BY <2>1, ToolsFinish DEF AtExit, files, ToolsInv
  <2>2. CASE Install
    BY <2>2 DEF Install, Goto, process, queue, files, ToolsInv, Installing
  <2>3. CASE AptUpdate \/ AptInstall
    <3>1. PICK next \in {"aptInstall", "binaries"}, T \in {{}, Packages} :
            AptGet(next, T)
      BY <2>3 DEF AptUpdate, AptInstall
    <3>2. /\ tools \subseteq tools' /\ pc' \in {pc, next, "failed"}
          /\ UNCHANGED <<hook, phase>>
      BY <3>1 DEF AptGet, LeaveLoop, Raise, process, queue
    <3>3. pc \in {"aptUpdate", "aptInstall"}
      BY <2>3 DEF AptUpdate, AptInstall
    <3>4. QED
      BY <3>2, <3>3 DEF ToolsInv, Installing
  <2>4. CASE Binaries
    BY <2>4 DEF Binaries, Missing, Done, Block, Raise, process, queue, ToolsInv,
                Installing
  <2>5. CASE \/ CheckRequired \/ DetectVm \/ DetectSvc
             \/ ReturnEarly \/ Teardown \/ Stopped \/ ServiceOnly
             \/ Refetch \/ Fetch \/ LocateImage \/ LocateTemplate
             \/ LocateBof \/ Render \/ MoveBof \/ WriteAddress
             \/ Create \/ Created \/ Start \/ Started \/ SetDomain
             \/ RelationJoined \/ VsdChanged \/ VsdRunning
             \/ UpgradeCharm \/ Stop
    <3>1. /\ UNCHANGED <<tools, phase>> /\ pc \notin Installing
          /\ pc' \notin Installing \ {"atexit", "failed"}
      BY <2>5 DEF CheckRequired, DetectVm, DetectSvc, Detect, Compared,
        ReturnEarly, Teardown, Stopped, ServiceOnly, Refetch, Fetch,
        LocateImage, LocateTemplate, LocateBof, Locate, Render, MoveBof,
        WriteAddress, Create, Created, Start, Started, SetDomain,
        RelationJoined, VsdChanged, VsdRunning, UpgradeCharm, Stop,
        Done, Raise, Block, Goto, files, queue, Installing
    <3>2. QED
      BY <3>1 DEF ToolsInv
  <2>6. QED
    BY <1>4, <2>1, <2>2, <2>3, <2>4, <2>5 DEF HookStep
<1>5. CASE ScriptStep \/ GuestDown
  BY <1>5 DEF ScriptStep, GuestDown, files, process, queue, ToolsInv
<1>6. CASE Crash
  BY <1>6 DEF Crash, files, process, ToolsInv, Installing
<1>7. CASE World
  <2>1. /\ UNCHANGED <<hook, pc, tools>>
        /\ \/ phase' = phase
           \/ phase' = "removed" /\ phase = "started"
    <3>1. CASE \E o \in Options : \E v \in Values[o] : Edit(o, v)
      BY <3>1 DEF Edit, files, process
    <3>2. CASE \E r \in Rels : Join(r)
      BY <3>2 DEF Join, files, process
    <3>3. CASE VsdPublishes \/ Upgrade \/ Remove
      BY <3>3 DEF VsdPublishes, Upgrade, Remove, files, process
    <3>4. QED
      BY <1>7, <3>1, <3>2, <3>3 DEF World
  <2>2. pc \in {"idle", "failed"}
    BY <1>7 DEF World, Between, Edit, Join, VsdPublishes, Upgrade, Remove
  <2>3. QED
    BY <2>1, <2>2 DEF ToolsInv, Installing
<1>8. CASE UNCHANGED vars
  BY <1>8 DEF vars, files, process, queue, ToolsInv
<1>9. QED
  BY <1>1, <1>2, <1>3, <1>4, <1>5, <1>6, <1>7, <1>8 DEF Next

(* The tools are there for the rest of the unit's life.                     *)
LEMMA ToolsInvariant == Spec => []ToolsInv
<1>1. Init => ToolsInv
  BY DEF Init, ToolsInv, Installing
<1>2. ControlInv /\ ToolsInv /\ [Next]_vars => ToolsInv'
  BY ToolsStep
<1>3. QED
  BY <1>1, <1>2, ControlInvariant, PTL DEF Spec

(* No script runs without the executables it calls, however many failures   *)
(* of a fatal apt-get ended as if it had succeeded, and wherever an install *)
(* that had got only some of them was killed.                               *)
THEOREM ToolsAreThere == Spec => []ToolsThere
<1>1. ControlInv /\ ToolsInv => ToolsThere
  BY DEF ControlInv, Control, ScriptRuns, Waits, ToolsInv, Installing,
         ToolsThere
<1>2. QED
  BY <1>1, ControlInvariant, ToolsInvariant, PTL

-----------------------------------------------------------------------------
(* What VspVmProofs shows of every client of the scripts, and so of the     *)
(* hooks.                                                                   *)

VmProofs == INSTANCE VspVmProofs WITH Absent <- None, Definitions <- Urls,
                                      staged <- Staged,
                                      CommandsFail <- "virsh" \in Env,
                                      GuestStops <- "guest" \in Env

(* The assumptions of VspVm hold of the unit.                               *)
LEMMA VmAssumptions ==
  /\ ("virsh" \in Env) \in BOOLEAN
  /\ ("guest" \in Env) \in BOOLEAN
  /\ None \notin Urls
BY DEF Urls

(* The commands of the scripts are the same through either instance.        *)
LEMMA SameScripts == VM!ScriptStep => VmProofs!ScriptStep
BY DEF VM!ScriptStep, VM!CreateCheck, VM!CreateImage, VM!CreateOverlay,
       VM!CreateCopy, VM!CreateDefine, VM!CreateVerify, VM!StartDomain,
       VM!StopShutdown, VM!StopDestroy, VM!StopUndefine, VM!Exit, VM!Goto,
       VM!Halt, VM!Stopped, VM!ReportedCreated, VM!ReportedRunning,
       VM!ReportedDefined, VM!Shown, VM!Similar, VM!Active,
       VmProofs!ScriptStep, VmProofs!CreateCheck, VmProofs!CreateImage,
       VmProofs!CreateOverlay, VmProofs!CreateCopy, VmProofs!CreateDefine,
       VmProofs!CreateVerify, VmProofs!StartDomain, VmProofs!StopShutdown,
       VmProofs!StopDestroy, VmProofs!StopUndefine, VmProofs!Exit,
       VmProofs!Goto, VmProofs!Halt, VmProofs!Stopped,
       VmProofs!ReportedCreated, VmProofs!ReportedRunning,
       VmProofs!ReportedDefined, VmProofs!Shown, VmProofs!Similar,
       VmProofs!Active

LEMMA SameNext == [VM!Next]_(VM!vars) => [VmProofs!Next]_(VmProofs!vars)
BY SameScripts
   DEF VM!vars, VM!Next, VM!inputs, VM!Scripts, VM!Invoke, VM!Kill,
       VM!GuestDown, VM!Active, VM!Halt, VM!Stopped, VM!Stage, VM!vmVars,
       VmProofs!vars, VmProofs!Next, VmProofs!inputs, VmProofs!Scripts,
       VmProofs!Invoke, VmProofs!Kill, VmProofs!GuestDown, VmProofs!Active,
       VmProofs!Halt, VmProofs!Stopped, VmProofs!Stage, VmProofs!vmVars

(* Whatever is shown of VspVm's behaviors is so of the unit's.              *)
LEMMA HooksAreClients == Spec => VmProofs!Spec
<1>1. VM!Init => VmProofs!Init
  BY DEF VM!Init, VmProofs!Init
<1>2. QED
  BY <1>1, SameNext, HooksImplementVspVm, PTL
     DEF ImplementsVspVm, VM!Spec, VmProofs!Spec

(* Type correctness of the whole unit: no hook, cut short anywhere, leaves  *)
(* the store without a key it looks up later, or a file, a relation or the  *)
(* domain in a state the others do not know.                                *)
THEOREM TypeCorrect == Spec => []TypeOK
<1>1. ControlInv => UnitTypeOK
  BY DEF ControlInv
<1>2. VmProofs!TypeOK => VM!TypeOK
  BY DEF VM!TypeOK, VM!DomStates, VM!Commands, VM!Scripts, VmProofs!TypeOK,
         VmProofs!DomStates, VmProofs!Commands, VmProofs!Scripts
<1>3. VmProofs!Spec => []VmProofs!TypeOK
  BY VmAssumptions, AbsenceAssumption, OthersAssumption, VmProofs!TypeCorrect
<1>4. QED
  BY <1>1, <1>2, <1>3, HooksAreClients, ControlInvariant, PTL DEF TypeOK

(* The unit implements PersistentDomain: whatever the hooks are stopped in  *)
(* the middle of, and whatever the operator edits in between, the VM is     *)
(* created whole or not at all and keeps its image and its definition until *)
(* it is removed, on a host where VSP_VM_NAME is unique.                    *)
THEOREM HooksImplementPersistentDomain ==
  ASSUME VM!NameIsUnique
  PROVE  Spec => VM!ImplementsPersistentDomain
<1>1. VmProofs!NameIsUnique
  BY VM!NameIsUnique DEF VM!NameIsUnique, VM!Similar, VmProofs!NameIsUnique,
                         VmProofs!Similar
<1>2. VmProofs!Spec => VmProofs!ImplementsPersistentDomain
  BY <1>1, VmAssumptions, AbsenceAssumption, OthersAssumption,
     VmProofs!ScriptsImplementPersistentDomain
<1>3. VmProofs!Persistent!Init => VM!Persistent!Init
  BY DEF VM!Persistent!Init, VM!Made, VmProofs!Persistent!Init, VmProofs!Made
<1>4. [VmProofs!Persistent!Next]_(VmProofs!Persistent!vars)
        => [VM!Persistent!Next]_(VM!Persistent!vars)
  BY DEF VM!Persistent!Next, VM!Persistent!vars, VM!Persistent!Create,
         VM!Persistent!Boot, VM!Persistent!Down, VM!Persistent!Remove,
         VM!Made, VmProofs!Persistent!Next, VmProofs!Persistent!vars,
         VmProofs!Persistent!Create, VmProofs!Persistent!Boot,
         VmProofs!Persistent!Down, VmProofs!Persistent!Remove, VmProofs!Made
<1>5. QED
  BY <1>2, <1>3, <1>4, HooksAreClients, PTL
     DEF VM!ImplementsPersistentDomain, VM!Persistent!Spec,
         VmProofs!ImplementsPersistentDomain, VmProofs!Persistent!Spec

-----------------------------------------------------------------------------
(* The charm under Python 3, where check_output returns bytes.              *)

\* What config-changed does after its last look at the domain.
Deployment == {"refetch", "fetch", "locateImage", "locateTemplate",
               "locateBof", "render", "moveBof", "guestfs", "create",
               "creating"}

\* No hook comes to it; the scripts of start and stop find no domain.
NothingDeployed ==
  /\ dom = "undefined" /\ guest = None
  /\ pc \notin Deployment
  /\ script \in {"idle", "dominfo", "shutdown", "destroy", "undefine"}

LEMMA NothingDeployedStep ==
  ASSUME BytesOutput, ControlInv, NothingDeployed, [Next]_vars
  PROVE  NothingDeployed'
<1> USE DEF NothingDeployed, Deployment
<1>1. CASE Run \/ Retry
  <2>1. PICK h \in Hooks : Enter(h)
    BY <1>1 DEF Run, Retry, ControlInv, UnitTypeOK
  <2>2. QED
    BY <2>1, EntryFacts DEF Enter, vmVars
<1>2. CASE Skip
  BY <1>2 DEF Skip, Finish, vmVars
<1>3. CASE HookStep
  <2>1. CASE Install \/ AptUpdate \/ AptInstall \/ Binaries
    BY <2>1 DEF Install, AptUpdate, AptInstall, AptGet, LeaveLoop, Binaries,
                Goto, Raise, Block, Done, vmVars
  <2>2. CASE CheckRequired \/ DetectVm \/ DetectSvc
    BY <2>2 DEF CheckRequired, DetectVm, DetectSvc, Detect, Compared, Goto,
                Raise, Block, vmVars
  <2>3. CASE ReturnEarly \/ Teardown \/ ServiceOnly
    BY <2>3, BytesOutput DEF ReturnEarly, Teardown, ServiceOnly, Goto, Raise, Done, vmVars
  <2>4. CASE \/ Refetch \/ Fetch \/ LocateImage \/ LocateTemplate
             \/ LocateBof \/ Render \/ MoveBof \/ WriteAddress \/ Create
             \/ Created
    BY <2>4 DEF Refetch, Fetch, LocateImage, LocateTemplate, LocateBof,
                Render, MoveBof, WriteAddress, Create, Created
  <2>5. CASE Stopped \/ Start \/ Started \/ SetDomain \/ Stop
    BY <2>5 DEF Stopped, Start, Started, SetDomain, Stop, VM!Invoke, Goto,
                Raise, Block, Done, vmVars
  <2>6. CASE \/ RelationJoined \/ VsdChanged \/ VsdRunning \/ UpgradeCharm
             \/ AtExit
    BY <2>6, BytesOutput
       DEF RelationJoined, VsdChanged, VsdRunning, UpgradeCharm, AtExit,
           Finish, Goto, Raise, Block, Done, vmVars
  <2>7. QED
    BY <1>3, <2>1, <2>2, <2>3, <2>4, <2>5, <2>6 DEF HookStep
<1>4. CASE ScriptStep
  BY <1>4
     DEF ScriptStep, VM!ScriptStep, VM!CreateCheck, VM!CreateImage,
         VM!CreateOverlay, VM!CreateCopy, VM!CreateDefine, VM!CreateVerify,
         VM!StartDomain, VM!StopShutdown, VM!StopDestroy, VM!StopUndefine,
         VM!Goto, VM!Exit, VM!Halt, VM!Stopped
<1>5. CASE GuestDown
  BY <1>5 DEF GuestDown, VM!GuestDown, VM!Active
<1>6. CASE Crash
  BY <1>6 DEF Crash, VM!Kill
<1>7. CASE World
  BY <1>7 DEF World, Edit, Join, VsdPublishes, Upgrade, Remove, vmVars
<1>8. CASE UNCHANGED vars
  BY <1>8 DEF vars, vmVars
<1>9. QED
  BY <1>1, <1>2, <1>3, <1>4, <1>5, <1>6, <1>7, <1>8 DEF Next

(* Under Python 3, which hooks.py:1 names, no unit ever runs a VM, whatever *)
(* its operator does: EventuallyDeployed fails of every behavior, not only  *)
(* of the one the run of it finds.                                          *)
THEOREM NeverDeployed ==
  ASSUME BytesOutput
  PROVE  Spec => [](guest = None)
<1>1. Init => NothingDeployed
  BY DEF Init, NothingDeployed, Deployment
<1>2. ControlInv /\ NothingDeployed /\ [Next]_vars => NothingDeployed'
  BY BytesOutput, NothingDeployedStep
<1>3. NothingDeployed => guest = None
  BY DEF NothingDeployed
<1>4. QED
  BY <1>1, <1>2, <1>3, ControlInvariant, PTL DEF Spec

-----------------------------------------------------------------------------
(* The end of a hook.                                                       *)

(* A command of a script leaves fewer of them.                              *)
LEMMA ScriptsProceed ==
  ASSUME VM!ScriptStep
  PROVE  /\ VM!CommandsLeft(script) \in Nat /\ VM!CommandsLeft(script') \in Nat
         /\ VM!CommandsLeft(script') < VM!CommandsLeft(script)
<1> USE DEF VM!Goto, VM!Exit
<1>1. CASE VM!CreateCheck \/ VM!CreateImage \/ VM!CreateOverlay
  <2>1. \/ script = "check" /\ script' \in {"image", "idle"}
        \/ script = "image" /\ script' \in {"define", "overlay"}
        \/ script = "overlay" /\ script' \in {"copy", "idle"}
    BY <1>1 DEF VM!CreateCheck, VM!CreateImage, VM!CreateOverlay
  <2>2. QED
    BY <2>1 DEF VM!CommandsLeft
<1>2. CASE VM!CreateCopy \/ VM!CreateDefine \/ VM!CreateVerify
  <2>1. \/ script = "copy" /\ script' \in {"define", "idle"}
        \/ script = "define" /\ script' \in {"verify", "idle"}
        \/ script = "verify" /\ script' = "idle"
    BY <1>2 DEF VM!CreateCopy, VM!CreateDefine, VM!CreateVerify
  <2>2. QED
    BY <2>1 DEF VM!CommandsLeft
<1>3. CASE VM!StartDomain
  <2>1. script = "dominfo" /\ script' = "idle"
    BY <1>3 DEF VM!StartDomain
  <2>2. QED
    BY <2>1 DEF VM!CommandsLeft
<1>4. CASE VM!StopShutdown \/ VM!StopDestroy \/ VM!StopUndefine
  <2>1. \/ script = "shutdown" /\ script' = "destroy"
        \/ script = "destroy" /\ script' = "undefine"
        \/ script = "undefine" /\ script' = "idle"
    BY <1>4 DEF VM!StopShutdown, VM!StopDestroy, VM!StopUndefine
  <2>2. QED
    BY <2>1 DEF VM!CommandsLeft
<1>5. QED
  BY <1>1, <1>2, <1>3, <1>4 DEF VM!ScriptStep

\* A step goes to a later label, or stays at one for one turn less.
Nearer == \/ Stage(pc') < Stage(pc)
          \/ pc' = pc /\ Turns' \in 0..(Turns - 1)

(* The retries of apt-get.                                                  *)
LEMMA AptProceeds ==
  ASSUME ControlInv, ControlInv', AptUpdate \/ AptInstall
  PROVE  Nearer
<1>1. PICK next \in {"aptInstall", "binaries"}, T \in {{}, Packages} :
        /\ AptGet(next, T)
        /\ \/ pc = "aptUpdate" /\ next = "aptInstall"
           \/ pc = "aptInstall" /\ next = "binaries"
  BY DEF AptUpdate, AptInstall
<1>2. CASE pc' = next \/ pc' = "failed"
  BY <1>1, <1>2 DEF Nearer, Stage
<1>3. CASE pc' # next /\ pc' # "failed"
  <2>1. pc' = pc /\ proc' = [proc EXCEPT !.tries = @ + 1]
    BY <1>1, <1>3 DEF AptGet, LeaveLoop, Raise
  <2>2. proc.tries \in 0..MaxTries /\ proc'.tries \in 0..MaxTries
    BY DEF ControlInv, UnitTypeOK
  <2>3. proc'.tries = proc.tries + 1
    BY <2>1 DEF ControlInv, UnitTypeOK
  <2>4. Turns = MaxTries - proc.tries /\ Turns' = MaxTries - proc'.tries
    BY <1>1, <2>1 DEF Turns, Waits
  <2>5. QED
    BY <2>1, <2>2, <2>3, <2>4, WorldAssumption DEF Nearer
<1>4. QED
  BY <1>2, <1>3

(* The comparisons of the options.                                          *)
LEMMA DetectProceeds ==
  ASSUME ControlInv, ControlInv', DetectVm \/ DetectSvc
  PROVE  Nearer
<1>1. CASE pc' # pc
  BY <1>1 DEF DetectVm, DetectSvc, Detect, Compared, Raise, Nearer, Stage
<1>2. CASE pc' = pc
  <2>1. /\ pc \in {"detectVm", "detectSvc"}
        /\ proc \in Process
        /\ proc'.option = proc.option + 1
    BY <1>2 DEF DetectVm, DetectSvc, Detect, Compared, Raise, Process,
                ControlInv, UnitTypeOK
  <2>2. /\ pc = "detectVm" => proc'.option <= Len(VmOptions)
        /\ pc = "detectSvc" => proc'.option <= Len(SvcOptions)
    <3>1. WithinList'
      BY DEF ControlInv, Control
    <3>2. QED
      BY <1>2, <3>1 DEF WithinList
  <2>3. /\ pc = "detectVm" => /\ Turns = Len(VmOptions) - proc.option
                              /\ Turns' = Len(VmOptions) - proc'.option
        /\ pc = "detectSvc" => /\ Turns = Len(SvcOptions) - proc.option
                               /\ Turns' = Len(SvcOptions) - proc'.option
    BY <1>2 DEF Turns, Waits
  <2>4. proc.option \in Nat
    BY <2>1 DEF Process
  <2>5. QED
    BY <1>2, <2>1, <2>2, <2>3, <2>4, OptionFacts DEF Nearer
<1>3. QED
  BY <1>1, <1>2

(* No hook runs for ever, for every length of the lists of options and      *)
(* every bound on the retries: each of its steps leads on to a later label, *)
(* or comes back to the same one for fewer turns, and those of the scripts  *)
(* it waits for take it nearer to the end too.                              *)
THEOREM HooksGoOn == Spec => HooksProceed
<1>1. ControlInv /\ ControlInv' /\ [Next]_vars
        => [HookStep \/ ScriptStep => Nearer]_vars
  <2> SUFFICES ASSUME ControlInv, ControlInv', HookStep \/ ScriptStep
               PROVE  Nearer
    OBVIOUS
  <2>1. CASE AptUpdate \/ AptInstall
    BY <2>1, AptProceeds
  <2>2. CASE DetectVm \/ DetectSvc
    BY <2>2, DetectProceeds
  <2> USE DEF Nearer, Stage, Goto, Raise, Block, Done
  <2>3. CASE Install \/ Binaries \/ CheckRequired
    BY <2>3 DEF Install, Binaries, CheckRequired
  <2>4. CASE ReturnEarly \/ Teardown \/ Stopped \/ ServiceOnly
    BY <2>4 DEF ReturnEarly, Teardown, Stopped, ServiceOnly
  <2>5. CASE Refetch \/ Fetch \/ LocateImage \/ LocateTemplate \/ LocateBof
    BY <2>5 DEF Refetch, Fetch, LocateImage, LocateTemplate, LocateBof, Locate
  <2>6. CASE Render \/ MoveBof \/ WriteAddress \/ Create \/ Created
    BY <2>6 DEF Render, MoveBof, WriteAddress, Create, Created
  <2>7. CASE Start \/ Started \/ SetDomain \/ Stop
    BY <2>7 DEF Start, Started, SetDomain, Stop
  <2>8. CASE \/ RelationJoined \/ VsdChanged \/ VsdRunning \/ UpgradeCharm
             \/ AtExit
    BY <2>8 DEF RelationJoined, VsdChanged, VsdRunning, UpgradeCharm, AtExit,
                Finish
  <2>9. CASE ScriptStep
    <3>1. pc' = pc /\ pc \in Waits
      BY <2>9, ScriptFacts DEF ScriptStep, ControlInv, Control, ScriptRuns
    <3>2. /\ VM!CommandsLeft(script) \in Nat
          /\ VM!CommandsLeft(script') \in Nat
          /\ VM!CommandsLeft(script') < VM!CommandsLeft(script)
      BY <2>9, ScriptsProceed DEF ScriptStep
    <3>3. /\ Turns = VM!CommandsLeft(script)
          /\ Turns' = VM!CommandsLeft(script')
      BY <3>1 DEF Turns, Waits
    <3>4. QED
      BY <3>1, <3>2, <3>3
  <2>10. QED
    BY <2>1, <2>2, <2>3, <2>4, <2>5, <2>6, <2>7, <2>8, <2>9 DEF HookStep
<1>2. QED
  BY <1>1, ControlInvariant, PTL DEF Spec, HooksProceed, Nearer

-----------------------------------------------------------------------------
(* The teardowns.                                                           *)

VmSet == SeqElems(VmOptions)

\* The options whose next comparison finds a change.
Stale == {o \in VmSet : Changed(o)}

\* One was found, and the VM not stopped for it yet.
Due == proc.vmChanged /\ pc \in {"detectSvc", "early", "teardown"}

\* What the test of the required options leaves of the others.
Given == /\ \A o \in VmSet \ Required : config[o] # None
         /\ pc = "detectVm" => \A o \in VmSet : config[o] # None

\* The teardowns there were, that are due and that may still come.
Counted ==
  stops + Cardinality(Stale) + (IF Due THEN 1 ELSE 0) <= Cardinality(VmSet)

CountInv == stops \in Nat /\ (OptionsGiven => Given /\ Counted)

(* The lists are finite.                                                    *)
LEMMA VmSetFinite == IsFiniteSet(VmSet) /\ Cardinality(VmSet) \in Nat
<1>1. IsFiniteSet(1..Len(VmOptions))
  BY OptionFacts, FS_Interval
<1>2. VmOptions \in Surjection(1..Len(VmOptions), VmSet)
  BY OptionFacts, OptionsAssumption DEF VmSet, SeqElems, Surjection
<1>3. QED
  BY <1>1, <1>2, FS_Surjection, FS_CardinalityType DEF ExistsSurjection

LEMMA StaleFinite ==
  /\ IsFiniteSet(Stale) /\ Cardinality(Stale) \in Nat
  /\ Cardinality(Stale) <= Cardinality(VmSet)
BY VmSetFinite, FS_Subset, FS_CardinalityType DEF Stale

(* A step that finds no change and stops nothing.                           *)
LEMMA CountKept ==
  ASSUME CountInv, Given => Given', Stale' \subseteq Stale, Due' => Due,
         ~TearsDown, edits' = edits, Count
  PROVE  CountInv'
<1>1. stops' = stops
  BY DEF Count
<1>2. Cardinality(Stale') <= Cardinality(Stale) /\ Cardinality(Stale') \in Nat
  BY StaleFinite, FS_Subset, FS_CardinalityType
<1>3. Counted => Counted'
  BY <1>1, <1>2, StaleFinite, VmSetFinite DEF CountInv, Counted, VmSet
<1>4. QED
  BY <1>1, <1>3 DEF CountInv, OptionsGiven

(* A record makes no option stale.                                          *)
LEMMA RecordShrinks ==
  ASSUME UnitTypeOK, NEW o \in Options, Record(o), config' = config
  PROVE  Stale' \subseteq Stale
BY RecordFacts DEF Stale, Changed, VmSet, Options

(* The paths are none of the options.                                       *)
LEMMA StaleStays ==
  ASSUME config' = config, \A o \in Options : kv'[o] = kv[o]
  PROVE  Stale' = Stale
BY DEF Stale, Changed, VmSet, Options

(* A comparison that finds a change makes one due, and the option is not    *)
(* stale any more.                                                          *)
LEMMA DetectVmCounts ==
  ASSUME ControlInv, CountInv, DetectVm, Count
  PROVE  CountInv'
<1> DEFINE o == VmOptions[proc.option]
<1>1. /\ pc = "detectVm" /\ UNCHANGED <<config, edits>>
      /\ proc \in Process /\ proc.option \in 1..Len(VmOptions)
      /\ o \in VmSet /\ o \in Options
  BY OptionFacts
     DEF DetectVm, world, ControlInv, UnitTypeOK, Control, WithinList, Process,
         VmSet, SeqElems
<1>2. ~Due /\ ~TearsDown
  BY <1>1 DEF Due, TearsDown
<1>3. stops' = stops
  BY <1>1, <1>2 DEF Count
<1>4. Given => Given'
  BY <1>1 DEF Given
<1>5. CASE Raise /\ UNCHANGED kv
  <2>1. ~Due'
    BY <1>5 DEF Raise, Due
  <2>2. Stale' = Stale
    BY <1>1, <1>5, StaleStays
  <2>3. QED
    BY <1>1, <1>2, <1>4, <2>1, <2>2, CountKept
<1>6. CASE /\ Record(o)
           /\ Compared(Changed(o) \/ proc.option = Len(VmOptions),
                       [proc EXCEPT !.vmChanged = Changed(o)], "detectSvc")
  <2>1. proc'.vmChanged = Changed(o)
    BY <1>1, <1>6 DEF Compared, Process
  <2>2. UnitTypeOK
    BY DEF ControlInv
  <2>3. Stale' \subseteq Stale
    BY <1>1, <1>6, <2>2, RecordShrinks
  <2>4. CASE ~Changed(o)
    <3>1. ~Due'
      BY <2>1, <2>4 DEF Due
    <3>2. QED
      BY <1>1, <1>2, <1>4, <2>3, <3>1, CountKept
  <2>5. CASE Changed(o)
    <3>1. o \in Stale
      BY <1>1, <2>5 DEF Stale
    <3>2. Given => o \notin Stale'
      BY <1>1, <1>6, <2>2, RecordFacts DEF Given, Stale, Changed
    <3>3. Given => Stale' \subseteq Stale \ {o}
      BY <2>3, <3>2
    <3>4. /\ IsFiniteSet(Stale \ {o})
          /\ Cardinality(Stale \ {o}) = Cardinality(Stale) - 1
      BY <3>1, StaleFinite, FS_RemoveElement
    <3>5. Given => /\ Cardinality(Stale') <= Cardinality(Stale) - 1
                   /\ Cardinality(Stale') \in Nat
      BY <3>3, <3>4, FS_Subset, FS_CardinalityType
    <3>6. Given /\ Counted => Counted'
      BY <1>2, <1>3, <3>5, StaleFinite, VmSetFinite
         DEF Counted, CountInv, VmSet
    <3>7. QED
      BY <1>3, <1>4, <3>6 DEF CountInv, OptionsGiven
  <2>6. QED
    BY <2>4, <2>5
<1>7. QED
  BY <1>1, <1>5, <1>6 DEF DetectVm, Detect, Current

(* A teardown that was due.                                                 *)
LEMMA TeardownCounts ==
  ASSUME ControlInv, CountInv, Teardown, Count
  PROVE  CountInv'
<1>1. pc = "teardown" /\ UNCHANGED <<config, edits, kv>>
  BY DEF Teardown, world
<1>2. Stale' = Stale
  BY <1>1, StaleStays
<1>3. Given'  <=> Given
  BY <1>1 DEF Given, Teardown, Goto, Raise
<1>4. CASE pc' = "stopping"
  <2>1. proc.vmChanged /\ ~BytesOutput
    BY <1>4 DEF Teardown, Goto, Raise
  <2>2. Due /\ ~Due'
    BY <1>1, <1>4, <2>1 DEF Due
  <2>3. stops' \in Nat /\ stops' <= stops + 1
    BY <1>1 DEF Count, CountInv
  <2>4. Counted => Counted'
    BY <1>2, <2>2, <2>3, StaleFinite, VmSetFinite
       DEF Counted, CountInv, VmSet
  <2>5. QED
    BY <1>3, <2>3, <2>4 DEF CountInv, OptionsGiven
<1>5. CASE pc' # "stopping"
  <2>1. ~Due' /\ ~TearsDown
    BY <1>5 DEF Due, TearsDown, Teardown, Goto, Raise
  <2>2. QED
    BY <1>1, <1>2, <1>3, <2>1, CountKept
<1>6. QED
  BY <1>4, <1>5

(* An edit may make every option stale, and the count starts again.         *)
LEMMA EditCounts ==
  ASSUME ControlInv, CountInv, NEW o \in Options, NEW v \in Values[o],
         Edit(o, v), Count
  PROVE  CountInv'
<1>1. /\ pc' = pc /\ pc \notin {"detectVm", "detectSvc", "early", "teardown"}
      /\ config' = [config EXCEPT ![o] = v] /\ edits' = edits + 1
  BY DEF Edit, Between
<1>2. stops' = 0
  BY <1>1 DEF Count, ControlInv, UnitTypeOK
<1>3. ~Due'
  BY <1>1 DEF Due
<1>4. OptionsGiven /\ Given => Given'
  BY <1>1 DEF Given, OptionsGiven, VmSet, ControlInv, UnitTypeOK
<1>5. Counted'
  <2>1. Cardinality(Stale') <= Cardinality(VmSet) /\ Cardinality(Stale') \in Nat
    BY VmSetFinite, FS_Subset, FS_CardinalityType DEF Stale, VmSet
  <2>2. QED
    BY <1>2, <1>3, <2>1, VmSetFinite DEF Counted, VmSet
<1>6. QED
  BY <1>2, <1>4, <1>5 DEF CountInv, OptionsGiven

LEMMA CountHook ==
  ASSUME ControlInv, CountInv, HookStep, Count
  PROVE  CountInv'
<1>1. CASE DetectVm
  BY <1>1, DetectVmCounts
<1>2. CASE Teardown
  BY <1>2, TeardownCounts
<1>3. CASE CheckRequired
  <2>1. /\ pc = "required" /\ UNCHANGED <<config, edits, kv>>
        /\ pc' = "detectVm" => \A o \in Required : config[o] # None
        /\ pc' \in {"detectVm", "failed"}
    BY <1>3 DEF CheckRequired, Block, Raise, Goto, world
  <2>2. Given => Given'
    BY <2>1 DEF Given
  <2>3. ~Due' /\ ~TearsDown /\ Stale' = Stale
    BY <2>1, StaleStays DEF Due, TearsDown
  <2>4. QED
    BY <2>1, <2>2, <2>3, CountKept
<1>4. CASE DetectSvc
  <2>1. /\ pc = "detectSvc" /\ UNCHANGED <<config, edits>>
        /\ pc' \in {"detectSvc", "early", "failed"}
        /\ \/ kv' = kv \/ Record(SvcOptions[proc.option])
        /\ proc'.vmChanged = proc.vmChanged
    BY <1>4 DEF DetectSvc, Detect, Compared, Current, Raise, world, process,
                ControlInv, UnitTypeOK
  <2>2. SvcOptions[proc.option] \in Options /\ UnitTypeOK
    BY <2>1, OptionFacts DEF ControlInv, UnitTypeOK, Control, WithinList
  <2>3. Stale' \subseteq Stale
    BY <2>1, <2>2, RecordShrinks, StaleStays
  <2>4. (Given => Given') /\ (Due' => Due) /\ ~TearsDown
    BY <2>1 DEF Given, Due, TearsDown
  <2>5. QED
    BY <2>1, <2>3, <2>4, CountKept
<1>5. CASE ReturnEarly
  <2>1. /\ pc = "early" /\ UNCHANGED <<config, edits, kv, proc>>
        /\ pc' \in {"teardown", "atexit", "failed"}
    BY <1>5 DEF ReturnEarly, Done, Goto, Raise, world, process
  <2>2. /\ Stale' = Stale /\ ~TearsDown
        /\ Given => Given'
        /\ Due' => Due
    BY <2>1, StaleStays DEF Given, Due, TearsDown
  <2>3. QED
    BY <2>1, <2>2, CountKept
<1>6. CASE Refetch
  <2>1. /\ pc = "refetch" /\ UNCHANGED <<config, edits>> /\ Record(Url)
        /\ pc' \in {"fetch", "locateImage"}
    BY <1>6 DEF Refetch, Goto, world
  <2>2. Stale' \subseteq Stale
    BY <2>1, OptionFacts, RecordShrinks DEF ControlInv
  <2>3. (Given => Given') /\ ~Due' /\ ~TearsDown
    BY <2>1 DEF Given, Due, TearsDown
  <2>4. QED
    BY <2>1, <2>2, <2>3, CountKept
<1>7. ASSUME UNCHANGED <<config, edits>>, \A o \in Options : kv'[o] = kv[o],
             pc # "teardown",
             pc' \notin {"detectVm", "detectSvc", "early", "teardown"}
      PROVE  CountInv'
  <2>1. Stale' = Stale
    BY <1>7, StaleStays
  <2>2. (Given => Given') /\ ~Due' /\ ~TearsDown
    BY <1>7 DEF Given, Due, TearsDown
  <2>3. QED
    BY <1>7, <2>1, <2>2, CountKept
<1>8. CASE Fetch \/ LocateImage \/ LocateTemplate \/ LocateBof
  <2>1. \A o \in Options : kv'[o] = kv[o]
    BY <1>8, OptionFacts, PathFacts
       DEF Fetch, LocateImage, LocateTemplate, LocateBof, Locate, ControlInv,
           UnitTypeOK
  <2>2. /\ UNCHANGED <<config, edits>> /\ pc # "teardown"
        /\ pc' \notin {"detectVm", "detectSvc", "early", "teardown"}
    BY <1>8 DEF Fetch, LocateImage, LocateTemplate, LocateBof, Locate, Goto,
                Raise, world
  <2>3. QED
    BY <1>7, <2>1, <2>2
<1>9. CASE \/ Install \/ AptUpdate \/ AptInstall \/ Binaries \/ Stopped
           \/ ServiceOnly \/ Render \/ MoveBof \/ WriteAddress \/ Create
           \/ Created \/ Start \/ Started \/ SetDomain \/ RelationJoined
           \/ VsdChanged \/ VsdRunning \/ UpgradeCharm \/ Stop \/ AtExit
  <2>1. /\ UNCHANGED <<config, edits, kv>> /\ pc # "teardown"
        /\ pc' \notin {"detectVm", "detectSvc", "early", "teardown"}
    BY <1>9 DEF Install, AptUpdate, AptInstall, AptGet, LeaveLoop, Binaries,
      Stopped, ServiceOnly, Render, MoveBof, WriteAddress, Create, Created,
      Start, Started, SetDomain, RelationJoined, VsdChanged, VsdRunning,
      UpgradeCharm, Stop, AtExit, Finish, Goto, Raise, Block, Done, world
  <2>2. QED
    BY <1>7, <2>1
<1>10. QED
  BY <1>1, <1>2, <1>3, <1>4, <1>5, <1>6, <1>8, <1>9 DEF HookStep

LEMMA CountStep ==
  ASSUME ControlInv, CountInv, [Next /\ Count]_countVars
  PROVE  CountInv'
<1>1. ASSUME UNCHANGED <<config, edits, kv, proc>>, Count,
             pc' \notin {"detectVm", "detectSvc", "early", "teardown"}
               \/ pc' = pc,
             ~TearsDown
      PROVE  CountInv'
  <2>1. Stale' = Stale
    BY <1>1, StaleStays
  <2>2. (Given => Given') /\ (Due' => Due)
    BY <1>1 DEF Given, Due
  <2>3. QED
    BY <1>1, <2>1, <2>2, CountKept
<1>2. CASE (Run \/ Retry) /\ Count
  <2>1. PICK h \in Hooks : Enter(h)
    BY <1>2 DEF Run, Retry, ControlInv, UnitTypeOK
  <2>2. /\ UNCHANGED <<config, edits, kv>>
        /\ pc' \notin {"detectVm", "detectSvc", "early", "teardown"}
        /\ pc \in {"idle", "failed"}
    BY <1>2, <2>1, EntryFacts DEF Enter, world, Run, Retry
  <2>3. Stale' = Stale
    BY <2>2, StaleStays
  <2>4. (Given => Given') /\ ~Due' /\ ~TearsDown
    BY <2>2 DEF Given, Due, TearsDown
  <2>5. QED
    BY <1>2, <2>2, <2>3, <2>4, CountKept
<1>3. CASE Skip /\ Count
  BY <1>1, <1>3 DEF Skip, Finish, world, TearsDown
<1>4. CASE HookStep /\ Count
  BY <1>4, CountHook
<1>5. CASE (ScriptStep \/ GuestDown) /\ Count
  BY <1>1, <1>5 DEF ScriptStep, GuestDown, world, process, TearsDown
<1>6. CASE Crash /\ Count
  BY <1>1, <1>6 DEF Crash, world, process, TearsDown
<1>7. CASE World /\ Count
  <2>1. ASSUME NEW o \in Options, NEW v \in Values[o], Edit(o, v)
        PROVE  CountInv'
    BY <1>7, <2>1, EditCounts
  <2>2. CASE \E r \in Rels : Join(r)
    BY <1>1, <1>7, <2>2 DEF Join, process, TearsDown
  <2>3. CASE VsdPublishes \/ Upgrade \/ Remove
    BY <1>1, <1>7, <2>3 DEF VsdPublishes, Upgrade, Remove, world, process,
                            TearsDown
  <2>4. QED
    BY <1>7, <2>1, <2>2, <2>3 DEF World
<1>8. CASE UNCHANGED countVars
  BY <1>8 DEF countVars, vars, world, process, CountInv, Given, Counted, Stale,
              Changed, Due
<1>9. QED
  BY <1>2, <1>3, <1>4, <1>5, <1>6, <1>7, <1>8 DEF Next

(* The VM is torn down at most once for each option of the list between two *)
(* edits, for every list, however often config-changed runs in between and  *)
(* wherever it fails: TeardownsEnd with a bound, and without fairness.      *)
THEOREM TeardownsAreBounded == CountSpec => []TeardownsBounded
<1>1. CountSpec => Spec
  <2>1. [Next /\ Count]_countVars => [Next]_vars
    BY DEF countVars
  <2>2. QED
    BY <2>1, PTL DEF CountSpec, Spec
<1>2. Init /\ stops = 0 => CountInv
  <2> SUFFICES ASSUME Init, stops = 0 PROVE CountInv
    OBVIOUS
  <2>1. OptionsGiven => Given
    BY DEF Init, OptionsGiven, Given, VmSet
  <2>2. ~Due
    BY DEF Init, Due
  <2>3. Counted
    BY <2>2, StaleFinite, VmSetFinite DEF Counted
  <2>4. QED
    BY <2>1, <2>3 DEF CountInv
<1>3. ControlInv /\ CountInv /\ [Next /\ Count]_countVars => CountInv'
  BY CountStep
<1>4. CountInv => TeardownsBounded
  BY StaleFinite, VmSetFinite
     DEF CountInv, Counted, TeardownsBounded, MaxStops, VmSet
<1>5. QED
  BY <1>1, <1>2, <1>3, <1>4, ControlInvariant, PTL DEF CountSpec
=============================================================================
