--------------------------- MODULE VscGuestProofs ---------------------------
(***************************************************************************)
(* Proofs about VscCharm: what the running guest was booted from, on a     *)
(* host where VSP_VM_NAME is unique and guestfish works.                   *)
(***************************************************************************)
EXTENDS VscCharmProofs

-----------------------------------------------------------------------------
(* The disk.  What VspVmProofs shows of VspVm, said of the instance.        *)

Unfinished == {"image", "overlay", "copy", "define"}

DiskInv ==
  /\ script \in Unfinished => dom = "undefined"
  /\ script = "copy" => Staged # None
  /\ script = "define" => disk \in Images
  /\ dom \in VM!Active => guest # None /\ guest.disk = disk
  /\ dom # "undefined" => disk \in Images

LEMMA UniqueListing ==
  ASSUME VM!NameIsUnique
  PROVE  /\ VM!ReportedRunning <=> dom \in VM!Active
         /\ VM!ReportedCreated <=> dom # "undefined"
BY DEF VM!NameIsUnique, VM!ReportedRunning, VM!ReportedCreated, VM!Shown,
       VM!Active

LEMMA DiskInvariant ==
  ASSUME VM!NameIsUnique
  PROVE  Spec => []DiskInv
<1>1. VmProofs!NameIsUnique
  BY VM!NameIsUnique DEF VM!NameIsUnique, VM!Similar, VmProofs!NameIsUnique,
                         VmProofs!Similar
<1>2. VmProofs!Spec => []VmProofs!DiskInv
  BY VmAssumptions, AbsenceAssumption, OthersAssumption,
     VmProofs!DiskInvariant
<1>3. VmProofs!DiskInv => DiskInv
  BY <1>1 DEF DiskInv, Unfinished, VM!Active, VmProofs!DiskInv,
       VmProofs!Unfinished, VmProofs!CheckStillHolds,
       VmProofs!CopiesWhatExists, VmProofs!DefinesOverCopy,
       VmProofs!GuestKeepsItsDisk, VmProofs!DefinedOverWholeDisk,
       VmProofs!Active
<1>4. QED
  BY <1>2, <1>3, HooksAreClients, PTL

-----------------------------------------------------------------------------
(* What a running config-changed has ensured for its later steps.           *)

\* From the test of the required options until the address is written.
Deploying ==
  \/ pc \in {"detectVm", "detectSvc", "early", "teardown", "svcOnly",
             "refetch", "fetch", "locateImage", "locateTemplate", "locateBof",
             "render", "moveBof", "guestfs"}
  \/ pc = "stopping" /\ hook # "stop"

AddressGiven == Deploying => config[Address] # None

CreateCommands == {"check", "verify"} \cup Unfinished

CreatesWhileCreating == script \in CreateCommands => pc = "creating"

(* The required address is there for as long as config-changed uses it.     *)
LEMMA AddressGivenStep ==
  ASSUME Address \in Required, ControlInv, AddressGiven, [Next]_vars
  PROVE  AddressGiven'
<1> USE DEF AddressGiven, Deploying
<1>1. CASE Run \/ Retry
  <2>1. PICK h \in Hooks : Enter(h)
    BY <1>1 DEF Run, Retry, ControlInv, UnitTypeOK
  <2>2. QED
    BY <2>1, EntryFacts DEF Enter
<1>2. CASE Skip
  BY <1>2 DEF Skip, Finish
<1>3. CASE HookStep
  <2>1. CASE CheckRequired
    BY <2>1 DEF CheckRequired, Block, Raise, Goto, world, process
  <2>2. CASE AtExit
    BY <2>2 DEF AtExit, Finish
  <2>3. CASE \/ Install \/ AptUpdate \/ AptInstall \/ Binaries
             \/ Create \/ Created \/ Start \/ Started \/ SetDomain
             \/ RelationJoined \/ VsdChanged \/ VsdRunning \/ UpgradeCharm
    BY <2>3 DEF Install, AptUpdate, AptInstall, AptGet, LeaveLoop, Binaries,
      Create, Created, Start, Started, SetDomain, RelationJoined, VsdChanged,
      VsdRunning, UpgradeCharm, Goto, Raise, Block, Done
  <2>4. CASE \/ DetectVm \/ DetectSvc \/ ReturnEarly \/ Teardown
             \/ ServiceOnly \/ Refetch \/ Fetch \/ LocateImage
             \/ LocateTemplate \/ LocateBof \/ Render \/ MoveBof
             \/ WriteAddress
    <3>1. config' = config /\ hook' = hook /\ Deploying
      BY <2>4 DEF DetectVm, DetectSvc, Detect, Compared, ReturnEarly, Teardown,
        ServiceOnly, Refetch, Fetch, LocateImage, LocateTemplate, Locate,
        LocateBof, Render, MoveBof, WriteAddress, Goto, Raise, Done, world,
        process
    <3>2. QED
      BY <3>1
  <2>5. CASE Stop
    BY <2>5 DEF Stop, Goto, process, ControlInv, Control, StopsAlone
  <2>6. CASE Stopped
    BY <2>6 DEF Stopped, Goto, Done, process, world
  <2>7. QED
    BY <1>3, <2>1, <2>2, <2>3, <2>4, <2>5, <2>6 DEF HookStep
<1>4. CASE ScriptStep \/ GuestDown
  BY <1>4 DEF ScriptStep, GuestDown, world, process
<1>5. CASE Crash
  BY <1>5 DEF Crash
<1>6. CASE World
  <2>1. pc \in {"idle", "failed"} /\ pc' = pc
    BY <1>6 DEF World, Between, Edit, Join, VsdPublishes, Upgrade, Remove
  <2>2. QED
    BY <2>1
<1>7. CASE UNCHANGED vars
  BY <1>7 DEF vars, world, process
<1>8. QED
  BY <1>1, <1>2, <1>3, <1>4, <1>5, <1>6, <1>7 DEF Next

(* The commands of create_vsp_vm run while createvm waits for them.         *)
LEMMA CreatesStep ==
  ASSUME ControlInv, CreatesWhileCreating, [Next]_vars
  PROVE  CreatesWhileCreating'
<1> USE DEF CreatesWhileCreating, CreateCommands, Unfinished
<1>1. CASE Run \/ Retry \/ Skip \/ World
  <2>1. script' = script /\ pc \notin Waits
    BY <1>1 DEF Run, Retry, Enter, Skip, World, Between, Edit, Join,
                VsdPublishes, Upgrade, Remove, vmVars, Waits
  <2>2. QED
    BY <2>1 DEF ControlInv, Control, ScriptRuns
<1>2. CASE HookStep
  <2>1. CASE Teardown
    BY <2>1 DEF Teardown, Goto, Raise, VM!Invoke, vmVars, ControlInv, Control,
                ScriptRuns, Waits
  <2>2. CASE Create
    BY <2>2 DEF Create, Goto
  <2>3. CASE Start \/ Stop
    BY <2>3 DEF Start, Stop, VM!Invoke
  <2>4. CASE Stopped \/ Created \/ Started
    BY <2>4 DEF Stopped, Created, Started, vmVars
  <2>5. CASE \/ Install \/ AptUpdate \/ AptInstall \/ Binaries
             \/ CheckRequired \/ DetectVm \/ DetectSvc
             \/ ReturnEarly \/ ServiceOnly \/ Refetch \/ Fetch \/ LocateImage
             \/ LocateTemplate \/ LocateBof \/ Render \/ MoveBof
             \/ WriteAddress \/ SetDomain \/ RelationJoined
             \/ VsdChanged \/ VsdRunning \/ UpgradeCharm \/ AtExit
    <3>1. script' = script /\ pc \notin Waits
      BY <2>5 DEF Install, AptUpdate, AptInstall, Binaries, CheckRequired,
        DetectVm, DetectSvc, ReturnEarly, ServiceOnly, Refetch, Fetch,
        LocateImage, LocateTemplate, Locate, LocateBof, Render, MoveBof,
        WriteAddress, SetDomain, RelationJoined, VsdChanged, VsdRunning,
        UpgradeCharm, AtExit, vmVars, Waits
    <3>2. QED
      BY <3>1 DEF ControlInv, Control, ScriptRuns
  <2>6. QED
    BY <1>2, <2>1, <2>2, <2>3, <2>4, <2>5 DEF HookStep
<1>3. CASE ScriptStep
  <2>1. pc' = pc /\ VM!ScriptStep
    BY <1>3 DEF ScriptStep
  <2>2. script' \in CreateCommands => script \in CreateCommands
    BY <2>1 DEF VM!ScriptStep, VM!CreateCheck, VM!CreateImage,
      VM!CreateOverlay, VM!CreateCopy, VM!CreateDefine, VM!CreateVerify,
      VM!StartDomain, VM!StopShutdown, VM!StopDestroy, VM!StopUndefine,
      VM!Goto, VM!Exit
  <2>3. QED
    BY <2>1, <2>2
<1>4. CASE GuestDown
  BY <1>4 DEF GuestDown, VM!GuestDown
<1>5. CASE Crash
  BY <1>5 DEF Crash, VM!Kill
<1>6. CASE UNCHANGED vars
  BY <1>6 DEF vars, vmVars
<1>7. QED
  BY <1>1, <1>2, <1>3, <1>4, <1>5, <1>6 DEF Next

-----------------------------------------------------------------------------
(* bof.cfg, guestfish and the address they write.                           *)

\* Where a walk saw bof.cfg, it is there until it has been moved, and from
\* then on in templates/.
BofKept == kv[BofPath] # None => tree[kv[BofPath]].bof \/ bofFile

BofMoved == pc = "guestfs" => bofFile

FishThere == phase # "new" \/ pc = "atexit" => "guestfish" \in tools

\* The image that create is about to copy has the address, if it is an image.
StagedAddressed ==
  pc \in {"create", "creating"} /\ Staged # None /\ Staged.whole
    => Staged.address # None

\* Only an extraction over the directory of the fetch path can have left a part
\* of an image there.
StagedWhole == Staged # None => Staged.whole \/ spoiled

\* Every archive has an image.
WholeArchives == \A u \in Urls : "image" \in Contents[u]

LEMMA FishStep ==
  ASSUME "guestfs" \notin Env, ControlInv, ToolsInv, FishThere, [Next]_vars
  PROVE  FishThere'
<1> USE DEF FishThere
<1>1. CASE Run \/ Retry
  <2>1. PICK h \in Hooks : Enter(h)
    BY <1>1 DEF Run, Retry, ControlInv, UnitTypeOK
  <2>2. QED
    BY <2>1, EntryFacts DEF Enter, files, queue
<1>2. CASE Skip
  BY <1>2 DEF Skip, Finish, ToolsInv, files
<1>3. CASE HookStep
  <2>1. CASE AtExit
    BY <2>1 DEF AtExit, Finish, files
  <2>2. CASE Binaries
    BY <2>2 DEF Binaries, Block, Raise, Done, queue
  <2>3. CASE Install \/ AptUpdate \/ AptInstall
    <3>1. tools \subseteq tools' /\ phase' = phase /\ pc' # "atexit"
      BY <2>3 DEF Install, AptUpdate, AptInstall, AptGet, LeaveLoop, Raise,
                  Goto, files, queue
    <3>2. QED
      BY <3>1
  <2>4. CASE \/ CheckRequired \/ DetectVm \/ DetectSvc
             \/ ReturnEarly \/ Teardown \/ Stopped \/ ServiceOnly
             \/ Refetch \/ Fetch \/ LocateImage \/ LocateTemplate
             \/ LocateBof \/ Render \/ MoveBof \/ WriteAddress
             \/ Create \/ Created \/ Start \/ Started \/ SetDomain
             \/ RelationJoined \/ VsdChanged \/ VsdRunning
             \/ UpgradeCharm \/ Stop
    <3>1. UNCHANGED <<tools, phase>> /\ pc \notin Installing
      BY <2>4 DEF CheckRequired, DetectVm, DetectSvc, Detect, Compared,
        ReturnEarly, Teardown, Stopped, ServiceOnly, Refetch, Fetch,
        LocateImage, LocateTemplate, LocateBof, Locate, Render, MoveBof,
        WriteAddress, Create, Created, Start, Started, SetDomain,
        RelationJoined, VsdChanged, VsdRunning, UpgradeCharm, Stop,
        Done, Raise, Block, Goto, files, queue, Installing
    <3>2. phase # "new"
      BY <3>1 DEF ToolsInv
    <3>3. QED
      BY <3>1, <3>2
  <2>5. QED
    BY <1>3, <2>1, <2>2, <2>3, <2>4 DEF HookStep
<1>4. CASE ScriptStep \/ GuestDown
  BY <1>4 DEF ScriptStep, GuestDown, files, queue
<1>5. CASE Crash
  BY <1>5 DEF Crash, files, queue
<1>6. CASE World
  <2>1. /\ UNCHANGED <<pc, tools>>
        /\ phase' = phase \/ phase = "started"
    BY <1>6 DEF World, Edit, Join, VsdPublishes, Upgrade, Remove, files
  <2>2. QED
    BY <2>1
<1>7. CASE UNCHANGED vars
  BY <1>7 DEF vars, files, queue
<1>8. QED
  BY <1>1, <1>2, <1>3, <1>4, <1>5, <1>6, <1>7 DEF Next

(* The comparisons of options record no path.                               *)
LEMMA PathsKept ==
  ASSUME ControlInv, DetectVm \/ DetectSvc \/ Refetch, NEW p \in Paths
  PROVE  kv'[p] = kv[p]
<1>1. PICK o \in Options : kv' = kv \/ Record(o)
  <2>1. CASE DetectVm
    <3>1. Current(VmOptions) \in Options
      BY <2>1, OptionFacts
         DEF Current, ControlInv, UnitTypeOK, Control, WithinList, DetectVm
    <3>2. QED
      BY <2>1, <3>1 DEF DetectVm, Detect
  <2>2. CASE DetectSvc
    <3>1. Current(SvcOptions) \in Options
      BY <2>2, OptionFacts
         DEF Current, ControlInv, UnitTypeOK, Control, WithinList, DetectSvc
    <3>2. QED
      BY <2>2, <3>1 DEF DetectSvc, Detect
  <2>3. CASE Refetch
    BY <2>3, OptionFacts DEF Refetch
  <2>4. QED
    BY <2>1, <2>2, <2>3
<1>2. QED
  BY <1>1, RecordFacts, OptionFacts DEF ControlInv

(* What no step of a hook but these changes of the files.                   *)
LEMMA FilesKept ==
  ASSUME ControlInv, [Next]_vars
  PROVE  \/ Fetch \/ MoveBof \/ WriteAddress
         \/ LocateImage \/ LocateTemplate \/ LocateBof
         \/ /\ UNCHANGED <<tree, bofFile, spoiled>>
            /\ \A p \in Paths : kv'[p] = kv[p]
            /\ pc' # "guestfs"
            /\ pc' \in {"create", "creating"} => pc \in {"create", "creating"}
         \/ UNCHANGED <<tree, bofFile, spoiled, kv, pc>>
<1>1. CASE Run \/ Retry
  <2>1. PICK h \in Hooks : Enter(h)
    BY <1>1 DEF Run, Retry, ControlInv, UnitTypeOK
  <2>2. QED
    BY <2>1, EntryFacts DEF Enter, files
<1>2. CASE Skip
  BY <1>2 DEF Skip, Finish, files
<1>3. CASE HookStep
  <2>1. CASE DetectVm \/ DetectSvc \/ Refetch
    <3>1. /\ UNCHANGED <<tree, bofFile, spoiled>>
          /\ pc' \notin {"guestfs", "create", "creating"}
      BY <2>1 DEF DetectVm, DetectSvc, Refetch, Detect, Compared, Goto, Raise,
                  files
    <3>2. QED
      BY <2>1, <3>1, PathsKept
  <2>2. CASE \/ Install \/ AptUpdate \/ AptInstall \/ Binaries
             \/ CheckRequired \/ ReturnEarly \/ Teardown \/ Stopped
             \/ ServiceOnly \/ Render \/ Create \/ Created \/ Start
             \/ Started \/ SetDomain \/ RelationJoined \/ VsdChanged
             \/ VsdRunning \/ UpgradeCharm \/ Stop \/ AtExit
    BY <2>2 DEF Install, AptUpdate, AptInstall, AptGet, LeaveLoop, Binaries,
      CheckRequired, ReturnEarly, Teardown, Stopped, ServiceOnly, Render,
      Create, Created, Start, Started, SetDomain, RelationJoined, VsdChanged,
      VsdRunning, UpgradeCharm, Stop, AtExit, Finish, Goto, Raise, Block, Done,
      files
  <2>3. QED
    BY <1>3, <2>1, <2>2 DEF HookStep
<1>4. CASE ScriptStep \/ GuestDown
  BY <1>4 DEF ScriptStep, GuestDown, files
<1>5. CASE Crash
  BY <1>5 DEF Crash, files
<1>6. CASE World
  BY <1>6 DEF World, Edit, Join, VsdPublishes, Upgrade, Remove, files
<1>7. CASE UNCHANGED vars
  BY <1>7 DEF vars, files
<1>8. QED
  BY <1>1, <1>2, <1>3, <1>4, <1>5, <1>6, <1>7 DEF Next

(* bof.cfg is not lost between the archive and templates/.                  *)
LEMMA BofStep ==
  ASSUME ControlInv, BofKept, BofMoved, [Next]_vars
  PROVE  BofKept' /\ BofMoved'
<1> DEFINE d == kv[BofPath]
<1>1. /\ DOMAIN kv = Options \cup Paths
      /\ FetchPath \in Paths /\ ImagePath \in Paths /\ TemplatePath \in Paths
      /\ BofPath \in Paths /\ kv[BofPath] \in Dirs \cup {None}
      /\ BofPath \notin {FetchPath, ImagePath, TemplatePath}
  BY PathFacts DEF ControlInv, UnitTypeOK, FetchPath, ImagePath, TemplatePath,
                   BofPath
<1>2. CASE Fetch
  <2>1. PICK u, S, Cut :
          tree' = [tree EXCEPT ![DirOf[u]] = Unpacked(@, u, S, Cut)]
    BY <1>2 DEF Fetch, ExtractionFails
  <2>2. /\ kv'[BofPath] = kv[BofPath] /\ bofFile' = bofFile
        /\ pc' # "guestfs"
    BY <1>1, <1>2 DEF Fetch, Goto, Raise
  <2>3. d # None => (tree[d].bof => tree'[d].bof)
    <3>1. DOMAIN tree = Dirs
      BY DEF ControlInv, UnitTypeOK
    <3>2. QED
      BY <1>1, <2>1, <3>1 DEF Unpacked
  <2>4. QED
    BY <2>2, <2>3 DEF BofKept, BofMoved
<1>3. CASE MoveBof
  <2>1. /\ bofFile' \in {bofFile, TRUE} /\ kv' = kv
        /\ tree' # tree => bofFile'
        /\ (pc' = "guestfs" /\ ~bofFile')
              => (d # None /\ ~tree[d].bof /\ bofFile' = bofFile)
    BY <1>3 DEF MoveBof, Raise, Goto, files
  <2>2. bofFile' \in {FALSE, TRUE} /\ bofFile \in BOOLEAN
    BY <2>1 DEF ControlInv, UnitTypeOK
  <2>3. CASE bofFile'
    BY <2>3 DEF BofKept, BofMoved
  <2>4. CASE ~bofFile'
    BY <2>1, <2>2, <2>4 DEF BofKept, BofMoved
  <2>5. QED
    BY <2>3, <2>4
<1>4. CASE WriteAddress
  <2>1. UNCHANGED <<kv, bofFile>> /\ pc' # "guestfs"
    BY <1>4 DEF WriteAddress, Goto
  <2>2. d # None => tree'[d].bof = tree[d].bof
    <3>1. \A e \in Dirs : DOMAIN tree[e] = {"image", "template", "bof"}
      BY DEF ControlInv, UnitTypeOK
    <3>2. CASE tree' = tree
      BY <3>2
    <3>3. CASE tree' = [tree EXCEPT ![kv[FetchPath]].image.address = config[Address]]
      BY <1>1, <3>1, <3>3 DEF ControlInv, UnitTypeOK
    <3>4. QED
      BY <1>4, <3>2, <3>3 DEF WriteAddress
  <2>3. QED
    BY <2>1, <2>2 DEF BofKept, BofMoved
<1>5. CASE LocateImage \/ LocateTemplate \/ LocateBof
  <2>1. /\ UNCHANGED <<tree, bofFile>> /\ pc' # "guestfs"
        /\ \/ kv'[BofPath] = kv[BofPath]
           \/ kv'[BofPath] = kv[FetchPath] /\ tree[kv[FetchPath]].bof
    BY <1>1, <1>5 DEF LocateImage, LocateTemplate, LocateBof, Locate, Walked,
                      Goto, Raise, files
  <2>2. QED
    BY <2>1 DEF BofKept, BofMoved
<1>6. CASE \/ /\ UNCHANGED <<tree, bofFile>>
              /\ \A p \in Paths : kv'[p] = kv[p]
              /\ pc' # "guestfs"
           \/ UNCHANGED <<tree, bofFile, kv, pc>>
  BY <1>1, <1>6 DEF BofKept, BofMoved
<1>7. QED
  BY <1>2, <1>3, <1>4, <1>5, <1>6, FilesKept

(* What guestfish, if anything, changes of the image.                       *)
LEMMA AddressWritten ==
  ASSUME ControlInv, WriteAddress, Staged # None
  PROVE  /\ Staged \in Images
         /\ \/ Staged' = [Staged EXCEPT !.address = config[Address]]
            \/ /\ Staged' = Staged
               /\ \/ ~bofFile \/ "guestfish" \notin tools
                  \/ ~Staged.whole \/ "guestfs" \in Env
<1>1. /\ kv[FetchPath] \in Dirs /\ kv[FetchPath] # None
      /\ Staged = tree[kv[FetchPath]].image /\ Staged \in Images
  <2>1. kv[FetchPath] \in Dirs \cup {None}
    BY PathFacts DEF ControlInv, UnitTypeOK
  <2>2. QED
    BY <2>1 DEF Staged, ControlInv, UnitTypeOK
<1>2. CASE tree' = [tree EXCEPT ![kv[FetchPath]].image.address = config[Address]]
  <2>1. tree'[kv[FetchPath]].image = [Staged EXCEPT !.address = config[Address]]
    BY <1>1, <1>2 DEF ControlInv, UnitTypeOK
  <2>2. kv' = kv
    BY DEF WriteAddress
  <2>3. QED
    BY <1>1, <2>1, <2>2 DEF Staged
<1>3. CASE /\ tree' = tree
           /\ \/ ~bofFile \/ "guestfish" \notin tools
              \/ ~Staged.whole \/ "guestfs" \in Env
  <2>1. Staged' = Staged
    BY <1>3 DEF Staged, WriteAddress
  <2>2. QED
    BY <1>1, <1>3, <2>1
<1>4. QED
  BY <1>2, <1>3 DEF WriteAddress

(* guestfish has written the address when create starts.                    *)
LEMMA StagedStep ==
  ASSUME "guestfs" \notin Env, ControlInv, ToolsInv, AddressGiven, BofMoved,
         FishThere, StagedAddressed, [Next]_vars
  PROVE  StagedAddressed'
<1> USE DEF StagedAddressed
<1>1. CASE WriteAddress
  <2>1. config[Address] # None /\ bofFile /\ "guestfish" \in tools
    BY <1>1 DEF WriteAddress, AddressGiven, Deploying, BofMoved, FishThere,
                ToolsInv, Installing
  <2>2. CASE Staged = None
    <3>1. Staged' = None
      BY <1>1, <2>2 DEF WriteAddress, Staged
    <3>2. QED
      BY <3>1
  <2>3. CASE Staged # None
    BY <1>1, <2>1, <2>3, AddressWritten DEF Images
  <2>4. QED
    BY <2>2, <2>3
<1>2. CASE Fetch \/ MoveBof \/ LocateImage \/ LocateTemplate \/ LocateBof
  BY <1>2 DEF Fetch, MoveBof, LocateImage, LocateTemplate, LocateBof, Locate,
              Goto, Raise
<1>3. CASE \/ /\ UNCHANGED tree
              /\ \A p \in Paths : kv'[p] = kv[p]
              /\ pc' \in {"create", "creating"} => pc \in {"create", "creating"}
           \/ UNCHANGED <<tree, kv, pc>>
  <2>1. Staged' = Staged
    BY <1>3, PathFacts DEF Staged
  <2>2. QED
    BY <1>3, <2>1
<1>4. QED
  BY <1>1, <1>2, <1>3, FilesKept

(* An extraction fills a directory before the fetch path names it, and one  *)
(* that is cut short there is either not named yet or reported.             *)
LEMMA StagedWholeStep ==
  ASSUME WholeArchives, ControlInv, StagedWhole, [Next]_vars
  PROVE  StagedWhole' /\ (spoiled => spoiled')
<1>1. /\ DOMAIN kv = Options \cup Paths /\ FetchPath \in Paths
      /\ kv[FetchPath] \in Dirs \cup {None} /\ None \notin Dirs
      /\ FetchPath \notin {ImagePath, TemplatePath, BofPath}
      /\ spoiled \in BOOLEAN /\ DOMAIN tree = Dirs
      /\ \A d \in Dirs : DOMAIN tree[d] = {"image", "template", "bof"}
  BY AbsenceAssumption, PathFacts
     DEF ControlInv, UnitTypeOK, FetchPath, ImagePath, TemplatePath, BofPath
<1>2. CASE Fetch
  <2> DEFINE u == config[Url]
             d == DirOf[u]
  <2>1. "image" \in Contents[u] /\ d \in Dirs
    <3>1. u \in Urls
      BY <1>2, OptionFacts
         DEF Fetch, ControlInv, UnitTypeOK, Control, UrlGiven, Urls
    <3>2. QED
      BY <3>1 DEF WholeArchives, Dirs
  <2>2. CASE /\ tree' = [tree EXCEPT ![d] = Unpacked(@, u, Contents[u], {})]
             /\ kv' = [kv EXCEPT ![FetchPath] = d]
             /\ UNCHANGED spoiled
    <3>1. Staged'.whole
      BY <1>1, <2>1, <2>2 DEF Staged, Unpacked
    <3>2. QED
      BY <2>2, <3>1 DEF StagedWhole
  <2>3. CASE ExtractionFails(u, d) /\ UNCHANGED kv
    <3>1. PICK S \in SUBSET Contents[u] :
            \E Cut \in {{}} \cup {{f} : f \in Contents[u] \ S} :
              /\ tree' = [tree EXCEPT ![d] = Unpacked(@, u, S, Cut)]
              /\ spoiled' = (spoiled \/ (InUse(d) /\ Cut # {}))
      BY <2>3 DEF ExtractionFails
    <3>2. PICK Cut \in {{}} \cup {{f} : f \in Contents[u] \ S} :
              /\ tree' = [tree EXCEPT ![d] = Unpacked(@, u, S, Cut)]
              /\ spoiled' = (spoiled \/ (InUse(d) /\ Cut # {}))
      BY <3>1
    <3>3. spoiled => spoiled'
      BY <3>2
    <3>4. CASE kv[FetchPath] = d /\ Cut # {}
      <4>1. spoiled'
        BY <1>1, <3>2, <3>4 DEF InUse
      <4>2. QED
        BY <4>1 DEF StagedWhole
    <3>5. CASE kv[FetchPath] = d /\ Cut = {}
      <4>1. tree'[d].image = IF "image" \in S
              THEN [from |-> u, address |-> None, whole |-> TRUE]
              ELSE tree[d].image
        BY <1>1, <2>1, <3>2, <3>5 DEF Unpacked
      <4>2. Staged' = tree'[d].image /\ Staged = tree[d].image
        BY <1>1, <2>1, <2>3, <3>5 DEF Staged
      <4>3. Staged' = Staged \/ Staged'.whole
        BY <4>1, <4>2
      <4>4. QED
        BY <3>3, <4>3 DEF StagedWhole
    <3>6. CASE kv[FetchPath] # d
      <4>1. Staged' = Staged
        BY <1>1, <2>3, <3>2, <3>6 DEF Staged
      <4>2. QED
        BY <3>3, <4>1 DEF StagedWhole
    <3>7. QED
      BY <3>4, <3>5, <3>6
  <2>4. QED
    BY <1>2, <2>2, <2>3 DEF Fetch
<1>3. CASE WriteAddress
  <2>1. UNCHANGED spoiled
    BY <1>3 DEF WriteAddress
  <2>2. CASE Staged = None
    BY <1>3, <2>1, <2>2 DEF WriteAddress, Staged, StagedWhole
  <2>3. CASE Staged # None
    BY <1>3, <2>1, <2>3, AddressWritten DEF StagedWhole, Images
  <2>4. QED
    BY <2>2, <2>3
<1>4. CASE MoveBof
  <2>1. UNCHANGED <<spoiled, kv>>
    BY <1>4 DEF MoveBof, files
  <2>2. \A d \in Dirs : tree'[d].image = tree[d].image
    BY <1>1, <1>4 DEF MoveBof, files
  <2>3. Staged' = Staged
    BY <1>1, <2>1, <2>2 DEF Staged
  <2>4. QED
    BY <2>1, <2>3 DEF StagedWhole
<1>5. CASE LocateImage \/ LocateTemplate \/ LocateBof
  <2>1. UNCHANGED <<tree, spoiled>> /\ kv'[FetchPath] = kv[FetchPath]
    BY <1>1, <1>5 DEF LocateImage, LocateTemplate, LocateBof, Locate, files
  <2>2. Staged' = Staged
    BY <2>1 DEF Staged
  <2>3. QED
    BY <2>1, <2>2 DEF StagedWhole
<1>6. CASE \/ UNCHANGED <<tree, spoiled>> /\ \A p \in Paths : kv'[p] = kv[p]
           \/ UNCHANGED <<tree, spoiled, kv>>
  <2>1. Staged' = Staged
    BY <1>6, PathFacts DEF Staged
  <2>2. QED
    BY <1>6, <2>1 DEF StagedWhole
<1>7. QED
  BY <1>2, <1>3, <1>4, <1>5, <1>6, FilesKept

DiskAddressed ==
  disk \in Images => /\ disk.whole => disk.address # None
                     /\ disk.whole \/ spoiled

(* Only the staged image is copied, and only in create.                     *)
LEMMA DiskAddressedStep ==
  ASSUME ControlInv, CreatesWhileCreating, StagedAddressed, StagedWhole,
         spoiled => spoiled', DiskAddressed, [Next]_vars
  PROVE  DiskAddressed'
<1>1. CASE disk' = disk
  BY <1>1 DEF DiskAddressed
<1>2. CASE disk' # disk
  <2>1. script = "copy" /\ disk' \in {Torn, Staged}
    <3>1. CASE ScriptStep
      BY <1>2, <3>1 DEF ScriptStep, VM!ScriptStep, VM!CreateCheck,
        VM!CreateImage, VM!CreateOverlay, VM!CreateCopy, VM!CreateDefine,
        VM!CreateVerify, VM!StartDomain, VM!StopShutdown, VM!StopDestroy,
        VM!StopUndefine
    <3>2. CASE GuestDown
      BY <1>2, <3>2 DEF GuestDown, VM!GuestDown
    <3>3. CASE Crash
      BY <1>2, <3>3 DEF Crash, VM!Kill
    <3>4. CASE Run \/ Retry \/ Skip \/ World
      BY <1>2, <3>4 DEF Run, Retry, Enter, Skip, World, Edit, Join,
        VsdPublishes, Upgrade, Remove, vmVars
    <3>5. CASE HookStep
      BY <1>2, <3>5 DEF HookStep, Install, AptUpdate, AptInstall, Binaries,
        CheckRequired, DetectVm, DetectSvc, ReturnEarly, Teardown, Stopped,
        ServiceOnly, Refetch, Fetch, LocateImage, LocateTemplate, LocateBof,
        Locate, Render, MoveBof, WriteAddress, Create, Created, Start, Started,
        SetDomain, RelationJoined, VsdChanged, VsdRunning, UpgradeCharm, Stop,
        AtExit, VM!Invoke, vmVars
    <3>6. CASE UNCHANGED vars
      BY <1>2, <3>6 DEF vars, vmVars
    <3>7. QED
      BY <3>1, <3>2, <3>3, <3>4, <3>5, <3>6 DEF Next
  <2>2. disk' \in Images => disk' = Staged /\ Staged # None
    BY <2>1, AbsenceAssumption
  <2>3. pc = "creating"
    BY <2>1 DEF CreatesWhileCreating, CreateCommands, Unfinished
  <2>4. QED
    BY <2>2, <2>3 DEF StagedAddressed, StagedWhole, DiskAddressed
<1>3. QED
  BY <1>1, <1>2

\* What every image and disk of the unit has come to.
GuestInv ==
  /\ AddressGiven /\ CreatesWhileCreating
  /\ BofKept /\ BofMoved /\ FishThere
  /\ StagedAddressed /\ StagedWhole /\ DiskAddressed

LEMMA GuestInvariant ==
  ASSUME "guestfs" \notin Env, Address \in Required, WholeArchives
  PROVE  Spec => []GuestInv
<1>1. Init => GuestInv
  BY AbsenceAssumption, PathFacts
     DEF Init, GuestInv, AddressGiven, Deploying, CreatesWhileCreating,
         CreateCommands, Unfinished, BofKept, BofMoved, FishThere,
         StagedAddressed, StagedWhole, Staged, DiskAddressed
<1>2. ControlInv /\ ToolsInv /\ GuestInv /\ [Next]_vars => GuestInv'
  <2> SUFFICES ASSUME ControlInv, ToolsInv, GuestInv, [Next]_vars
               PROVE  GuestInv'
    OBVIOUS
  <2>1. AddressGiven' /\ CreatesWhileCreating'
    BY AddressGivenStep, CreatesStep DEF GuestInv
  <2>2. BofKept' /\ BofMoved' /\ FishThere'
    BY BofStep, FishStep DEF GuestInv
  <2>3. StagedAddressed' /\ StagedWhole' /\ DiskAddressed'
    BY StagedStep, StagedWholeStep, DiskAddressedStep DEF GuestInv
  <2>4. QED
    BY <2>1, <2>2, <2>3 DEF GuestInv
<1>3. QED
  BY <1>1, <1>2, ControlInvariant, ToolsInvariant, PTL DEF Spec

(* No guest boots from a part of an image or from one without the address   *)
(* of bof.cfg, wherever a hook failed or was killed between the fetch and   *)
(* the start, within extractall included: where every archive has an image, *)
(* the address is a required option, the name is unique on the host and     *)
(* guestfish works.  Once an extraction over a directory in use was cut     *)
(* short, a part of an image may be booted.                                 *)
THEOREM GuestsHaveAddress ==
  ASSUME VM!NameIsUnique, "guestfs" \notin Env, Address \in Required,
         WholeArchives
  PROVE  Spec => []GuestsAreAddressed
<1>1. DiskInv /\ GuestInv => GuestsAreAddressed
  BY AbsenceAssumption
     DEF DiskInv, GuestInv, DiskAddressed, GuestsAreAddressed, VM!Active, Active
<1>2. QED
  BY <1>1, DiskInvariant, GuestInvariant, PTL
=============================================================================
