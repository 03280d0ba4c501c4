------------------------------ MODULE VscCharm ------------------------------
(***************************************************************************)
(* One unit of the nuage-vsc charm: the hooks of hooks/hooks.py with what  *)
(* they call in hooks/helper_functions.py, hooks/virshutils.py and the     *)
(* archive handler, composed with the libvirt domain and the scripts of    *)
(* VspVm.  Juju runs one hook at a time, each in a process of its own; the *)
(* guest, the operator and the other units act in between.                 *)
(*                                                                         *)
(* Each step of a hook is one commit to the unit's key-value store, one    *)
(* look at the domain, one script, or one change of the files: the points  *)
(* at which a hook can be killed or fail with the rest undone.             *)
(*                                                                         *)
(* Simplifications.  vsc-image-name and vsc-template-name keep one value,  *)
(* so a directory holds one image and one template, side by side.  A part  *)
(* of a bof.cfg counts as the file.  Of the packages there are those whose *)
(* absence shows.  Juju shows a hook a snapshot of the configuration and   *)
(* of the relations: they change between hooks.                            *)
(***************************************************************************)
EXTENDS Naturals, Sequences

CONSTANTS
  VmOptions,    \* the options of hooks.py:107-116, in the order of the test
  SvcOptions,   \* those of hooks.py:119-121
  Required,     \* those without which config-changed gives up
  Values,       \* Values[o]: what the operator may set option o to
  Defaults,     \* the configuration the unit is deployed with
  None,         \* not set, no such file, no guest
  Torn,         \* a copy of an image, or a template, that was cut short
  Contents,     \* Contents[u]: the files among Files in the archive at URL u
  DirOf,        \* DirOf[u]: the directory the archive is unpacked into
  VrsRels,      \* relations of vrs-controller-service
  VrsgRels,     \* relations of vrsg-controller-service
  VsdName,      \* the name the DNS gives for the VSD's address
  Others,       \* the host's other domains, see VspVm
  BytesOutput,  \* check_output returns bytes, as in Python 3; FALSE: the code
                \* with what is done to them, and download, repaired
  Env,          \* what may go wrong or happen around the hooks
  MaxTries,     \* APT_NO_LOCK_RETRY_COUNT, 30 in the code
  MaxEdits      \* bound on the operator's edits of the configuration

Url     == "vsc-repository-url"
Address == "vsc-vm-ip-address"
Domain  == "xmpp-cluster-domain-name"

FetchPath    == "vsc-repository-fetch-path"
ImagePath    == "vsc-image-path"
TemplatePath == "vsc-template-path"
BofPath      == "vsc-bof-path"
Paths        == {FetchPath, ImagePath, TemplatePath, BofPath}

SeqElems(s) == {s[i] : i \in 1..Len(s)}

Options == SeqElems(VmOptions) \cup SeqElems(SvcOptions)
Files   == {"image", "template", "bof"}
Faults  == {"apt", "back", "crash", "dns", "fetch", "guest", "guestfs",
            "overtake", "overwrite", "remove", "skip", "ssh", "upgrade",
            "virsh"}
Rels    == VrsRels \cup VrsgRels

EventHooks == {"install", "config-changed", "start", "stop", "upgrade-charm",
               "vsd-changed"}
Hooks      == EventHooks \cup Rels

ASSUME OptionsAssumption ==
  /\ VmOptions \in Seq(STRING) /\ VmOptions # <<>>
  /\ SvcOptions \in Seq(STRING) /\ SvcOptions # <<>>
  /\ {Url, Address} \subseteq SeqElems(VmOptions)
  /\ Domain \in SeqElems(SvcOptions)
  /\ Options \cap Paths = {}
  /\ Required \subseteq Options /\ Url \in Required
  /\ DOMAIN Values = Options
  /\ Defaults \in [Options -> (UNION {Values[o] : o \in Options}) \cup {None}]
  /\ \A o \in Options : Defaults[o] \in Values[o] \cup {None}

ASSUME RepositoryAssumption ==
  /\ Contents \in [Values[Url] -> SUBSET Files]
  /\ DOMAIN DirOf = Values[Url]

ASSUME WorldAssumption ==
  /\ BytesOutput \in BOOLEAN
  /\ Env \subseteq Faults
  /\ MaxEdits \in Nat /\ MaxTries \in Nat
  /\ VrsRels \cap VrsgRels = {}
  /\ Rels \cap EventHooks = {}

\* As VspVm assumes.
ASSUME OthersAssumption ==
  \A o \in Others : o.similar \in BOOLEAN /\ o.state \in {"running", "shut off"}

Urls      == Values[Url] \ {None}
Addresses == Values[Address] \ {None}
Domains   == (Values[Domain] \ {None}) \cup {VsdName}
Dirs      == {DirOf[u] : u \in Urls}
Images    == [from : Urls, address : Addresses \cup {None}, whole : BOOLEAN]

ASSUME AbsenceAssumption ==
  /\ None \notin Images /\ Torn \notin Images /\ Torn # None
  /\ None \notin Dirs /\ VsdName # None /\ Torn \notin Urls
  /\ None \notin [disk : Images \cup {None, Torn}, defn : Urls \cup {None}]

VARIABLES
  config,      \* the unit's configuration, as config-get returns it
  edits,       \* how often the operator changed it
  joined,      \* the relations the unit has
  vsdAddress,  \* the VSD has published its address
  pending,     \* the hooks Juju has to run
  phase,       \* how far the unit's life has come
  published,   \* vsc-ip-address as the other side of a relation sees it
  status,      \* the last status-set
  kv,          \* the unit's key-value store, .unit-state.db
  confTorn,    \* .juju-persistent-config is there, cut short
  tree,        \* the files in each directory an archive was unpacked into
  bofFile,     \* templates/bof.cfg exists
  template,    \* templates/vsc.xml, the URL its source came from
  spoiled,     \* an extraction was cut short over a directory in use
  tools,       \* what the packages have put on the host
  pc,          \* where the running hook is
  hook,        \* the hook that runs, or ran last
  proc,        \* the variables of its process
  outbox,      \* its relation-set calls, held back by Juju until it succeeds
  xmpp,        \* the xmpp-server the running guest is configured with
  dom, defn, disk, guest, script, rc  \* the domain and the scripts, see VspVm

\* What create_vsp_qemu_img copies: the image in VSP_VM_IMAGE_DIR.
Staged == IF kv[FetchPath] = None THEN None ELSE tree[kv[FetchPath]].image

VM == INSTANCE VspVm WITH Absent <- None, Definitions <- Urls,
                          staged <- Staged,
                          CommandsFail <- "virsh" \in Env,
                          GuestStops <- "guest" \in Env

vmVars  == <<dom, defn, disk, guest, script, rc, xmpp>>
files   == <<tree, bofFile, template, spoiled, tools>>
world   == <<config, edits, joined, vsdAddress>>
queue   == <<pending, phase, published, confTorn>>
process == <<hook, proc, outbox>>
vars == <<vmVars, files, world, queue, process, pc, kv, status>>

Active == {"running", "transient"}

\* What the scripts run, what install asks apt for with it, and the rest.
Needed   == {"virsh", "qemu-img"}
Packages == Needed \cup {"cheetah", "pexpect"}
Tools    == Packages \cup {"guestfish"}

\* Labels at which the hook looks at the domain, waits for a script, others.
Probes == {"early", "teardown", "svcOnly", "vsdRunning"}
Waits  == {"stopping", "creating", "starting"}
Steps  == Probes \cup Waits \cup
          {"install", "aptUpdate", "aptInstall", "binaries", "required",
           "detectVm", "detectSvc", "refetch", "fetch", "locateImage",
           "locateTemplate", "locateBof", "render", "moveBof", "guestfs",
           "create", "start", "setDomain", "joined", "vsd", "upgrade", "stop",
           "atexit"}

NoFiles  == [image |-> None, template |-> None, bof |-> FALSE]
NoOutput == [r \in Rels |-> None]
Fresh    == [option |-> 1, vmChanged |-> FALSE, svcChanged |-> FALSE,
             domain |-> None, tries |-> 0]

\* Types of everything but the domain and the scripts.
UnitTypeOK ==
  /\ config \in [Options -> (UNION {Values[o] : o \in Options}) \cup {None}]
  /\ \A o \in Options : config[o] \in Values[o] \cup {None}
  /\ edits \in 0..MaxEdits
  /\ joined \subseteq Rels
  /\ vsdAddress \in BOOLEAN
  /\ pending \subseteq Hooks
  /\ phase \in {"new", "installed", "configured", "started", "removed"}
  /\ published \in [Rels -> Addresses \cup {None}]
  /\ status \in {"unknown", "maintenance", "blocked", "active"}
  /\ DOMAIN kv = Options \cup Paths
  /\ \A o \in Options : kv[o] \in Values[o] \cup {None}
  /\ \A p \in Paths : kv[p] \in Dirs \cup {None}
  /\ tree \in [Dirs -> [image : Images \cup {None},
                        template : Urls \cup {None, Torn}, bof : BOOLEAN]]
  /\ confTorn \in BOOLEAN
  /\ bofFile \in BOOLEAN
  /\ template \in Urls \cup {None, Torn}
  /\ spoiled \in BOOLEAN
  /\ tools \subseteq Tools
  /\ pc \in Steps \cup {"idle", "failed"}
  /\ hook \in Hooks
  /\ proc \in [option : Nat \ {0}, vmChanged : BOOLEAN,
               svcChanged : BOOLEAN, domain : {None, VsdName},
               tries : 0..MaxTries]
  /\ outbox \in [Rels -> Addresses \cup {None}]
  /\ xmpp \in Domains \cup {None}

TypeOK == UnitTypeOK /\ VM!TypeOK

-----------------------------------------------------------------------------
(* Juju and the process of a hook.                                          *)

\* Where a hook starts.
Entry(h) == CASE h = "config-changed" -> "required"
              [] h = "upgrade-charm"  -> "upgrade"
              [] h = "vsd-changed"    -> "vsd"
              [] h \in Rels           -> "joined"
              [] OTHER                -> h

\* The hooks Juju runs at this point of the unit's life.  It prefers
\* config-changed to the others, but the operator may be quicker than it.
Eligible == CASE phase = "new"        -> {"install"}
              [] phase = "installed"  -> {"config-changed"}
              [] phase = "configured" -> {"config-changed", "start"}
              [] phase = "started"    ->
                   IF "config-changed" \in pending /\ "overtake" \notin Env
                   THEN {"config-changed"} ELSE Hooks \ {"stop"}
              [] phase = "removed"    -> {"stop"}

Enter(h) ==
  /\ hook' = h
  /\ pc' = Entry(h)
  /\ proc' = Fresh
  /\ outbox' = NoOutput
  /\ UNCHANGED <<vmVars, files, world, queue, kv, status>>

\* main: Juju calls the program by the name of the hook.
Run == pc = "idle" /\ \E h \in pending \cap Eligible : Enter(h)

\* A failed hook is run again, by Juju's timer or by "juju resolved".
Retry == pc = "failed" /\ Enter(hook)

\* What follows a hook, whether it succeeded or the operator skipped it.
Finish ==
  /\ pc' = "idle"
  /\ phase' = CASE hook = "install" -> "installed"
                [] hook = "config-changed" /\ phase = "installed"
                     -> "configured"
                [] hook = "start" -> "started"
                [] OTHER -> phase
  /\ pending' = (pending \ {hook}) \cup
       CASE hook = "install" -> {"config-changed"}
         [] hook = "config-changed" /\ phase = "installed" -> {"start"}
         [] hook = "upgrade-charm" -> {"config-changed"}
         [] OTHER -> {}
  /\ outbox' = NoOutput
  /\ UNCHANGED <<hook, proc, confTorn>>

\* The hook returns; the exit callbacks are left.
Done(out) ==
  /\ pc' = "atexit"
  /\ outbox' = out
  /\ UNCHANGED <<hook, proc, queue>>

\* _run_atexit, where a hook that read the configuration saves it, and then
\* Juju sends its relation settings.
AtExit ==
  /\ pc = "atexit"
  /\ Finish
  /\ published' = [r \in Rels |-> IF outbox[r] = None THEN published[r]
                                                      ELSE outbox[r]]
  /\ UNCHANGED <<vmVars, files, world, kv, status>>

\* An exception or sys.exit(1): nothing it set on a relation is sent.
Raise ==
  /\ pc' = "failed"
  /\ UNCHANGED <<process, queue>>

\* status_set('blocked', e); raise ConfigurationError(e)
Block == Raise /\ status' = "blocked"

Goto(l) ==
  /\ pc' = l
  /\ UNCHANGED <<process, queue>>

\* The operator has a failed hook skipped; not install, which the others need.
Skip ==
  /\ "skip" \in Env
  /\ pc = "failed" /\ hook # "install"
  /\ Finish
  /\ UNCHANGED <<vmVars, files, world, published, kv, status>>

-----------------------------------------------------------------------------
(* install and config-changed, up to the deployment.                        *)

Install ==
  /\ pc = "install"
  /\ status' = "maintenance"
  /\ Goto("aptUpdate")
  /\ UNCHANGED <<vmVars, files, world, kv>>

LeaveLoop(next) ==
  /\ pc' = next
  /\ proc' = [proc EXCEPT !.tries = 0]
  /\ UNCHANGED <<hook, outbox, queue>>

\* Mutant: the count starts again instead of giving up.
AptGetForEver(next, T) ==
  \/ LeaveLoop(next) /\ tools' = tools \cup T
  \/ /\ "apt" \in Env
     /\ UNCHANGED <<tools, hook, outbox, queue, pc>>
     /\ proc' = [proc EXCEPT !.tries = IF @ < MaxTries THEN @ + 1 ELSE 0]

\* One run of a "fatal" apt-get that installs T.  It is run again after the
\* status APT_NO_LOCK, whatever caused that; any other failure leaves the loop
\* as success does.  The failure that exceeds the count is raised.
AptGet(next, T) ==
  \/ LeaveLoop(next) /\ tools' = tools \cup T
  \/ /\ "apt" \in Env
     /\ \E S \in SUBSET T : tools' = tools \cup S
     /\ \/ /\ proc.tries < MaxTries
           /\ \/ LeaveLoop(next)
              \/ /\ proc' = [proc EXCEPT !.tries = @ + 1]
                 /\ UNCHANGED <<hook, outbox, queue, pc>>
        \/ proc.tries = MaxTries /\ Raise

AptUpdate ==
  /\ pc = "aptUpdate"
  /\ AptGet("aptInstall", {})
  /\ UNCHANGED <<vmVars, tree, bofFile, template, spoiled, world, kv, status>>

AptInstall ==
  /\ pc = "aptInstall"
  /\ AptGet("binaries", Packages)
  /\ UNCHANGED <<vmVars, tree, bofFile, template, spoiled, world, kv, status>>

\* Mutant: "and" between the two tests.
MissingAll == tools \cap Needed = {}

Missing == \E t \in Needed : t \notin tools

\* Whatever apt said, the binaries must be there.  install_guestfs only logs
\* its failure.
Binaries ==
  /\ pc = "binaries"
  /\ \/ Missing /\ Block /\ UNCHANGED tools
     \/ /\ ~Missing
        /\ tools' \in {tools \cup {"guestfish"}}
                       \cup {t \in {tools} : "guestfs" \in Env}
        /\ Done(outbox) /\ UNCHANGED status
  /\ UNCHANGED <<vmVars, tree, bofFile, template, spoiled, world, kv>>

CheckRequired ==
  /\ pc = "required"
  /\ IF \E o \in Required : config[o] = None
     THEN Block ELSE Goto("detectVm") /\ UNCHANGED status
  /\ UNCHANGED <<vmVars, files, world, kv>>

\* config_value_changed(o): a value never recorded counts as changed, and so
\* does a recorded None.
Changed(o) == kv[o] = None \/ kv[o] # config[o]

\* Mutant: the value is compared and not recorded.
RecordNothing(o) == UNCHANGED kv

Record(o) == kv' = [kv EXCEPT ![o] = config[o]]

\* The option whose turn it is.
Current(options) == options[proc.option]

\* What one comparison leads to: the next one, or the end of the test.  p is
\* the process with the flag of the test.
Compared(last, p, next) ==
  /\ proc' = [p EXCEPT !.option = IF last THEN 1 ELSE @ + 1]
  /\ pc' = IF last THEN next ELSE pc
  /\ UNCHANGED <<hook, outbox, queue>>

\* Mutant: the last option of the test is left out.
DetectButLast(options, p, next) ==
  \/ confTorn /\ Raise /\ UNCHANGED kv
  \/ /\ ~confTorn
     /\ Record(Current(options))
     /\ Compared(Changed(Current(options)) \/ proc.option + 1 >= Len(options),
                 p, next)

\* "config_value_changed(o1) or config_value_changed(o2) or ...": the first
\* option that changed ends it, the ones after it are not recorded.  config()
\* answers None to a file it cannot parse, and HookData has no keys of None.
Detect(options, p, next) ==
  \/ confTorn /\ Raise /\ UNCHANGED kv
  \/ /\ ~confTorn
     /\ Record(Current(options))
     /\ Compared(Changed(Current(options)) \/ proc.option = Len(options),
                 p, next)

DetectVm ==
  /\ pc = "detectVm"
  /\ Detect(VmOptions,
            [proc EXCEPT !.vmChanged = Changed(Current(VmOptions))],
            "detectSvc")
  /\ UNCHANGED <<vmVars, files, world, status>>

DetectSvc ==
  /\ pc = "detectSvc"
  /\ Detect(SvcOptions,
            [proc EXCEPT !.svcChanged = Changed(Current(SvcOptions))],
            "early")
  /\ UNCHANGED <<vmVars, files, world, status>>

VmRunning == VM!ReportedRunning

\* is_vm_running(charm_vm_config) at a step that branches on it: it strips a
\* str off what check_output returns, a TypeError if that is bytes.
ReturnEarly ==
  /\ pc = "early"
  /\ IF BytesOutput THEN Raise
     ELSE IF VmRunning /\ ~proc.vmChanged /\ ~proc.svcChanged
     THEN Done(outbox)
     ELSE Goto("teardown")
  /\ UNCHANGED <<vmVars, files, world, kv, status>>

\* A VM option changed: stop().
Teardown ==
  /\ pc = "teardown"
  /\ IF BytesOutput THEN Raise /\ UNCHANGED vmVars
     ELSE IF VmRunning /\ proc.vmChanged
     THEN Goto("stopping") /\ VM!Invoke("shutdown") /\ UNCHANGED xmpp
     ELSE Goto("svcOnly") /\ UNCHANGED vmVars
  /\ UNCHANGED <<files, world, kv, status>>

\* stopvm ignores what the script returned.
Stopped ==
  /\ pc = "stopping" /\ script = "idle"
  /\ IF hook = "stop" THEN Done(outbox) ELSE Goto("svcOnly")
  /\ UNCHANGED <<vmVars, files, world, kv, status>>

ServiceOnly ==
  /\ pc = "svcOnly"
  /\ IF BytesOutput THEN Raise
     ELSE Goto(IF VmRunning /\ proc.svcChanged THEN "setDomain" ELSE "refetch")
  /\ UNCHANGED <<vmVars, files, world, kv, status>>

-----------------------------------------------------------------------------
(* The repository: from its URL to the files the VM is made of.             *)

Refetch ==
  /\ pc = "refetch"
  /\ Record(Url)
  /\ Goto(IF Changed(Url) \/ kv[FetchPath] = None
          THEN "fetch" ELSE "locateImage")
  /\ UNCHANGED <<vmVars, files, world, status>>

\* Directory t once the archive at u is unpacked over it as far as its files
\* in S, and a part of those in Cut.
Unpacked(t, u, S, Cut) ==
  [image    |-> IF "image" \in S \cup Cut
                THEN [from |-> u, address |-> None, whole |-> "image" \in S]
                ELSE t.image,
   template |-> IF "template" \in S THEN u
                ELSE IF "template" \in Cut THEN Torn ELSE t.template,
   bof      |-> "bof" \in S \cup Cut \/ t.bof]

\* The store names a file in directory d.
InUse(d) == \E p \in Paths : kv[p] = d

\* extractall, in place: it may be cut short between two files or within one.
ExtractionFails(u, d) ==
  /\ Env \cap {"fetch", "crash"} # {}
  /\ \E S \in SUBSET Contents[u] :
       \E Cut \in {{}} \cup {{f} : f \in Contents[u] \ S} :
         /\ InUse(d) /\ Cut # {} => "overwrite" \in Env
         /\ tree' = [tree EXCEPT ![d] = Unpacked(@, u, S, Cut)]
         /\ spoiled' = (spoiled \/ (InUse(d) /\ Cut # {}))

\* Mutant: the directory is recorded before it is filled.
FetchRecordedFirst ==
  LET u == config[Url]
      d == DirOf[u]
  IN /\ pc = "fetch"
     /\ kv' = [kv EXCEPT ![FetchPath] = d]
     /\ \/ /\ tree' = [tree EXCEPT ![d] = Unpacked(@, u, Contents[u], {})]
           /\ UNCHANGED spoiled
           /\ Goto("locateImage")
        \/ ExtractionFails(u, d) /\ Raise
     /\ UNCHANGED <<vmVars, bofFile, template, tools, world, status>>

Fetch ==
  LET u == config[Url]
      d == DirOf[u]
  IN /\ pc = "fetch"
     /\ \/ /\ tree' = [tree EXCEPT ![d] = Unpacked(@, u, Contents[u], {})]
           /\ kv' = [kv EXCEPT ![FetchPath] = d]
           /\ UNCHANGED spoiled
           /\ Goto("locateImage")
        \/ ExtractionFails(u, d) /\ Raise /\ UNCHANGED kv
     /\ UNCHANGED <<vmVars, bofFile, template, tools, world, status>>

\* The walk records where it saw the file; os.path.exists(None), when no walk
\* ever saw it, raises a TypeError.
Locate(found, path, next) ==
  /\ kv' = IF found THEN [kv EXCEPT ![path] = kv[FetchPath]] ELSE kv
  /\ IF kv'[path] = None THEN Raise ELSE Goto(next)
  /\ UNCHANGED <<vmVars, files, world, status>>

Walked == tree[kv[FetchPath]]

LocateImage ==
  /\ pc = "locateImage"
  /\ Locate(Walked.image # None, ImagePath, "locateTemplate")

LocateTemplate ==
  /\ pc = "locateTemplate"
  /\ Locate(Walked.template # None, TemplatePath, "locateBof")

LocateBof ==
  /\ pc = "locateBof"
  /\ kv' = IF Walked.bof THEN [kv EXCEPT ![BofPath] = kv[FetchPath]] ELSE kv
  /\ Goto("render")
  /\ UNCHANGED <<vmVars, files, world, status>>

\* Mutant: Template(path), the name of the file taken for its content.
RenderPath ==
  /\ pc = "render"
  /\ template' = kv[TemplatePath]
  /\ Goto("moveBof")
  /\ UNCHANGED <<vmVars, tree, bofFile, spoiled, tools, world, kv, status>>

\* The import of Cheetah fails where apt's failure passed for success.
Render ==
  /\ pc = "render"
  /\ \/ "cheetah" \notin tools /\ Raise /\ UNCHANGED template
     \/ /\ "cheetah" \in tools
        /\ template' = tree[kv[TemplatePath]].template
        /\ Goto("moveBof")
  /\ UNCHANGED <<vmVars, tree, bofFile, spoiled, tools, world, kv, status>>

\* Mutant: without a bof.cfg the hook goes on.
MoveBofIfAny ==
  LET d == kv[BofPath]
  IN /\ pc = "moveBof"
     /\ \/ /\ d # None /\ tree[d].bof
           /\ tree' = [tree EXCEPT ![d].bof = FALSE]
           /\ bofFile' = TRUE
           /\ UNCHANGED <<template, spoiled, tools>>
        \/ ~(d # None /\ tree[d].bof) /\ UNCHANGED files
     /\ Goto("guestfs")
     /\ UNCHANGED <<vmVars, world, kv, status>>

\* os.path.exists(None) again when no archive had a bof.cfg.
MoveBof ==
  LET d == kv[BofPath]
  IN /\ pc = "moveBof"
     /\ \/ d = None /\ Raise /\ UNCHANGED files
        \/ /\ d # None /\ tree[d].bof
           /\ tree' = [tree EXCEPT ![d].bof = FALSE]
           /\ bofFile' = TRUE
           /\ Goto("guestfs")
           /\ UNCHANGED <<template, spoiled, tools>>
        \/ d # None /\ ~tree[d].bof /\ Goto("guestfs") /\ UNCHANGED files
     /\ UNCHANGED <<vmVars, world, kv, status>>

\* Mutant: the address is written to the image only when it has none.
WriteAddressOnce ==
  LET d == kv[FetchPath]
  IN /\ pc = "guestfs"
     /\ tree' = IF bofFile /\ Staged # None /\ Staged.address = None
                THEN [tree EXCEPT ![d].image.address = config[Address]]
                ELSE tree
     /\ Goto("create")
     /\ UNCHANGED <<vmVars, bofFile, template, spoiled, tools, world, kv, status>>

\* bof.cfg with the address is written into the image by guestfish, if install
\* got it; a failure, as on a part of an image, is logged.
WriteAddress ==
  LET d == kv[FetchPath]
  IN /\ pc = "guestfs"
     /\ \/ /\ bofFile /\ Staged # None /\ "guestfish" \in tools
           /\ tree' = [tree EXCEPT ![d].image.address = config[Address]]
        \/ /\ ~bofFile \/ Staged = None \/ "guestfish" \notin tools
              \/ ~Staged.whole \/ "guestfs" \in Env
           /\ UNCHANGED tree
     /\ Goto("create")
     /\ UNCHANGED <<vmVars, bofFile, template, spoiled, tools, world, kv, status>>

-----------------------------------------------------------------------------
(* The VM and the service.                                                  *)

Create ==
  /\ pc = "create"
  /\ VM!Invoke("check") /\ UNCHANGED xmpp
  /\ Goto("creating")
  /\ UNCHANGED <<files, world, kv, status>>

\* createvm exits when the script fails, and returns None: never 0.
Created ==
  /\ pc = "creating" /\ script = "idle"
  /\ IF rc = 0 THEN Goto("start") ELSE Raise
  /\ UNCHANGED <<vmVars, files, world, kv, status>>

Start ==
  /\ pc = "start"
  /\ VM!Invoke("dominfo") /\ UNCHANGED xmpp
  /\ Goto("starting")
  /\ UNCHANGED <<files, world, kv, status>>

\* The configured address or, without one, what the host's ARP cache shows
\* for the VM, if anything.
AddressFound == IF config[Address] # None THEN {config[Address]}
                                          ELSE Addresses \cup {None}

\* Mutant: only relation-joined publishes the address.
StartedSilently ==
  /\ pc = "starting" /\ script = "idle"
  /\ IF rc = 0 THEN Goto("setDomain") ELSE Raise
  /\ UNCHANGED <<vmVars, files, world, kv, status>>

\* start publishes the address to the vrs-controller-service relations.
Started ==
  /\ pc = "starting" /\ script = "idle"
  /\ \/ rc # 0 /\ Raise /\ UNCHANGED status
     \/ /\ rc = 0
        /\ \E a \in AddressFound :
             \/ a = None /\ Block
             \/ /\ a # None
                /\ outbox' = [r \in Rels |-> IF r \in joined \cap VrsRels
                                             THEN a ELSE outbox[r]]
                /\ pc' = "setDomain"
                /\ UNCHANGED <<hook, proc, queue, status>>
  /\ UNCHANGED <<vmVars, files, world, kv>>

\* The guest that answers at address a.
Reachable(a) == /\ guest # None
                /\ guest.disk # Torn /\ guest.disk.whole
                /\ guest.disk.address = a

\* Mutant: the domain of the relation comes first.
DomainOfRelation == IF proc.domain # None THEN proc.domain ELSE config[Domain]

DomainToSet == IF config[Domain] # None THEN config[Domain] ELSE proc.domain

\* update_vsd_domain drives ssh with pexpect, if its import finds it: it
\* swallows most failures, and its handler of the others may raise.
SetDomain ==
  /\ pc = "setDomain"
  /\ \E a \in AddressFound :
       \/ a = None /\ Block /\ UNCHANGED xmpp
       \/ /\ a # None /\ DomainToSet = None
          /\ Done(outbox)
          /\ UNCHANGED <<xmpp, status>>
       \/ /\ a # None /\ DomainToSet # None /\ "pexpect" \in tools
          /\ \/ Reachable(a) /\ xmpp' = DomainToSet
             \/ (~Reachable(a) \/ "ssh" \in Env) /\ UNCHANGED xmpp
          /\ Done(outbox)
          /\ status' = "active"
       \/ /\ a # None /\ DomainToSet # None
          /\ "pexpect" \notin tools \/ "ssh" \in Env
          /\ Raise
          /\ UNCHANGED <<xmpp, status>>
  /\ UNCHANGED <<dom, defn, disk, guest, script, rc, files, world, kv>>

-----------------------------------------------------------------------------
(* The relations.                                                           *)

\* A vrs or vrsg unit joined: it is told the address.
RelationJoined ==
  /\ pc = "joined"
  /\ \E a \in AddressFound :
       \/ a = None /\ Block
       \/ /\ a # None
          /\ Done([outbox EXCEPT ![hook] = a])
          /\ UNCHANGED status
  /\ UNCHANGED <<vmVars, files, world, kv>>

\* The VSD's address is looked up in the DNS, and the name is kept in this
\* process only.  Reading a bytes answer raises.
VsdChanged ==
  /\ pc = "vsd"
  /\ \/ (~vsdAddress \/ "dns" \in Env) /\ Done(outbox)
     \/ /\ vsdAddress
        /\ IF BytesOutput THEN Raise
           ELSE /\ proc' = [proc EXCEPT !.domain = VsdName]
                /\ pc' = "vsdRunning"
                /\ UNCHANGED <<hook, outbox, queue>>
  /\ UNCHANGED <<vmVars, files, world, kv, status>>

VsdRunning ==
  /\ pc = "vsdRunning"
  /\ IF BytesOutput THEN Raise
     ELSE IF VmRunning THEN Goto("setDomain") ELSE Done(outbox)
  /\ UNCHANGED <<vmVars, files, world, kv, status>>

-----------------------------------------------------------------------------
(* The other two hooks.                                                     *)

\* upgrade-charm only logs; Juju runs config-changed after it.
UpgradeCharm ==
  /\ pc = "upgrade"
  /\ Done(outbox)
  /\ UNCHANGED <<vmVars, files, world, kv, status>>

Stop ==
  /\ pc = "stop"
  /\ VM!Invoke("shutdown") /\ UNCHANGED xmpp
  /\ Goto("stopping")
  /\ UNCHANGED <<files, world, kv, status>>

-----------------------------------------------------------------------------
(* The host.                                                                *)

\* What the guest was told is not saved: it is gone when the guest stops.
Forgotten == xmpp' = IF guest' = guest THEN xmpp ELSE None

ScriptStep ==
  /\ VM!ScriptStep
  /\ Forgotten
  /\ UNCHANGED <<files, world, queue, process, pc, kv, status>>

GuestDown ==
  /\ VM!GuestDown
  /\ Forgotten
  /\ UNCHANGED <<files, world, queue, process, pc, kv, status>>

\* Mutant: the script outlives the hook that ran it.
CrashAlone ==
  /\ "crash" \in Env
  /\ pc \in Steps
  /\ Raise
  /\ UNCHANGED <<vmVars, files, world, kv, status>>

\* The machine agent or the hook's process is killed, and the script with it.
\* config-changed may have been about to write the configuration it saves.
Crash ==
  /\ "crash" \in Env
  /\ pc \in Steps
  /\ pc' = "failed"
  /\ \/ UNCHANGED confTorn
     \/ pc = "atexit" /\ hook = "config-changed" /\ confTorn' = TRUE
  /\ VM!Kill /\ UNCHANGED xmpp
  /\ UNCHANGED <<files, world, process, pending, phase, published, kv, status>>

-----------------------------------------------------------------------------
(* The operator and the other units, between hooks.                         *)

Between == pc \in {"idle", "failed"}

\* The recorded value of an option is not the one the VM was given: the "or"
\* of the test stopped before it when it last changed.
Outdated(o) ==
  /\ guest # None
  /\ \/ o = Address /\ guest.disk.address # kv[o]
     \/ o = Domain /\ xmpp # kv[o]

\* Setting such an option back to the recorded value is an edit of its own.
Edit(o, v) ==
  /\ Between /\ edits < MaxEdits
  /\ v # config[o]
  /\ "back" \in Env \/ v # kv[o] \/ ~Outdated(o)
  /\ config' = [config EXCEPT ![o] = v]
  /\ edits' = edits + 1
  /\ pending' = IF phase \in {"configured", "started"}
                THEN pending \cup {"config-changed"} ELSE pending
  /\ UNCHANGED <<vmVars, files, joined, vsdAddress, phase, published, confTorn,
                 process, pc, kv, status>>

\* One relation-joined hook per relation, for its first unit.
Join(r) ==
  /\ Between
  /\ r \notin joined
  /\ joined' = joined \cup {r}
  /\ pending' = pending \cup {r}
  /\ UNCHANGED <<vmVars, files, config, edits, vsdAddress, phase, published,
                 confTorn, process, pc, kv, status>>

VsdPublishes ==
  /\ Between
  /\ ~vsdAddress
  /\ vsdAddress' = TRUE
  /\ pending' = pending \cup {"vsd-changed"}
  /\ UNCHANGED <<vmVars, files, config, edits, joined, phase, published,
                 confTorn, process, pc, kv, status>>

\* The charm is upgraded, to a revision with these hooks.
Upgrade ==
  /\ "upgrade" \in Env
  /\ Between /\ phase = "started"
  /\ pending' = pending \cup {"upgrade-charm"}
  /\ UNCHANGED <<vmVars, files, world, phase, published, confTorn, process, pc,
                 kv, status>>

\* The unit is removed: all that is left to run is stop.
Remove ==
  /\ "remove" \in Env
  /\ pc = "idle" /\ phase = "started"
  /\ phase' = "removed"
  /\ pending' = {"stop"}
  /\ UNCHANGED <<vmVars, files, world, published, confTorn, process, pc, kv,
                 status>>

-----------------------------------------------------------------------------
HookStep ==
  \/ Install \/ AptUpdate \/ AptInstall \/ Binaries
  \/ CheckRequired \/ DetectVm \/ DetectSvc
  \/ ReturnEarly \/ Teardown \/ Stopped \/ ServiceOnly
  \/ Refetch \/ Fetch \/ LocateImage \/ LocateTemplate \/ LocateBof
  \/ Render \/ MoveBof \/ WriteAddress
  \/ Create \/ Created \/ Start \/ Started \/ SetDomain
  \/ RelationJoined \/ VsdChanged \/ VsdRunning
  \/ UpgradeCharm \/ Stop \/ AtExit

World ==
  \/ \E o \in Options : \E v \in Values[o] : Edit(o, v)
  \/ \E r \in Rels : Join(r)
  \/ VsdPublishes
  \/ Upgrade
  \/ Remove

Init ==
  /\ config = Defaults
  /\ edits = 0
  /\ joined = {}
  /\ vsdAddress = FALSE
  /\ pending = {"install"}
  /\ phase = "new"
  /\ published = NoOutput
  /\ status = "unknown"
  /\ kv = [o \in Options \cup Paths |-> None]
  /\ confTorn = FALSE
  /\ tree = [d \in Dirs |-> NoFiles]
  /\ bofFile = FALSE
  /\ template = None
  /\ spoiled = FALSE
  /\ tools = {}
  /\ pc = "idle"
  /\ hook = "install"
  /\ proc = Fresh
  /\ outbox = NoOutput
  /\ xmpp = None
  /\ dom = "undefined"
  /\ defn = None
  /\ disk = None
  /\ guest = None
  /\ script = "idle"
  /\ rc = 0

Next == Run \/ Retry \/ Skip \/ HookStep \/ ScriptStep \/ GuestDown
        \/ Crash \/ World

Spec == Init /\ [][Next]_vars

\* Juju runs every hook it has queued and retries a failed one; a hook and
\* the script it waits for go on.
Fairness == /\ WF_vars(Run) /\ WF_vars(Retry)
            /\ WF_vars(HookStep) /\ WF_vars(ScriptStep)

FairSpec == Spec /\ Fairness

-----------------------------------------------------------------------------
(* Properties *)

\* What hooks and scripts do to the domain, through any interleaving with the
\* guest, the operator and crashes, is what VspVm says: a script is never
\* run over another, and the files it reads do not change under it.
ImplementsVspVm == VM!Spec

\* Once config-changed has compared the options (hooks.py:107-116) and found
\* no change, the store holds the present value of every one of them: the
\* return at line 126 leaves no option unseen, wherever an earlier run of the
\* hook failed, was killed or stopped comparing.
DetectionSound ==
  /\ hook = "config-changed"
  /\ pc \in {"detectSvc", "early", "teardown"}
  /\ ~proc.vmChanged
  => \A o \in SeqElems(VmOptions) : kv[o] = config[o]

\* No guest boots from a part of an image, or from an image without the address
\* of bof.cfg: what survives in templates/ and in the fetched directories when a
\* hook stops between lines 150 and 264 is enough for the next run, and a cut
\* short extraction is not used, unless it went over a directory in use, whose
\* URL line 150 takes for unchanged from then on.  Holds where every archive has
\* an image and guestfish works (virshutils.write_guestfs swallows its failure).
GuestsAreAddressed ==
  dom \in Active =>
    /\ guest.disk # Torn
    /\ guest.disk.whole \/ spoiled
    /\ guest.disk.whole => guest.disk.address # None

\* No script is run without the executables it calls: a fatal apt-get may end
\* as if it had succeeded (fetch/__init__.py:391), and only the test at
\* hooks.py:67 stands between that and the hooks that follow.
ToolsThere == script # "idle" => Needed \subseteq tools

\* Juju has no hook to run and the last one did not fail.
Settled == pc = "idle" /\ phase = "started" /\ pending = {}

\* Then the guest was booted with the configured address, whatever edits came
\* before, during failed hooks and their retries included.  Holds where no
\* option is set back that a change of an earlier one kept from being recorded.
AddressApplied ==
  Settled => guest # None /\ guest.disk.address = config[Address]

\* Until then it may run with an older address, but no guest is ever booted
\* with another than the configured one: no edit, made as a hook failed after
\* the fetch or before it, leaves an image staged, copied or defined with the
\* address it had.  Holds where the scripts work and nothing kills a hook.
BootsAsConfigured ==
  [][guest = None /\ guest' # None => guest'.disk.address = config[Address]]_vars

\* Every vrs-controller-service relation sees that address, whether it joined
\* before the address changed or after.  Without pexpect the hook that starts
\* the guest may fail once it has, and is not seen through again.
AddressPublished ==
  Settled /\ "pexpect" \in tools =>
    \A r \in joined \cap VrsRels : published[r] = config[Address]

\* The guest is configured with the domain of xmpp-cluster-domain-name: a
\* redeployment, which loses it, sets it again.
DomainApplied ==
  Settled /\ "pexpect" \in tools /\ config[Domain] # None => xmpp = config[Domain]

\* No hook runs for ever: the retries of apt-get are counted, the tests of the
\* options go on, and the scripts a hook waits for end.
HooksEnd == []<>(pc \in {"idle", "failed"})

\* How far the label is from the end of its hook.
Stage(l) ==
  CASE l \in {"idle", "failed"} -> 0
    [] l = "atexit" -> 1
    [] l \in {"setDomain", "joined", "upgrade", "binaries"} -> 2
    [] l \in {"starting", "vsdRunning", "aptInstall"} -> 3
    [] l \in {"start", "vsd", "aptUpdate"} -> 4
    [] l \in {"creating", "install"} -> 5
    [] l = "create"         -> 6
    [] l = "guestfs"        -> 7
    [] l = "moveBof"        -> 8
    [] l = "render"         -> 9
    [] l = "locateBof"      -> 10
    [] l = "locateTemplate" -> 11
    [] l = "locateImage"    -> 12
    [] l = "fetch"          -> 13
    [] l = "refetch"        -> 14
    [] l = "svcOnly"        -> 15
    [] l = "stopping"       -> 16
    [] l \in {"teardown", "stop"} -> 17
    [] l = "early"          -> 18
    [] l = "detectSvc"      -> 19
    [] l = "detectVm"       -> 20
    [] l = "required"       -> 21

\* How often it may still come back to the same label: the retries of apt-get,
\* the options to compare, the commands of the script it waits for.
Turns == CASE pc \in {"aptUpdate", "aptInstall"} -> MaxTries - proc.tries
           [] pc = "detectVm"  -> Len(VmOptions) - proc.option
           [] pc = "detectSvc" -> Len(SvcOptions) - proc.option
           [] pc \in Waits     -> VM!CommandsLeft(script)
           [] OTHER            -> 0

\* Why they end: whatever apt, the DNS, ssh and the commands of a script
\* answer, no step of a hook or of its script leads back to where it has been.
HooksProceed ==
  [][HookStep \/ ScriptStep
     => \/ Stage(pc') < Stage(pc)
        \/ pc' = pc /\ Turns' \in 0..(Turns - 1)]_vars

\* Upgrades, and the config-changed hooks that follow them for ever, stop
\* tearing down the VM: each one records at least one more option.
TeardownsEnd == <>[](pc # "stopping")

-----------------------------------------------------------------------------
(* What documents and tests say of the charm, and the code does not do.     *)

\* config-changed stops the VM for a changed option only: "assertFalse(
\* self.stop.called)" with no option changed, unit_tests/
\* test_nuage_vsc_hooks.py:127.
StopsForAChange ==
  pc = "stopping" /\ hook = "config-changed" /\ guest # None
    => guest.disk # [from |-> config[Url], address |-> config[Address],
                      whole |-> TRUE]

\* The VM is made of the image at vsc-repository-url, "URL to get the Nuage
\* VSC image" (config.yaml:13).
ImageFromRepository == Settled => guest # None /\ guest.disk.from = config[Url]

\* The VM's address "is a static IP address and is a configuration parameter"
\* (README.md:30): AddressApplied, where the operator may set it back.
AddressIsTheParameter == AddressApplied

\* "The charm will use the VSC image and VM definition xml specified and deploy
\* it on a kvm" (README.md:20), under python3 as hooks.py:1 names it.
EventuallyDeployed == <>(guest # None)
=============================================================================
