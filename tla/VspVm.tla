------------------------------- MODULE VspVm -------------------------------
(***************************************************************************)
(* The libvirt domain of the charm and the three shell functions that act  *)
(* on it: create_vsp_vm, start_vsp_vm and stop_vsp_vm of                   *)
(* hooks/lib/nuage_common.sh, one at a time, each a sequence of commands   *)
(* between which the guest may stop, a command may fail or the hook may be *)
(* killed.  Their caller (hooks/virshutils.py and hooks/hooks.py) is any   *)
(* client here; VscCharm instantiates this module and is such a client.    *)
(*                                                                         *)
(* The scripts never address the domain by what libvirt knows of it: they  *)
(* grep the listing of "virsh list --all" for the name, so the other       *)
(* domains of the host are part of what they see.                          *)
(***************************************************************************)

CONSTANTS
  Images,        \* what the image file that is copied may contain
  Definitions,   \* the VM definitions that may be rendered
  Absent,        \* no such file, no such definition, no guest
  Torn,          \* the content of a copy, or of a template, that was cut short
  Others,        \* the host's other domains: records with a state field and
                 \* a field similar: the name contains VSP_VM_NAME
  CommandsFail,  \* a virsh, qemu-img or cp command may fail
  GuestStops     \* a running guest may stop on its own

ASSUME AbsentAssumption == /\ Absent \notin Images
                           /\ Absent \notin Definitions
                           /\ Torn \notin Definitions
                           /\ Torn # Absent /\ Torn \notin Images
                           /\ Absent \notin [disk : Images \cup {Absent, Torn},
                                             defn : Definitions \cup {Absent}]
ASSUME OthersAssumption ==
  \A o \in Others : /\ o.similar \in BOOLEAN
                    /\ o.state \in {"running", "shut off"}
ASSUME FaultsAssumption == CommandsFail \in BOOLEAN /\ GuestStops \in BOOLEAN

VARIABLES
  staged,    \* ${VSP_VM_IMAGE_DIR}/${VSP_VM_ORIG_IMAGE_NAME}, the caller's
  template,  \* ${VSP_VM_DIR}/${VSP_VM_XML}, the caller's
  dom,       \* the domain ${VSP_VM_NAME} as libvirt holds it
  defn,      \* the definition it was defined from
  disk,      \* /var/lib/libvirt/images/${VSP_VM_ORIG_IMAGE_NAME}
  guest,     \* what the running guest was booted from
  script,    \* the next command of the running script, or "idle"
  rc         \* exit status of the last script

inputs == <<staged, template>>
vmVars == <<dom, defn, disk, guest, script, rc>>
vars   == <<staged, template, dom, defn, disk, guest, script, rc>>

\* A transient domain is a running one whose definition was removed: libvirt
\* forgets it when it stops.
DomStates == {"undefined", "shut off", "running", "transient"}
Active    == {"running", "transient"}
Scripts   == {"check", "dominfo", "shutdown"}
Commands  == Scripts \cup {"image", "overlay", "copy", "define", "verify",
                           "destroy", "undefine"}

TypeOK ==
  /\ staged \in Images \cup {Absent}
  /\ template \in Definitions \cup {Absent, Torn}
  /\ dom \in DomStates
  /\ defn \in Definitions \cup {Absent}
  /\ disk \in Images \cup {Absent, Torn}
  /\ guest \in [disk : Images \cup {Absent, Torn},
                defn : Definitions \cup {Absent}] \cup {Absent}
  /\ script \in Commands \cup {"idle"}
  /\ rc \in {0, 1}
  /\ dom # "undefined" => defn \in Definitions

-----------------------------------------------------------------------------
(* What the scripts read off the listing.                                   *)

Similar == {o \in Others : o.similar}

\* Mutants: the listing of "virsh list --inactive", and that of "virsh list".
ShownInactive == dom = "shut off"
ShownActive   == dom \in Active

\* "virsh list --all" shows the domain in whatever state it is.
Shown == dom # "undefined"

\* grep VSP_VM_NAME | awk '{print $NF}' prints the one word "running".
ReportedRunning ==
  \/ Shown /\ dom \in Active /\ Similar = {}
  \/ ~Shown /\ \E o \in Similar : Similar = {o} /\ o.state = "running"

\* grep -c VSP_VM_NAME counts exactly one line.
ReportedCreated ==
  \/ Shown /\ Similar = {}
  \/ ~Shown /\ \E o \in Similar : Similar = {o}

\* awk '/shut off/{print $2}' prints the one word VSP_VM_NAME.
ReportedDefined ==
  dom = "shut off" /\ \A o \in Others : o.state # "shut off"

\* The domain once its guest has gone down.
Stopped(d) == CASE d = "running"   -> "shut off"
                [] d = "transient" -> "undefined"
                [] OTHER           -> d

Halt ==
  /\ dom' = Stopped(dom)
  /\ guest' = Absent

Exit(status) ==
  /\ script' = "idle"
  /\ rc' = status

Goto(command) ==
  /\ script' = command
  /\ UNCHANGED rc

-----------------------------------------------------------------------------
(* create_vsp_vm                                                            *)

\* Mutant: create_vsp_vm without its check of the listing.
CreateCheckDropped ==
  /\ script = "check"
  /\ Goto("image")
  /\ UNCHANGED <<dom, defn, disk, guest>>

\* "if [ `virsh list --all | grep -c ...` -eq 1 ]": already created, return.
CreateCheck ==
  /\ script = "check"
  /\ IF ReportedCreated THEN Exit(0) ELSE Goto("image")
  /\ UNCHANGED <<dom, defn, disk, guest>>

\* create_vsp_qemu_img does nothing when a VM is reported running.
CreateImage ==
  /\ script = "image"
  /\ Goto(IF ReportedRunning THEN "define" ELSE "overlay")
  /\ UNCHANGED <<dom, defn, disk, guest>>

\* qemu-img create -b and resize, under "set -e".
CreateOverlay ==
  /\ script = "overlay"
  /\ \/ staged # Absent /\ Goto("copy")
     \/ staged = Absent /\ Exit(1)
     \/ CommandsFail /\ Exit(1)
  /\ UNCHANGED <<dom, defn, disk, guest>>

\* cp of the image and mv of the overlay, under "set -e": a failed cp may
\* leave part of the file, a failed mv leaves all of it.
CreateCopy ==
  /\ script = "copy"
  /\ \/ disk' = staged /\ Goto("define")
     \/ CommandsFail /\ disk' \in {disk, Torn, staged} /\ Exit(1)
  /\ UNCHANGED <<dom, defn, guest>>

\* Mutant: virsh define without the test that the template exists.
CreateDefineUnchecked ==
  /\ script = "define"
  /\ \/ dom = "undefined" /\ dom' = "shut off" /\ defn' = template
     \/ dom # "undefined" /\ UNCHANGED <<dom, defn>>
  /\ Goto("verify")
  /\ UNCHANGED <<disk, guest>>

\* virsh define; its failure is not looked at.  A domain of that name that
\* libvirt knows already makes it fail, and so does a part of a definition.
CreateDefine ==
  /\ script = "define"
  /\ \/ template = Absent /\ Exit(1) /\ UNCHANGED <<dom, defn>>
     \/ /\ template \in Definitions
        /\ dom = "undefined"
        /\ dom' = "shut off"
        /\ defn' = template
        /\ Goto("verify")
     \/ /\ template # Absent
        /\ dom # "undefined" \/ template = Torn \/ CommandsFail
        /\ Goto("verify")
        /\ UNCHANGED <<dom, defn>>
  /\ UNCHANGED <<disk, guest>>

\* The listing must show the domain, and only it, shut off.
CreateVerify ==
  /\ script = "verify"
  /\ Exit(IF ReportedDefined THEN 0 ELSE 1)
  /\ UNCHANGED <<dom, defn, disk, guest>>

-----------------------------------------------------------------------------
(* start_vsp_vm: asks for the domain by its exact name.  A domain that is   *)
(* neither running nor shut off is only logged.                             *)

\* Mutant: what is booted is the template of now, not what was defined.
StartFromTemplate ==
  /\ script = "dominfo"
  /\ IF dom = "shut off" /\ template # Absent
     THEN dom' = "running" /\ guest' = [disk |-> disk, defn |-> template]
     ELSE UNCHANGED <<dom, guest>>
  /\ Exit(0)
  /\ UNCHANGED <<defn, disk>>

StartDomain ==
  /\ script = "dominfo"
  /\ \/ dom # "shut off" /\ Exit(0) /\ UNCHANGED <<dom, guest>>
     \/ /\ dom = "shut off" /\ disk # Absent
        /\ dom' = "running"
        /\ guest' = [disk |-> disk, defn |-> defn]
        /\ Exit(0)
     \/ /\ dom = "shut off" /\ (disk = Absent \/ CommandsFail)
        /\ Exit(1)
        /\ UNCHANGED <<dom, guest>>
  /\ UNCHANGED <<defn, disk>>

-----------------------------------------------------------------------------
(* stop_vsp_vm                                                              *)

\* virsh shutdown and five seconds, which the guest may need or not.
StopShutdown ==
  /\ script = "shutdown"
  /\ \/ ReportedRunning /\ Halt
     \/ UNCHANGED <<dom, guest>>
  /\ Goto("destroy")
  /\ UNCHANGED <<defn, disk>>

\* virsh destroy when a VM is still reported running.
StopDestroy ==
  /\ script = "destroy"
  /\ \/ ReportedRunning /\ Halt
     \/ /\ ~ReportedRunning \/ CommandsFail
        /\ UNCHANGED <<dom, guest>>
  /\ Goto("undefine")
  /\ UNCHANGED <<defn, disk>>

\* virsh undefine, always; a running domain becomes transient.  Its status
\* is the script's.
StopUndefine ==
  /\ script = "undefine"
  /\ \/ dom = "shut off" /\ dom' = "undefined" /\ Exit(0)
     \/ dom = "running" /\ dom' = "transient" /\ Exit(0)
     \/ dom \in {"undefined", "transient"} /\ Exit(1) /\ UNCHANGED dom
     \/ CommandsFail /\ Exit(1) /\ UNCHANGED dom
  /\ UNCHANGED <<defn, disk, guest>>

-----------------------------------------------------------------------------
(* The environment of the scripts.                                          *)

\* A hook runs one of the scripts.
Invoke(s) ==
  /\ script = "idle"
  /\ script' = s
  /\ UNCHANGED <<dom, defn, disk, guest, rc>>

\* The hook's process is killed, and the script with it.
Kill ==
  /\ script' = "idle"
  /\ rc' = 1
  /\ disk' \in (IF script = "copy" THEN {disk, Torn, staged} ELSE {disk})
  /\ UNCHANGED <<dom, defn, guest>>

\* The guest powers off or crashes: on_poweroff and on_crash destroy it.
GuestDown ==
  /\ GuestStops
  /\ dom \in Active
  /\ Halt
  /\ UNCHANGED <<defn, disk, script, rc>>

\* Between scripts the caller replaces the files the next one reads.
Stage ==
  /\ script = "idle"
  /\ staged' \in Images \cup {Absent}
  /\ template' \in Definitions \cup {Absent, Torn}
  /\ UNCHANGED vmVars

ScriptStep ==
  \/ CreateCheck \/ CreateImage \/ CreateOverlay
  \/ CreateCopy \/ CreateDefine \/ CreateVerify
  \/ StartDomain
  \/ StopShutdown \/ StopDestroy \/ StopUndefine

Init ==
  /\ staged \in Images \cup {Absent}
  /\ template \in Definitions \cup {Absent, Torn}
  /\ dom = "undefined"
  /\ defn = Absent
  /\ disk = Absent
  /\ guest = Absent
  /\ script = "idle"
  /\ rc = 0

Next ==
  \/ ScriptStep /\ UNCHANGED inputs
  \/ (\E s \in Scripts : Invoke(s)) /\ UNCHANGED inputs
  \/ Kill /\ UNCHANGED inputs
  \/ GuestDown /\ UNCHANGED inputs
  \/ Stage

Spec == Init /\ [][Next]_vars

-----------------------------------------------------------------------------
(* Properties *)

\* The commands a script has still to run from c on, at most.
CommandsLeft(c) ==
  CASE c = "check"   -> 6
    [] c = "image"   -> 5
    [] c = "overlay" -> 4
    [] c \in {"copy", "shutdown"}  -> 3
    [] c \in {"define", "destroy"} -> 2
    [] c \in {"verify", "undefine", "dominfo"} -> 1
    [] c = "idle"    -> 0

\* No other domain of the host has VSP_VM_NAME in its name.
NameIsUnique == Similar = {}

\* The disk file under a running guest is the one the guest was booted from:
\* no interleaving of create, stop, failed commands and kills copies an image
\* over it.  Holds where the name is unique on the host.
GuestKeepsItsDisk ==
  NameIsUnique /\ dom \in Active => /\ guest # Absent
                                    /\ guest.disk = disk

\* A domain libvirt knows always has a completely copied disk behind it, so a
\* later start never boots what an interrupted cp left.
DefinedOverWholeDisk ==
  NameIsUnique /\ dom # "undefined" => disk \in Images

\* create_vsp_vm "creates a persistent VSP VM if it was not created already"
\* (nuage_common.sh:65): it replaces the disk of no domain that exists.
CreatesOnlyWhatIsMissing == [][disk' # disk => dom = "undefined"]_vars

\* What the VM is made of, once libvirt has it.
Made == IF dom = "undefined" THEN Absent ELSE [disk |-> disk, defn |-> defn]

Persistent == INSTANCE PersistentDomain WITH made <- Made

\* Through failing commands, kills and guests that stop on their own, a caller
\* sees a VM that is created whole or not at all, and is made of and booted
\* from the same image and definition until it is removed.  Holds where the
\* name is unique on the host.
ImplementsPersistentDomain == Persistent!Spec

\* It "returns 1 if it was not able to create it" (nuage_common.sh:66): when
\* it reports success, libvirt has the domain.
SuccessWithoutDomain ==
  /\ script \in {"check", "verify"}
  /\ script' = "idle"
  /\ rc' = 0
  /\ dom = "undefined"

CreateReportsTheDomain == [][~SuccessWithoutDomain]_vars
=============================================================================
