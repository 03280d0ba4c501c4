---------------------------- MODULE VspVmProofs ----------------------------
(***************************************************************************)
(* Proofs about VspVm, for every set of images and definitions and every   *)
(* host: its type invariant; that no script copies over the disk of a      *)
(* running guest; that a domain always has a whole disk behind it; that    *)
(* create_vsp_vm replaces the disk of no domain that exists, and reports   *)
(* success of none that does not; and that the scripts implement           *)
(* PersistentDomain.  All but the first hold on a host where VSP_VM_NAME   *)
(* is unique.                                                              *)
(***************************************************************************)
EXTENDS VspVm, TLAPS

(* A step keeps the types.                                                  *)
LEMMA TypeStep == TypeOK /\ [Next]_vars => TypeOK'
<1> SUFFICES ASSUME TypeOK, [Next]_vars PROVE TypeOK'
  OBVIOUS
<1> USE DEF TypeOK, DomStates, Commands, Scripts
<1>1. CASE ScriptStep /\ UNCHANGED inputs
  <2> USE DEF inputs, Goto, Exit
  <2>1. CASE CreateCheck     BY <1>1, <2>1 DEF CreateCheck
  <2>2. CASE CreateImage     BY <1>1, <2>2 DEF CreateImage
  <2>3. CASE CreateOverlay   BY <1>1, <2>3 DEF CreateOverlay
  <2>4. CASE CreateCopy      BY <1>1, <2>4 DEF CreateCopy
  <2>5. CASE CreateDefine    BY <1>1, <2>5 DEF CreateDefine
  <2>6. CASE CreateVerify    BY <1>1, <2>6 DEF CreateVerify
  <2>7. CASE StartDomain
    <3>1. guest' \in {guest, [disk |-> disk, defn |-> defn]}
      BY <2>7 DEF StartDomain
    <3>2. [disk |-> disk, defn |-> defn] \in
            [disk : Images \cup {Absent, Torn}, defn : Definitions \cup {Absent}]
      OBVIOUS
    <3>3. guest' \in [disk : Images \cup {Absent, Torn},
                      defn : Definitions \cup {Absent}] \cup {Absent}
      BY <3>1, <3>2
    <3>4. /\ dom' \in DomStates
          /\ dom' # "undefined" => defn \in Definitions
          /\ script' = "idle" /\ rc' \in {0, 1}
          /\ UNCHANGED <<defn, disk, staged, template>>
      BY <1>1, <2>7 DEF StartDomain
    <3>5. QED
      BY <3>3, <3>4
  <2>8. CASE StopShutdown
    BY <1>1, <2>8 DEF StopShutdown, Halt, Stopped
  <2>9. CASE StopDestroy
    BY <1>1, <2>9 DEF StopDestroy, Halt, Stopped
  <2>10. CASE StopUndefine   BY <1>1, <2>10 DEF StopUndefine
  <2>11. QED
    BY <1>1, <2>1, <2>2, <2>3, <2>4, <2>5, <2>6, <2>7, <2>8, <2>9, <2>10
       DEF ScriptStep
<1>2. CASE (\E s \in Scripts : Invoke(s)) /\ UNCHANGED inputs
  BY <1>2 DEF Invoke, inputs
<1>3. CASE Kill /\ UNCHANGED inputs
  BY <1>3 DEF Kill, inputs
<1>4. CASE GuestDown /\ UNCHANGED inputs
  BY <1>4 DEF GuestDown, Halt, Stopped, inputs
<1>5. CASE Stage
  BY <1>5 DEF Stage, vmVars
<1>6. CASE UNCHANGED vars
  <2>1. /\ staged' = staged /\ template' = template
        /\ dom' = dom /\ defn' = defn /\ disk' = disk /\ guest' = guest
        /\ script' = script /\ rc' = rc
    BY <1>6 DEF vars
  <2>2. guest' \in [disk : Images \cup {Absent, Torn},
                    defn : Definitions \cup {Absent}] \cup {Absent}
    BY <2>1
  <2>3. /\ staged' \in Images \cup {Absent}
        /\ template' \in Definitions \cup {Absent, Torn}
        /\ dom' \in DomStates
        /\ defn' \in Definitions \cup {Absent}
        /\ disk' \in Images \cup {Absent, Torn}
    BY <2>1
  <2>4. QED
    BY <2>1, <2>2, <2>3
<1>7. QED
  BY <1>1, <1>2, <1>3, <1>4, <1>5, <1>6 DEF Next

(* Type correctness: every script leaves the domain, its definition and its *)
(* disk in one of the states libvirt and the file system know; a domain     *)
(* libvirt knows was defined from a rendered template.                      *)
THEOREM TypeCorrect == Spec => []TypeOK
<1>1. Init => TypeOK
  BY DEF Init, TypeOK, DomStates, Commands, Scripts
<1>2. QED
  BY <1>1, TypeStep, PTL DEF Spec

-----------------------------------------------------------------------------
(* The strengthening.  The two invariants say nothing of the commands in    *)
(* between: what makes the copy harmless is that create_vsp_vm's check, made *)
(* three commands earlier, still holds, which it does because no other      *)
(* script runs; and what makes the definition sound is that only a whole    *)
(* copy leads to it.                                                        *)

Unfinished == {"image", "overlay", "copy", "define"}

CheckStillHolds  == script \in Unfinished => dom = "undefined"
CopiesWhatExists == script = "copy" => staged # Absent
DefinesOverCopy  == script = "define" => disk \in Images

DiskInv ==
  /\ TypeOK
  /\ NameIsUnique =>
       /\ CheckStillHolds
       /\ CopiesWhatExists
       /\ DefinesOverCopy
  /\ GuestKeepsItsDisk
  /\ DefinedOverWholeDisk

(* What the listing says where the name is unique.                          *)
LEMMA UniqueListing ==
  ASSUME NameIsUnique
  PROVE  /\ ReportedRunning <=> dom \in Active
         /\ ReportedCreated <=> dom # "undefined"
BY DEF NameIsUnique, ReportedRunning, ReportedCreated, Shown, Active

LEMMA DiskStep == DiskInv /\ [Next]_vars => DiskInv'
<1> SUFFICES ASSUME DiskInv, [Next]_vars PROVE DiskInv'
  OBVIOUS
<1>1. TypeOK'
  BY TypeStep DEF DiskInv
<1>2. CASE ~NameIsUnique
  <2>1. ~NameIsUnique'
    BY <1>2 DEF NameIsUnique, Similar
  <2>2. QED
    BY <1>1, <2>1 DEF DiskInv, GuestKeepsItsDisk, DefinedOverWholeDisk
<1>3. CASE NameIsUnique
  <2>1. /\ NameIsUnique'
        /\ ReportedRunning <=> dom \in Active
        /\ ReportedCreated <=> dom # "undefined"
    BY <1>3, UniqueListing DEF NameIsUnique, Similar
  <2>2. /\ CheckStillHolds /\ CopiesWhatExists /\ DefinesOverCopy
        /\ dom \in Active => guest # Absent /\ guest.disk = disk
        /\ dom # "undefined" => disk \in Images
    BY <1>3 DEF DiskInv, GuestKeepsItsDisk, DefinedOverWholeDisk
  <2> SUFFICES /\ CheckStillHolds' /\ CopiesWhatExists' /\ DefinesOverCopy'
               /\ dom' \in Active => guest' # Absent /\ guest'.disk = disk'
               /\ dom' # "undefined" => disk' \in Images
    BY <1>1, <1>3, <2>1 DEF DiskInv, GuestKeepsItsDisk, DefinedOverWholeDisk,
                            Active
  <2>3. staged \in Images \cup {Absent} /\ dom \in DomStates
    BY DEF DiskInv, TypeOK
  <2> USE DEF CheckStillHolds, CopiesWhatExists, DefinesOverCopy, Unfinished,
              Active
  <2>4. CASE ScriptStep /\ UNCHANGED inputs
    <3> USE DEF inputs, Goto, Exit
    <3>1. CASE CreateCheck
      BY <2>4, <3>1, <2>1, <2>2 DEF CreateCheck
    <3>2. CASE CreateImage
      BY <2>4, <3>2, <2>1, <2>2 DEF CreateImage
    <3>3. CASE CreateOverlay
      BY <2>4, <3>3, <2>2 DEF CreateOverlay
    <3>4. CASE CreateCopy
      BY <2>4, <3>4, <2>2, <2>3 DEF CreateCopy
    <3>5. CASE CreateDefine
      BY <2>4, <3>5, <2>2 DEF CreateDefine
    <3>6. CASE CreateVerify
      BY <2>4, <3>6, <2>2 DEF CreateVerify
    <3>7. CASE StartDomain
      <4>1. dom = "shut off" => disk \in Images
        BY <2>2
      <4>2. [disk |-> disk, defn |-> defn] # Absent
        BY AbsentAssumption DEF DiskInv, TypeOK
      <4>3. /\ script = "dominfo" /\ script' = "idle"
            /\ UNCHANGED <<defn, disk, staged, template>>
        BY <2>4, <3>7 DEF StartDomain
      <4>4. \/ UNCHANGED <<dom, guest>>
            \/ /\ dom = "shut off" /\ dom' = "running"
               /\ guest' = [disk |-> disk, defn |-> defn]
        BY <3>7 DEF StartDomain
      <4>5. dom' \in Active => guest' # Absent /\ guest'.disk = disk
        <5>1. CASE UNCHANGED <<dom, guest>>
          BY <5>1, <2>2
        <5>2. CASE guest' = [disk |-> disk, defn |-> defn]
          BY <5>2, <4>2
        <5>3. QED
          BY <4>4, <5>1, <5>2
      <4>6. dom' # "undefined" => disk \in Images
        BY <4>4, <4>1, <2>2
      <4>7. QED
        BY <4>3, <4>5, <4>6
    <3>8. CASE StopShutdown
      BY <2>4, <3>8, <2>2 DEF StopShutdown, Halt, Stopped
    <3>9. CASE StopDestroy
      BY <2>4, <3>9, <2>2 DEF StopDestroy, Halt, Stopped
    <3>10. CASE StopUndefine
      BY <2>4, <3>10, <2>2 DEF StopUndefine
    <3>11. QED
      BY <2>4, <3>1, <3>2, <3>3, <3>4, <3>5, <3>6, <3>7, <3>8, <3>9, <3>10
         DEF ScriptStep
  <2>5. CASE (\E s \in Scripts : Invoke(s)) /\ UNCHANGED inputs
    BY <2>5, <2>2 DEF Invoke, inputs, Scripts
  <2>6. CASE Kill /\ UNCHANGED inputs
    BY <2>6, <2>2 DEF Kill, inputs
  <2>7. CASE GuestDown /\ UNCHANGED inputs
    BY <2>7, <2>2 DEF GuestDown, Halt, Stopped, inputs
  <2>8. CASE Stage
    BY <2>8, <2>2 DEF Stage, vmVars
  <2>9. CASE UNCHANGED vars
    BY <2>9, <2>2 DEF vars
  <2>10. QED
    BY <2>4, <2>5, <2>6, <2>7, <2>8, <2>9 DEF Next
<1>4. QED
  BY <1>2, <1>3

LEMMA DiskInit == Init => DiskInv
<1> SUFFICES ASSUME Init PROVE DiskInv
  OBVIOUS
<1>1. TypeOK
  BY DEF Init, TypeOK, DomStates, Commands, Scripts
<1>2. QED
  BY <1>1 DEF Init, DiskInv, CheckStillHolds, CopiesWhatExists,
              DefinesOverCopy, Unfinished, GuestKeepsItsDisk,
              DefinedOverWholeDisk, Active

LEMMA DiskInvariant == Spec => []DiskInv
BY DiskInit, DiskStep, PTL DEF Spec

(* No interleaving of the scripts with guests that stop, commands that fail *)
(* and hooks that are killed copies an image over a running guest's disk.   *)
THEOREM GuestDiskKept == Spec => []GuestKeepsItsDisk
<1>1. DiskInv => GuestKeepsItsDisk
  BY DEF DiskInv
<1>2. QED
  BY <1>1, DiskInvariant, PTL

(* A domain libvirt knows, whose start_vsp_vm may come at any time, has a   *)
(* completely copied image as its disk.                                     *)
THEOREM DomainHasWholeDisk == Spec => []DefinedOverWholeDisk
<1>1. DiskInv => DefinedOverWholeDisk
  BY DEF DiskInv
<1>2. QED
  BY <1>1, DiskInvariant, PTL

(* create_vsp_vm replaces the disk of no domain that exists: where          *)
(* VSP_VM_NAME is unique on the host, its check covers its copy.            *)
THEOREM CreatesOnlyMissing ==
  ASSUME NameIsUnique
  PROVE  Spec => CreatesOnlyWhatIsMissing
<1>1. DiskInv /\ [Next]_vars => [disk' # disk => dom = "undefined"]_vars
  <2> SUFFICES ASSUME DiskInv, [Next]_vars, disk' # disk
               PROVE  dom = "undefined"
    OBVIOUS
  <2>1. CheckStillHolds
    BY NameIsUnique DEF DiskInv
  <2>2. CASE ScriptStep
    <3>1. CreateCopy
      BY <2>2 DEF ScriptStep, CreateCheck, CreateImage, CreateOverlay,
                  CreateDefine, CreateVerify, StartDomain, StopShutdown,
                  StopDestroy, StopUndefine
    <3>2. QED
      BY <2>1, <3>1 DEF CreateCopy, CheckStillHolds, Unfinished
  <2>3. CASE \E s \in Scripts : Invoke(s)
    BY <2>3 DEF Invoke
  <2>4. CASE Kill
    BY <2>4, <2>1 DEF Kill, CheckStillHolds, Unfinished
  <2>5. CASE GuestDown
    BY <2>5 DEF GuestDown
  <2>6. CASE Stage
    BY <2>6 DEF Stage, vmVars
  <2>7. CASE UNCHANGED vars
    BY <2>7 DEF vars
  <2>8. QED
    BY <2>2, <2>3, <2>4, <2>5, <2>6, <2>7 DEF Next
<1>2. QED
  BY <1>1, DiskInvariant, PTL DEF Spec, CreatesOnlyWhatIsMissing

-----------------------------------------------------------------------------
(* The implementation of PersistentDomain.                                  *)

(* What the guest runs from and what the domain is made of are the same     *)
(* pair: only start_vsp_vm sets either for a domain that exists.            *)
GuestIsMade ==
  dom \in Active => guest = [disk |-> disk, defn |-> defn]

LEMMA MadeStep ==
  ASSUME NameIsUnique
  PROVE  DiskInv /\ GuestIsMade /\ [Next]_vars => GuestIsMade'
<1> SUFFICES ASSUME DiskInv, GuestIsMade, [Next]_vars PROVE GuestIsMade'
  OBVIOUS
<1>1. CheckStillHolds
  BY NameIsUnique DEF DiskInv
<1> USE DEF GuestIsMade, Active
<1>2. CASE ScriptStep
  <2>1. CASE CreateCheck \/ CreateImage \/ CreateOverlay \/ CreateVerify
    BY <2>1 DEF CreateCheck, CreateImage, CreateOverlay, CreateVerify
  <2>2. CASE CreateCopy
    BY <2>2, <1>1 DEF CreateCopy, CheckStillHolds, Unfinished
  <2>3. CASE CreateDefine
    BY <2>3, <1>1 DEF CreateDefine, CheckStillHolds, Unfinished
  <2>4. CASE StartDomain
    BY <2>4 DEF StartDomain
  <2>5. CASE StopShutdown \/ StopDestroy
    BY <2>5 DEF StopShutdown, StopDestroy, Halt, Stopped
  <2>6. CASE StopUndefine
    BY <2>6 DEF StopUndefine
  <2>7. QED
    BY <1>2, <2>1, <2>2, <2>3, <2>4, <2>5, <2>6 DEF ScriptStep
<1>3. CASE \E s \in Scripts : Invoke(s)
  BY <1>3 DEF Invoke
<1>4. CASE Kill
  BY <1>4, <1>1 DEF Kill, CheckStillHolds, Unfinished
<1>5. CASE GuestDown
  BY <1>5 DEF GuestDown, Halt, Stopped
<1>6. CASE Stage
  BY <1>6 DEF Stage, vmVars
<1>7. CASE UNCHANGED vars
  BY <1>7 DEF vars
<1>8. QED
  BY <1>2, <1>3, <1>4, <1>5, <1>6, <1>7 DEF Next

(* virsh define is the one command that takes effect for create_vsp_vm.     *)
LEMMA DefineCreates ==
  ASSUME NameIsUnique, DiskInv, CreateDefine
  PROVE  Persistent!Create \/ UNCHANGED <<dom, Made, guest>>
<1>1. /\ script = "define" /\ dom = "undefined" /\ disk \in Images
      /\ template \in Definitions \cup {Absent, Torn}
  BY NameIsUnique DEF DiskInv, CheckStillHolds, DefinesOverCopy, Unfinished,
                      TypeOK, CreateDefine
<1>2. CASE dom' = "shut off"
  <2>1. /\ defn' = template /\ template \in Definitions
        /\ UNCHANGED <<disk, guest>>
    BY <1>1, <1>2 DEF CreateDefine
  <2>2. Made' = [disk |-> disk, defn |-> template]
    BY <1>2, <2>1 DEF Made
  <2>3. Made' \in [disk : Images, defn : Definitions]
    BY <1>1, <2>1, <2>2
  <2>4. QED
    BY <1>1, <1>2, <2>1, <2>3 DEF Persistent!Create
<1>3. CASE dom' # "shut off"
  BY <1>1, <1>3 DEF CreateDefine, Made
<1>4. QED
  BY <1>2, <1>3

(* A command that halts the guest.                                          *)
LEMMA HaltIsDown ==
  ASSUME Halt, dom \in Active, UNCHANGED <<disk, defn>>
  PROVE  Persistent!Down
BY DEF Halt, Stopped, Active, Made, Persistent!Down

LEMMA ScriptRefines ==
  ASSUME NameIsUnique, DiskInv, GuestIsMade, ScriptStep
  PROVE  [Persistent!Next]_<<dom, Made, guest>>
<1>1. CheckStillHolds /\ dom \in DomStates
  BY NameIsUnique DEF DiskInv, TypeOK
<1>2. ReportedRunning <=> dom \in Active
  BY NameIsUnique, UniqueListing
<1>3. CASE CreateCheck \/ CreateImage \/ CreateOverlay \/ CreateVerify
  BY <1>3 DEF CreateCheck, CreateImage, CreateOverlay, CreateVerify, Made
<1>4. CASE CreateCopy
  BY <1>1, <1>4 DEF CreateCopy, CheckStillHolds, Unfinished, Made
<1>5. CASE CreateDefine
  BY <1>5, DefineCreates, NameIsUnique DEF Persistent!Next
<1>6. CASE StartDomain
  <2>1. CASE UNCHANGED <<dom, guest>>
    BY <1>6, <2>1 DEF StartDomain, Made
  <2>2. CASE ~UNCHANGED <<dom, guest>>
    <3>1. /\ dom = "shut off" /\ dom' = "running"
          /\ guest' = [disk |-> disk, defn |-> defn]
          /\ UNCHANGED <<disk, defn>>
      BY <1>6, <2>2 DEF StartDomain
    <3>2. Made = [disk |-> disk, defn |-> defn] /\ Made' = Made
      BY <3>1 DEF Made
    <3>3. QED
      BY <3>1, <3>2 DEF Persistent!Next, Persistent!Boot
  <2>3. QED
    BY <2>1, <2>2
<1>7. CASE StopShutdown
  <2>1. /\ UNCHANGED <<disk, defn>>
        /\ \/ Halt /\ dom \in Active
           \/ UNCHANGED <<dom, guest>>
    BY <1>2, <1>7 DEF StopShutdown
  <2>2. QED
    BY <2>1, HaltIsDown DEF Persistent!Next, Made
<1>8. CASE StopDestroy
  <2>1. /\ UNCHANGED <<disk, defn>>
        /\ \/ Halt /\ dom \in Active
           \/ UNCHANGED <<dom, guest>>
    BY <1>2, <1>8 DEF StopDestroy
  <2>2. QED
    BY <2>1, HaltIsDown DEF Persistent!Next, Made
<1>9. CASE StopUndefine
  BY <1>9 DEF StopUndefine, Made, Persistent!Next, Persistent!Remove
<1>10. QED
  BY <1>3, <1>4, <1>5, <1>6, <1>7, <1>8, <1>9 DEF ScriptStep

(* Where VSP_VM_NAME is unique on the host, the scripts with their failing  *)
(* commands, kills and guests that go down are a VM that is created whole   *)
(* or not at all, and keeps and boots what it is made of until it is gone.  *)
THEOREM ScriptsImplementPersistentDomain ==
  ASSUME NameIsUnique
  PROVE  Spec => ImplementsPersistentDomain
<1>1. Init => Persistent!Init /\ GuestIsMade
  BY DEF Init, Persistent!Init, Made, GuestIsMade, Active
<1>2. DiskInv /\ GuestIsMade /\ [Next]_vars
        => [Persistent!Next]_<<dom, Made, guest>>
  <2> SUFFICES ASSUME DiskInv, GuestIsMade, [Next]_vars
               PROVE  [Persistent!Next]_<<dom, Made, guest>>
    OBVIOUS
  <2>1. CASE ScriptStep
    BY <2>1, ScriptRefines, NameIsUnique
  <2>2. CASE \E s \in Scripts : Invoke(s)
    BY <2>2 DEF Invoke, Made
  <2>3. CASE Kill
    <3>1. CheckStillHolds
      BY NameIsUnique DEF DiskInv
    <3>2. QED
      BY <2>3, <3>1 DEF Kill, CheckStillHolds, Unfinished, Made
  <2>4. CASE GuestDown
    BY <2>4, HaltIsDown DEF GuestDown, Persistent!Next
  <2>5. CASE Stage
    BY <2>5 DEF Stage, vmVars, Made
  <2>6. CASE UNCHANGED vars
    BY <2>6 DEF vars, Made
  <2>7. QED
    BY <2>1, <2>2, <2>3, <2>4, <2>5, <2>6 DEF Next
<1>3. DiskInv /\ GuestIsMade /\ [Next]_vars => GuestIsMade'
  BY MadeStep, NameIsUnique
<1>4. QED
  BY <1>1, <1>2, <1>3, DiskInvariant, PTL
     DEF Spec, ImplementsPersistentDomain, Persistent!Spec, Persistent!vars

(* create_vsp_vm "returns 1 if it was not able to create it": where         *)
(* VSP_VM_NAME is unique, its success means that libvirt has the domain.    *)
THEOREM CreateReports ==
  ASSUME NameIsUnique
  PROVE  Spec => CreateReportsTheDomain
<1>1. ReportedCreated => dom # "undefined"
  BY NameIsUnique, UniqueListing
<1>2. [Next]_vars => ~SuccessWithoutDomain
  <2> SUFFICES ASSUME [Next]_vars, SuccessWithoutDomain PROVE FALSE
    OBVIOUS
  <2>1. /\ script \in {"check", "verify"} /\ script' = "idle"
        /\ rc' = 0 /\ dom = "undefined"
    BY DEF SuccessWithoutDomain
  <2>2. CASE ScriptStep
    <3>1. CreateCheck \/ CreateVerify
      BY <2>1, <2>2 DEF ScriptStep, CreateImage, CreateOverlay, CreateCopy,
                  CreateDefine, StartDomain, StopShutdown, StopDestroy,
                  StopUndefine
    <3>2. ~CreateCheck
      BY <1>1, <2>1 DEF CreateCheck, Goto
    <3>3. ~CreateVerify
      BY <2>1 DEF CreateVerify, Exit, ReportedDefined
    <3>4. QED
      BY <3>1, <3>2, <3>3
  <2>3. CASE \E s \in Scripts : Invoke(s)
    BY <2>1, <2>3 DEF Invoke
  <2>4. CASE Kill
    BY <2>1, <2>4 DEF Kill
  <2>5. CASE GuestDown
    BY <2>1, <2>5 DEF GuestDown
  <2>6. CASE Stage
    BY <2>1, <2>6 DEF Stage, vmVars
  <2>7. CASE UNCHANGED vars
    BY <2>1, <2>7 DEF vars
  <2>8. QED
    BY <2>2, <2>3, <2>4, <2>5, <2>6, <2>7 DEF Next
<1>3. QED
  BY <1>2, PTL DEF Spec, CreateReportsTheDomain
=============================================================================
