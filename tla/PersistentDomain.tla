-------------------------- MODULE PersistentDomain --------------------------
(***************************************************************************)
(* The VM as the hooks count on it: create_vsp_vm makes it of one whole    *)
(* copy of an image and one definition, start_vsp_vm boots it from them,   *)
(* and nothing but the removal of the VM takes either away.  Create and    *)
(* start take effect in one step here, or not at all; stop is two steps,   *)
(* Down and then Remove, and where its last command fails the VM stays     *)
(* down and defined.  VspVm implements this with commands that fail or are *)
(* cut short, and a VM that is looked for by its name in a listing.        *)
(***************************************************************************)
CONSTANTS
  Images,       \* what the image it is made of may contain
  Definitions,  \* the VM definitions that may be rendered
  Absent        \* no VM, no guest

VARIABLES
  dom,    \* the state of the VM
  made,   \* the image and the definition it is made of
  guest   \* the image and the definition the running guest was booted from

vars == <<dom, made, guest>>

Init ==
  /\ dom = "undefined"
  /\ made = Absent
  /\ guest = Absent

\* create_vsp_vm takes effect on a VM that is not there.
Create ==
  /\ dom = "undefined"
  /\ dom' = "shut off"
  /\ made' \in [disk : Images, defn : Definitions]
  /\ UNCHANGED guest

\* start_vsp_vm boots what was created.
Boot ==
  /\ dom = "shut off"
  /\ dom' = "running"
  /\ guest' = made
  /\ UNCHANGED made

\* The guest goes down, whoever wants it to.
Down ==
  /\ dom \in {"running", "transient"}
  /\ dom' = IF dom = "running" THEN "shut off" ELSE "undefined"
  /\ made' = IF dom = "running" THEN made ELSE Absent
  /\ guest' = Absent

\* stop_vsp_vm removes the VM; a guest that still runs is its last.
Remove ==
  \/ /\ dom = "shut off"
     /\ dom' = "undefined"
     /\ made' = Absent
     /\ UNCHANGED guest
  \/ /\ dom = "running"
     /\ dom' = "transient"
     /\ UNCHANGED <<made, guest>>

Next == Create \/ Boot \/ Down \/ Remove

Spec == Init /\ [][Next]_vars
=============================================================================
