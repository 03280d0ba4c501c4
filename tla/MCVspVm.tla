------------------------------ MODULE MCVspVm ------------------------------
(* Instances of VspVm for TLC: two image contents, two definitions, and     *)
(* hosts with and without another domain whose name contains the VM's.      *)
EXTENDS VspVm

\* A domain of another name that is shut off: it disturbs create's last test.
MCUnrelated  == {[name |-> "db", similar |-> FALSE, state |-> "shut off"]}

\* A domain such as "vsc-old", which every grep for "vsc" finds.
MCSimilarOff == {[name |-> "vsc-old", similar |-> TRUE, state |-> "shut off"]}
=============================================================================
