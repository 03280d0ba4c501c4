-------------------------- MODULE MCHookExecution --------------------------
(* An instance of HookExecution for TLC: two options and one added key.     *)
EXTENDS HookExecution

CONSTANTS o1, o2, k1

MCOptions == {o1, o2}
MCExtra   == {k1}
=============================================================================
