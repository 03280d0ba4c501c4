--------------------------- MODULE MCUnitStorage ---------------------------
(* An instance of HookData, and so of UnitStorage, for TLC: one option, two *)
(* keys of the client's own and the prefix of one of them, and a client     *)
(* that goes on after a failure.                                            *)
EXTENDS HookData

CONSTANTS k1, k2, o1

MCKeys     == {k1, k2, o1}
MCPrefixed == {k1}
MCConf     == {o1}
MCClient   == {"catch", "prefix", "forget"}
=============================================================================
