--------------------------- MODULE MCVscTeardowns ---------------------------
(* VscTeardowns on the instances of MCVscCharm.                             *)
EXTENDS MCVscCharm, VscTeardowns
=============================================================================
