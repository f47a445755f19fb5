---------------------------- MODULE MCGlobalMem -----------------------------
(***************************************************************************)
(* Small instances of GlobalMem for TLC.                                   *)
(***************************************************************************)
EXTENDS GlobalMem

CONSTANTS t1, t2, t3, f1, f2, f3

\* Every task has opened the device for itself, and none seeks.
MCOwnFiles == [t \in Task |-> CASE t = t1 -> f1 [] t = t2 -> f2 [] t = t3 -> f3]
MCNoOffsets == {}
=============================================================================
