--------------------------- MODULE MCPmfsJournal ----------------------------
(***************************************************************************)
(* Small instances of PmfsJournal for TLC.                                 *)
(***************************************************************************)
EXTENDS PmfsJournal, TLC

CONSTANTS t1, t2, a, b

\* Tasks and objects are interchangeable.
Symmetry == Permutations({t1, t2}) \cup Permutations({a, b})
=============================================================================
