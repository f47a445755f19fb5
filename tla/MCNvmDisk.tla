----------------------------- MODULE MCNvmDisk ------------------------------
(***************************************************************************)
(* Small instances of NvmDisk for TLC.                                     *)
(***************************************************************************)
EXTENDS NvmDisk

CONSTANTS t1, t2, t3

\* One sector, and two pages with one and two.
MCSegments == [t \in Task |-> {<<1>>, <<1, 2>>}]
=============================================================================
