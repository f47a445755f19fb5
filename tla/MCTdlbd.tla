------------------------------ MODULE MCTdlbd -------------------------------
(***************************************************************************)
(* Small instances of Tdlbd for TLC.                                       *)
(***************************************************************************)
EXTENDS Tdlbd

CONSTANTS t1, t2, t3

\* Bios of one page with one sector and two with one each, as reads and writes
\* through the page cache have them, and bios whose segments differ in length, as
\* a transfer from unaligned memory has them.
MCSegments == [t \in Task |-> IF t = t1 THEN {<<1, 1>>, <<2, 1>>} ELSE {<<1>>, <<1, 1>>}]
MCMixed == [t \in Task |-> {<<1>>, <<1, 2>>, <<2, 1>>}]
=============================================================================
