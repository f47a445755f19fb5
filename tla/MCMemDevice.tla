---------------------------- MODULE MCMemDevice -----------------------------
(***************************************************************************)
(* Small instances of MemDevice for TLC.  The facts of the lifecycles have *)
(* no state of their own; they are here so that this run evaluates them.   *)
(***************************************************************************)
EXTENDS MemDevice, MCLifecycles

CONSTANTS t1, t2, t3, f1, f2

\* Two tasks share an open file, the third has opened the device for itself.
MCFiles == [t \in Task |-> IF t = t3 THEN f2 ELSE f1]

\* Seeks back and forth, beyond the end, to where the test for it is fooled by an
\* unsigned int, and to where the sum wraps.
MCOffsets == {-1, 2, 5, 7}
=============================================================================
