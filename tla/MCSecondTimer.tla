--------------------------- MODULE MCSecondTimer ----------------------------
(***************************************************************************)
(* Small instances of SecondTimer for TLC: the tasks are model values.     *)
(* The facts about the scull drivers and globalfifo have no state of their *)
(* own; they are here so that this run evaluates them.                     *)
(***************************************************************************)
EXTENDS SecondTimer, MCScull, MCScullTasks, MCGlobalFifo

CONSTANTS t1, t2

\* What follows a race is of interest for its first second only: nothing but the
\* types is claimed of it.
RacesEarly == races = {} \/ now <= HZ
=============================================================================
