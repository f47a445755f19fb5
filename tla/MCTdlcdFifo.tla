---------------------------- MODULE MCTdlcdFifo -----------------------------
(***************************************************************************)
(* Small instances of TdlcdFifo for TLC.                                   *)
(***************************************************************************)
EXTENDS TdlcdFifo, TLC

CONSTANTS t1, t2, t3, a, b, z

\* A write that leaves room and one that is too long, with bytes that can be told apart.
MCIoPayloads == {<<a>>, <<b, a, b>>}
\* For the liveness runs, where the values do not matter.
MCShortPayloads == {<<a>>, <<a, a>>}
=============================================================================
