------------------------------- MODULE MCPmbd -------------------------------
(***************************************************************************)
(* Three PM blocks of two sectors behind a buffer of two blocks: it is     *)
(* full after two writes, and a write can cover part of a block or cross a *)
(* border.                                                                 *)
(***************************************************************************)
EXTENDS Pmbd, TLC
CONSTANTS c1, c2

Write(first, last) == [op |-> "write", first |-> first, last |-> last, fua |-> FALSE]
Fua(first, last) == [op |-> "write", first |-> first, last |-> last, fua |-> TRUE]
Read(first, last) == [op |-> "read", first |-> first, last |-> last, fua |-> FALSE]
Barrier == [op |-> "flush", first |-> 0, last |-> -1, fua |-> FALSE]

MCClients == {c1, c2}
ThreeBlocks == 0 .. 2

\* The FUA write lies across the border of blocks 0 and 1, as does a plain write; the
\* others push blocks out of the buffer, read what the FUA write has written, and flush.
MCRequests ==
  c1 :> {Fua(1, 2)} @@ c2 :> {Write(4, 5), Write(1, 2), Read(2, 2), Barrier}

\* One FUA write, and the last bio is not the one that only makes room.  Nothing but the
\* submission of a bio breaks this: whatever has been submitted may run to its end.
OneFua ==
  /\ task[c1].req.fua /\ task[c1].pc = "gate" => fua = {}
  /\ task[c2].pc = "gate" /\ task[c2].req = Write(4, 5) => requests < MaxRequests
===============================================================================
