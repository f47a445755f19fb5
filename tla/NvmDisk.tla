------------------------------ MODULE NvmDisk -------------------------------
(***************************************************************************)
(* The I/O path of the NVM simulator, code/NVMSIM/ramdevice.c: the bios of *)
(* all tasks are moved by nvm_make_request in the context of the task that *)
(* submits, straight between its pages and the data store, with no lock    *)
(* and no queue.                                                           *)
(***************************************************************************)
EXTENDS BlockDisk

CONSTANTS
  CapacityMb,    \* the values of the parameter nvm_capacity_mb
  MbSectors,     \* sectors of a megabyte
  UintRange      \* how many values an unsigned int has

ASSUME NvmAssumption ==
  /\ CapacityMb \subseteq Nat \ {0}
  /\ MbSectors \in Nat \ {0} /\ UintRange \in Nat \ {0}

-----------------------------------------------------------------------------
(***************************************************************************)
(* Faults.  No part of the driver: ways in which a step below could be     *)
(* wrong, each of which breaks a property.                                 *)
(***************************************************************************)
\* The capacity is computed in a signed int.
SectorsOfSigned(mb) ==
  ((mb * MbSectors + UintRange \div 2) % UintRange) - UintRange \div 2

\* The test for the end of the disk looks at the first sector only.
BeyondEndFirst(t) == cur[t].sector > capacity

\* capacity_mb << MB_PER_SECTOR_SHIFT, of an unsigned int.
SectorsOf(mb) == (mb * MbSectors) % UintRange

Init ==
  \E mb \in CapacityMb :
    /\ capacity = SectorsOf(mb)
    /\ BlockInit(SectorsOf(mb))

\* The bio of t reaches beyond the disk.
BeyondEnd(t) == cur[t].sector + Size(bio[t].segs) > capacity

\* The sector does not move on between two segments.
AdvanceStays(t) ==
  LET c == cur[t]  len == bio[t].segs[c.seg] IN
  /\ cur' = [cur EXCEPT ![t] =
       IF c.word + 1 < len * Words THEN [c EXCEPT !.word = c.word + 1]
       ELSE [sector |-> c.sector, seg |-> c.seg + 1, word |-> 0]]
  /\ pc' = [pc EXCEPT ![t] =
       IF c.word + 1 = len * Words /\ c.seg = Len(bio[t].segs) THEN "moved" ELSE "moving"]

\* The loop ends one segment early.
AdvanceStops(t) ==
  LET c == cur[t]  len == bio[t].segs[c.seg] IN
  /\ cur' = [cur EXCEPT ![t] =
       IF c.word + 1 < len * Words THEN [c EXCEPT !.word = c.word + 1]
       ELSE [sector |-> c.sector + len, seg |-> c.seg + 1, word |-> 0]]
  /\ pc' = [pc EXCEPT ![t] =
       IF c.word + 1 = len * Words /\ c.seg + 1 >= Len(bio[t].segs) THEN "moved" ELSE "moving"]

-----------------------------------------------------------------------------
(***************************************************************************)
(* nvm_make_request.                                                       *)
(***************************************************************************)
\* Where the copying of one word leaves the handler: in the segment, at the next
\* one with the sector moved on, or behind the last.
Advance(t) ==
  LET c == cur[t]  len == bio[t].segs[c.seg] IN
  /\ cur' = [cur EXCEPT ![t] =
       IF c.word + 1 < len * Words THEN [c EXCEPT !.word = c.word + 1]
       ELSE [sector |-> c.sector + len, seg |-> c.seg + 1, word |-> 0]]
  /\ pc' = [pc EXCEPT ![t] =
       IF c.word + 1 = len * Words /\ c.seg = Len(bio[t].segs) THEN "moved" ELSE "moving"]

MakeRequest(t) ==
  /\ pc[t] = "submitted"
  /\ pc' = [pc EXCEPT ![t] = IF BeyondEnd(t) THEN "moved" ELSE "moving"]
  /\ UNCHANGED <<disk, bio, page, cur, status, ghosts>>

\* nvm_do_bvec: memory_copy moves a segment word by word.
DoBvec(t) ==
  /\ pc[t] = "moving"
  /\ CopyWord(t, cur[t].seg, cur[t].word, cur[t].sector + cur[t].word \div Words)
  /\ Advance(t)
  /\ UNCHANGED <<capacity, bio, status, ghosts>>

\* err is not looked at: a bio beyond the end ends well, too.
EndIo(t) ==
  /\ pc[t] = "moved"
  /\ EndBios({t})
  /\ UNCHANGED <<disk, bio, page, cur>>

Move(t) == MakeRequest(t) \/ DoBvec(t) \/ EndIo(t)

Next == \E t \in Task : Submit(t) \/ Move(t) \/ Reap(t)

Spec == Init /\ [][Next]_blockVars

\* The kernel keeps a task running that is in the middle of a request.
FairSpec == Spec /\ \A t \in Task : WF_blockVars(Move(t))

-----------------------------------------------------------------------------
TypeOK ==
  /\ BlockTypeOK
  /\ \A t \in Task : pc[t] \in {"idle", "submitted", "moving", "moved", "ended"}

\* memory_copy stays inside the data store and the page.
CopyInBounds ==
  \A t \in Task : pc[t] = "moving" =>
    /\ cur[t].sector + cur[t].word \div Words \in DOMAIN data
    /\ Place(t, cur[t].seg, cur[t].word) \in DOMAIN page[t]
=============================================================================
