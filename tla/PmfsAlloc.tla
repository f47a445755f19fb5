------------------------------ MODULE PmfsAlloc -----------------------------
(***************************************************************************)
(* The block allocator of PMFS: the sorted list of the intervals of blocks *)
(* in use, code/nvm-ref/pmfs/balloc.c, and how the list is built from the  *)
(* scan of all inodes at a mount, code/nvm-ref/pmfs/bbuild.c, as pure      *)
(* operators.  MCPmfsAlloc compares them with the set of blocks in use.    *)
(***************************************************************************)
EXTENDS Integers, FiniteSetsExt, SequencesExt

CONSTANTS
  BlockEnd,   \* the blocks are 0 .. BlockEnd - 1
  PerBlock    \* intervals that one block of the saved list holds, 256

Interval(low, high) == [low |-> low, high |-> high]

\* block_low of the interval behind i, or the end.
NextLow(list, i) == IF i = Len(list) THEN BlockEnd ELSE list[i + 1].low

\* The lowest index of a non-empty set, or 0.
First(S) == IF S = {} THEN 0 ELSE Min(S)

\* The list between two intervals that stay.
Splice(list, i, middle, j) == SubSeq(list, 1, i) \o middle \o SubSeq(list, j, Len(list))

\* low..high goes into the gap behind interval i: it fills the gap completely,
\* aligns left, aligns right, or is an interval of its own.
Fill(list, i, low, high) ==
  LET left == low = list[i].high + 1
      right == i < Len(list) /\ high = list[i + 1].low - 1 IN
  Splice(list, IF left THEN i - 1 ELSE i,
         <<Interval(IF left THEN list[i].low ELSE low, IF right THEN list[i + 1].high ELSE high)>>,
         IF right THEN i + 2 ELSE i + 1)

-----------------------------------------------------------------------------
(***************************************************************************)
(* balloc.c.                                                               *)
(***************************************************************************)
\* pmfs_init_blockmap.
InitMap(used) == <<Interval(0, used - 1)>>

\* __pmfs_free_block of the n blocks from b: the list, the hint for the next call
\* (0 is NULL) and the number of blocks that have become free.
FreeBlock(list, b, n, hint) ==
  LET from == IF hint # 0 /\ b >= list[hint].low THEN hint ELSE 1
      i == First({k \in from .. Len(list) : list[k].low <= b /\ b + n - 1 <= list[k].high})
      low == IF b > list[i].low THEN <<Interval(list[i].low, b - 1)>> ELSE <<>>
      high == IF b + n - 1 < list[i].high THEN <<Interval(b + n, list[i].high)>> ELSE <<>>
      new == Splice(list, i - 1, low \o high, i + 1) IN
  IF i = 0 THEN [list |-> list, hint |-> hint, freed |-> 0]
  ELSE [list |-> new, freed |-> n,
        hint |-> IF i + Len(low) <= Len(new) THEN i + Len(low) ELSE 0]

\* The first multiple of n behind interval i.
AlignedLow(list, i, n) == ((list[i].high + n) \div n) * n

\* pmfs_new_block: n blocks, aligned, in the first gap behind an interval that has
\* room for them; -1 for -ENOSPC.
NewBlock(list, n) ==
  LET i == First({k \in 1 .. Len(list) : AlignedLow(list, k, n) + n - 1 < NextLow(list, k)})
      b == AlignedLow(list, i, n) IN
  IF i = 0 THEN [list |-> list, block |-> -1]
  ELSE [list |-> Fill(list, i, b, b + n - 1), block |-> b]

-----------------------------------------------------------------------------
(***************************************************************************)
(* bbuild.c.                                                               *)
(***************************************************************************)
\* pmfs_alloc_insert_blocknode_map: an interval goes behind the first interval
\* whose follower it stays below; what does not fit there is lost.
Insert(list, low, high) ==
  LET i == First({k \in 1 .. Len(list) : high < NextLow(list, k) /\ low > list[k].high}) IN
  IF i = 0 THEN list ELSE Fill(list, i, low, high)

\* __pmfs_build_blocknode_map: the runs of ones of a bitmap of size bits, from bit
\* 1 on, each bit standing for scale blocks.
RECURSIVE BuildMap(_, _, _, _, _)
BuildMap(list, bits, size, next, scale) ==
  LET low == First({k \in next .. size - 1 : k \in bits})
      zero == First({k \in low .. size - 1 : k \notin bits})
      end == IF zero = 0 THEN size ELSE zero
      new == Insert(list, low * scale, end * scale - 1) IN
  IF low = 0 THEN list
  ELSE IF end = size THEN new ELSE BuildMap(new, bits, size, end, scale)

\* pmfs_build_blocknode_map, behind pmfs_init_blockmap: small blocks, large blocks.
BuildAll(used, small, large, scale) ==
  BuildMap(BuildMap(InitMap(used), small, BlockEnd + 1, 1, 1),
           large, BlockEnd \div scale + 1, 1, scale)

\* Blocks that pmfs_save_blocknode_mappings takes for a list of count intervals.
SaveBlocks(count) == (count - 1) \div PerBlock + 1
=============================================================================
