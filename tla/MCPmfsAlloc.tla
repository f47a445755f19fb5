----------------------------- MODULE MCPmfsAlloc ----------------------------
(***************************************************************************)
(* PmfsAlloc against the set of blocks in use, for every such set.         *)
(***************************************************************************)
EXTENDS PmfsAlloc, TLC

UsedBy(list) == UNION {list[i].low .. list[i].high : i \in 1 .. Len(list)}

\* Sorted, without empty intervals and without two that touch.
Normal(list) ==
  /\ \A i \in 1 .. Len(list) : list[i].low <= list[i].high
  /\ \A i \in 1 .. Len(list) - 1 : list[i].high + 1 < list[i + 1].low

\* The list of a set of blocks, block 0 always among them.
Listed(S) == BuildMap(InitMap(1), S, BlockEnd, 1, 1)
Sets == {S \cup {0} : S \in SUBSET (1 .. BlockEnd - 1)}
Sizes == {1, 2, 4}
Run(b, n) == b .. b + n - 1

\* The scan finds the blocks in use, whatever the order of the bitmaps.
ASSUME Builds ==
  /\ \A S \in Sets : Normal(Listed(S)) /\ UsedBy(Listed(S)) = S
  /\ \A S \in Sets, L \in SUBSET (1 .. BlockEnd \div 4 - 1) :
       LET large == UNION {Run(4 * k, 4) : k \in L} IN
       S \cap large = {} =>
         LET list == BuildAll(1, S, L, 4) IN Normal(list) /\ UsedBy(list) = S \cup large

\* A new block is aligned and was free; there is none only if there is no room.
ASSUME Allocations ==
  \A S \in Sets, n \in Sizes :
    LET r == NewBlock(Listed(S), n)
        rooms == {b \in 0 .. BlockEnd - n : b % n = 0 /\ Run(b, n) \cap S = {}} IN
    /\ r.block = -1 <=> rooms = {}
    /\ rooms # {} => r.block = Min(rooms) /\ Normal(r.list) /\ UsedBy(r.list) = S \cup Run(r.block, n)

\* Freeing takes the blocks out, whatever hint an earlier call has left.
ASSUME Releases ==
  \A S \in Sets, n \in Sizes, b \in 1 .. BlockEnd - 1 : Run(b, n) \subseteq S =>
    \A hint \in 0 .. Len(Listed(S)) :
      LET r == FreeBlock(Listed(S), b, n, hint) IN
      /\ r.freed = n /\ Normal(r.list) /\ UsedBy(r.list) = S \ Run(b, n)
      /\ r.hint # 0 => r.list[r.hint].low > b \/ r.list[r.hint].high = b - 1

\* Saving: allocating the blocks for the list does not make it outgrow them, since
\* a block of the smallest size never needs a new interval.
ASSUME Saves ==
  \A S \in Sets :
    LET grown == FoldLeft(LAMBDA l, k : NewBlock(l, 1).list, Listed(S),
                          [k \in 1 .. SaveBlocks(Len(Listed(S))) |-> k]) IN
    Len(grown) <= SaveBlocks(Len(Listed(S))) * PerBlock
=============================================================================
