---------------------------- MODULE MCPmfsVolume ----------------------------
(***************************************************************************)
(* The instance of PmfsVolume, whose clients and names are interchangeable,*)
(* and the comparisons of the two algorithms below it, the block tree and  *)
(* the block allocator.                                                    *)
(***************************************************************************)
EXTENDS PmfsVolume, MCPmfsTree, MCPmfsAlloc

\* Nothing is claimed of what follows a race.
UntilRace == races = {}

Symmetry == Permutations(Clients) \cup Permutations(Names)
=============================================================================
