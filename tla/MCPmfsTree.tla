----------------------------- MODULE MCPmfsTree -----------------------------
(***************************************************************************)
(* PmfsTree against the map of a file: for every file of up to Limit       *)
(* blocks, holes anywhere, TLC evaluates each operator and compares.       *)
(***************************************************************************)
EXTENDS PmfsTree, TLC

Limit == Span(MaxHeight)
Free0 == 1 .. 30

\* All blocks of a tree, and the data blocks of the file.
RECURSIVE BlocksOf(_, _)
BlocksOf(node, h) ==
  IF node = Null THEN {} ELSE IF h = 0 THEN {node}
  ELSE {node.blk} \cup UNION {BlocksOf(node.ptr[i], h - 1) : i \in 0 .. Fan - 1}
All(ino) == BlocksOf(ino.root, ino.height)
Mapped(ino) == {n \in 0 .. Limit - 1 : FindDataBlock(ino, n) # Null}

\* The file whose blocks are S, written one by one.
File(S) == FoldLeft(LAMBDA a, n : IF n - 1 \in S THEN AllocBlocks(a.ino, n - 1, n - 1, a.free) ELSE a,
             [ino |-> NoBlocks, free |-> Free0, err |-> FALSE], [n \in 1 .. Limit |-> n])
Files == [S \in SUBSET (0 .. Limit - 1) |-> File(S)]
Same(i, j, N) == \A n \in N : FindDataBlock(i, n) = FindDataBlock(j, n)

\* The tree holds what was written; one node stands for one block.
ASSUME Lookups ==
  \A S \in SUBSET (0 .. Limit - 1) : LET f == Files[S] IN
    /\ ~f.err /\ Mapped(f.ino) = S /\ f.ino.count = Cardinality(S)
    /\ All(f.ino) \cap f.free = {} /\ All(f.ino) \cup f.free = Free0
    /\ S # {} => CountBlocks(f.ino.root, f.ino.height) = Cardinality(S)

\* An allocation fills the range, moves no block and loses none, whether it
\* succeeds or runs out of space.
ASSUME Allocates ==
  \A S \in SUBSET (0 .. Limit - 1), first \in 0 .. Limit, k \in {0, 2}, room \in {1, 3, 12} :
    LET f == Files[S]
        last == first + k
        free == {b \in f.free : Cardinality({c \in f.free : c < b}) < room}
        r == AllocBlocks(f.ino, first, last, free) IN
    /\ Same(f.ino, r.ino, S) /\ r.free \subseteq free
    /\ All(r.ino) = All(f.ino) \cup (free \ r.free)
    /\ r.ino.count = Cardinality(Mapped(r.ino))
    /\ ~r.err => Mapped(r.ino) = S \cup (first .. last)
    /\ room = 12 => (r.err <=> last >= Limit)

\* No meta block without pointers.  A file that starts high up has one, the
\* first of the chain that pmfs_increase_btree_height builds under no root.
RECURSIVE Proper(_, _)
Proper(node, h) ==
  h = 0 \/ node = Null
  \/ /\ ~EmptyOutside(node, Fan, Fan)
     /\ \A i \in 0 .. Fan - 1 : Proper(node.ptr[i], h - 1)

\* Truncation frees the blocks behind the new end, and what the tree no longer
\* needs, and leaves the others where they are; no BUG_ON is met.
ASSUME Truncates ==
  \A S \in SUBSET (0 .. Limit - 1), start \in 0 .. Limit * BlkSize, end \in {0, 5, 6, 16} :
    LET f == Files[S]
        r == TruncateBlocks(f.ino, start, end) IN
    /\ S # {} => end > Max(S) * BlkSize
    /\ start < end
    /\ Proper(f.ino.root, f.ino.height)
    => /\ r.ok /\ Mapped(r.ino) = {n \in S : n * BlkSize < start}
       /\ Same(f.ino, r.ino, Mapped(r.ino))
       /\ All(r.ino) \cup r.freed = All(f.ino) /\ All(r.ino) \cap r.freed = {}
       /\ r.ino.count = Cardinality(Mapped(r.ino))

\* Where such a file is cut back to a hole behind its first subtree, the tree is left
\* with meta blocks and no block: the BUG_ON of pmfs_decrease_btree_height, "root must
\* be NULL" (inode.c:359-360), is met.
ASSUME ChainIsFound ==
  LET f == Files[{2 * Span(MaxHeight - 2)}].ino IN
  /\ ~Proper(f.root, f.height)
  /\ ~TruncateBlocks(f, 2 * Span(MaxHeight - 2) * BlkSize, Limit * BlkSize).ok

\* The whole tree of an inode that goes away is freed.
ASSUME Frees ==
  \A S \in SUBSET (0 .. Limit - 1) :
    LET f == Files[S]
        r == FreeSubtree(f.ino.root, f.ino.height, SparseLast(f.ino.height, Limit - 1)) IN
    r.ok /\ r.data \cup r.meta = All(f.ino)

\* What SEEK_DATA and SEEK_HOLE should find.
NextAt(S, offset, size) ==
  LET c == {n \in S : (n + 1) * BlkSize > offset /\ n * BlkSize < size} IN
  IF c = {} THEN Null ELSE Max({offset, Min(c) * BlkSize})

\* The search is right in a tree of height one, for a hole also in a higher one
\* if it starts in data; elsewhere it may go too far but never stops short (a
\* missing subtree counts as a whole, also when the search starts inside it).
ASSUME Regions ==
  \A S \in SUBSET (0 .. Limit - 1) \ {{}, {0}}, full \in BOOLEAN, offset \in {0, 1, 4, 7, 10} :
    LET f == Files[S].ino
        size == IF full THEN Span(f.height) * BlkSize - 1 ELSE Max(S) * BlkSize + 1
        data == FindRegion(f, size, offset, FALSE)
        hole == FindRegion(f, size, offset, TRUE) IN
    offset < size =>
      /\ f.height = 1 => data = NextAt(S, offset, size)
      /\ data # Null => NextAt(S, offset, size) # Null /\ NextAt(S, offset, size) <= data
      /\ offset \div BlkSize \in S =>
           hole = LET n == NextAt(0 .. Limit \ S, offset, size) IN IF n = Null THEN size ELSE n
=============================================================================
