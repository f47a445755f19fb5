------------------------------ MODULE PmfsTree ------------------------------
(***************************************************************************)
(* The block tree of a PMFS inode, code/nvm-ref/pmfs/inode.c, as pure      *)
(* operators: a tree of height 0 is one data block, a meta block of height *)
(* h has Fan pointers to trees of height h - 1.  Each operator returns     *)
(* what the function leaves behind.  MCPmfsTree compares them with the map *)
(* from file blocks to data blocks that the tree stands for.               *)
(***************************************************************************)
EXTENDS Integers, FiniteSetsExt, SequencesExt

CONSTANTS
  Fan,        \* pointers of a meta block, 1 << META_BLK_SHIFT
  MaxHeight,  \* 3: a file cannot grow beyond it
  BlkSize,    \* bytes of a data block
  Null        \* no block

\* Blocks below a node of height h.
Span(h) == Fan ^ h

\* An inode without blocks.
NoBlocks == [root |-> Null, height |-> 0, count |-> 0, eof |-> FALSE]

MetaNode(blk) == [blk |-> blk, ptr |-> [i \in 0 .. Fan - 1 |-> Null]]

\* The part of first..last that lies below pointer i of a node of height h.
SubFirst(h, first, i) == IF i = first \div Span(h - 1) THEN first % Span(h - 1) ELSE 0
SubLast(h, last, i) == IF i = last \div Span(h - 1) THEN last % Span(h - 1) ELSE Span(h - 1) - 1
Indices(h, first, last) ==
  [k \in 1 .. last \div Span(h - 1) - first \div Span(h - 1) + 1 |-> first \div Span(h - 1) + k - 1]

-----------------------------------------------------------------------------
(***************************************************************************)
(* Looking up.                                                             *)
(***************************************************************************)
\* __pmfs_find_data_block.
RECURSIVE Walk(_, _, _)
Walk(node, h, n) ==
  IF node = Null \/ h = 0 THEN node
  ELSE Walk(node.ptr[n \div Span(h - 1)], h - 1, n % Span(h - 1))

FindDataBlock(ino, n) == IF n >= Span(ino.height) THEN Null ELSE Walk(ino.root, ino.height, n)

\* pmfs_inode_count_iblocks_recursive.
RECURSIVE CountBlocks(_, _)
CountBlocks(node, h) ==
  IF h = 0 THEN 1
  ELSE FoldLeft(LAMBDA n, i : n + CountBlocks(node.ptr[i], h - 1), 0,
                SelectSeq([k \in 1 .. Fan |-> k - 1], LAMBDA i : node.ptr[i] # Null))

\* recursive_find_region: acc holds data_found, hole_found and the blocks passed.
RECURSIVE Region(_, _, _, _, _, _)
Region(node, h, first, last, acc, hole) ==
  LET turn(a, i) ==
        IF ~hole /\ a.data THEN a
        ELSE IF h > 1 /\ node.ptr[i] # Null
        THEN Region(node.ptr[i], h - 1, SubFirst(h, first, i), SubLast(h, last, i), a, hole)
        ELSE IF node.ptr[i] # Null
        THEN [a EXCEPT !.data = TRUE,
                       !.blocks = IF hole /\ ~a.hole THEN @ + Span(h - 1) ELSE @]
        ELSE [a EXCEPT !.hole = TRUE, !.blocks = IF hole THEN @ ELSE @ + Span(h - 1)]
  IN FoldLeft(turn, acc, Indices(h, first, last))

\* pmfs_find_region: the new offset, or Null for -ENXIO.
FindRegion(ino, size, offset, hole) ==
  LET a == IF ino.height = 0 THEN [data |-> TRUE, hole |-> FALSE, blocks |-> 0]
           ELSE Region(ino.root, ino.height, offset \div BlkSize, size \div BlkSize,
                       [data |-> FALSE, hole |-> FALSE, blocks |-> 0], hole)
      inBlock == offset % BlkSize IN
  IF offset >= size THEN Null
  ELSE IF ino.count = 0 \/ ino.root = Null THEN (IF hole THEN size ELSE Null)
  ELSE IF ~hole /\ ~a.data /\ a.hole THEN Null
  ELSE IF a.data /\ ~a.hole THEN (IF hole THEN size ELSE offset)
  ELSE IF hole /\ a.hole /\ a.blocks = 0 THEN (IF a.data THEN offset ELSE size)
  ELSE IF inBlock # 0 THEN offset + (a.blocks - 1) * BlkSize + (BlkSize - inBlock)
  ELSE offset + a.blocks * BlkSize

-----------------------------------------------------------------------------
(***************************************************************************)
(* Truncation.                                                             *)
(***************************************************************************)
\* is_empty_meta_block.
EmptyOutside(node, lo, hi) == \A i \in 0 .. Fan - 1 : i < lo \/ i > hi => node.ptr[i] = Null

\* recursive_truncate_blocks: the blocks freed, data and meta, the node that is
\* left, and whether it is empty (its own block is then the caller's to free).
RECURSIVE TruncateNode(_, _, _, _)
TruncateNode(node, h, first, last) ==
  LET lo == first \div Span(h - 1)
      hi == last \div Span(h - 1)
      used == {i \in lo .. hi : node.ptr[i] # Null}
      sub == [i \in used |->
                IF h = 1 THEN [data |-> {node.ptr[i]}, meta |-> {}, node |-> Null, empty |-> TRUE]
                ELSE TruncateNode(node.ptr[i], h - 1, SubFirst(h, first, i), SubLast(h, last, i))]
      kept == {i \in used : ~sub[i].empty}
      start == IF lo \in kept THEN lo + 1 ELSE lo
      end == IF hi \in kept /\ hi # lo THEN hi - 1 ELSE hi
      meta == UNION {sub[i].meta : i \in used}
              \cup (IF h = 1 THEN {} ELSE {node.ptr[i].blk : i \in used \ kept}) IN
  [data |-> UNION {sub[i].data : i \in used}, meta |-> meta,
   empty |-> kept = {} /\ EmptyOutside(node, lo, hi),
   node |-> [node EXCEPT !.ptr = [i \in 0 .. Fan - 1 |->
               IF i \in start .. end THEN Null
               ELSE IF i \in kept THEN sub[i].node ELSE @[i]]]]

\* pmfs_free_inode_subtree; ok: not BUG_ON(!mpty).
FreeSubtree(root, h, last) ==
  IF root = Null THEN [data |-> {}, meta |-> {}, ok |-> TRUE]
  ELSE IF h = 0 THEN [data |-> {root}, meta |-> {}, ok |-> TRUE]
  ELSE LET r == TruncateNode(root, h, 0, last) IN
       [data |-> r.data, meta |-> r.meta \cup {root.blk}, ok |-> r.empty]

\* pmfs_sparse_last_blocknr.
SparseLast(h, last) == IF last >= Span(h) THEN Span(h) - 1 ELSE last

\* The height that holds a last block: the loops of pmfs_decrease_btree_height
\* and __pmfs_alloc_blocks.
RECURSIVE HeightFor(_)
HeightFor(last) == IF last = 0 THEN 0 ELSE 1 + HeightFor(last \div Fan)

\* pmfs_decrease_btree_height; ok: not BUG_ON(newroot != 0).
RECURSIVE DecreaseTo(_, _, _, _)
DecreaseTo(root, h, new, freed) ==
  IF h <= new THEN [root |-> root, height |-> new, meta |-> freed]
  ELSE DecreaseTo(root.ptr[0], h - 1, new, freed \cup {root.blk})

DecreaseHeight(ino, size, root) ==
  LET new == HeightFor((size + BlkSize - 1) \div BlkSize - 1) IN
  IF ino.count = 0 \/ size = 0
  THEN [root |-> root, height |-> 0, meta |-> {}, ok |-> root = Null]
  ELSE DecreaseTo(root, ino.height, new, {}) @@ [ok |-> TRUE]

\* __pmfs_truncate_blocks from byte start to the old size end.
TruncateBlocks(ino, start, end) ==
  LET first == (start + BlkSize - 1) \div BlkSize
      last == IF ino.eof THEN Span(ino.height) - 1
              ELSE SparseLast(ino.height, (end - 1) \div BlkSize)
      r == IF ino.height = 0
           THEN [data |-> {ino.root}, meta |-> {}, empty |-> TRUE, node |-> Null]
           ELSE TruncateNode(ino.root, ino.height, first, last)
      root == IF r.empty THEN Null ELSE r.node
      count == ino.count - Cardinality(r.data)
      d == DecreaseHeight([ino EXCEPT !.count = count], start, root) IN
  IF ino.root = Null \/ (~ino.eof /\ end = 0) \/ first > last
  THEN [ino |-> ino, freed |-> {}, ok |-> TRUE]
  ELSE [ino |-> [root |-> d.root, height |-> d.height, count |-> count,
                 eof |-> ino.eof /\ start + BlkSize <= count * BlkSize],
        freed |-> r.data \cup r.meta \cup d.meta
                  \cup (IF r.empty /\ ino.height > 0 THEN {ino.root.blk} ELSE {}),
        ok |-> d.ok]

-----------------------------------------------------------------------------
(***************************************************************************)
(* Allocation, out of a set of free blocks.  err: -ENOSPC; what has been    *)
(* done before it stays.                                                   *)
(***************************************************************************)
\* pmfs_increase_btree_height.
RECURSIVE IncreaseHeight(_, _, _)
IncreaseHeight(ino, new, free) ==
  IF ino.height >= new THEN [ino |-> ino, free |-> free, err |-> FALSE]
  ELSE IF free = {} THEN [ino |-> ino, free |-> free, err |-> TRUE]
  ELSE IncreaseHeight([ino EXCEPT !.root = [MetaNode(Min(free)) EXCEPT !.ptr[0] = ino.root],
                                  !.height = @ + 1], new, free \ {Min(free)})

\* recursive_alloc_blocks: the node, with blocks below all of first..last, the
\* number of data blocks that are new, and eof for PMFS_EOFBLOCKS_FL.
RECURSIVE AllocNode(_, _, _, _, _)
AllocNode(node, h, first, last, free) ==
  LET turn(a, i) ==
        IF a.err \/ (h = 1 /\ a.node.ptr[i] # Null) THEN a
        ELSE IF a.node.ptr[i] = Null /\ a.free = {}
        THEN [a EXCEPT !.err = TRUE, !.eof = @ \/ h = 1]
        ELSE LET b == Min(a.free) IN
        IF h = 1
        THEN [a EXCEPT !.node.ptr[i] = b, !.free = @ \ {b}, !.new = @ + 1]
        ELSE LET isNew == a.node.ptr[i] = Null
                 r == AllocNode(IF isNew THEN MetaNode(b) ELSE a.node.ptr[i], h - 1,
                                SubFirst(h, first, i), SubLast(h, last, i),
                                IF isNew THEN a.free \ {b} ELSE a.free) IN
             [a EXCEPT !.node.ptr[i] = r.node, !.free = r.free, !.new = @ + r.new,
                       !.err = r.err, !.eof = @ \/ r.eof]
  IN FoldLeft(turn, [node |-> node, free |-> free, new |-> 0, err |-> FALSE, eof |-> FALSE],
              Indices(h, first, last))

\* __pmfs_alloc_blocks of file blocks first..last.
AllocBlocks(ino, first, last, free) ==
  LET h == IF last >= Span(ino.height) THEN HeightFor(last) ELSE ino.height
      up == IncreaseHeight(ino, h, free)
      r == AllocNode(up.ino.root, h, first, last, up.free) IN
  IF h > MaxHeight THEN [ino |-> ino, free |-> free, err |-> TRUE]
  ELSE IF h = 0 /\ ino.root # Null THEN [ino |-> ino, free |-> free, err |-> FALSE]
  ELSE IF h = 0
  THEN IF free = {} THEN [ino |-> ino, free |-> free, err |-> TRUE]
       ELSE [ino |-> [ino EXCEPT !.root = Min(free), !.count = @ + 1],
             free |-> free \ {Min(free)}, err |-> FALSE]
  ELSE IF up.err THEN up
  ELSE [ino |-> [up.ino EXCEPT !.root = r.node, !.count = @ + r.new, !.eof = @ \/ r.eof],
        free |-> r.free, err |-> r.err]
=============================================================================
