----------------------------- MODULE PmbdProofs -----------------------------
(***************************************************************************)
(* Proofs about Pmbd, for any number of contexts, blocks, sectors, buffers *)
(* and bios, any batch of the syncer, and both ways to store to the PM.    *)
(*                                                                         *)
(* The inductive invariant Inv says who holds which lock, what the ring of *)
(* a buffer looks like while it is flushed, where the last write to each   *)
(* sector is, and what a barrier has seen to.  Each of its parts has a     *)
(* section: one lemma per action that disturbs it, and frame lemmas for    *)
(* the others.  The theorems at the end follow from it.                    *)
(***************************************************************************)
EXTENDS Pmbd, FiniteSetTheorems, WellFoundedInduction, TLAPS

Positions == 0 .. NumBlocks - 1
SlotType == [pbn : Blocks \cup {NoBlock}, dirty : BOOLEAN, data : [0 .. SPB - 1 -> Nat]]
RingType == [num_dirty : 0 .. NumBlocks, pos_dirty : Positions, pos_clean : Positions]
ReqType == [op : {"none", "read", "write", "flush"}, first : Nat, last : Int, fua : BOOLEAN]
TaskType == [pc : TaskPcs, req : ReqType, b : Nat, fresh : BOOLEAN, buf : Buffers,
             todo : SUBSET Blocks, synced : Nat, cleaned : Nat,
             need : [Sectors -> Nat], stamps : [Sectors -> Nat], ok : BOOLEAN]

\* The types of all variables.
DataTypes ==
  /\ pm \in [Sectors -> Nat] /\ nvm \in [Sectors -> Nat]
  /\ latest \in [Sectors -> Nat] /\ done \in [Sectors -> Nat]
  /\ slot \in [Buffers -> [Positions -> SlotType]]
  /\ ring \in [Buffers -> RingType]
  /\ bbn \in [Blocks -> Positions \cup {Unbuffered}]
  /\ writable \subseteq Blocks /\ faults \subseteq Blocks
  /\ clock \in Nat /\ fua \subseteq 1 .. clock /\ requests \in 0 .. MaxRequests
LockTypes ==
  /\ pbi_lock \in [Blocks -> Tasks \cup {Null}] /\ flush_lock \in [Buffers -> Tasks \cup {Null}]
  /\ wr_barrier_lock \in Clients \cup {Null} /\ num_flying_wr \in Int
Types == DataTypes /\ LockTypes /\ task \in [Tasks -> TaskType]

\* Stamps never come from the future.
Stamps ==
  /\ \A s \in Sectors : /\ pm[s] <= clock /\ nvm[s] <= clock
                        /\ latest[s] <= clock /\ done[s] <= latest[s]
  /\ \A f \in Buffers, i \in Positions, k \in 0 .. SPB - 1 : slot[f][i].data[k] <= clock
  /\ \A t \in Tasks, s \in Sectors : /\ task[t].stamps[s] <= latest[s]
                                     /\ task[t].need[s] <= latest[s]

\* What a task may do, by what it carries.
FlushPcs == {"check", "flush", "range", "cleaned"}
Carries(t) == task[t].req.op \in {"read", "write"}
\* A writer that has no room in the buffer yet, and holds the lock of its block.
Seeking(t) ==
  /\ t \in Clients /\ task[t].req.op = "write"
  /\ task[t].pc \in FlushPcs \cup {"alloc"}

ClientControl(t) ==
  LET pc == task[t].pc
      op == task[t].req.op IN
  /\ pc # "idle" => op # "none"
  /\ pc \in {"barrier", "drain", "sync", "synced"} => op = "flush"
  /\ pc \in {"block", "copy"} => op \in {"read", "write"}
  /\ pc \in {"alloc", "check", "fua_lock", "fua_write"} => op = "write"
  /\ pc \in {"flush", "range", "cleaned"} => op \in {"write", "flush"}
  /\ Carries(t) => /\ {task[t].req.first, task[t].req.last} \subseteq Sectors
                   /\ task[t].req.first <= task[t].req.last
  /\ task[t].req.fua => op = "write"
  /\ pc \in {"fua_lock", "fua_write"} => task[t].req.fua
  /\ Carries(t) /\ pc \in {"gate", "enter", "block", "alloc", "copy", "fua_lock", "fua_write"}
       => task[t].b \in ReqBlocks(t)
  /\ Seeking(t) => task[t].fresh /\ task[t].b \in ReqBlocks(t)
  /\ Seeking(t) /\ pc # "alloc" => task[t].buf = BufferOf(task[t].b)
  /\ pc = "copy" /\ op = "read" => ~task[t].fresh

SyncerControl(f) == task[f].pc \in FlushPcs \cup {"idle"} /\ task[f].buf = f /\ ~task[f].req.fua

\* The blocks of its sequence that a flusher has locked and copied.
Synced(t) == {b \in Blocks : Min(task[t].todo) <= b /\ b < NextBlock(t)}

ControlOf(t) ==
  /\ t \in Clients => ClientControl(t)
  /\ t \in Buffers => SyncerControl(t)
  /\ task[t].pc # "panic"
  /\ task[t].pc = "range" => task[t].todo # {} /\ Synced(t) \subseteq Range1(t)
  /\ task[t].pc = "cleaned" => task[t].todo = {}
Control == \A t \in Tasks : ControlOf(t)

\* Who holds which lock.
Held(t) == {b \in Blocks :
  \/ task[t].pc = "copy" /\ b = task[t].b
  \/ Seeking(t) /\ b = task[t].b
  \/ task[t].pc = "range" /\ b \in Synced(t)
  \/ task[t].pc = "fua_lock" /\ b \in BlockOf(task[t].req.first) .. task[t].b - 1
  \/ task[t].pc = "fua_write" /\ b \in ReqBlocks(t)}
Flushes(t, f) == task[t].pc \in {"range", "cleaned"} /\ task[t].buf = f
Barring(t) ==
  task[t].req.op = "flush" /\ task[t].pc \in {"drain", "flush", "range", "cleaned", "sync", "synced"}
Locks ==
  /\ \A b \in Blocks, t \in Tasks : pbi_lock[b] = t <=> b \in Held(t)
  /\ \A f \in Buffers, t \in Tasks : flush_lock[f] = t <=> Flushes(t, f)
  /\ \A t \in Clients : wr_barrier_lock = t <=> Barring(t)

\* The bios counted as in flight.
Flying(t) ==
  \/ task[t].pc \in {"block", "alloc", "copy", "fua_lock", "fua_write", "end"}
  \/ task[t].pc \in FlushPcs /\ task[t].req.op = "write"
Counted == num_flying_wr = Cardinality({t \in Clients : Flying(t)})

\* The k-th dirty position of a buffer; the dirty blocks a flusher has taken.
At(f, k) == (ring[f].pos_dirty + k) % NumBlocks
Taken(t) == task[t].cleaned + Cardinality(task[t].todo)

\* The ring and the links of the PM blocks agree, but for the blocks that the
\* flusher in progress has unlinked, which are among those it has taken.
Ring(f) ==
  /\ ring[f].pos_clean = At(f, ring[f].num_dirty)
  /\ \A k \in 0 .. ring[f].num_dirty - 1 :
       LET b == slot[f][At(f, k)].pbn IN
       \/ b \in Blocks /\ BufferOf(b) = f /\ bbn[b] = At(f, k)
       \/ \E t \in Tasks : Flushes(t, f) /\ k < Taken(t)
  /\ \A b \in Blocks : BufferOf(b) = f /\ IsBuffered(b) =>
       /\ slot[f][bbn[b]].pbn = b
       /\ \E k \in 0 .. ring[f].num_dirty - 1 : bbn[b] = At(f, k)
       /\ slot[f][bbn[b]].dirty \/ \E t \in Tasks : task[t].pc = "range" /\ b \in Synced(t)
Flushed(t) ==
  LET f == task[t].buf IN
  task[t].pc \in {"range", "cleaned"} =>
    /\ Taken(t) <= ring[f].num_dirty
    /\ \A b \in task[t].todo :
         BufferOf(b) = f /\ IsBuffered(b) /\ \E k \in 0 .. Taken(t) - 1 : bbn[b] = At(f, k)
    /\ \A k \in 0 .. Taken(t) - 1 :
         LET b == slot[f][At(f, k)].pbn IN b = NoBlock \/ (b \in task[t].todo /\ bbn[b] = At(f, k))
\* Only a block without a buffer block is given one; a write copies to the one of its block.
Placed(t) ==
  /\ Seeking(t) => ~IsBuffered(task[t].b)
  /\ task[t].pc = "copy" /\ task[t].req.op = "write" => IsBuffered(task[t].b)
Rings ==
  /\ \A f \in Buffers : Ring(f)
  /\ \A t \in Tasks : Flushed(t)
  /\ \A t \in Clients : Placed(t)

\* Where the last write to a sector is: in the buffer block, unless that is about
\* to be filled.
Good(v, s) == v = latest[s] \/ v \in late
Fills(t) == t \in Clients /\ task[t].pc = "copy" /\ task[t].req.op = "write" /\ task[t].fresh
Filling(b) == \E t \in Clients : Fills(t) /\ task[t].b = b
GoodAt(s) == IF Filling(BlockOf(s)) THEN Good(pm[s], s) ELSE Good(Visible(s), s)
\* What a flusher has synced.
CopiedAt(t, s) == task[t].pc = "range" /\ BlockOf(s) \in Synced(t) => pm[s] = Visible(s)
Contents == (\A s \in Sectors : GoodAt(s)) /\ (\A t \in Tasks, s \in Sectors : CopiedAt(t, s))

\* The second copy of a FUA write: what it stores are stamps of FUA writes, and so are late ones.
FirstCopyPcs == FlushPcs \cup {"gate", "enter", "block", "alloc", "copy"}
FuaStampsOf(t) ==
  \A s \in Sectors : task[t].req.fua =>
    /\ s \notin task[t].req.first .. task[t].req.last => task[t].stamps[s] = 0
    /\ task[t].pc \in {"fua_lock", "fua_write"} /\ s \in task[t].req.first .. task[t].req.last
         => task[t].stamps[s] \in fua
    /\ task[t].pc \in FirstCopyPcs
         /\ s \in task[t].req.first .. task[t].req.last /\ BlockOf(s) < task[t].b
         => task[t].stamps[s] \in fua
FuaStamps == late \subseteq fua /\ \A t \in Clients : FuaStampsOf(t)

Pages ==
  fua = {} => /\ faults = {}
              /\ \A t \in Tasks : task[t].pc = "range" => Range1(t) \subseteq writable

\* What a barrier, and a FUA write, has seen to.
Safe(v, t, s) == v >= task[t].need[s] \/ v \in late
Stored(v, t, s) == v >= task[t].stamps[s] \/ v \in late
BarriersOf(t) ==
  \A s \in Sectors :
    LET f == BufferOf(BlockOf(s)) IN
    /\ task[t].req.op = "flush" /\ task[t].pc \in {"flush", "range", "cleaned"} /\ f < task[t].buf
         => Safe(pm[s], t, s)
    /\ task[t].req.op = "flush" /\ task[t].pc = "range" /\ f = task[t].buf
         => BlockOf(s) \in task[t].todo \ Synced(t) \/ Safe(pm[s], t, s)
    /\ task[t].req.op = "flush" /\ task[t].pc = "cleaned" /\ f = task[t].buf => Safe(pm[s], t, s)
    /\ task[t].pc = "sync" => Safe(pm[s], t, s)
    /\ task[t].pc = "synced" => Safe(nvm[s], t, s)
    /\ task[t].pc = "end" /\ task[t].req.fua => Stored(pm[s], t, s) /\ Stored(nvm[s], t, s)
Barriers == \A t \in Clients : BarriersOf(t)

Inv == /\ Types /\ Stamps /\ Control /\ Locks /\ Counted /\ Rings
       /\ Contents /\ FuaStamps /\ Pages /\ Barriers /\ FreshReads
-----------------------------------------------------------------------------
(***************************************************************************)
(* Constants and arithmetic.                                               *)
(***************************************************************************)
LEMMA Consts ==
  /\ {SPB, NumBuffers, Stride, NumBlocks} \subseteq Nat \ {0} /\ {BatchSize, MaxRequests} \subseteq Nat
  /\ Cardinality(Blocks) \in Nat \ {0} /\ Blocks = 0 .. Cardinality(Blocks) - 1
  /\ 0 \in Blocks /\ 0 \in Buffers /\ 0 \in Positions
  /\ Unbuffered \in Nat /\ Unbuffered >= NumBlocks /\ NoBlock \in Nat /\ NoBlock \notin Blocks
  /\ Clients \subseteq Tasks /\ Buffers \subseteq Tasks /\ Clients \cap Buffers = {} /\ Null \notin Tasks
  /\ IsFiniteSet(Clients) /\ IsFiniteSet(Blocks)
  <1>1. Cardinality(Blocks) \in Nat /\ Cardinality(Blocks) # 0
    BY PmbdAssumption, FS_CardinalityType, FS_EmptySet
  <1>2. NumBlocks \in Nat /\ NumBlocks >= 1 /\ NumBlocks <= Cardinality(Blocks) + 3
    BY <1>1, PmbdAssumption
  <1>3. NoBlock \notin Blocks
    BY <1>1, PmbdAssumption DEF NoBlock
  <1>4. 0 \in Blocks
    BY <1>1, PmbdAssumption
  <1> QED
    BY <1>1, <1>2, <1>3, <1>4, PmbdAssumption DEF Unbuffered, NoBlock, Buffers, Tasks, Positions

\* Division by a positive number.
LEMMA DivMod ==
  ASSUME NEW s \in Nat, NEW n \in Nat \ {0}
  PROVE  s \div n \in Nat /\ s % n \in 0 .. n - 1 /\ (s \div n) * n <= s /\ s < (s \div n) * n + n
  BY SMT

\* A quotient is the only number that fits.
LEMMA DivUnique ==
  ASSUME NEW s \in Nat, NEW n \in Nat \ {0}, NEW b \in Nat, b * n <= s, s < b * n + n
  PROVE  s \div n = b
  BY SMT

\* A position of a ring, at most one round further on.
LEMMA ModWrap ==
  ASSUME NEW n \in Nat \ {0}, NEW p \in 0 .. n - 1, NEW k \in 0 .. n
  PROVE  (p + k) % n = IF p + k < n THEN p + k ELSE p + k - n
  BY SMT

\* Products grow with their factors.
LEMMA TimesMonotone ==
  ASSUME NEW a \in Nat, NEW b \in Nat, NEW n \in Nat, a <= b
  PROVE  a * n <= b * n /\ a * n \in Nat
  BY SMT

\* A sector lies in one block, at one offset.
LEMMA SectorOfBlock ==
  ASSUME NEW s \in Sectors
  PROVE  /\ BlockOf(s) \in Blocks /\ s \in Sect(BlockOf(s))
         /\ s - BlockOf(s) * SPB \in 0 .. SPB - 1 /\ s \in Nat
  <1> DEFINE n == Cardinality(Blocks)
  <1>1. s \in Nat /\ s < SPB * n /\ n \in Nat /\ SPB \in Nat \ {0}
    BY Consts DEF Sectors
  <1>2. BlockOf(s) \in Nat /\ BlockOf(s) * SPB <= s /\ s < BlockOf(s) * SPB + SPB
    BY <1>1, DivMod DEF BlockOf
  <1>3. BlockOf(s) < n
    <2> SUFFICES ASSUME n <= BlockOf(s) PROVE FALSE
      BY <1>1, <1>2
    <2>1. n * SPB <= BlockOf(s) * SPB
      BY <1>1, <1>2, TimesMonotone
    <2>2. n * SPB = SPB * n
      BY <1>1, SMT
    <2> HIDE DEF n
    <2> QED
      BY <1>1, <1>2, <2>1, <2>2
  <1>4. BlockOf(s) * SPB \in Nat
    BY <1>1, <1>2, TimesMonotone
  <1> DEFINE q == BlockOf(s) * SPB
  <1>5. q \in Nat /\ q <= s /\ s < q + SPB /\ Sect(BlockOf(s)) = q .. q + SPB - 1
    BY <1>2, <1>4 DEF Sect
  <1>6. BlockOf(s) \in Blocks
    BY <1>1, <1>2, <1>3, Consts
  <1>7. s \in Sect(BlockOf(s)) /\ s - q \in 0 .. SPB - 1
    <2> HIDE DEF q
    <2> QED
      BY <1>1, <1>5
  <1> QED
    BY <1>1, <1>6, <1>7

\* The sectors of a block, by number.
LEMMA BlockOfSector ==
  ASSUME NEW b \in Blocks, NEW k \in 0 .. SPB - 1
  PROVE  b * SPB + k \in Sectors /\ BlockOf(b * SPB + k) = b /\ b * SPB \in Nat
  <1> DEFINE n == Cardinality(Blocks)
  <1>1. n \in Nat /\ b \in Nat /\ b + 1 <= n /\ SPB \in Nat \ {0} /\ k \in Nat /\ k < SPB
    BY Consts
  <1>2. b * SPB \in Nat /\ (b + 1) * SPB <= n * SPB /\ (b + 1) * SPB = b * SPB + SPB
    BY <1>1, TimesMonotone
  <1>3. n * SPB = SPB * n
    BY <1>1, SMT
  <1>4. b * SPB + k \in Sectors
    <2> HIDE DEF n
    <2>1. b * SPB + k \in Nat /\ b * SPB + k < SPB * n /\ SPB * n \in Nat
      BY <1>1, <1>2, <1>3
    <2> QED
      BY <2>1 DEF Sectors, n
  <1>5. BlockOf(b * SPB + k) = b
    <2>1. b * SPB <= b * SPB + k /\ b * SPB + k < b * SPB + SPB /\ b * SPB + k \in Nat
      BY <1>1, <1>2
    <2> QED
      BY <1>1, <2>1, DivUnique DEF BlockOf
  <1> QED
    BY <1>2, <1>4, <1>5

\* A sector is in the block it belongs to, and in no other.
LEMMA SectOfBlock ==
  ASSUME NEW b \in Blocks, NEW s \in Sectors
  PROVE  s \in Sect(b) <=> BlockOf(s) = b
  <1>1. SPB \in Nat \ {0} /\ b \in Nat /\ s \in Nat
    BY Consts, SectorOfBlock
  <1>2. b * SPB \in Nat
    BY <1>1, TimesMonotone
  <1>3. ASSUME s \in Sect(b) PROVE BlockOf(s) = b
    <2>1. b * SPB <= s /\ s < b * SPB + SPB
      BY <1>1, <1>2, <1>3 DEF Sect
    <2> QED
      BY <1>1, <2>1, DivUnique DEF BlockOf
  <1> QED
    BY <1>3, SectorOfBlock

\* Later sectors are in later blocks.
LEMMA BlockOfMonotone ==
  ASSUME NEW s \in Sectors, NEW r \in Sectors, s <= r
  PROVE  BlockOf(s) <= BlockOf(r)
  <1>1. /\ BlockOf(s) \in Nat /\ BlockOf(r) \in Nat /\ SPB \in Nat /\ s \in Nat /\ r \in Nat
        /\ BlockOf(s) * SPB <= s /\ r < BlockOf(r) * SPB + SPB
    BY Consts, SectorOfBlock, DivMod DEF BlockOf
  <1> SUFFICES ASSUME BlockOf(r) + 1 <= BlockOf(s) PROVE FALSE
    BY <1>1
  <1>2. (BlockOf(r) + 1) * SPB <= BlockOf(s) * SPB /\ (BlockOf(r) + 1) * SPB = BlockOf(r) * SPB + SPB
    BY <1>1, TimesMonotone
  <1> QED
    BY <1>1, <1>2

\* Every block has a buffer of the device.
LEMMA BufferOfBlock ==
  ASSUME NEW b \in Blocks
  PROVE  BufferOf(b) \in Buffers
  <1>1. b \in Nat /\ Stride \in Nat \ {0} /\ NumBuffers \in Nat \ {0}
    BY Consts
  <1>2. b \div Stride \in Nat
    BY <1>1, DivMod
  <1> QED
    BY <1>1, <1>2, DivMod DEF BufferOf, Buffers

\* The blocks of a request with sectors.
LEMMA RequestBlocks ==
  ASSUME NEW first \in Sectors, NEW last \in Sectors, first <= last
  PROVE  /\ BlockOf(first) .. BlockOf(last) \subseteq Blocks
         /\ BlockOf(first) \in BlockOf(first) .. BlockOf(last)
         /\ \A s \in first .. last : s \in Sectors /\ BlockOf(s) \in BlockOf(first) .. BlockOf(last)
  <1>1. BlockOf(first) \in Blocks /\ BlockOf(last) \in Blocks /\ BlockOf(first) <= BlockOf(last)
    BY SectorOfBlock, BlockOfMonotone
  <1>2. ASSUME NEW s \in first .. last
        PROVE  s \in Sectors /\ BlockOf(s) \in BlockOf(first) .. BlockOf(last)
    <2>1. s \in Sectors /\ first <= s /\ s <= last
      BY Consts DEF Sectors
    <2>2. BlockOf(first) <= BlockOf(s) /\ BlockOf(s) <= BlockOf(last) /\ BlockOf(s) \in Blocks
      BY <2>1, SectorOfBlock, BlockOfMonotone
    <2> QED
      BY <2>1, <2>2, <1>1, Consts
  <1> QED
    BY <1>1, <1>2, Consts

\* Positions of the ring.
LEMMA RingArithmetic ==
  ASSUME NEW n \in Nat \ {0}, NEW p \in 0 .. n - 1
  PROVE  /\ \A k \in 0 .. n : (p + k) % n \in 0 .. n - 1
         /\ \A k, j \in 0 .. n - 1 : (p + k) % n = (p + j) % n => k = j
         /\ \A k \in 0 .. n - 1 : (p + (k + 1)) % n = IF (p + k) % n = n - 1 THEN 0 ELSE ((p + k) % n) + 1
         /\ \A k \in 0 .. n, j \in 0 .. n : k + j <= n => (((p + k) % n) + j) % n = (p + (k + j)) % n
  <1>1. \A k \in 0 .. n : (p + k) % n = IF p + k < n THEN p + k ELSE p + k - n
    BY ModWrap
  <1>2. \A k \in 0 .. n : (p + k) % n \in 0 .. n - 1
    BY <1>1
  <1>3. ASSUME NEW k \in 0 .. n, NEW j \in 0 .. n, k + j <= n
        PROVE  (((p + k) % n) + j) % n = (p + (k + j)) % n
    <2>1. (p + k) % n \in 0 .. n - 1 /\ k + j \in 0 .. n
      BY <1>2, <1>3
    <2>2. (((p + k) % n) + j) % n = IF ((p + k) % n) + j < n THEN ((p + k) % n) + j ELSE ((p + k) % n) + j - n
      BY <2>1, ModWrap
    <2>3. (p + (k + j)) % n = IF p + (k + j) < n THEN p + (k + j) ELSE p + (k + j) - n
      BY <2>1, <1>1
    <2>4. (p + k) % n = IF p + k < n THEN p + k ELSE p + k - n
      BY <1>1
    <2> DEFINE m == (p + k) % n
    <2> HIDE DEF m
    <2> QED
      BY <2>1, <2>2, <2>3, <2>4, <1>3 DEF m
  <1>4. ASSUME NEW k \in 0 .. n - 1, NEW j \in 0 .. n - 1, (p + k) % n = (p + j) % n PROVE k = j
    BY <1>1, <1>4
  <1>5. ASSUME NEW k \in 0 .. n - 1
        PROVE  (p + (k + 1)) % n = IF (p + k) % n = n - 1 THEN 0 ELSE ((p + k) % n) + 1
    <2>1. /\ (p + k) % n = IF p + k < n THEN p + k ELSE p + k - n
          /\ (p + (k + 1)) % n = IF p + (k + 1) < n THEN p + (k + 1) ELSE p + (k + 1) - n
      <3>1. k \in 0 .. n /\ k + 1 \in 0 .. n
        OBVIOUS
      <3> QED
        BY <1>1, <3>1
    <2> QED
      BY <2>1
  <1> QED
    BY <1>2, <1>3, <1>4, <1>5

\* The positions of a buffer's ring, from the first dirty one on.
LEMMA RingPositions ==
  ASSUME Types, NEW f \in Buffers
  PROVE  /\ ring[f].num_dirty \in 0 .. NumBlocks /\ NumBlocks \in Nat \ {0}
         /\ \A k \in 0 .. NumBlocks : At(f, k) \in Positions
         /\ \A k, j \in 0 .. NumBlocks - 1 : At(f, k) = At(f, j) => k = j
         /\ \A k \in 0 .. NumBlocks - 1 : At(f, k + 1) = NextPos(At(f, k))
         /\ \A k, j \in 0 .. NumBlocks : k + j <= NumBlocks => (At(f, k) + j) % NumBlocks = At(f, k + j)
  <1>1. NumBlocks \in Nat \ {0} /\ ring[f].pos_dirty \in 0 .. NumBlocks - 1
        /\ ring[f].num_dirty \in 0 .. NumBlocks
    BY Consts DEF Types, DataTypes, RingType, Positions
  <1> DEFINE p == ring[f].pos_dirty
  <1> HIDE DEF p
  <1>2. p \in 0 .. NumBlocks - 1
    BY <1>1 DEF p
  <1>3. \A k : At(f, k) = (p + k) % NumBlocks
    BY DEF At, p
  <1>4. /\ \A k \in 0 .. NumBlocks : (p + k) % NumBlocks \in 0 .. NumBlocks - 1
        /\ \A k, j \in 0 .. NumBlocks - 1 : (p + k) % NumBlocks = (p + j) % NumBlocks => k = j
        /\ \A k \in 0 .. NumBlocks - 1 : (p + (k + 1)) % NumBlocks =
              IF (p + k) % NumBlocks = NumBlocks - 1 THEN 0 ELSE ((p + k) % NumBlocks) + 1
        /\ \A k \in 0 .. NumBlocks, j \in 0 .. NumBlocks : k + j <= NumBlocks =>
              (((p + k) % NumBlocks) + j) % NumBlocks = (p + (k + j)) % NumBlocks
    BY <1>1, <1>2, RingArithmetic
  <1>5. \A k \in 0 .. NumBlocks : At(f, k) \in Positions
    BY <1>3, <1>4 DEF Positions
  <1>6. \A k, j \in 0 .. NumBlocks - 1 : At(f, k) = At(f, j) => k = j
    BY <1>3, <1>4
  <1>7. \A k \in 0 .. NumBlocks - 1 : At(f, k + 1) = NextPos(At(f, k))
    BY <1>3, <1>4 DEF NextPos
  <1>8. \A k, j \in 0 .. NumBlocks : k + j <= NumBlocks => (At(f, k) + j) % NumBlocks = At(f, k + j)
    BY <1>3, <1>4
  <1> QED
    BY <1>1, <1>5, <1>6, <1>7, <1>8

-----------------------------------------------------------------------------
(***************************************************************************)
(* What each action makes of the task that takes it.                       *)
(***************************************************************************)
Steps(t) == task' \in [Tasks -> TaskType] /\ \A u \in Tasks \ {t} : task'[u] = task[u]
SameBio(t) == task'[t].req = task[t].req /\ task'[t].need = task[t].need
SameCopy(t) ==
  /\ task'[t].b = task[t].b /\ task'[t].fresh = task[t].fresh
  /\ task'[t].stamps = task[t].stamps /\ task'[t].ok = task[t].ok
SameFlush(t) ==
  /\ task'[t].buf = task[t].buf /\ task'[t].todo = task[t].todo
  /\ task'[t].synced = task[t].synced /\ task'[t].cleaned = task[t].cleaned
Moves(t, pc) == Steps(t) /\ task'[t].pc = pc /\ SameBio(t) /\ SameCopy(t) /\ SameFlush(t)

\* A step that gives t another state is a step of t alone.
LEMMA TaskReplaced ==
  ASSUME Types, NEW t \in Tasks, NEW r \in TaskType, task' = [task EXCEPT ![t] = r]
  PROVE  Steps(t) /\ task'[t] = r
  BY DEF Types, Steps

\* The types of what a task keeps.
LEMMA TaskFields ==
  ASSUME Types, NEW t \in Tasks
  PROVE  /\ task[t] \in TaskType /\ task[t].pc \in TaskPcs /\ task[t].req \in ReqType /\ task[t].b \in Nat
         /\ task[t].fresh \in BOOLEAN /\ task[t].buf \in Buffers /\ task[t].todo \subseteq Blocks
         /\ task[t].synced \in Nat /\ task[t].cleaned \in Nat /\ task[t].ok \in BOOLEAN
         /\ task[t].need \in [Sectors -> Nat] /\ task[t].stamps \in [Sectors -> Nat]
  BY DEF Types, TaskType

\* The idle task has the type of a task.
LEMMA IdleType == Idle \in TaskType /\ Zeros \in [Sectors -> Nat]
  BY Consts DEF Idle, TaskType, TaskPcs, NoRequest, ReqType, Zeros

\* Goto changes where the task is and nothing else.
LEMMA GotoMoves ==
  ASSUME Types, NEW t \in Tasks, NEW pc \in TaskPcs, Goto(t, pc)
  PROVE  Moves(t, pc)
  <1> DEFINE r == [task[t] EXCEPT !.pc = pc]
  <1>1. r \in TaskType /\ r.pc = pc /\ r.req = task[t].req /\ r.need = task[t].need
        /\ r.b = task[t].b /\ r.fresh = task[t].fresh /\ r.stamps = task[t].stamps /\ r.ok = task[t].ok
        /\ r.buf = task[t].buf /\ r.todo = task[t].todo /\ r.synced = task[t].synced
        /\ r.cleaned = task[t].cleaned
    BY TaskFields DEF TaskType
  <1>2. task' = [task EXCEPT ![t] = r]
    BY DEF Goto
  <1> HIDE DEF r
  <1>3. Steps(t) /\ task'[t] = r
    BY <1>1, <1>2, TaskReplaced
  <1> QED
    BY <1>1, <1>3 DEF Moves, SameBio, SameCopy, SameFlush

\* Where the three callers of a flush go on.
LEMMA ReturnMoves ==
  ASSUME Types, NEW t \in Tasks, NEW d \in Nat, task' = [task EXCEPT ![t] = Return(t, d)]
  PROVE  /\ Steps(t)
         /\ t \in Buffers => \E pc \in {"check", "idle"} : task'[t] = [Idle EXCEPT !.buf = t, !.pc = pc]
         /\ t \in Clients /\ task[t].req.op = "write" => Moves(t, "alloc")
         /\ t \in Clients /\ task[t].req.op # "write" =>
              /\ SameBio(t) /\ SameCopy(t)
              /\ task'[t].todo = task[t].todo
              /\ \/ task'[t].pc = "flush" /\ task'[t].buf = task[t].buf + 1 /\ task[t].buf < NumBuffers - 1
                 \/ task'[t].pc = "sync" /\ task'[t].buf = task[t].buf /\ task[t].buf = NumBuffers - 1
  <1>0. NumBuffers \in Nat \ {0} /\ Clients \cap Buffers = {} /\ Tasks = Clients \cup Buffers
    BY Consts DEF Tasks
  <1>1. CASE t \in Buffers
    <2> DEFINE pc == IF 10 * d >= NumBlocks THEN "check" ELSE "idle"
               r == [Idle EXCEPT !.buf = t, !.pc = pc]
    <2>1. pc \in {"check", "idle"} /\ Return(t, d) = r
      BY <1>1 DEF Return
    <2>2. r \in TaskType
      BY <2>1, <1>1, IdleType DEF TaskType, TaskPcs
    <2> HIDE DEF r
    <2>3. Steps(t) /\ task'[t] = r
      BY <2>1, <2>2, TaskReplaced
    <2> QED
      BY <2>1, <2>3, <1>0, <1>1 DEF r
  <1>2. CASE t \in Clients /\ task[t].req.op = "write"
    <2>1. t \notin Buffers /\ Return(t, d) = [task[t] EXCEPT !.pc = "alloc"]
      BY <1>0, <1>2 DEF Return
    <2>2. Goto(t, "alloc") /\ "alloc" \in TaskPcs
      BY <2>1 DEF Goto, TaskPcs
    <2>3. Moves(t, "alloc")
      BY <2>2, GotoMoves
    <2> QED
      BY <2>1, <2>3, <1>2 DEF Moves
  <1>3. CASE t \in Clients /\ task[t].req.op # "write" /\ task[t].buf < NumBuffers - 1
    <2> DEFINE r == [task[t] EXCEPT !.pc = "flush", !.buf = task[t].buf + 1]
    <2>1. t \notin Buffers /\ Return(t, d) = r
      BY <1>0, <1>3 DEF Return
    <2>2. task[t].buf + 1 \in Buffers /\ task[t].buf + 1 \in Int
      BY <1>0, <1>3, TaskFields DEF Buffers
    <2>3. r \in TaskType /\ r.pc = "flush" /\ r.buf = task[t].buf + 1 /\ r.req = task[t].req
          /\ r.need = task[t].need /\ r.b = task[t].b /\ r.fresh = task[t].fresh
          /\ r.stamps = task[t].stamps /\ r.ok = task[t].ok /\ r.todo = task[t].todo
      BY <2>2, TaskFields DEF TaskType, TaskPcs
    <2> HIDE DEF r
    <2>4. Steps(t) /\ task'[t] = r
      BY <2>1, <2>3, TaskReplaced
    <2> QED
      BY <2>1, <2>3, <2>4, <1>3 DEF SameBio, SameCopy
  <1>4. CASE t \in Clients /\ task[t].req.op # "write" /\ ~(task[t].buf < NumBuffers - 1)
    <2>1. t \notin Buffers /\ Return(t, d) = [task[t] EXCEPT !.pc = "sync"]
      BY <1>0, <1>4 DEF Return
    <2>2. Goto(t, "sync") /\ "sync" \in TaskPcs
      BY <2>1 DEF Goto, TaskPcs
    <2>3. Moves(t, "sync")
      BY <2>2, GotoMoves
    <2>4. task[t].buf = NumBuffers - 1
      <3>1. task[t].buf \in 0 .. NumBuffers - 1
        BY TaskFields DEF Buffers
      <3> QED
        BY <1>0, <1>4, <3>1
    <2> QED
      BY <2>1, <2>3, <2>4, <1>4 DEF Moves, SameFlush
  <1> QED
    BY <1>0, <1>1, <1>2, <1>3, <1>4

\* A new bio starts by its kind, and needs what had ended before it.
LEMMA SubmitTask ==
  ASSUME Types, NEW t \in Clients, NEW q \in Requests[t], Submit(t, q)
  PROVE  /\ Steps(t)
         /\ task'[t].pc = CASE q.op = "flush" -> "barrier" [] q.op = "write" -> "gate" [] OTHER -> "enter"
         /\ task'[t].req = q /\ task'[t].need = done /\ task'[t].stamps = Zeros /\ task'[t].ok = TRUE
         /\ task'[t].b = BlockOf(q.first)
  <1> DEFINE pc == CASE q.op = "flush" -> "barrier" [] q.op = "write" -> "gate" [] OTHER -> "enter"
  <1>1. q \in ReqType /\ BlockOf(q.first) \in Nat /\ t \in Tasks /\ done \in [Sectors -> Nat]
    BY RequestsAssumption, Consts, DivMod DEF ReqType, BlockOf, Types, DataTypes
  <1>2. task' = [task EXCEPT ![t] = [Idle EXCEPT !.pc = pc, !.req = q, !.b = BlockOf(q.first), !.need = done]]
    BY DEF Submit
  <1>3. pc \in TaskPcs
    BY DEF TaskPcs
  <1> HIDE DEF pc
  <1> DEFINE r == [Idle EXCEPT !.pc = pc, !.req = q, !.b = BlockOf(q.first), !.need = done]
  <1>4. r \in TaskType
    BY <1>1, <1>3, IdleType DEF TaskType
  <1>5. r.pc = pc /\ r.req = q /\ r.need = done /\ r.stamps = Zeros /\ r.ok = TRUE
        /\ r.b = BlockOf(q.first)
    BY DEF Idle
  <1> HIDE DEF r
  <1>6. Steps(t) /\ task'[t] = r
    BY <1>1, <1>2, <1>4, TaskReplaced DEF r
  <1> QED
    BY <1>5, <1>6 DEF pc

\* A bio that has ended leaves an idle context.
LEMMA IdleTask ==
  ASSUME Types, NEW t \in Tasks, task' = [task EXCEPT ![t] = Idle]
  PROVE  Steps(t) /\ task'[t] = Idle
  BY IdleType, TaskReplaced

\* With the block locked, a write without a buffer block asks for one.
LEMMA LockBlockTask ==
  ASSUME Types, NEW t \in Clients, LockBlock(t)
  PROVE  /\ Steps(t) /\ SameBio(t) /\ SameFlush(t)
         /\ task'[t].pc = IF task[t].req.op = "write" /\ ~IsBuffered(task[t].b) THEN "alloc" ELSE "copy"
         /\ task'[t].fresh = (task[t].req.op = "write" /\ ~IsBuffered(task[t].b))
         /\ task'[t].b = task[t].b /\ task'[t].stamps = task[t].stamps /\ task'[t].ok = task[t].ok
  <1> DEFINE r == [task[t] EXCEPT
       !.pc = IF task[t].req.op = "write" /\ ~IsBuffered(task[t].b) THEN "alloc" ELSE "copy",
       !.fresh = task[t].req.op = "write" /\ ~IsBuffered(task[t].b)]
  <1>0. t \in Tasks
    BY Consts
  <1>1. r \in TaskType /\ r.pc = (IF task[t].req.op = "write" /\ ~IsBuffered(task[t].b) THEN "alloc" ELSE "copy") /\ r.fresh = (task[t].req.op = "write" /\ ~IsBuffered(task[t].b)) /\ r.req = task[t].req
        /\ r.b = task[t].b /\ r.buf = task[t].buf /\ r.todo = task[t].todo /\ r.synced = task[t].synced
        /\ r.cleaned = task[t].cleaned /\ r.need = task[t].need /\ r.stamps = task[t].stamps /\ r.ok = task[t].ok
    <2> DEFINE w == task[t].req.op = "write" /\ ~IsBuffered(task[t].b)
               p == IF w THEN "alloc" ELSE "copy"
    <2>1. task[t] \in TaskType
      BY <1>0, TaskFields
    <2>2. p \in TaskPcs /\ w \in BOOLEAN
      BY DEF TaskPcs
    <2>3. r = [task[t] EXCEPT !.pc = p, !.fresh = w]
      OBVIOUS
    <2> HIDE DEF r, w, p
    <2>4. r \in TaskType /\ r.pc = p /\ r.fresh = w /\ r.req = task[t].req
          /\ r.b = task[t].b /\ r.buf = task[t].buf /\ r.todo = task[t].todo /\ r.synced = task[t].synced
          /\ r.cleaned = task[t].cleaned /\ r.need = task[t].need /\ r.stamps = task[t].stamps /\ r.ok = task[t].ok
      BY <2>1, <2>2, <2>3 DEF TaskType
    <2> QED
      BY <2>4 DEF p, w
  <1>2. task' = [task EXCEPT ![t] = r]
    BY DEF LockBlock
  <1> HIDE DEF r
  <1>3. Steps(t) /\ task'[t] = r
    BY <1>0, <1>1, <1>2, TaskReplaced
  <1> QED
    BY <1>1, <1>3 DEF SameBio, SameCopy, SameFlush

\* A writer without room turns to the buffer of its block.
LEMMA AllocFullTask ==
  ASSUME Types, NEW t \in Clients, AllocFull(t)
  PROVE  /\ Steps(t) /\ SameBio(t) /\ SameCopy(t)
         /\ task'[t].pc = "check" /\ task'[t].buf = BufferOf(task[t].b)
         /\ task'[t].todo = task[t].todo
  <1> DEFINE r == [task[t] EXCEPT !.pc = "check", !.buf = BufferOf(task[t].b)]
  <1>0. t \in Tasks /\ BufferOf(task[t].b) \in Buffers
    BY Consts, TaskFields, DivMod DEF BufferOf, Buffers
  <1>1. r \in TaskType /\ r.pc = "check" /\ r.buf = BufferOf(task[t].b) /\ r.req = task[t].req
        /\ r.b = task[t].b /\ r.fresh = task[t].fresh /\ r.todo = task[t].todo /\ r.synced = task[t].synced
        /\ r.cleaned = task[t].cleaned /\ r.need = task[t].need /\ r.stamps = task[t].stamps /\ r.ok = task[t].ok
    BY <1>0, TaskFields DEF TaskType, TaskPcs
  <1>2. task' = [task EXCEPT ![t] = r]
    BY DEF AllocFull
  <1> HIDE DEF r
  <1>3. Steps(t) /\ task'[t] = r
    BY <1>0, <1>1, <1>2, TaskReplaced
  <1> QED
    BY <1>1, <1>3 DEF SameBio, SameCopy, SameFlush

\* Where a copy goes on.
Advanced(t, pc, b) ==
  \/ task[t].b < LastBlock(t) /\ pc = "block" /\ b = task[t].b + 1
  \/ ~(task[t].b < LastBlock(t)) /\ task[t].req.fua /\ pc = "fua_lock" /\ b = BlockOf(task[t].req.first)
  \/ ~(task[t].b < LastBlock(t)) /\ ~task[t].req.fua /\ pc = "end" /\ b = task[t].b

\* After moves a task on and changes nothing else.
LEMMA AfterTask ==
  ASSUME Types, NEW t \in Tasks
  PROVE  \E pc \in TaskPcs, b \in Nat : After(t) = [task[t] EXCEPT !.pc = pc, !.b = b] /\ Advanced(t, pc, b)
  <1>0. BlockOf(task[t].req.first) \in Nat /\ task[t].b \in Nat /\ task[t] \in TaskType
    BY Consts, TaskFields, DivMod DEF BlockOf, ReqType
  <1>1. {"block", "fua_lock", "end"} \subseteq TaskPcs
    BY DEF TaskPcs
  <1>2. CASE task[t].b < LastBlock(t)
    <2>1. After(t) = [task[t] EXCEPT !.pc = "block", !.b = task[t].b + 1]
      BY <1>2 DEF After
    <2>2. Advanced(t, "block", task[t].b + 1) /\ task[t].b + 1 \in Nat /\ "block" \in TaskPcs
      BY <1>0, <1>1, <1>2 DEF Advanced
    <2> QED
      BY <2>1, <2>2
  <1>3. CASE ~(task[t].b < LastBlock(t)) /\ task[t].req.fua
    <2>1. After(t) = [task[t] EXCEPT !.pc = "fua_lock", !.b = BlockOf(task[t].req.first)]
      BY <1>3 DEF After
    <2> QED
      BY <1>0, <1>1, <1>3, <2>1 DEF Advanced
  <1>4. CASE ~(task[t].b < LastBlock(t)) /\ ~task[t].req.fua
    <2>1. After(t) = [task[t] EXCEPT !.pc = "end", !.b = task[t].b]
      BY <1>0, <1>4 DEF After, TaskType
    <2> QED
      BY <1>0, <1>1, <1>4, <2>1 DEF Advanced
  <1> QED
    BY <1>2, <1>3, <1>4

Stamped(t) == [s \in Sectors |-> IF s \in Part(t) THEN clock + 1 ELSE task[t].stamps[s]]

\* A copy to the buffer leaves its stamps with the writer, and moves it on.
LEMMA CopyToTask ==
  ASSUME Types, NEW t \in Clients, CopyTo(t)
  PROVE  /\ Steps(t) /\ SameBio(t) /\ SameFlush(t) /\ Advanced(t, task'[t].pc, task'[t].b)
         /\ task'[t].fresh = task[t].fresh /\ task'[t].ok = task[t].ok /\ task'[t].stamps = Stamped(t)
  <1>0. t \in Tasks /\ task[t] \in TaskType
    BY Consts, TaskFields
  <1>1. PICK pc \in TaskPcs, b \in Nat : After(t) = [task[t] EXCEPT !.pc = pc, !.b = b] /\ Advanced(t, pc, b)
    BY <1>0, AfterTask
  <1>2. Stamped(t) \in [Sectors -> Nat] /\ clock' = clock + 1
    <2>1. clock \in Nat /\ clock' = clock + 1
      BY DEF Types, DataTypes, CopyTo
    <2>2. \A s \in Sectors : task[t].stamps[s] \in Nat
      BY <1>0, TaskFields
    <2> QED
      BY <2>1, <2>2 DEF Stamped
  <1> DEFINE r == [task[t] EXCEPT !.pc = pc, !.b = b, !.stamps = Stamped(t)]
             a == [task[t] EXCEPT !.pc = pc, !.b = b]
  <1>3. r \in TaskType /\ r.pc = pc /\ r.b = b /\ r.stamps = Stamped(t) /\ r.fresh = task[t].fresh
        /\ r.ok = task[t].ok /\ r.req = task[t].req /\ r.need = task[t].need /\ r.buf = task[t].buf
        /\ r.todo = task[t].todo /\ r.synced = task[t].synced /\ r.cleaned = task[t].cleaned
    BY <1>0, <1>2 DEF TaskType
  <1>4. [a EXCEPT !.stamps = Stamped(t)] = r /\ a.stamps = task[t].stamps
    BY <1>0 DEF TaskType
  <1>5. task' = [task EXCEPT ![t] = [After(t) EXCEPT !.stamps =
                   [s \in Sectors |-> IF s \in Part(t) THEN clock' ELSE After(t).stamps[s]]]]
    BY DEF CopyTo
  <1>6. task' = [task EXCEPT ![t] = r]
    <2>1. [s \in Sectors |-> IF s \in Part(t) THEN clock' ELSE After(t).stamps[s]] = Stamped(t)
      BY <1>1, <1>2, <1>4 DEF Stamped
    <2> HIDE DEF r, a
    <2>2. [After(t) EXCEPT !.stamps = Stamped(t)] = r
      BY <1>1, <1>4 DEF a
    <2> QED
      BY <1>5, <2>1, <2>2
  <1> HIDE DEF r, a
  <1>7. Steps(t) /\ task'[t] = r
    BY <1>0, <1>3, <1>6, TaskReplaced
  <1> QED
    BY <1>1, <1>3, <1>7 DEF SameBio, SameFlush

\* A copy from the driver judges what the reader finds, and moves it on.
LEMMA CopyFromTask ==
  ASSUME Types, NEW t \in Clients, CopyFrom(t)
  PROVE  /\ Steps(t) /\ SameBio(t) /\ SameFlush(t) /\ Advanced(t, task'[t].pc, task'[t].b)
         /\ task'[t].fresh = task[t].fresh /\ task'[t].stamps = task[t].stamps
         /\ task'[t].ok = (task[t].ok /\ \A s \in Part(t) : Visible(s) >= task[t].need[s] \/ Visible(s) \in late)
  <1>0. t \in Tasks /\ task[t] \in TaskType
    BY Consts, TaskFields
  <1>1. PICK pc \in TaskPcs, b \in Nat : After(t) = [task[t] EXCEPT !.pc = pc, !.b = b] /\ Advanced(t, pc, b)
    BY <1>0, AfterTask
  <1> DEFINE ok == task[t].ok /\ \A s \in Part(t) : Visible(s) >= task[t].need[s] \/ Visible(s) \in late
  <1>2. task' = [task EXCEPT ![t] = [After(t) EXCEPT !.ok = After(t).ok /\
                   \A s \in Part(t) : Visible(s) >= task[t].need[s] \/ Visible(s) \in late]]
    BY DEF CopyFrom
  <1>3. After(t).ok = task[t].ok
    BY <1>0, <1>1 DEF TaskType
  <1>4. task' = [task EXCEPT ![t] = [After(t) EXCEPT !.ok = ok]] /\ ok \in BOOLEAN
    BY <1>2, <1>3
  <1> HIDE DEF ok
  <1> DEFINE r == [task[t] EXCEPT !.pc = pc, !.b = b, !.ok = ok]
             a == [task[t] EXCEPT !.pc = pc, !.b = b]
  <1>5. r \in TaskType /\ r.pc = pc /\ r.b = b /\ r.stamps = task[t].stamps /\ r.fresh = task[t].fresh
        /\ r.ok = ok /\ r.req = task[t].req /\ r.need = task[t].need /\ r.buf = task[t].buf
        /\ r.todo = task[t].todo /\ r.synced = task[t].synced /\ r.cleaned = task[t].cleaned
    BY <1>0, <1>4 DEF TaskType
  <1>6. [a EXCEPT !.ok = ok] = r
    BY <1>0 DEF TaskType
  <1> HIDE DEF r
  <1>7. task' = [task EXCEPT ![t] = r]
    BY <1>1, <1>4, <1>6
  <1>8. Steps(t) /\ task'[t] = r
    BY <1>0, <1>5, <1>7, TaskReplaced
  <1> QED
    BY <1>1, <1>5, <1>8 DEF SameBio, SameFlush, ok

\* The second copy of a FUA write takes one block after the other.
LEMMA FuaLockTask ==
  ASSUME Types, NEW t \in Clients, FuaLock(t), LastBlock(t) \in Nat
  PROVE  /\ Steps(t) /\ SameBio(t) /\ SameFlush(t)
         /\ \/ task[t].b = LastBlock(t) /\ task'[t].pc = "fua_write" /\ task'[t].b = task[t].b
            \/ task[t].b # LastBlock(t) /\ task'[t].pc = "fua_lock" /\ task'[t].b = task[t].b + 1
         /\ task'[t].fresh = task[t].fresh /\ task'[t].stamps = task[t].stamps /\ task'[t].ok = task[t].ok
  <1>0. t \in Tasks /\ task[t].pc = "fua_lock"
    BY Consts DEF FuaLock
  <1> DEFINE pc == IF task[t].b = LastBlock(t) THEN "fua_write" ELSE task[t].pc
  <1>p. pc \in TaskPcs
    BY <1>0 DEF TaskPcs
  <1> HIDE DEF pc
  <1> DEFINE n == IF task[t].b = LastBlock(t) THEN task[t].b ELSE task[t].b + 1
  <1>n. n \in Nat
    BY <1>0, TaskFields
  <1> HIDE DEF n
  <1> DEFINE r == [task[t] EXCEPT !.pc = pc,
                           !.b = n]
  <1>1. r \in TaskType /\ r.pc = pc /\ r.b = n /\ r.req = task[t].req
        /\ r.fresh = task[t].fresh /\ r.buf = task[t].buf /\ r.todo = task[t].todo /\ r.synced = task[t].synced
        /\ r.cleaned = task[t].cleaned /\ r.need = task[t].need /\ r.stamps = task[t].stamps /\ r.ok = task[t].ok
    BY <1>0, TaskFields, <1>p, <1>n DEF TaskType
  <1>2. task' = [task EXCEPT ![t] = r]
    BY DEF FuaLock, pc, n
  <1> HIDE DEF r
  <1>3. Steps(t) /\ task'[t] = r
    BY <1>0, <1>1, <1>2, TaskReplaced
  <1> QED
    BY <1>0, <1>1, <1>3 DEF SameBio, SameCopy, SameFlush, pc, n

\* A flush that starts carries the blocks it has scanned.
LEMMA FlushTask ==
  ASSUME Types, NEW t \in Tasks, Flush(t),
         ~IsEmpty(task[t].buf), NumToClean(t) # 0, ~FoundClean(task[t].buf, NumToClean(t)),
         Scan(task[t].buf, NumToClean(t)) \subseteq Blocks
  PROVE  /\ Steps(t) /\ SameBio(t) /\ SameCopy(t)
         /\ task'[t].pc = "range" /\ task'[t].todo = Scan(task[t].buf, NumToClean(t))
         /\ task'[t].synced = 0 /\ task'[t].cleaned = 0 /\ task'[t].buf = task[t].buf
  <1> DEFINE r == [task[t] EXCEPT !.pc = "range", !.todo = Scan(task[t].buf, NumToClean(t)), !.synced = 0,
                           !.cleaned = 0]
  <1>1. r \in TaskType /\ r.pc = "range" /\ r.todo = Scan(task[t].buf, NumToClean(t)) /\ r.synced = 0
        /\ r.cleaned = 0 /\ r.req = task[t].req /\ r.b = task[t].b /\ r.fresh = task[t].fresh
        /\ r.buf = task[t].buf /\ r.need = task[t].need /\ r.stamps = task[t].stamps /\ r.ok = task[t].ok
    BY TaskFields DEF TaskType, TaskPcs
  <1>2. task' = [task EXCEPT ![t] = r]
    BY DEF Flush
  <1> HIDE DEF r
  <1>3. Steps(t) /\ task'[t] = r
    BY <1>1, <1>2, TaskReplaced
  <1> QED
    BY <1>1, <1>3 DEF SameBio, SameCopy, SameFlush

\* A block copied is counted.
LEMMA SyncBlockTask ==
  ASSUME Types, NEW t \in Tasks, SyncBlock(t)
  PROVE  /\ Steps(t) /\ SameBio(t) /\ SameCopy(t)
         /\ task'[t].pc = IF IsBuffered(NextBlock(t)) THEN "range" ELSE "panic"
         /\ task'[t].synced = task[t].synced + 1
         /\ task'[t].todo = task[t].todo /\ task'[t].cleaned = task[t].cleaned /\ task'[t].buf = task[t].buf
  <1>0. task[t].pc = "range"
    BY DEF SyncBlock
  <1> DEFINE pc == IF IsBuffered(NextBlock(t)) THEN task[t].pc ELSE "panic"
  <1>p. pc \in TaskPcs
    BY <1>0 DEF TaskPcs
  <1> HIDE DEF pc
  <1> DEFINE n == task[t].synced + 1
  <1>n. n \in Nat
    BY TaskFields
  <1> HIDE DEF n
  <1> DEFINE r == [task[t] EXCEPT !.synced = n,
                           !.pc = pc]
  <1>1. r \in TaskType /\ r.pc = pc /\ r.synced = n /\ r.req = task[t].req
        /\ r.b = task[t].b /\ r.fresh = task[t].fresh /\ r.buf = task[t].buf /\ r.todo = task[t].todo
        /\ r.cleaned = task[t].cleaned /\ r.need = task[t].need /\ r.stamps = task[t].stamps /\ r.ok = task[t].ok
    BY TaskFields, <1>p, <1>n DEF TaskType
  <1>2. task' = [task EXCEPT ![t] = r]
    BY DEF SyncBlock, pc, n
  <1> HIDE DEF r
  <1>3. Steps(t) /\ task'[t] = r
    BY <1>1, <1>2, TaskReplaced
  <1> QED
    BY <1>0, <1>1, <1>3 DEF SameBio, SameCopy, SameFlush, pc, n

\* A sequence done is taken from the list and added to the blocks cleaned.
LEMMA UnlinkRangeTask ==
  ASSUME Types, NEW t \in Tasks, UnlinkRange(t)
  PROVE  /\ Steps(t) /\ SameBio(t) /\ SameCopy(t)
         /\ task'[t].pc = IF task[t].todo \ Range1(t) = {} THEN "cleaned" ELSE "range"
         /\ task'[t].todo = task[t].todo \ Range1(t) /\ task'[t].synced = 0
         /\ task'[t].cleaned = task[t].cleaned + Cardinality(Range1(t)) /\ task'[t].buf = task[t].buf
  <1>0. task[t].pc = "range" /\ Cardinality(Range1(t)) \in Nat /\ Range1(t) \subseteq Blocks
    <2>1. Range1(t) \subseteq Blocks
      BY TaskFields DEF Range1, Contiguous
    <2> QED
      BY <2>1, Consts, FS_Subset, FS_CardinalityType DEF UnlinkRange
  <1> DEFINE pc == IF task[t].todo \ Range1(t) = {} THEN "cleaned" ELSE task[t].pc
  <1>p. pc \in TaskPcs
    BY <1>0 DEF TaskPcs
  <1> HIDE DEF pc
  <1> DEFINE n == task[t].cleaned + Cardinality(Range1(t))
  <1>n. n \in Nat
    BY <1>0, TaskFields
  <1> HIDE DEF n
  <1> DEFINE r == [task[t] EXCEPT
       !.todo = task[t].todo \ Range1(t), !.synced = 0,
       !.cleaned = n,
       !.pc = pc]
  <1>1. r \in TaskType /\ r.pc = pc /\ r.todo = task[t].todo \ Range1(t) /\ r.synced = 0
        /\ r.cleaned = n /\ r.req = task[t].req /\ r.b = task[t].b /\ r.fresh = task[t].fresh
        /\ r.buf = task[t].buf /\ r.need = task[t].need /\ r.stamps = task[t].stamps /\ r.ok = task[t].ok
    BY <1>0, TaskFields, <1>p, <1>n DEF TaskType
  <1>2. task' = [task EXCEPT ![t] = r]
    BY DEF UnlinkRange, pc, n
  <1> HIDE DEF r
  <1>3. Steps(t) /\ task'[t] = r
    BY <1>1, <1>2, TaskReplaced
  <1> QED
    BY <1>0, <1>1, <1>3 DEF SameBio, SameCopy, SameFlush, pc, n

\* A barrier starts with the first buffer.
LEMMA DrainTask ==
  ASSUME Types, NEW t \in Clients, Drain(t)
  PROVE  /\ Steps(t) /\ SameBio(t) /\ SameCopy(t)
         /\ task'[t].pc = "flush" /\ task'[t].buf = 0 /\ task'[t].todo = task[t].todo
  <1> DEFINE r == [task[t] EXCEPT !.pc = "flush", !.buf = 0]
  <1>0. t \in Tasks /\ 0 \in Buffers
    BY Consts
  <1>1. r \in TaskType /\ r.pc = "flush" /\ r.buf = 0 /\ r.req = task[t].req
        /\ r.b = task[t].b /\ r.fresh = task[t].fresh /\ r.todo = task[t].todo /\ r.synced = task[t].synced
        /\ r.cleaned = task[t].cleaned /\ r.need = task[t].need /\ r.stamps = task[t].stamps /\ r.ok = task[t].ok
    BY <1>0, TaskFields DEF TaskType, TaskPcs
  <1>2. task' = [task EXCEPT ![t] = r]
    BY DEF Drain
  <1> HIDE DEF r
  <1>3. Steps(t) /\ task'[t] = r
    BY <1>0, <1>1, <1>2, TaskReplaced
  <1> QED
    BY <1>1, <1>3 DEF SameBio, SameCopy, SameFlush

-----------------------------------------------------------------------------
(***************************************************************************)
(* The blocks of a bio, and the sequence a flusher works on.               *)
(***************************************************************************)
LEMMA LeastOf ==
  ASSUME NEW S, S \subseteq Nat, S # {}
  PROVE  Min(S) \in S /\ \A x \in S : Min(S) <= x
  <1>1. PICK m \in S : \A x \in S : ~(<<x, m>> \in OpToRel(<, Nat))
    BY NatLessThanWellFounded, WFMin, Zenon
  <1>2. ASSUME NEW x \in S, x < m PROVE FALSE
    <2>1. <<x, m>> \in OpToRel(<, Nat)
      BY <1>2, Zenon DEF OpToRel
    <2> QED
      BY <1>1, <2>1
  <1>3. \E n \in S : \A x \in S : n <= x
    BY <1>2
  <1> QED
    BY <1>3 DEF Min

\* A bio that carries data covers blocks of the device.
LEMMA BioBlocks ==
  ASSUME Types, Control, NEW t \in Clients, Carries(t)
  PROVE  /\ task[t].req.first \in Sectors /\ task[t].req.last \in Sectors
         /\ ReqBlocks(t) \subseteq Blocks /\ ReqBlocks(t) = BlockOf(task[t].req.first) .. LastBlock(t)
         /\ BlockOf(task[t].req.first) \in ReqBlocks(t) /\ LastBlock(t) \in Blocks
         /\ \A s \in task[t].req.first .. task[t].req.last : s \in Sectors /\ BlockOf(s) \in ReqBlocks(t)
  <1>1. /\ task[t].req.first \in Sectors /\ task[t].req.last \in Sectors
        /\ task[t].req.first <= task[t].req.last
    BY Consts DEF Control, ControlOf, ClientControl
  <1> QED
    BY <1>1, RequestBlocks, SectorOfBlock DEF ReqBlocks, LastBlock

\* The first sequence of what a flusher has to do begins with its least block.
LEMMA SequenceFacts ==
  ASSUME Types, NEW t \in Tasks, task[t].todo # {}
  PROVE  /\ Min(task[t].todo) \in task[t].todo /\ Min(task[t].todo) \in Blocks
         /\ \A b \in task[t].todo : Min(task[t].todo) <= b
         /\ NextBlock(t) = Min(task[t].todo) + task[t].synced /\ NextBlock(t) \in Nat
         /\ \A b : b \in Range1(t) <=> b \in task[t].todo /\ Min(task[t].todo) .. b \subseteq task[t].todo
         /\ Min(task[t].todo) \in Range1(t) /\ Range1(t) \subseteq task[t].todo /\ Range1(t) \subseteq Blocks
  <1> DEFINE S == task[t].todo
             m == Min(S)
  <1>1. S \subseteq Blocks /\ S \subseteq Nat /\ S # {} /\ task[t].synced \in Nat
    BY TaskFields, Consts
  <1>2. m \in S /\ \A x \in S : m <= x
    BY <1>1, LeastOf
  <1>3. NextBlock(t) = m + task[t].synced /\ Range1(t) = {b \in S : \A c \in S : c .. b \subseteq S}
    BY DEF NextBlock, Range1, Contiguous
  <1> HIDE DEF m, S
  <1>4. ASSUME NEW b PROVE b \in Range1(t) <=> b \in S /\ m .. b \subseteq S
    <2>1. ASSUME b \in S, m .. b \subseteq S, NEW c \in S PROVE c .. b \subseteq S
      BY <1>1, <1>2, <2>1
    <2> QED
      BY <1>2, <1>3, <2>1
  <1>5. m .. m \subseteq S
    BY <1>1, <1>2
  <1>6. NextBlock(t) \in Nat
    BY <1>1, <1>2, <1>3
  <1> QED
    BY <1>1, <1>2, <1>3, <1>4, <1>5, <1>6 DEF m, S

\* What a flusher that is not through with its sequence has synced, and what is next.
LEMMA SequenceNext ==
  ASSUME Types, Control, NEW t \in Tasks, task[t].pc = "range"
  PROVE  /\ task[t].todo # {} /\ Synced(t) \subseteq Range1(t) /\ NextBlock(t) \notin Synced(t)
         /\ NextBlock(t) \notin Range1(t) => Synced(t) = Range1(t)
  <1>1. task[t].todo # {} /\ Synced(t) \subseteq Range1(t)
    BY DEF Control, ControlOf
  <1>2. NextBlock(t) \notin Synced(t)
    BY <1>1, SequenceFacts DEF Synced
  <1>3. ASSUME NextBlock(t) \notin Range1(t), NEW b \in Range1(t) PROVE b \in Synced(t)
    <2> DEFINE m == Min(task[t].todo)
    <2>1. /\ m \in Nat /\ b \in Blocks /\ b \in Nat /\ m <= b /\ m .. b \subseteq task[t].todo
          /\ NextBlock(t) = m + task[t].synced /\ NextBlock(t) \in Nat /\ task[t].synced \in Nat
          /\ (NextBlock(t) \in task[t].todo /\ m .. NextBlock(t) \subseteq task[t].todo => NextBlock(t) \in Range1(t))
      <3>1. /\ m \in Blocks /\ b \in Blocks /\ b \in task[t].todo /\ m .. b \subseteq task[t].todo
            /\ \A x \in task[t].todo : m <= x
            /\ NextBlock(t) = m + task[t].synced /\ NextBlock(t) \in Nat
            /\ \A x : x \in Range1(t) <=> x \in task[t].todo /\ m .. x \subseteq task[t].todo
        BY <1>1, <1>3, SequenceFacts
      <3>2. task[t].synced \in Nat
        BY TaskFields
      <3> HIDE DEF m
      <3>3. m \in Nat /\ b \in Nat
        BY <3>1, Consts
      <3> QED
        BY <3>1, <3>2, <3>3
    <2>2. Synced(t) = {c \in Blocks : m <= c /\ c < NextBlock(t)}
      BY DEF Synced
    <2> HIDE DEF m
    <2>3. ASSUME NextBlock(t) <= b PROVE FALSE
      <3>1. NextBlock(t) \in m .. b /\ m .. NextBlock(t) \subseteq m .. b
        BY <2>1, <2>3
      <3> QED
        BY <2>1, <3>1, <1>3
    <2> QED
      BY <2>1, <2>2, <2>3
  <1> QED
    BY <1>1, <1>2, <1>3

\* What a reader finds is a stamp.
LEMMA VisibleType ==
  ASSUME Types, NEW s \in Sectors
  PROVE  Visible(s) \in Nat /\ pm[s] \in Nat /\ nvm[s] \in Nat /\ latest[s] \in Nat
  <1>1. BlockOf(s) \in Blocks /\ s - BlockOf(s) * SPB \in 0 .. SPB - 1 /\ BufferOf(BlockOf(s)) \in Buffers
    BY SectorOfBlock, BufferOfBlock
  <1>2. pm[s] \in Nat /\ nvm[s] \in Nat /\ latest[s] \in Nat
    BY DEF Types, DataTypes
  <1>3. CASE IsBuffered(BlockOf(s))
    <2>1. bbn[BlockOf(s)] \in Positions
      BY <1>1, <1>3, Consts DEF Types, DataTypes, IsBuffered
    <2>2. slot[BufferOf(BlockOf(s))][bbn[BlockOf(s)]] \in SlotType
      BY <1>1, <2>1 DEF Types, DataTypes
    <2>3. slot[BufferOf(BlockOf(s))][bbn[BlockOf(s)]].data[s - BlockOf(s) * SPB] \in Nat
      <3> DEFINE k == s - BlockOf(s) * SPB
                 r == slot[BufferOf(BlockOf(s))][bbn[BlockOf(s)]]
      <3> HIDE DEF k, r
      <3>1. k \in 0 .. SPB - 1 /\ r \in SlotType
        BY <1>1, <2>2 DEF k, r
      <3>2. r.data[k] \in Nat
        BY <3>1 DEF SlotType
      <3> QED
        BY <3>2 DEF k, r
    <2> QED
      BY <1>2, <1>3, <2>3 DEF Visible
  <1>4. CASE ~IsBuffered(BlockOf(s))
    BY <1>2, <1>4 DEF Visible
  <1> QED
    BY <1>2, <1>3, <1>4

-----------------------------------------------------------------------------
(***************************************************************************)
(* Every action keeps the types.                                           *)
(***************************************************************************)
\* The actions of a task, one after the other.
Acts(t) ==
  \/ t \in Clients /\ (Bio(t) \/ \E r \in Requests[t] : Submit(t, r))
  \/ Flushing(t)
  \/ t \in Buffers /\ (StartSync(t) \/ StartIdleSync(t))

\* Every step is a step of some task.
LEMMA NextActs == Next => \E t \in Tasks : Acts(t)
  BY Consts DEF Next, Acts

\* The places Goto leads to.
LEMMA GotoPcs ==
  {"gate", "enter", "end", "block", "copy", "fua_write", "drain", "synced", "check", "flush", "panic"}
     \subseteq TaskPcs
  BY DEF TaskPcs

\* Behind the gate the bio enters.
LEMMA GateMoves ==
  ASSUME Types, NEW t \in Clients, Gate(t)
  PROVE  Moves(t, "enter")
  <1>1. t \in Tasks /\ Goto(t, "enter")
    BY Consts DEF Gate
  <1> QED
    BY <1>1, GotoMoves, GotoPcs

\* With the barrier lock the barrier drains.
LEMMA TakeBarrierMoves ==
  ASSUME Types, NEW t \in Clients, TakeBarrier(t)
  PROVE  Moves(t, "drain")
  <1>1. t \in Tasks /\ Goto(t, "drain")
    BY Consts DEF TakeBarrier
  <1> QED
    BY <1>1, GotoMoves, GotoPcs

\* With the caches flushed the barrier has synced.
LEMMA SyncCachesMoves ==
  ASSUME Types, NEW t \in Clients, SyncCaches(t)
  PROVE  Moves(t, "synced")
  <1>1. t \in Tasks /\ Goto(t, "synced")
    BY Consts DEF SyncCaches
  <1> QED
    BY <1>1, GotoMoves, GotoPcs

\* A barrier that is done is a bio at the gate.
LEMMA ReleaseBarrierMoves ==
  ASSUME Types, NEW t \in Clients, ReleaseBarrier(t)
  PROVE  Moves(t, "gate")
  <1>1. t \in Tasks /\ Goto(t, "gate")
    BY Consts DEF ReleaseBarrier
  <1> QED
    BY <1>1, GotoMoves, GotoPcs

\* The second copy ends the bio.
LEMMA FuaWriteMoves ==
  ASSUME Types, NEW t \in Clients, FuaWrite(t)
  PROVE  Moves(t, "end")
  <1>1. t \in Tasks /\ Goto(t, "end")
    BY Consts DEF FuaWrite
  <1> QED
    BY <1>1, GotoMoves, GotoPcs

\* With a buffer block the writer copies.
LEMMA AllocMoves ==
  ASSUME Types, NEW t \in Clients, Alloc(t)
  PROVE  Moves(t, "copy")
  <1>1. t \in Tasks /\ Goto(t, "copy")
    BY Consts DEF Alloc
  <1> QED
    BY <1>1, GotoMoves, GotoPcs

\* A bio without sectors ends at once.
LEMMA EnterMoves ==
  ASSUME Types, NEW t \in Clients, Enter(t)
  PROVE  Moves(t, IF task[t].req.op = "flush" THEN "end" ELSE "block")
  <1> DEFINE pc == IF task[t].req.op = "flush" THEN "end" ELSE "block"
  <1>1. t \in Tasks /\ Goto(t, pc)
    BY Consts DEF Enter
  <1>2. pc \in TaskPcs
    BY GotoPcs
  <1> HIDE DEF pc
  <1>3. Moves(t, pc)
    BY <1>1, <1>2, GotoMoves
  <1> QED
    BY <1>3 DEF pc

\* A syncer that wakes up checks.
LEMMA StartMoves ==
  ASSUME Types, NEW t \in Buffers, StartSync(t) \/ StartIdleSync(t)
  PROVE  Moves(t, "check")
  <1>1. t \in Tasks /\ Goto(t, "check")
    BY Consts DEF StartSync, StartIdleSync
  <1> QED
    BY <1>1, GotoMoves, GotoPcs

\* A check leads to the flush or back.
LEMMA CheckMoves ==
  ASSUME Types, NEW t \in Tasks, Check(t)
  PROVE  \/ Moves(t, "flush")
         \/ ring[task[t].buf].num_dirty \in Nat /\ task' = [task EXCEPT ![t] = Return(t, ring[task[t].buf].num_dirty)]
  <1> DEFINE f == task[t].buf
             useless == IF t \in Buffers THEN IsEmpty(f) ELSE ~IsFull(f)
  <1>1. task' = [task EXCEPT ![t] = IF useless THEN Return(t, ring[f].num_dirty) ELSE [task[t] EXCEPT !.pc = "flush"]]
    BY DEF Check
  <1>2. ring[f].num_dirty \in Nat
    BY TaskFields, RingPositions
  <1>3. CASE useless
    BY <1>1, <1>2, <1>3
  <1>4. CASE ~useless
    <2>1. Goto(t, "flush")
      BY <1>1, <1>4 DEF Goto
    <2> QED
      BY <2>1, GotoMoves, GotoPcs
  <1> QED
    BY <1>3, <1>4

\* A flush with nothing to do returns.
LEMMA FlushMoves ==
  ASSUME Types, NEW t \in Tasks, Flush(t), IsEmpty(task[t].buf) \/ NumToClean(t) = 0
  PROVE  /\ ring[task[t].buf].num_dirty \in Nat
         /\ task' = [task EXCEPT ![t] = Return(t, ring[task[t].buf].num_dirty)]
  BY TaskFields, RingPositions DEF Flush

\* A flush that is done has cleaned no more than was dirty, and returns.
LEMMA CleanedMoves ==
  ASSUME Types, Control, Rings, NEW t \in Tasks, Cleaned(t)
  PROVE  /\ task[t].cleaned <= ring[task[t].buf].num_dirty /\ ring[task[t].buf].num_dirty - task[t].cleaned \in Nat
         /\ Taken(t) = task[t].cleaned /\ task[t].todo = {}
         /\ task' = [task EXCEPT ![t] = Return(t, ring[task[t].buf].num_dirty - task[t].cleaned)]
  <1>1. task[t].todo = {} /\ task[t].pc = "cleaned" /\ task[t].cleaned \in Nat
    BY TaskFields DEF Control, ControlOf, Cleaned
  <1>2. Taken(t) = task[t].cleaned
    BY <1>1, FS_EmptySet DEF Taken
  <1>3. Taken(t) <= ring[task[t].buf].num_dirty
    BY <1>1 DEF Rings, Flushed
  <1>4. ring[task[t].buf].num_dirty \in Nat
    BY TaskFields, RingPositions
  <1> QED
    BY <1>1, <1>2, <1>3, <1>4 DEF Cleaned

\* An injection of n numbers has n values.
LEMMA ImageCardinality ==
  ASSUME NEW n \in Nat, NEW g, \A k, j \in 0 .. n - 1 : g[k] = g[j] => k = j
  PROVE  Cardinality({g[k] : k \in 0 .. n - 1}) = n
  <1> DEFINE D == 0 .. n - 1
             S == {g[k] : k \in D}
             h == [k \in D |-> g[k]]
  <1>1. h \in Injection(D, S)
    <2>1. h \in [D -> S] /\ \A k \in D : h[k] = g[k]
      OBVIOUS
    <2> HIDE DEF h, S
    <2> QED
      BY <2>1 DEF Injection, IsInjective
  <1>2. h \in Surjection(D, S)
    <2>1. h \in [D -> S] /\ \A s \in S : \E k \in D : h[k] = s
      OBVIOUS
    <2> HIDE DEF h, S
    <2> QED
      BY <2>1 DEF Surjection
  <1>3. IsFiniteSet(D) /\ Cardinality(D) = n
    BY FS_Interval
  <1> HIDE DEF D, S, h
  <1>4. ExistsBijection(D, S)
    BY <1>1, <1>2 DEF ExistsBijection, Bijection
  <1> QED
    BY <1>3, <1>4, FS_Bijection DEF S, D

-----------------------------------------------------------------------------
(***************************************************************************)
(* What a flusher takes.                                                   *)
(***************************************************************************)
\* When no one flushes a buffer, its first dirty blocks are dirty, and linked one to one.
LEMMA FlushScan ==
  ASSUME Types, Control, Locks, Rings, NEW t \in Tasks, Flush(t),
         ~IsEmpty(task[t].buf), NumToClean(t) # 0
  PROVE  LET f == task[t].buf
             n == Scanned(f, NumToClean(t)) IN
         /\ f \in Buffers /\ n \in 1 .. ring[f].num_dirty
         /\ \A k \in 0 .. n - 1 :
              LET b == slot[f][At(f, k)].pbn IN
              /\ b \in Blocks /\ BufferOf(b) = f /\ IsBuffered(b) /\ bbn[b] = At(f, k)
              /\ slot[f][At(f, k)].dirty
         /\ Scan(f, NumToClean(t)) = {slot[f][At(f, k)].pbn : k \in 0 .. n - 1}
         /\ Scan(f, NumToClean(t)) \subseteq Blocks
         /\ Cardinality(Scan(f, NumToClean(t))) = n
         /\ ~FoundClean(f, NumToClean(t))
         /\ \A u \in Tasks : ~Flushes(u, f)
  <1> DEFINE f == task[t].buf
             num == NumToClean(t)
             n == Scanned(f, num)
             B(k) == slot[f][At(f, k)].pbn
             S == {B(k) : k \in 0 .. n - 1}
  <1>1. f \in Buffers /\ num \in Nat /\ num # 0 /\ ring[f].num_dirty \in Nat /\ ring[f].num_dirty # 0
        /\ ring[f].num_dirty <= NumBlocks /\ NumBlocks \in Nat \ {0}
    BY TaskFields, RingPositions, Consts DEF NumToClean, IsEmpty
  <1>2. n \in 1 .. ring[f].num_dirty
    BY <1>1 DEF Scanned
  <1>3. \A u \in Tasks : ~Flushes(u, f)
    BY <1>1, Consts DEF Flush, Locks
  <1>4. ASSUME NEW k \in 0 .. n - 1
        PROVE  B(k) \in Blocks /\ BufferOf(B(k)) = f /\ bbn[B(k)] = At(f, k) /\ At(f, k) \in Positions
    <2>1. k \in 0 .. ring[f].num_dirty - 1 /\ k \in 0 .. NumBlocks
      BY <1>1, <1>2
    <2> HIDE DEF f, n
    <2>2. Ring(f) /\ At(f, k) \in Positions
      BY <1>1, <2>1, RingPositions DEF Rings
    <2> QED
      BY <1>3, <2>1, <2>2 DEF Ring
  <1>5. ASSUME NEW k \in 0 .. n - 1
        PROVE  IsBuffered(B(k)) /\ slot[f][At(f, k)].dirty
    <2>1. B(k) \in Blocks /\ BufferOf(B(k)) = f /\ bbn[B(k)] = At(f, k) /\ At(f, k) \in Positions
      BY <1>4
    <2>2. IsBuffered(B(k))
      BY <2>1, <1>1 DEF IsBuffered, Positions
    <2>3. Ring(f)
      BY <1>1 DEF Rings
    <2>4. slot[f][bbn[B(k)]].dirty \/ \E u \in Tasks : task[u].pc = "range" /\ B(k) \in Synced(u)
      <3> HIDE DEF f, B
      <3> QED
        BY <2>1, <2>2, <2>3 DEF Ring
    <2>5. ASSUME NEW u \in Tasks, task[u].pc = "range", B(k) \in Synced(u) PROVE FALSE
      <3>1. B(k) \in task[u].todo
        BY <2>5, SequenceNext, SequenceFacts
      <3>2. BufferOf(B(k)) = task[u].buf
        <4> HIDE DEF B
        <4> QED
          BY <2>5, <3>1 DEF Rings, Flushed
      <3>3. Flushes(u, f)
        BY <2>1, <3>2, <2>5 DEF Flushes
      <3> QED
        BY <1>3, <3>3
    <2> QED
      BY <2>1, <2>2, <2>4, <2>5
  <1>6. Scan(f, num) = S /\ S \subseteq Blocks
    <2>1. Scan(f, num) = S
      BY DEF Scan, At
    <2> QED
      BY <2>1, <1>4
  <1>7. Cardinality(S) = n
    <2> DEFINE g == [k \in 0 .. n - 1 |-> B(k)]
    <2>1. \A k, j \in 0 .. n - 1 : B(k) = B(j) => k = j
      <3> SUFFICES ASSUME NEW k \in 0 .. n - 1, NEW j \in 0 .. n - 1, B(k) = B(j)
                   PROVE  k = j
        OBVIOUS
      <3>1. At(f, k) = At(f, j)
        BY <1>4
      <3>2. k \in 0 .. NumBlocks - 1 /\ j \in 0 .. NumBlocks - 1
        BY <1>1, <1>2
      <3> HIDE DEF f, n
      <3> QED
        BY <1>1, <3>1, <3>2, RingPositions
    <2>2. n \in Nat
      BY <1>1, <1>2
    <2>3. \A k, j \in 0 .. n - 1 : g[k] = g[j] => k = j
      <3> HIDE DEF B, n
      <3> QED
        BY <2>1
    <2>4. S = {g[k] : k \in 0 .. n - 1}
      <3> HIDE DEF B, n
      <3> QED
        OBVIOUS
    <2> HIDE DEF g, S, n
    <2> QED
      BY <2>2, <2>3, <2>4, ImageCardinality
  <1>8. ~FoundClean(f, num)
    BY <1>5 DEF FoundClean, At
  <1> HIDE DEF f, num, n, B, S
  <1> QED
    BY <1>1, <1>2, <1>3, <1>4, <1>5, <1>6, <1>7, <1>8 DEF f, num, n, B, S

\* Every action is a step of one task.
LEMMA ActsStep ==
  ASSUME Types, Control, Locks, Rings, NEW t \in Tasks, Acts(t)
  PROVE  Steps(t)
  <1>1. CASE t \in Clients /\ Gate(t)
    BY <1>1, GateMoves DEF Moves
  <1>2. CASE t \in Clients /\ Enter(t)
    BY <1>2, EnterMoves DEF Moves
  <1>3. CASE t \in Clients /\ Alloc(t)
    BY <1>3, AllocMoves DEF Moves
  <1>4. CASE t \in Clients /\ FuaWrite(t)
    BY <1>4, FuaWriteMoves DEF Moves
  <1>5. CASE t \in Clients /\ TakeBarrier(t)
    BY <1>5, TakeBarrierMoves DEF Moves
  <1>6. CASE t \in Clients /\ SyncCaches(t)
    BY <1>6, SyncCachesMoves DEF Moves
  <1>7. CASE t \in Clients /\ ReleaseBarrier(t)
    BY <1>7, ReleaseBarrierMoves DEF Moves
  <1>8. CASE t \in Clients /\ LockBlock(t)
    BY <1>8, LockBlockTask
  <1>9. CASE t \in Clients /\ AllocFull(t)
    BY <1>9, AllocFullTask
  <1>10. CASE t \in Clients /\ CopyTo(t)
    BY <1>10, CopyToTask
  <1>11. CASE t \in Clients /\ CopyFrom(t)
    BY <1>11, CopyFromTask
  <1>12. CASE t \in Clients /\ Drain(t)
    BY <1>12, DrainTask
  <1>13. CASE t \in Clients /\ End(t)
    BY <1>13, IdleTask DEF End
  <1>14. CASE t \in Clients /\ FuaLock(t)
    <2>1. Carries(t)
      BY <1>14 DEF Control, ControlOf, ClientControl, FuaLock, Carries
    <2> QED
      BY <1>14, <2>1, FuaLockTask, BioBlocks, Consts
  <1>15. CASE t \in Clients /\ \E r \in Requests[t] : Submit(t, r)
    BY <1>15, SubmitTask
  <1>16. CASE Check(t)
    BY <1>16, CheckMoves, ReturnMoves DEF Moves
  <1>17. CASE Flush(t)
    <2>1. CASE IsEmpty(task[t].buf) \/ NumToClean(t) = 0
      BY <1>17, <2>1, FlushMoves, ReturnMoves
    <2>2. CASE ~IsEmpty(task[t].buf) /\ NumToClean(t) # 0
      <3>1. ~FoundClean(task[t].buf, NumToClean(t)) /\ Scan(task[t].buf, NumToClean(t)) \subseteq Blocks
        BY <1>17, <2>2, FlushScan
      <3> QED
        BY <1>17, <2>2, <3>1, FlushTask
    <2> QED
      BY <2>1, <2>2
  <1>18. CASE SyncBlock(t)
    BY <1>18, SyncBlockTask
  <1>19. CASE UnlinkRange(t)
    BY <1>19, UnlinkRangeTask
  <1>20. CASE Cleaned(t)
    BY <1>20, CleanedMoves, ReturnMoves
  <1>21. CASE t \in Buffers /\ (StartSync(t) \/ StartIdleSync(t))
    BY <1>21, StartMoves DEF Moves
  <1> QED
    BY <1>1, <1>2, <1>3, <1>4, <1>5, <1>6, <1>7, <1>8, <1>9, <1>10, <1>11, <1>12, <1>13, <1>14, <1>15, <1>16, <1>17, <1>18, <1>19, <1>20, <1>21 DEF Acts, Bio, Flushing

-----------------------------------------------------------------------------
(***************************************************************************)
(* Types.                                                                  *)
(***************************************************************************)
LEMMA MaxOfTwo ==
  ASSUME NEW a \in Nat, NEW b \in Nat
  PROVE  /\ Max({a, b}) \in Nat /\ Max({a, b}) \in {a, b}
         /\ Max({a, b}) >= a /\ Max({a, b}) >= b
  <1>1. \E m \in {a, b} : \A y \in {a, b} : m >= y
    OBVIOUS
  <1> QED
    BY <1>1 DEF Max

\* No step breaks the types of the locks.
LEMMA LockTypesStep ==
  ASSUME Types, NEW t \in Tasks, Acts(t)
  PROVE  LockTypes'
  <1>1. CASE t \in Clients /\ (Gate(t) \/ AllocFull(t) \/ Drain(t) \/ SyncCaches(t) \/ TakeBarrier(t) \/ ReleaseBarrier(t))
    BY <1>1 DEF Types, LockTypes, Gate, AllocFull, Drain, SyncCaches, TakeBarrier, ReleaseBarrier
  <1>2. CASE t \in Clients /\ (Enter(t) \/ End(t) \/ Alloc(t))
    BY <1>2 DEF Types, LockTypes, Enter, End, Alloc
  <1>3. CASE t \in Clients /\ (LockBlock(t) \/ CopyTo(t) \/ CopyFrom(t) \/ FuaLock(t) \/ FuaWrite(t))
    <2>1. t \in Tasks /\ LockTypes
      BY DEF Types
    <2>2. CASE LockBlock(t)
      BY <2>1, <2>2 DEF LockTypes, LockBlock
    <2>3. CASE CopyTo(t)
      BY <2>1, <2>3 DEF LockTypes, CopyTo, Unlock
    <2>4. CASE CopyFrom(t)
      BY <2>1, <2>4 DEF LockTypes, CopyFrom, Unlock
    <2>5. CASE FuaLock(t)
      BY <2>1, <2>5 DEF LockTypes, FuaLock
    <2>6. CASE FuaWrite(t)
      BY <2>1, <2>6 DEF LockTypes, FuaWrite, Unlock
    <2> QED
      BY <1>3, <2>2, <2>3, <2>4, <2>5, <2>6
  <1>4. CASE t \in Clients /\ \E r \in Requests[t] : Submit(t, r)
    BY <1>4 DEF Types, LockTypes, Submit
  <1>5. CASE Check(t) \/ Flush(t) \/ Cleaned(t)
    BY <1>5 DEF Types, LockTypes, Check, Flush, Cleaned, Goto
  <1>6. CASE SyncBlock(t) \/ UnlinkRange(t)
    BY <1>6 DEF Types, LockTypes, SyncBlock, UnlinkRange
  <1>7. CASE t \in Buffers /\ (StartSync(t) \/ StartIdleSync(t))
    BY <1>7 DEF Types, LockTypes, StartSync, StartIdleSync
  <1> QED
    BY <1>1, <1>2, <1>3, <1>4, <1>5, <1>6, <1>7 DEF Acts, Bio, Flushing

\* No step breaks the types of the data.
LEMMA DataTypesStep ==
  ASSUME Types, Control, Locks, Rings, NEW t \in Tasks, Acts(t)
  PROVE  DataTypes'
  <1>1. CASE t \in Clients /\ (Gate(t) \/ AllocFull(t) \/ Drain(t) \/ TakeBarrier(t) \/ ReleaseBarrier(t))
    BY <1>1 DEF Types, DataTypes, device, history, Gate, AllocFull, Drain, TakeBarrier, ReleaseBarrier
  <1>2. CASE t \in Clients /\ (Enter(t) \/ LockBlock(t) \/ CopyFrom(t))
    BY <1>2 DEF Types, DataTypes, device, history, Enter, LockBlock, CopyFrom
  <1>3. CASE Check(t)
    BY <1>3 DEF Types, DataTypes, device, history, Check
  <1>4. CASE t \in Buffers /\ (StartSync(t) \/ StartIdleSync(t))
    BY <1>4 DEF Types, DataTypes, device, history, StartSync, StartIdleSync
  <1>5. CASE t \in Clients /\ \E r \in Requests[t] : Submit(t, r)
    <2>1. requests' \in 0 .. MaxRequests
      BY <1>5, Consts DEF Types, DataTypes, Submit
    <2> QED
      BY <1>5, <2>1 DEF Types, DataTypes, device, Submit
  <1>6. CASE t \in Clients /\ End(t)
    <2>1. ASSUME NEW s \in Sectors PROVE Max({done[s], task[t].stamps[s]}) \in Nat
      <3>1. done[s] \in Nat /\ task[t].stamps[s] \in Nat
        BY TaskFields DEF Types, DataTypes
      <3> QED
        BY <3>1, MaxOfTwo
    <2>2. done' \in [Sectors -> Nat]
      BY <1>6, <2>1 DEF End
    <2> QED
      BY <1>6, <2>2 DEF Types, DataTypes, device, End
  <1>7. CASE t \in Clients /\ SyncCaches(t)
    BY <1>7 DEF Types, DataTypes, history, SyncCaches
  <1>8. CASE t \in Clients /\ Alloc(t)
    <2> DEFINE b == task[t].b
               f == BufferOf(b)
               pos == ring[f].pos_clean
    <2>0. task[t].pc = "alloc" /\ ~IsFull(f) /\ bbn' = [bbn EXCEPT ![b] = pos]
          /\ ring' = [ring EXCEPT ![f].pos_clean = NextPos(pos), ![f].num_dirty = ring[f].num_dirty + 1]
          /\ slot' = [slot EXCEPT ![f][pos].pbn = b, ![f][pos].dirty = TRUE]
      BY <1>8 DEF Alloc, Linked
    <2>1. b \in Blocks
      BY <1>8, <2>0, BioBlocks DEF Control, ControlOf, ClientControl, Carries
    <2>2. f \in Buffers /\ ring[f] \in RingType /\ pos \in Positions /\ pos \in Nat /\ pos < NumBlocks
          /\ ring[f].num_dirty \in Nat /\ ring[f].num_dirty + 1 \in 0 .. NumBlocks
          /\ slot[f][pos] \in SlotType
      <3>1. f \in Buffers
        BY <2>1, BufferOfBlock
      <3> HIDE DEF f
      <3>2. ring[f] \in RingType
        BY <3>1 DEF Types, DataTypes
      <3>3. pos \in Positions /\ ring[f].num_dirty \in 0 .. NumBlocks
        BY <3>2 DEF RingType
      <3>4. slot[f][pos] \in SlotType
        BY <3>1, <3>3 DEF Types, DataTypes
      <3>5. ~(ring[f].num_dirty >= NumBlocks)
        BY <2>0 DEF IsFull
      <3> HIDE DEF pos
      <3>6. pos \in Nat /\ pos < NumBlocks
        BY <3>3, Consts DEF Positions
      <3> QED
        <4>1. NumBlocks \in Nat
          BY Consts
        <4> PICK d : d = ring[f].num_dirty
          OBVIOUS
        <4>2. d \in 0 .. NumBlocks /\ ~(d >= NumBlocks)
          BY <3>3, <3>5
        <4>3. d \in Nat /\ d + 1 \in 0 .. NumBlocks
          BY <4>1, <4>2
        <4> QED
          BY <3>1, <3>2, <3>3, <3>4, <3>6, <4>3
    <2>3. NextPos(pos) \in Positions
      <3> HIDE DEF pos
      <3> QED
        BY <2>2, Consts DEF NextPos, Positions
    <2> HIDE DEF b, f, pos
    <2>4. ring' \in [Buffers -> RingType]
      <3>1. [ring[f] EXCEPT !.pos_clean = NextPos(pos), !.num_dirty = ring[f].num_dirty + 1] \in RingType
        BY <2>2, <2>3 DEF RingType
      <3>2. ring' = [ring EXCEPT ![f] = [ring[f] EXCEPT !.pos_clean = NextPos(pos), !.num_dirty = ring[f].num_dirty + 1]]
        BY <2>0
      <3> QED
        BY <2>2, <3>1, <3>2 DEF Types, DataTypes
    <2>5. slot' \in [Buffers -> [Positions -> SlotType]]
      <3>1. [slot[f][pos] EXCEPT !.pbn = b, !.dirty = TRUE] \in SlotType
        BY <2>1, <2>2 DEF SlotType
      <3>2. slot' = [slot EXCEPT ![f] = [slot[f] EXCEPT ![pos] = [slot[f][pos] EXCEPT !.pbn = b, !.dirty = TRUE]]]
        BY <2>0
      <3> QED
        BY <2>2, <3>1, <3>2 DEF Types, DataTypes
    <2>6. bbn' \in [Blocks -> Positions \cup {Unbuffered}]
      BY <2>0, <2>2 DEF Types, DataTypes
    <2> QED
      BY <1>8, <2>4, <2>5, <2>6 DEF Types, DataTypes, history, Alloc
  <1>9. CASE t \in Clients /\ CopyTo(t)
    <2> DEFINE b == task[t].b
               f == BufferOf(b)
               i == bbn[b]
               data == [k \in 0 .. SPB - 1 |-> IF b * SPB + k \in Part(t) THEN clock' ELSE Old(t)[k]]
    <2>0. task[t].pc = "copy" /\ task[t].req.op = "write" /\ clock' = clock + 1
          /\ slot' = [slot EXCEPT ![f][i].dirty = TRUE, ![f][i].data = data]
      BY <1>9 DEF CopyTo
    <2>1. b \in Blocks /\ IsBuffered(b)
      BY <1>9, <2>0, BioBlocks DEF Control, ControlOf, ClientControl, Carries, Rings, Placed
    <2>2. f \in Buffers /\ i \in Positions /\ clock' \in Nat /\ clock \in Nat
      <3>1. clock \in Nat /\ bbn \in [Blocks -> Positions \cup {Unbuffered}]
        BY DEF Types, DataTypes
      <3>2. f \in Buffers
        BY <2>1, BufferOfBlock
      <3>3. i \in Positions \cup {Unbuffered} /\ i < NumBlocks
        BY <2>1, <3>1 DEF IsBuffered
      <3> HIDE DEF f, i
      <3>4. i \in Positions
        BY <3>3, Consts
      <3> QED
        BY <2>0, <3>1, <3>2, <3>4
    <2>3. slot[f][i] \in SlotType
      BY <2>2 DEF Types, DataTypes
    <2>4. ASSUME NEW k \in 0 .. SPB - 1 PROVE Old(t)[k] \in Nat
      <3>1. CASE task[t].fresh /\ Part(t) # Sect(b)
        <4>1. Old(t)[k] = pm[b * SPB + k]
          BY <3>1 DEF Old
        <4> QED
          BY <2>1, <4>1, BlockOfSector DEF Types, DataTypes
      <3>2. CASE ~(task[t].fresh /\ Part(t) # Sect(b))
        <4>1. Old(t) = slot[f][i].data
          BY <3>2 DEF Old
        <4> HIDE DEF f, i
        <4> QED
          BY <2>3, <4>1 DEF SlotType
      <3> QED
        BY <3>1, <3>2
    <2>5. data \in [0 .. SPB - 1 -> Nat]
      BY <2>2, <2>4
    <2>6. slot' \in [Buffers -> [Positions -> SlotType]]
      <3> HIDE DEF data, f, i
      <3>1. [slot[f][i] EXCEPT !.dirty = TRUE, !.data = data] \in SlotType
        BY <2>3, <2>5 DEF SlotType
      <3>2. slot' = [slot EXCEPT ![f] = [slot[f] EXCEPT ![i] = [slot[f][i] EXCEPT !.dirty = TRUE, !.data = data]]]
        BY <2>0
      <3> QED
        BY <2>2, <3>1, <3>2 DEF Types, DataTypes
    <2>7. latest' \in [Sectors -> Nat] /\ fua' \subseteq 1 .. clock'
      BY <1>9, <2>0, <2>2 DEF CopyTo, Types, DataTypes
    <2> QED
      BY <1>9, <2>2, <2>6, <2>7 DEF Types, DataTypes, CopyTo
  <1>10. CASE t \in Clients /\ (FuaLock(t) \/ FuaWrite(t))
    <2>1. Carries(t)
      BY <1>10 DEF Control, ControlOf, ClientControl, FuaLock, FuaWrite, Carries
    <2>2. ReqBlocks(t) \subseteq Blocks
      BY <1>10, <2>1, BioBlocks
    <2>3. CASE FuaLock(t)
      BY <2>2, <2>3 DEF Types, DataTypes, FuaLock, history
    <2>4. CASE FuaWrite(t)
      <3>1. task[t].stamps \in [Sectors -> Nat]
        BY TaskFields
      <3>2. pm' \in [Sectors -> Nat] /\ nvm' \in [Sectors -> Nat]
        BY <2>4, <3>1 DEF Types, DataTypes, FuaWrite
      <3>3. writable' \subseteq Blocks /\ faults' \subseteq Blocks
        BY <2>2, <2>4 DEF Types, DataTypes, FuaWrite
      <3> QED
        BY <2>4, <3>2, <3>3 DEF Types, DataTypes, FuaWrite, history
    <2> QED
      BY <1>10, <2>3, <2>4
  <1>11. CASE Flush(t)
    <2>1. writable' \subseteq Blocks
      <3>1. CASE IsEmpty(task[t].buf) \/ NumToClean(t) = 0
        BY <1>11, <3>1 DEF Flush, Types, DataTypes
      <3>2. CASE ~(IsEmpty(task[t].buf) \/ NumToClean(t) = 0)
        <4>1. Contiguous(Scan(task[t].buf, NumToClean(t))) \subseteq Blocks
          BY <1>11, <3>2, FlushScan DEF Contiguous
        <4> QED
          BY <1>11, <3>2, <4>1 DEF Flush, Types, DataTypes
      <3> QED
        BY <3>1, <3>2
    <2> QED
      BY <1>11, <2>1 DEF Flush, Types, DataTypes, history
  <1>12. CASE SyncBlock(t)
    <2> DEFINE f == task[t].buf
               b == NextBlock(t)
               i == bbn[b]
               S == IF IsBuffered(b) /\ slot[f][i].dirty THEN Sect(b) ELSE {}
    <2>0. b \in Range1(t) /\ task[t].pc = "range"
          /\ pm' = [s \in Sectors |-> IF s \in S THEN slot[f][i].data[s - b * SPB] ELSE pm[s]]
          /\ nvm' = (IF FlushEach THEN [s \in Sectors |-> IF s \in S THEN pm'[s] ELSE nvm[s]] ELSE nvm)
          /\ slot' = (IF IsBuffered(b) THEN [slot EXCEPT ![f][i].dirty = FALSE] ELSE slot)
          /\ faults' = IF S = {} THEN faults ELSE faults \cup ({b} \ writable)
      BY <1>12 DEF SyncBlock
    <2>1. b \in task[t].todo /\ b \in Blocks
      BY <2>0, SequenceFacts DEF Control, ControlOf
    <2>2. f \in Buffers /\ BufferOf(b) = f /\ IsBuffered(b)
      BY <2>0, <2>1, TaskFields DEF Rings, Flushed
    <2>3. i \in Positions
      BY <2>1, <2>2, Consts DEF Types, DataTypes, IsBuffered
    <2>4. slot[f][i] \in SlotType
      BY <2>2, <2>3 DEF Types, DataTypes
    <2>5. ASSUME NEW s \in Sectors, s \in S PROVE slot[f][i].data[s - b * SPB] \in Nat
      <3>1. s \in Sect(b)
        BY <2>5
      <3>2. s - b * SPB \in 0 .. SPB - 1
        BY <2>1, <3>1, SectOfBlock, SectorOfBlock
      <3> HIDE DEF f, i, b
      <3> QED
        BY <2>4, <3>2 DEF SlotType
    <2>6. pm' \in [Sectors -> Nat]
      <3> HIDE DEF S, f, i, b
      <3> QED
        BY <2>0, <2>5 DEF Types, DataTypes
    <2>7. nvm' \in [Sectors -> Nat] /\ faults' \subseteq Blocks
      <3> HIDE DEF S, f, i, b
      <3> QED
        BY <2>0, <2>1, <2>6 DEF Types, DataTypes
    <2>8. slot' \in [Buffers -> [Positions -> SlotType]]
      <3> HIDE DEF f, i, b, S
      <3>1. [slot[f][i] EXCEPT !.dirty = FALSE] \in SlotType
        BY <2>4 DEF SlotType
      <3>2. slot' = [slot EXCEPT ![f] = [slot[f] EXCEPT ![i] = [slot[f][i] EXCEPT !.dirty = FALSE]]]
        BY <2>0, <2>2
      <3> QED
        BY <2>2, <2>3, <3>1, <3>2 DEF Types, DataTypes
    <2> QED
      BY <1>12, <2>6, <2>7, <2>8 DEF SyncBlock, Types, DataTypes, history
  <1>13. CASE UnlinkRange(t)
    <2> DEFINE f == task[t].buf
               line == [i \in Positions |->
                 IF \E b \in Range1(t) : bbn[b] = i THEN [slot[f][i] EXCEPT !.pbn = NoBlock] ELSE slot[f][i]]
    <2>1. f \in Buffers /\ DOMAIN slot[f] = Positions /\ \A i \in Positions : slot[f][i] \in SlotType
      BY TaskFields DEF Types, DataTypes
    <2>2. slot' = [slot EXCEPT ![f] = line]
      BY <1>13, <2>1 DEF UnlinkRange
    <2>3. line \in [Positions -> SlotType]
      <3>1. \A i \in Positions : [slot[f][i] EXCEPT !.pbn = NoBlock] \in SlotType
        BY <2>1 DEF SlotType
      <3> QED
        BY <2>1, <3>1
    <2> HIDE DEF line
    <2>4. slot' \in [Buffers -> [Positions -> SlotType]]
      BY <2>1, <2>2, <2>3 DEF Types, DataTypes
    <2>5. bbn' \in [Blocks -> Positions \cup {Unbuffered}]
      BY <1>13 DEF UnlinkRange, Types, DataTypes
    <2>6. writable' \subseteq Blocks
      BY <1>13, TaskFields DEF UnlinkRange, Types, DataTypes, Contiguous
    <2> QED
      BY <1>13, <2>4, <2>5, <2>6 DEF UnlinkRange, Types, DataTypes, history
  <1>14. CASE Cleaned(t)
    <2> DEFINE f == task[t].buf
               n == task[t].cleaned
    <2>1. f \in Buffers /\ ring[f] \in RingType /\ ring[f].num_dirty \in 0 .. NumBlocks
          /\ n \in Nat /\ ring[f].num_dirty - n \in 0 .. NumBlocks /\ n \in 0 .. NumBlocks
      <3>1. f \in Buffers /\ n \in Nat
        BY TaskFields
      <3>2. n <= ring[f].num_dirty /\ ring[f].num_dirty - n \in Nat
        BY <1>14, CleanedMoves
      <3> HIDE DEF f, n
      <3>3. ring[f] \in RingType /\ ring[f].num_dirty \in 0 .. NumBlocks
        BY <3>1, RingPositions DEF Types, DataTypes
      <3> QED
        <4>1. NumBlocks \in Nat
          BY Consts
        <4> PICK d : d = ring[f].num_dirty
          OBVIOUS
        <4>2. d \in 0 .. NumBlocks /\ n \in Nat /\ n <= d /\ d - n \in Nat
          BY <3>1, <3>2, <3>3
        <4>3. d - n \in 0 .. NumBlocks /\ n \in 0 .. NumBlocks
          BY <4>1, <4>2
        <4> QED
          BY <3>1, <3>3, <4>3
    <2>2. PosDirty(f, n) \in Positions
      <3>1. At(f, n) \in Positions
        BY <2>1, RingPositions
      <3> QED
        BY <3>1 DEF At, PosDirty
    <2>3. ring' = [ring EXCEPT ![f] = [ring[f] EXCEPT !.pos_dirty = PosDirty(f, n), !.num_dirty = ring[f].num_dirty - n]]
      BY <1>14 DEF Cleaned
    <2> HIDE DEF f, n
    <2>4. [ring[f] EXCEPT !.pos_dirty = PosDirty(f, n), !.num_dirty = ring[f].num_dirty - n] \in RingType
      BY <2>1, <2>2 DEF RingType
    <2>5. ring' \in [Buffers -> RingType]
      BY <2>1, <2>3, <2>4 DEF Types, DataTypes
    <2> QED
      BY <1>14, <2>5 DEF Cleaned, Types, DataTypes, history
  <1> QED
    BY <1>1, <1>2, <1>3, <1>4, <1>5, <1>6, <1>7, <1>8, <1>9, <1>10, <1>11, <1>12, <1>13, <1>14 DEF Acts, Bio, Flushing

\* No step breaks a type.
LEMMA TypesStep ==
  ASSUME Types, Control, Locks, Rings, NEW t \in Tasks, Acts(t)
  PROVE  Types' /\ Steps(t)
  BY LockTypesStep, DataTypesStep, ActsStep DEF Types, Steps

-----------------------------------------------------------------------------
(***************************************************************************)
(* Control.                                                                *)
(***************************************************************************)
\* A flusher begins a sequence, and goes on in it.
LEMMA SyncedNone ==
  ASSUME Types', NEW t \in Tasks, task'[t].todo # {}, task'[t].synced = 0
  PROVE  Synced(t)' = {}
  <1>1. task'[t].todo \subseteq Blocks
    BY DEF Types, TaskType
  <1>2. Min(task'[t].todo) \in Nat
    BY <1>1, LeastOf, Consts
  <1> QED
    BY <1>2, Consts DEF Synced, NextBlock

\* One more block copied is one more block synced.
LEMMA SyncedMore ==
  ASSUME Types, NEW t \in Tasks, task[t].todo # {}, NextBlock(t) \in Blocks,
         task'[t].todo = task[t].todo, task'[t].synced = task[t].synced + 1
  PROVE  Synced(t)' = Synced(t) \cup {NextBlock(t)} /\ Range1(t)' = Range1(t)
  <1> DEFINE m == Min(task[t].todo)
  <1>1. m \in Nat /\ task[t].synced \in Nat /\ NextBlock(t) = m + task[t].synced
        /\ NextBlock(t)' = m + (task[t].synced + 1) /\ Min(task[t].todo)' = m
    BY SequenceFacts, TaskFields, Consts DEF NextBlock
  <1>2. Range1(t)' = Range1(t)
    BY DEF Range1, Contiguous
  <1>3. /\ Synced(t) = {b \in Blocks : m <= b /\ b < NextBlock(t)}
        /\ Synced(t)' = {b \in Blocks : m <= b /\ b < NextBlock(t)'}
    BY <1>1 DEF Synced
  <1> HIDE DEF m
  <1>4. NextBlock(t) \in Nat /\ m <= NextBlock(t) /\ NextBlock(t)' = NextBlock(t) + 1 /\ Blocks \subseteq Nat
    <2> DEFINE k == task[t].synced
    <2>1. m \in Nat /\ k \in Nat /\ NextBlock(t) = m + k /\ NextBlock(t)' = m + (k + 1)
      BY <1>1
    <2> HIDE DEF k
    <2> QED
      BY <2>1, Consts
  <1>5. \A b \in Blocks : m <= b /\ b < NextBlock(t)' <=> (m <= b /\ b < NextBlock(t)) \/ b = NextBlock(t)
    BY <1>4, <1>1
  <1> QED
    BY <1>2, <1>3, <1>5, Zenon

\* The same list and count are the same sequence and the same blocks synced.
LEMMA SyncedSame ==
  ASSUME NEW t \in Tasks, task'[t].todo = task[t].todo, task'[t].synced = task[t].synced
  PROVE  Synced(t)' = Synced(t) /\ Range1(t)' = Range1(t) /\ NextBlock(t)' = NextBlock(t)
  BY DEF Synced, Range1, Contiguous, NextBlock

\* A step of t leaves the control of the others alone.
LEMMA ControlOthers ==
  ASSUME Control, NEW t \in Tasks, Steps(t), NEW u \in Tasks \ {t}
  PROVE  ControlOf(u)'
  <1>1. task'[u] = task[u]
    BY DEF Steps
  <1>2. Synced(u)' = Synced(u) /\ Range1(u)' = Range1(u)
    BY <1>1, SyncedSame
  <1>3. ReqBlocks(u)' = ReqBlocks(u)
    BY <1>1 DEF ReqBlocks, LastBlock
  <1>4. ClientControl(u)' = ClientControl(u)
    BY <1>1, <1>3 DEF ClientControl, Carries, Seeking
  <1>5. SyncerControl(u)' = SyncerControl(u)
    BY <1>1 DEF SyncerControl
  <1> QED
    BY <1>1, <1>2, <1>4, <1>5 DEF Control, ControlOf

\* A task that acts stays in its control.
LEMMA ControlOfStep ==
  ASSUME Types, Control, Locks, Rings, NEW t \in Tasks, Acts(t), Types'
  PROVE  ControlOf(t)'
  <1>0. Clients \cap Buffers = {} /\ ControlOf(t)
    BY Consts DEF Control
  <1>1. CASE t \in Clients /\ Gate(t)
    <2>1. Moves(t, task'[t].pc) /\ task'[t].pc = "enter"
      BY <1>1, GateMoves DEF Moves
    <2>2. ReqBlocks(t)' = ReqBlocks(t)
      BY <2>1 DEF ReqBlocks, LastBlock, Moves, SameBio
    <2> QED
      BY <1>0, <1>1, <2>1, <2>2 DEF Gate, ControlOf, ClientControl, Carries, Seeking, FlushPcs, SameBio, SameCopy, SameFlush, Moves
  <1>2. CASE t \in Clients /\ Enter(t)
    <2>1. Moves(t, task'[t].pc) /\ task'[t].pc = IF task[t].req.op = "flush" THEN "end" ELSE "block"
      BY <1>2, EnterMoves DEF Moves
    <2>2. ReqBlocks(t)' = ReqBlocks(t)
      BY <2>1 DEF ReqBlocks, LastBlock, Moves, SameBio
    <2> QED
      BY <1>0, <1>2, <2>1, <2>2, TaskFields DEF Enter, ControlOf, ClientControl, Carries, Seeking, FlushPcs, SameBio, SameCopy, SameFlush, Moves, ReqType
  <1>3. CASE t \in Clients /\ Alloc(t)
    <2>1. Moves(t, task'[t].pc) /\ task'[t].pc = "copy"
      BY <1>3, AllocMoves DEF Moves
    <2>2. ReqBlocks(t)' = ReqBlocks(t)
      BY <2>1 DEF ReqBlocks, LastBlock, Moves, SameBio
    <2> QED
      BY <1>0, <1>3, <2>1, <2>2 DEF Alloc, ControlOf, ClientControl, Carries, Seeking, FlushPcs, SameBio, SameCopy, SameFlush, Moves
  <1>4. CASE t \in Clients /\ FuaWrite(t)
    <2>1. Moves(t, task'[t].pc) /\ task'[t].pc = "end"
      BY <1>4, FuaWriteMoves DEF Moves
    <2>2. ReqBlocks(t)' = ReqBlocks(t)
      BY <2>1 DEF ReqBlocks, LastBlock, Moves, SameBio
    <2> QED
      BY <1>0, <1>4, <2>1, <2>2 DEF FuaWrite, ControlOf, ClientControl, Carries, Seeking, FlushPcs, SameBio, SameCopy, SameFlush, Moves
  <1>5. CASE t \in Clients /\ TakeBarrier(t)
    <2>1. Moves(t, task'[t].pc) /\ task'[t].pc = "drain"
      BY <1>5, TakeBarrierMoves DEF Moves
    <2>2. ReqBlocks(t)' = ReqBlocks(t)
      BY <2>1 DEF ReqBlocks, LastBlock, Moves, SameBio
    <2> QED
      BY <1>0, <1>5, <2>1, <2>2 DEF TakeBarrier, ControlOf, ClientControl, Carries, Seeking, FlushPcs, SameBio, SameCopy, SameFlush, Moves
  <1>6. CASE t \in Clients /\ SyncCaches(t)
    <2>1. Moves(t, task'[t].pc) /\ task'[t].pc = "synced"
      BY <1>6, SyncCachesMoves DEF Moves
    <2>2. ReqBlocks(t)' = ReqBlocks(t)
      BY <2>1 DEF ReqBlocks, LastBlock, Moves, SameBio
    <2> QED
      BY <1>0, <1>6, <2>1, <2>2 DEF SyncCaches, ControlOf, ClientControl, Carries, Seeking, FlushPcs, SameBio, SameCopy, SameFlush, Moves
  <1>7. CASE t \in Clients /\ ReleaseBarrier(t)
    <2>1. Moves(t, task'[t].pc) /\ task'[t].pc = "gate"
      BY <1>7, ReleaseBarrierMoves DEF Moves
    <2>2. ReqBlocks(t)' = ReqBlocks(t)
      BY <2>1 DEF ReqBlocks, LastBlock, Moves, SameBio
    <2> QED
      BY <1>0, <1>7, <2>1, <2>2 DEF ReleaseBarrier, ControlOf, ClientControl, Carries, Seeking, FlushPcs, SameBio, SameCopy, SameFlush, Moves
  <1>8. CASE t \in Clients /\ LockBlock(t)
    <2>1. ReqBlocks(t)' = ReqBlocks(t)
      BY <1>8, LockBlockTask DEF ReqBlocks, LastBlock, SameBio
    <2>2. /\ task[t].pc = "block" /\ task'[t].req = task[t].req /\ task'[t].b = task[t].b
          /\ \/ task[t].req.op = "write" /\ task'[t].pc = "alloc" /\ task'[t].fresh = TRUE
             \/ task[t].req.op = "write" /\ task'[t].pc = "copy"
             \/ task[t].req.op # "write" /\ task'[t].pc = "copy" /\ task'[t].fresh = FALSE
      <3>1. CASE task[t].req.op = "write" /\ ~IsBuffered(task[t].b)
        BY <1>8, <3>1, LockBlockTask DEF LockBlock, SameBio
      <3>2. CASE task[t].req.op = "write" /\ IsBuffered(task[t].b)
        BY <1>8, <3>2, LockBlockTask DEF LockBlock, SameBio
      <3>3. CASE task[t].req.op # "write"
        <4>1. task'[t].fresh = (task[t].req.op = "write" /\ ~IsBuffered(task[t].b))
          BY <1>8, LockBlockTask
        <4>2. task'[t].fresh = FALSE
          BY <4>1, <3>3, Zenon
        <4> QED
          BY <1>8, <3>3, <4>2, LockBlockTask DEF LockBlock, SameBio
      <3> QED
        BY <3>1, <3>2, <3>3
    <2>3. ClientControl(t)
      BY <1>0, <1>8 DEF ControlOf
    <2>4. ClientControl(t)'
      BY <2>1, <2>2, <2>3 DEF ClientControl, Carries, Seeking, FlushPcs
    <2> QED
      BY <1>0, <1>8, <2>2, <2>4 DEF ControlOf
  <1>9. CASE t \in Clients /\ AllocFull(t)
    <2>1. ReqBlocks(t)' = ReqBlocks(t)
      BY <1>9, AllocFullTask DEF ReqBlocks, LastBlock, SameBio
    <2>2. /\ task[t].pc = "alloc" /\ task'[t].req = task[t].req /\ task'[t].b = task[t].b
          /\ task'[t].pc = "check" /\ task'[t].fresh = task[t].fresh
          /\ task'[t].buf = BufferOf(task[t].b)
      BY <1>9, AllocFullTask DEF AllocFull, SameBio, SameCopy
    <2>3. ClientControl(t)
      BY <1>0, <1>9 DEF ControlOf
    <2>4. ClientControl(t)'
      BY <2>1, <2>2, <2>3, <1>9 DEF ClientControl, Carries, Seeking, FlushPcs, BufferOf
    <2> QED
      BY <1>0, <1>9, <2>2, <2>4 DEF ControlOf
  <1>10. CASE t \in Clients /\ Drain(t)
    <2>1. ReqBlocks(t)' = ReqBlocks(t)
      BY <1>10, DrainTask DEF ReqBlocks, LastBlock, SameBio
    <2> QED
      BY <1>0, <1>10, <2>1, DrainTask DEF Drain, ControlOf, ClientControl, Carries, Seeking, FlushPcs, SameBio, SameCopy, SameFlush, Moves
  <1>11. CASE t \in Clients /\ (CopyTo(t) \/ CopyFrom(t))
    <2>1. /\ Advanced(t, task'[t].pc, task'[t].b) /\ task'[t].req = task[t].req
          /\ task[t].pc = "copy" /\ Carries(t)
      BY <1>11, CopyToTask, CopyFromTask DEF CopyTo, CopyFrom, SameBio, Carries
    <2>2. ReqBlocks(t)' = ReqBlocks(t)
      BY <2>1 DEF ReqBlocks, LastBlock
    <2>3. /\ ReqBlocks(t) = BlockOf(task[t].req.first) .. LastBlock(t) /\ ReqBlocks(t) \subseteq Nat
          /\ BlockOf(task[t].req.first) \in ReqBlocks(t) /\ task[t].b \in ReqBlocks(t) /\ LastBlock(t) \in Nat
          /\ BlockOf(task[t].req.first) \in Nat
      <3>1. /\ ReqBlocks(t) = BlockOf(task[t].req.first) .. LastBlock(t) /\ ReqBlocks(t) \subseteq Blocks
            /\ BlockOf(task[t].req.first) \in ReqBlocks(t) /\ LastBlock(t) \in Blocks
        BY <1>11, <2>1, BioBlocks
      <3>2. task[t].b \in ReqBlocks(t)
        BY <1>0, <1>11, <2>1 DEF ControlOf, ClientControl
      <3>3. ReqBlocks(t) \subseteq Nat /\ LastBlock(t) \in Nat
        BY <3>1, Consts
      <3> QED
        BY <3>1, <3>2, <3>3
    <2>4. task'[t].pc # "end" => task'[t].b \in ReqBlocks(t)
      BY <2>1, <2>3 DEF Advanced
    <2>5. task'[t].pc \in {"block", "end"} \/ (task'[t].pc = "fua_lock" /\ task[t].req.fua)
      <3>1. CASE task[t].b < LastBlock(t)
        BY <2>1, <3>1 DEF Advanced
      <3>2. CASE ~(task[t].b < LastBlock(t)) /\ task[t].req.fua
        BY <2>1, <3>2 DEF Advanced
      <3>3. CASE ~(task[t].b < LastBlock(t)) /\ ~task[t].req.fua
        BY <2>1, <3>3 DEF Advanced
      <3> QED
        BY <3>1, <3>2, <3>3
    <2> QED
      BY <1>0, <1>11, <2>1, <2>2, <2>4, <2>5 DEF ControlOf, ClientControl, Carries, Seeking, FlushPcs, SameBio, SameCopy, SameFlush, Moves
  <1>12. CASE t \in Clients /\ FuaLock(t)
    <2>1. Carries(t) /\ task[t].pc = "fua_lock" /\ task[t].b \in ReqBlocks(t)
      BY <1>0, <1>12 DEF ControlOf, ClientControl, FuaLock, Carries
    <2>2. ReqBlocks(t) = BlockOf(task[t].req.first) .. LastBlock(t) /\ LastBlock(t) \in Nat
          /\ BlockOf(task[t].req.first) \in Nat
      BY <1>12, <2>1, BioBlocks, Consts
    <2>3. SameBio(t) /\ (\/ task[t].b = LastBlock(t) /\ task'[t].pc = "fua_write" /\ task'[t].b = task[t].b
                         \/ task[t].b # LastBlock(t) /\ task'[t].pc = "fua_lock" /\ task'[t].b = task[t].b + 1)
      BY <1>12, <2>2, FuaLockTask
    <2>4. ReqBlocks(t)' = ReqBlocks(t)
      BY <2>3 DEF ReqBlocks, LastBlock, SameBio
    <2>5. task'[t].b \in ReqBlocks(t)
      BY <2>1, <2>2, <2>3
    <2> QED
      BY <1>0, <1>12, <2>1, <2>3, <2>4, <2>5 DEF ControlOf, ClientControl, Carries, Seeking, FlushPcs, SameBio, SameCopy, SameFlush, Moves
  <1>13. CASE t \in Clients /\ End(t)
    <2>1. task'[t] = Idle
      BY <1>13, IdleTask DEF End
    <2> QED
      BY <1>0, <1>13, <2>1 DEF Idle, NoRequest, ControlOf, ClientControl, Carries, Seeking, FlushPcs
  <1>14. CASE t \in Clients /\ \E r \in Requests[t] : Submit(t, r)
    <2>1. PICK q \in Requests[t] : Submit(t, q)
      BY <1>14
    <2>2. /\ q.op # "none" /\ (q.fua => q.op = "write")
          /\ (q.op # "flush" => {q.first, q.last} \subseteq Sectors /\ q.first <= q.last)
          /\ q.op \in {"read", "write", "flush"}
      BY <1>14, RequestsAssumption
    <2>3. task'[t].req = q /\ task'[t].b = BlockOf(q.first) /\
          task'[t].pc = CASE q.op = "flush" -> "barrier" [] q.op = "write" -> "gate" [] OTHER -> "enter"
      BY <1>14, <2>1, SubmitTask
    <2>4. q.op # "flush" => task'[t].b \in ReqBlocks(t)'
      BY <2>2, <2>3, RequestBlocks DEF ReqBlocks, LastBlock
    <2>5. \/ q.op = "flush" /\ task'[t].pc = "barrier"
          \/ q.op = "write" /\ task'[t].pc = "gate"
          \/ q.op = "read" /\ task'[t].pc = "enter"
      BY <2>2, <2>3
    <2> QED
      BY <1>0, <1>14, <2>2, <2>3, <2>4, <2>5 DEF ControlOf, ClientControl, Carries, Seeking, FlushPcs
  <1>r. ASSUME NEW d \in Nat, task' = [task EXCEPT ![t] = Return(t, d)],
               task[t].pc \in FlushPcs
        PROVE  ControlOf(t)'
    <2>1. /\ t \in Buffers => \E pc \in {"check", "idle"} : task'[t] = [Idle EXCEPT !.buf = t, !.pc = pc]
          /\ t \in Clients /\ task[t].req.op = "write" => Moves(t, "alloc")
          /\ t \in Clients /\ task[t].req.op # "write" =>
              /\ SameBio(t) /\ SameCopy(t)
              /\ task'[t].pc \in {"flush", "sync"}
      BY <1>r, ReturnMoves
    <2>2. CASE t \in Buffers
      <3>1. PICK pc \in {"check", "idle"} : task'[t] = [Idle EXCEPT !.buf = t, !.pc = pc]
        BY <2>1, <2>2
      <3>2. task'[t].pc \in {"check", "idle"} /\ task'[t].buf = t /\ task'[t].req = NoRequest
        BY <3>1 DEF Idle
      <3> QED
        BY <1>0, <2>2, <3>2 DEF ControlOf, SyncerControl, FlushPcs, NoRequest
    <2>3. CASE t \in Clients
      <3>1. ReqBlocks(t)' = ReqBlocks(t) /\ task'[t].req = task[t].req
        BY <2>1, <2>3 DEF ReqBlocks, LastBlock, Moves, SameBio
      <3>2. CASE task[t].req.op = "write"
        BY <1>0, <1>r, <2>1, <2>3, <3>1, <3>2 DEF ControlOf, ClientControl, Carries, Seeking, FlushPcs, SameBio, SameCopy, SameFlush, Moves
      <3>3. CASE task[t].req.op # "write"
        <4>1. task[t].req.op = "flush"
          BY <1>0, <1>r, <2>3, <3>3 DEF ControlOf, ClientControl, FlushPcs
        <4> QED
          BY <1>0, <2>1, <2>3, <3>1, <4>1 DEF ControlOf, ClientControl, Carries, Seeking, FlushPcs
      <3> QED
        BY <3>2, <3>3
    <2> QED
      BY <2>2, <2>3 DEF Tasks
  <1>15. CASE Check(t)
    <2>0. task[t].pc = "check"
      BY <1>15 DEF Check
    <2>1. CASE Moves(t, "flush")
      <3>1. ReqBlocks(t)' = ReqBlocks(t)
        BY <2>1 DEF ReqBlocks, LastBlock, Moves, SameBio
      <3> QED
        BY <1>0, <2>0, <2>1, <3>1 DEF ControlOf, ClientControl, Carries, Seeking, FlushPcs, SameBio, SameCopy, SameFlush, Moves, SyncerControl
    <2>2. CASE ~Moves(t, "flush")
      BY <1>15, <1>r, <2>0, <2>2, CheckMoves DEF FlushPcs
    <2> QED
      BY <2>1, <2>2
  <1>s. ASSUME SameBio(t), SameCopy(t), task'[t].buf = task[t].buf,
               task[t].pc \in {"flush", "range"},
               \/ task'[t].pc = "range" /\ task'[t].todo # {} /\ Synced(t)' \subseteq Range1(t)'
               \/ task'[t].pc = "cleaned" /\ task'[t].todo = {}
        PROVE  ControlOf(t)'
    <2>1. ReqBlocks(t)' = ReqBlocks(t)
      BY <1>s DEF ReqBlocks, LastBlock, SameBio
    <2>2. t \in Clients => ClientControl(t)'
      BY <1>0, <1>s, <2>1 DEF ControlOf, ClientControl, Carries, Seeking, FlushPcs, SameBio, SameCopy
    <2>3. t \in Buffers => SyncerControl(t)'
      BY <1>0, <1>s DEF ControlOf, SyncerControl, FlushPcs, SameBio
    <2> QED
      BY <1>s, <2>2, <2>3 DEF ControlOf
  <1>16. CASE Flush(t)
    <2>0. task[t].pc = "flush"
      BY <1>16 DEF Flush
    <2>1. CASE IsEmpty(task[t].buf) \/ NumToClean(t) = 0
      BY <1>16, <1>r, <2>0, <2>1, FlushMoves DEF FlushPcs
    <2>2. CASE ~IsEmpty(task[t].buf) /\ NumToClean(t) # 0
      <3> DEFINE S == Scan(task[t].buf, NumToClean(t))
      <3>1. ~FoundClean(task[t].buf, NumToClean(t)) /\ S \subseteq Blocks /\ Cardinality(S) # 0
        BY <1>16, <2>2, FlushScan
      <3>2. S # {}
        BY <3>1, FS_EmptySet
      <3>3. SameBio(t) /\ SameCopy(t) /\ task'[t].pc = "range" /\ task'[t].todo = S /\ task'[t].synced = 0
            /\ task'[t].buf = task[t].buf
        BY <1>16, <2>2, <3>1, FlushTask
      <3>4. Synced(t)' = {}
        BY <3>2, <3>3, SyncedNone
      <3> QED
        BY <1>s, <2>0, <3>2, <3>3, <3>4
    <2> QED
      BY <2>1, <2>2
  <1>17. CASE SyncBlock(t)
    <2>1. task[t].pc = "range" /\ NextBlock(t) \in Range1(t)
      BY <1>17 DEF SyncBlock
    <2>2. task[t].todo # {} /\ Synced(t) \subseteq Range1(t) /\ NextBlock(t) \in task[t].todo /\ NextBlock(t) \in Blocks
      BY <2>1, SequenceNext, SequenceFacts
    <2>3. IsBuffered(NextBlock(t))
      BY <2>1, <2>2 DEF Rings, Flushed
    <2>4. Synced(t)' = Synced(t) \cup {NextBlock(t)} /\ Range1(t)' = Range1(t)
      BY <1>17, <2>2, SyncBlockTask, SyncedMore
    <2> QED
      BY <1>17, <1>s, <2>1, <2>2, <2>3, <2>4, SyncBlockTask
  <1>18. CASE UnlinkRange(t)
    <2>1. task[t].pc = "range"
      BY <1>18 DEF UnlinkRange
    <2>2. task'[t].todo = {} => task'[t].pc = "cleaned"
      BY <1>18, UnlinkRangeTask
    <2>3. task'[t].todo # {} => task'[t].pc = "range" /\ Synced(t)' = {}
      BY <1>18, UnlinkRangeTask, SyncedNone
    <2> QED
      BY <1>18, <1>s, <2>1, <2>2, <2>3, UnlinkRangeTask
  <1>19. CASE Cleaned(t)
    BY <1>19, <1>r, CleanedMoves DEF FlushPcs, Cleaned
  <1>20. CASE t \in Buffers /\ (StartSync(t) \/ StartIdleSync(t))
    BY <1>0, <1>20, StartMoves DEF ControlOf, SyncerControl, FlushPcs, Moves, SameBio, SameFlush
  <1> QED
    BY <1>1, <1>2, <1>3, <1>4, <1>5, <1>6, <1>7, <1>8, <1>9, <1>10, <1>11, <1>12, <1>13, <1>14, <1>15, <1>16, <1>17, <1>18, <1>19, <1>20 DEF Acts, Bio, Flushing

\* Every step keeps the control.
LEMMA ControlStep ==
  ASSUME Types, Control, Locks, Rings, NEW t \in Tasks, Acts(t), Types'
  PROVE  Control'
  <1>1. Steps(t)
    BY TypesStep
  <1> QED
    BY <1>1, ControlOfStep, ControlOthers DEF Control

-----------------------------------------------------------------------------
(***************************************************************************)
(* Locks.                                                                  *)
(***************************************************************************)
\* What is said of a task depends on its record only.
LEMMA SameTask ==
  ASSUME NEW u \in Tasks, task'[u] = task[u]
  PROVE  /\ Held(u)' = Held(u) /\ Synced(u)' = Synced(u) /\ Range1(u)' = Range1(u)
         /\ NextBlock(u)' = NextBlock(u) /\ ReqBlocks(u)' = ReqBlocks(u) /\ Taken(u)' = Taken(u)
         /\ (Seeking(u)' <=> Seeking(u)) /\ (Barring(u)' <=> Barring(u)) /\ (Flying(u)' <=> Flying(u))
         /\ \A f : Flushes(u, f)' <=> Flushes(u, f)
  <1>1. Synced(u)' = Synced(u) /\ Range1(u)' = Range1(u) /\ NextBlock(u)' = NextBlock(u)
    BY SyncedSame
  <1>2. ReqBlocks(u)' = ReqBlocks(u)
    BY DEF ReqBlocks, LastBlock
  <1>3. Seeking(u)' <=> Seeking(u)
    BY DEF Seeking
  <1>4. Held(u)' = Held(u)
    BY <1>1, <1>2, <1>3 DEF Held
  <1>5. Taken(u)' = Taken(u) /\ (Barring(u)' <=> Barring(u)) /\ (Flying(u)' <=> Flying(u))
    BY DEF Taken, Barring, Flying
  <1>6. \A f : Flushes(u, f)' <=> Flushes(u, f)
    BY DEF Flushes
  <1> QED
    BY <1>1, <1>2, <1>3, <1>4, <1>5, <1>6

\* Two tasks never hold the lock of the same block, or of the same buffer.
LEMMA HeldApart ==
  ASSUME Types, Locks, NEW t \in Tasks, NEW u \in Tasks
  PROVE  /\ \A b \in Held(t) : b \in Blocks /\ pbi_lock[b] = t /\ (b \in Held(u) => u = t)
         /\ \A b \in Blocks : pbi_lock[b] = Null => b \notin Held(t)
         /\ \A f \in Buffers : Flushes(t, f) /\ Flushes(u, f) => u = t
         /\ \A f \in Buffers : flush_lock[f] = Null => ~Flushes(t, f)
  <1>1. \A b \in Held(t) : b \in Blocks
    BY DEF Held
  <1> QED
    BY <1>1, Consts DEF Locks

KeepsBlocks(t) == pbi_lock' = pbi_lock /\ Held(t)' = Held(t)
TakesBlock(t, b) ==
  /\ b \in Blocks /\ pbi_lock[b] = Null
  /\ pbi_lock' = [pbi_lock EXCEPT ![b] = t] /\ Held(t)' = Held(t) \cup {b}
FreesBlocks(t, S) ==
  /\ S \subseteq Held(t) /\ Held(t)' = Held(t) \ S
  /\ pbi_lock' = [b \in Blocks |-> IF b \in S THEN Null ELSE pbi_lock[b]]

\* A step takes one block, frees some, or leaves them all.
LEMMA HeldStep ==
  ASSUME Types, Control, Locks, Rings, NEW t \in Tasks, Acts(t), Types'
  PROVE  \/ KeepsBlocks(t)
         \/ (LockBlock(t) \/ FuaLock(t)) /\ TakesBlock(t, task[t].b)
         \/ SyncBlock(t) /\ TakesBlock(t, NextBlock(t))
         \/ (CopyTo(t) \/ CopyFrom(t)) /\ FreesBlocks(t, {task[t].b})
         \/ FuaWrite(t) /\ FreesBlocks(t, ReqBlocks(t))
         \/ UnlinkRange(t) /\ FreesBlocks(t, Range1(t))
  <1>0. Clients \cap Buffers = {} /\ ControlOf(t)
    BY Consts DEF Control
  <1>a. t \in Clients /\ Carries(t) /\ task[t].b \in ReqBlocks(t) => task[t].b \in Blocks
    BY BioBlocks
  <1>1. CASE t \in Clients /\ Gate(t)
    <2>1. task[t].pc = "gate" /\ task'[t].pc = "enter" /\ task'[t].req = task[t].req /\ task'[t].b = task[t].b /\ task'[t].buf = task[t].buf
      BY <1>1, GateMoves DEF Gate, Moves, SameBio, SameCopy, SameFlush
    <2>2. Held(t) = {} /\ Held(t)' = {}
      BY <2>1 DEF Held, Seeking, FlushPcs
    <2> QED
      BY <1>1, <2>2 DEF Gate, KeepsBlocks
  <1>2. CASE t \in Clients /\ Enter(t)
    <2>1. task[t].pc = "enter" /\ task'[t].pc \in {"end", "block"} /\ task'[t].req = task[t].req /\ task'[t].b = task[t].b /\ task'[t].buf = task[t].buf
      BY <1>2, EnterMoves DEF Enter, Moves, SameBio, SameCopy, SameFlush
    <2>2. Held(t) = {} /\ Held(t)' = {}
      BY <2>1 DEF Held, Seeking, FlushPcs
    <2> QED
      BY <1>2, <2>2 DEF Enter, KeepsBlocks
  <1>3. CASE t \in Clients /\ TakeBarrier(t)
    <2>1. task[t].pc = "barrier" /\ task'[t].pc = "drain" /\ task'[t].req = task[t].req /\ task'[t].b = task[t].b /\ task'[t].buf = task[t].buf
      BY <1>3, TakeBarrierMoves DEF TakeBarrier, Moves, SameBio, SameCopy, SameFlush
    <2>2. Held(t) = {} /\ Held(t)' = {}
      BY <2>1 DEF Held, Seeking, FlushPcs
    <2> QED
      BY <1>3, <2>2 DEF TakeBarrier, KeepsBlocks
  <1>4. CASE t \in Clients /\ SyncCaches(t)
    <2>1. task[t].pc = "sync" /\ task'[t].pc = "synced" /\ task'[t].req = task[t].req /\ task'[t].b = task[t].b /\ task'[t].buf = task[t].buf
      BY <1>4, SyncCachesMoves DEF SyncCaches, Moves, SameBio, SameCopy, SameFlush
    <2>2. Held(t) = {} /\ Held(t)' = {}
      BY <2>1 DEF Held, Seeking, FlushPcs
    <2> QED
      BY <1>4, <2>2 DEF SyncCaches, KeepsBlocks
  <1>5. CASE t \in Clients /\ ReleaseBarrier(t)
    <2>1. task[t].pc = "synced" /\ task'[t].pc = "gate" /\ task'[t].req = task[t].req /\ task'[t].b = task[t].b /\ task'[t].buf = task[t].buf
      BY <1>5, ReleaseBarrierMoves DEF ReleaseBarrier, Moves, SameBio, SameCopy, SameFlush
    <2>2. Held(t) = {} /\ Held(t)' = {}
      BY <2>1 DEF Held, Seeking, FlushPcs
    <2> QED
      BY <1>5, <2>2 DEF ReleaseBarrier, KeepsBlocks
  <1>6. CASE t \in Clients /\ Drain(t)
    <2>1. task[t].pc = "drain" /\ task'[t].pc = "flush" /\ task'[t].req = task[t].req /\ task'[t].b = task[t].b
      BY <1>6, DrainTask DEF Drain, SameBio, SameCopy
    <2>2. task[t].req.op = "flush"
      BY <1>6, <1>0, <2>1 DEF ControlOf, ClientControl
    <2>3. Held(t) = {} /\ Held(t)' = {}
      BY <2>1, <2>2 DEF Held, Seeking, FlushPcs
    <2> QED
      BY <1>6, <2>3 DEF Drain, KeepsBlocks
  <1>7. CASE t \in Buffers /\ (StartSync(t) \/ StartIdleSync(t))
    <2>1. task[t].pc = "idle" /\ task'[t].pc = "check" /\ task'[t].req = task[t].req
      BY <1>7, StartMoves DEF StartSync, StartIdleSync, Moves, SameBio
    <2>2. Held(t) = {} /\ Held(t)' = {}
      BY <1>7, <1>0, <2>1 DEF Held, Seeking, FlushPcs
    <2> QED
      BY <1>7, <2>2 DEF StartSync, StartIdleSync, KeepsBlocks
  <1>8. CASE t \in Clients /\ End(t)
    <2>1. task[t].pc = "end" /\ task'[t] = Idle
      BY <1>8, IdleTask DEF End
    <2>2. task'[t].pc = "idle"
      BY <2>1 DEF Idle
    <2>3. Held(t) = {} /\ Held(t)' = {}
      BY <2>1, <2>2 DEF Held, Seeking, FlushPcs
    <2> QED
      BY <1>8, <2>3 DEF End, KeepsBlocks
  <1>9. CASE t \in Clients /\ \E r \in Requests[t] : Submit(t, r)
    <2>1. PICK q \in Requests[t] : Submit(t, q)
      BY <1>9
    <2>2. task[t].pc = "idle" /\ task'[t].pc \in {"barrier", "gate", "enter"}
      <3>1. /\ task[t].pc = "idle"
            /\ task'[t].pc = CASE q.op = "flush" -> "barrier" [] q.op = "write" -> "gate" [] OTHER -> "enter"
        BY <1>9, <2>1, SubmitTask DEF Submit
      <3> QED
        BY <3>1
    <2>3. Held(t) = {} /\ Held(t)' = {}
      BY <2>2 DEF Held, Seeking, FlushPcs
    <2> QED
      BY <2>1, <2>3 DEF Submit, KeepsBlocks
  <1>10. CASE t \in Clients /\ Alloc(t)
    <2>1. task[t].pc = "alloc" /\ task'[t].pc = "copy" /\ task'[t].req = task[t].req /\ task'[t].b = task[t].b /\ task'[t].buf = task[t].buf
      BY <1>10, AllocMoves DEF Alloc, Moves, SameBio, SameCopy, SameFlush
    <2>2. task[t].req.op = "write"
      BY <1>10, <1>0, <2>1 DEF ControlOf, ClientControl
    <2>3. Held(t) = {b \in Blocks : b = task[t].b} /\ Held(t)' = {b \in Blocks : b = task[t].b}
      BY <1>10, <2>1, <2>2 DEF Held, Seeking, FlushPcs
    <2> QED
      BY <1>10, <2>3 DEF Alloc, KeepsBlocks
  <1>11. CASE t \in Clients /\ AllocFull(t)
    <2>1. task[t].pc = "alloc" /\ task'[t].pc = "check" /\ task'[t].req = task[t].req /\ task'[t].b = task[t].b
      BY <1>11, AllocFullTask DEF AllocFull, SameBio, SameCopy
    <2>2. task[t].req.op = "write"
      BY <1>11, <1>0, <2>1 DEF ControlOf, ClientControl
    <2>3. Held(t) = {b \in Blocks : b = task[t].b} /\ Held(t)' = {b \in Blocks : b = task[t].b}
      BY <1>11, <2>1, <2>2 DEF Held, Seeking, FlushPcs
    <2> QED
      BY <1>11, <2>3 DEF AllocFull, KeepsBlocks
  <1>12. CASE t \in Clients /\ LockBlock(t)
    <2>1. task[t].pc = "block" /\ (task'[t].pc = "copy" \/ (task'[t].pc = "alloc" /\ task[t].req.op = "write")) /\ task'[t].req = task[t].req /\ task'[t].b = task[t].b
      BY <1>12, LockBlockTask DEF LockBlock, SameBio
    <2>2. task[t].b \in Blocks
      BY <1>12, <1>0, <1>a, <2>1 DEF ControlOf, ClientControl, Carries
    <2>3. Held(t) = {}
      BY <2>1 DEF Held, Seeking, FlushPcs
    <2>4. Held(t)' = {task[t].b}
      BY <1>12, <2>1, <2>2 DEF Held, Seeking, FlushPcs
    <2> QED
      BY <1>12, <2>2, <2>3, <2>4 DEF LockBlock, TakesBlock
  <1>13. CASE t \in Clients /\ (CopyTo(t) \/ CopyFrom(t))
    <2>1. task[t].pc = "copy" /\ task'[t].req = task[t].req /\ Advanced(t, task'[t].pc, task'[t].b)
      BY <1>13, CopyToTask, CopyFromTask DEF CopyTo, CopyFrom, SameBio
    <2>2. task[t].b \in Blocks
      BY <1>13, <1>0, <1>a, <2>1 DEF ControlOf, ClientControl, Carries
    <2>3. Held(t) = {task[t].b}
      BY <2>1, <2>2 DEF Held, Seeking, FlushPcs
    <2>4. Held(t)' = {}
      <3>1. \/ task'[t].pc \in {"block", "end"}
            \/ (task'[t].pc = "fua_lock" /\ task'[t].b = BlockOf(task[t].req.first))
        <4>1. CASE task[t].b < LastBlock(t)
          BY <2>1, <4>1 DEF Advanced
        <4>2. CASE ~(task[t].b < LastBlock(t)) /\ task[t].req.fua
          BY <2>1, <4>2 DEF Advanced
        <4>3. CASE ~(task[t].b < LastBlock(t)) /\ ~task[t].req.fua
          BY <2>1, <4>3 DEF Advanced
        <4> QED
          BY <4>1, <4>2, <4>3
      <3>2. CASE task'[t].pc \in {"block", "end"}
        BY <3>2 DEF Held, Seeking, FlushPcs
      <3>3. CASE task'[t].pc = "fua_lock" /\ task'[t].b = BlockOf(task[t].req.first)
        <4>1. BlockOf(task'[t].req.first) .. task'[t].b - 1 = {}
          <5>0. Carries(t)
            BY <1>13, <1>0, <2>1 DEF ControlOf, ClientControl, Carries
          <5>1. BlockOf(task[t].req.first) \in Nat
            BY <1>13, <5>0, BioBlocks, SectorOfBlock, Consts
          <5> QED
            BY <2>1, <3>3, <5>1
        <4> QED
          BY <3>3, <4>1 DEF Held, Seeking, FlushPcs
      <3> QED
        BY <3>1, <3>2, <3>3
    <2>5. pbi_lock' = [pbi_lock EXCEPT ![task[t].b] = Null] /\ pbi_lock \in [Blocks -> Tasks \cup {Null}]
      BY <1>13 DEF CopyTo, CopyFrom, Unlock, Types, LockTypes
    <2> QED
      BY <1>13, <2>2, <2>3, <2>4, <2>5 DEF FreesBlocks
  <1>14. CASE t \in Clients /\ FuaLock(t)
    <2>1. Carries(t) /\ task[t].pc = "fua_lock" /\ task[t].b \in ReqBlocks(t)
      BY <1>0, <1>14 DEF ControlOf, ClientControl, FuaLock, Carries
    <2>2. /\ ReqBlocks(t) = BlockOf(task[t].req.first) .. LastBlock(t) /\ LastBlock(t) \in Nat
          /\ BlockOf(task[t].req.first) \in Nat /\ ReqBlocks(t) \subseteq Blocks
      BY <1>14, <2>1, BioBlocks, Consts
    <2>3. SameBio(t) /\ (\/ task[t].b = LastBlock(t) /\ task'[t].pc = "fua_write" /\ task'[t].b = task[t].b
                         \/ task[t].b # LastBlock(t) /\ task'[t].pc = "fua_lock" /\ task'[t].b = task[t].b + 1)
      BY <1>14, <2>2, FuaLockTask
    <2>4. ReqBlocks(t)' = ReqBlocks(t) /\ task'[t].req = task[t].req
      BY <2>3 DEF ReqBlocks, LastBlock, SameBio
    <2>5. Held(t) = {b \in Blocks : b \in BlockOf(task[t].req.first) .. task[t].b - 1}
      BY <2>1 DEF Held, Seeking, FlushPcs
    <2>6. Held(t)' = {b \in Blocks : b \in BlockOf(task[t].req.first) .. task[t].b}
      <3>1. CASE task[t].b = LastBlock(t) /\ task'[t].pc = "fua_write" /\ task'[t].b = task[t].b
        BY <2>2, <2>4, <3>1 DEF Held, Seeking, FlushPcs
      <3>2. CASE task[t].b # LastBlock(t) /\ task'[t].pc = "fua_lock" /\ task'[t].b = task[t].b + 1
        <4>1. task'[t].b - 1 = task[t].b
          BY <3>2, TaskFields
        <4> QED
          BY <2>4, <3>2, <4>1 DEF Held, Seeking, FlushPcs
      <3> QED
        BY <2>3, <3>1, <3>2
    <2>7. Held(t)' = Held(t) \cup {task[t].b}
      <3>1. task[t].b \in Blocks /\ task[t].b \in Nat /\ BlockOf(task[t].req.first) <= task[t].b
        BY <2>1, <2>2, TaskFields
      <3>2. \A b \in Blocks : b \in BlockOf(task[t].req.first) .. task[t].b
              <=> b \in BlockOf(task[t].req.first) .. task[t].b - 1 \/ b = task[t].b
        <4>1. Blocks \subseteq Nat /\ BlockOf(task[t].req.first) \in Nat
          BY <2>2, Consts
        <4> PICK a, z : a = BlockOf(task[t].req.first) /\ z = task[t].b
          OBVIOUS
        <4>2. a \in Nat /\ z \in Nat /\ a <= z
          BY <3>1, <4>1
        <4>3. \A b \in Nat : b \in a .. z <=> b \in a .. z - 1 \/ b = z
          BY <4>2
        <4> QED
          BY <4>1, <4>3
      <3> QED
        BY <2>5, <2>6, <3>1, <3>2
    <2> QED
      BY <1>14, <2>1, <2>2, <2>7 DEF FuaLock, TakesBlock
  <1>15. CASE t \in Clients /\ FuaWrite(t)
    <2>1. task[t].pc = "fua_write" /\ task'[t].pc = "end" /\ task'[t].req = task[t].req /\ task'[t].b = task[t].b /\ task'[t].buf = task[t].buf
      BY <1>15, FuaWriteMoves DEF FuaWrite, Moves, SameBio, SameCopy, SameFlush
    <2>2. Carries(t)
      BY <1>0, <1>15, <2>1 DEF ControlOf, ClientControl, Carries
    <2>3. ReqBlocks(t) \subseteq Blocks
      BY <1>15, <2>2, BioBlocks
    <2>4. Held(t) = ReqBlocks(t) /\ Held(t)' = {}
      BY <2>1, <2>3 DEF Held, Seeking, FlushPcs
    <2> QED
      BY <1>15, <2>4 DEF FuaWrite, FreesBlocks
  <1>r. ASSUME NEW d \in Nat, task' = [task EXCEPT ![t] = Return(t, d)],
               task[t].pc \in {"check", "flush", "cleaned"}
        PROVE  Held(t)' = Held(t)
    <2>1. CASE t \in Buffers
      <3>1. PICK pc \in {"check", "idle"} : task'[t] = [Idle EXCEPT !.buf = t, !.pc = pc]
        BY <1>r, <2>1, ReturnMoves
      <3>2. task'[t].pc \in {"check", "idle"}
        BY <3>1 DEF Idle
      <3> QED
        BY <1>0, <1>r, <2>1, <3>2 DEF Held, Seeking, FlushPcs
    <2>2. CASE t \in Clients /\ task[t].req.op = "write"
      <3>1. task'[t].req = task[t].req /\ task'[t].b = task[t].b /\ task'[t].pc = "alloc"
        BY <1>r, <2>2, ReturnMoves DEF Moves, SameBio, SameCopy
      <3> QED
        BY <1>r, <2>2, <3>1 DEF Held, Seeking, FlushPcs
    <2>3. CASE t \in Clients /\ task[t].req.op # "write"
      <3>1. task'[t].req = task[t].req /\ task'[t].b = task[t].b /\ task'[t].pc \in {"flush", "sync"}
        BY <1>r, <2>3, ReturnMoves DEF SameBio, SameCopy
      <3> QED
        BY <1>r, <2>3, <3>1 DEF Held, Seeking, FlushPcs
    <2> QED
      BY <2>1, <2>2, <2>3 DEF Tasks
  <1>16. CASE Check(t)
    <2>0. task[t].pc = "check" /\ pbi_lock' = pbi_lock
      BY <1>16 DEF Check
    <2>1. CASE Moves(t, "flush")
      <3>1. task'[t].req = task[t].req /\ task'[t].b = task[t].b /\ task'[t].pc = "flush"
        BY <2>1 DEF Moves, SameBio, SameCopy
      <3> QED
        BY <2>0, <3>1 DEF Held, Seeking, FlushPcs, KeepsBlocks
    <2>2. CASE ~Moves(t, "flush")
      BY <1>16, <1>r, <2>0, <2>2, CheckMoves DEF KeepsBlocks
    <2> QED
      BY <2>1, <2>2
  <1>17. CASE Flush(t)
    <2>0. task[t].pc = "flush" /\ pbi_lock' = pbi_lock
      BY <1>17 DEF Flush
    <2>1. CASE IsEmpty(task[t].buf) \/ NumToClean(t) = 0
      BY <1>17, <1>r, <2>0, <2>1, FlushMoves DEF KeepsBlocks
    <2>2. CASE ~IsEmpty(task[t].buf) /\ NumToClean(t) # 0
      <3> DEFINE S == Scan(task[t].buf, NumToClean(t))
      <3>1. ~FoundClean(task[t].buf, NumToClean(t)) /\ S \subseteq Blocks /\ Cardinality(S) # 0
        BY <1>17, <2>2, FlushScan
      <3>2. S # {}
        BY <3>1, FS_EmptySet
      <3>3. SameBio(t) /\ SameCopy(t) /\ task'[t].pc = "range" /\ task'[t].todo = S /\ task'[t].synced = 0
        BY <1>17, <2>2, <3>1, FlushTask
      <3>4. Synced(t)' = {}
        BY <3>2, <3>3, SyncedNone
      <3> HIDE DEF S
      <3>5. task'[t].req = task[t].req /\ task'[t].b = task[t].b
        BY <3>3 DEF SameBio, SameCopy
      <3>6. Held(t)' = Held(t)
        BY <2>0, <3>3, <3>4, <3>5 DEF Held, Seeking, FlushPcs
      <3> QED
        BY <2>0, <3>6 DEF KeepsBlocks
    <2> QED
      BY <2>1, <2>2
  <1>18. CASE SyncBlock(t)
    <2>1. task[t].pc = "range" /\ task'[t].req = task[t].req /\ task'[t].b = task[t].b /\ task'[t].buf = task[t].buf /\ task'[t].todo = task[t].todo /\ task'[t].synced = task[t].synced + 1
      BY <1>18, SyncBlockTask DEF SyncBlock, SameBio, SameCopy
    <2>2. NextBlock(t) \in Range1(t) /\ pbi_lock[NextBlock(t)] = Null /\ pbi_lock' = [pbi_lock EXCEPT ![NextBlock(t)] = t]
      BY <1>18 DEF SyncBlock
    <2>3. task[t].todo # {} /\ NextBlock(t) \in task[t].todo /\ NextBlock(t) \in Blocks
      BY <2>1, <2>2, SequenceNext, SequenceFacts
    <2>4. task'[t].pc = "range"
      BY <1>18, <2>1, <2>3, SyncBlockTask DEF Rings, Flushed
    <2>5. Synced(t)' = Synced(t) \cup {NextBlock(t)}
      BY <2>1, <2>3, SyncedMore
    <2>6. Seeking(t)' <=> Seeking(t)
      BY <2>1, <2>4 DEF Seeking, FlushPcs
    <2>7. Held(t)' = Held(t) \cup {NextBlock(t)}
      BY <2>1, <2>3, <2>4, <2>5, <2>6 DEF Held
    <2> QED
      BY <1>18, <2>2, <2>3, <2>7 DEF TakesBlock
  <1>19. CASE UnlinkRange(t)
    <2>1. task[t].pc = "range" /\ task'[t].pc \in {"range", "cleaned"} /\ task'[t].req = task[t].req /\ task'[t].b = task[t].b /\ task'[t].buf = task[t].buf /\ task'[t].synced = 0
      BY <1>19, UnlinkRangeTask DEF UnlinkRange, SameBio, SameCopy
    <2>2. NextBlock(t) \notin Range1(t) /\ pbi_lock' = [b \in Blocks |-> IF b \in Range1(t) THEN Null ELSE pbi_lock[b]]
      BY <1>19 DEF UnlinkRange
    <2>3. Synced(t) = Range1(t) /\ Range1(t) \subseteq Blocks /\ Range1(t) \subseteq task[t].todo
      BY <2>1, <2>2, SequenceNext, SequenceFacts
    <2>4. task'[t].pc = "range" => Synced(t)' = {}
      <3>1. task'[t].pc = "range" => task'[t].todo # {}
        BY <1>19, UnlinkRangeTask
      <3> QED
        BY <2>1, <3>1, SyncedNone
    <2>5. Seeking(t)' <=> Seeking(t)
      BY <2>1 DEF Seeking, FlushPcs
    <2>6. Seeking(t) => task[t].b \notin Range1(t)
      <3>1. Seeking(t) => ~IsBuffered(task[t].b)
        BY DEF Rings, Placed, Seeking
      <3>2. \A b \in task[t].todo : IsBuffered(b)
        BY <2>1 DEF Rings, Flushed
      <3> QED
        BY <2>3, <3>1, <3>2
    <2>7. Held(t) = {b \in Blocks : (Seeking(t) /\ b = task[t].b) \/ b \in Synced(t)}
      BY <2>1 DEF Held
    <2>8. Held(t)' = {b \in Blocks : Seeking(t) /\ b = task[t].b}
      BY <2>1, <2>4, <2>5 DEF Held
    <2> QED
      BY <1>19, <2>2, <2>3, <2>6, <2>7, <2>8 DEF FreesBlocks
  <1>20. CASE Cleaned(t)
    <2>0. task[t].pc = "cleaned" /\ pbi_lock' = pbi_lock
      BY <1>20 DEF Cleaned
    <2> QED
      BY <1>20, <1>r, <2>0, CleanedMoves DEF KeepsBlocks
  <1> QED
    BY <1>1, <1>2, <1>3, <1>4, <1>5, <1>6, <1>7, <1>8, <1>9, <1>10, <1>11, <1>12, <1>13, <1>14, <1>15, <1>16, <1>17, <1>18, <1>19, <1>20 DEF Acts, Bio, Flushing

\* Who flushes a buffer, holds the barrier's lock, is counted as in flight.
KeepsBooks(t) ==
  /\ flush_lock' = flush_lock /\ wr_barrier_lock' = wr_barrier_lock /\ num_flying_wr' = num_flying_wr
  /\ \A f \in Buffers : Flushes(t, f)' <=> Flushes(t, f)
  /\ t \in Clients => (Barring(t)' <=> Barring(t)) /\ (Flying(t)' <=> Flying(t))
KeepsFlush(t) == flush_lock' = flush_lock /\ \A f \in Buffers : Flushes(t, f)' <=> Flushes(t, f)
KeepsCount(t) == num_flying_wr' = num_flying_wr /\ (Flying(t)' <=> Flying(t))
KeepsBarrier(t) == wr_barrier_lock' = wr_barrier_lock /\ (Barring(t)' <=> Barring(t))

\* A step changes one of the flush locks, the barrier lock and the count, or none.
LEMMA BooksStep ==
  ASSUME Types, Control, Locks, Rings, NEW t \in Tasks, Acts(t), Types'
  PROVE  \/ KeepsBooks(t)
         \/ /\ Enter(t) /\ t \in Clients /\ KeepsFlush(t) /\ KeepsBarrier(t)
            /\ ~Flying(t) /\ Flying(t)' /\ num_flying_wr' = num_flying_wr + 1
         \/ /\ End(t) /\ t \in Clients /\ KeepsFlush(t) /\ KeepsBarrier(t)
            /\ Flying(t) /\ ~Flying(t)' /\ num_flying_wr' = num_flying_wr - 1
         \/ /\ TakeBarrier(t) /\ t \in Clients /\ KeepsFlush(t) /\ KeepsCount(t)
            /\ wr_barrier_lock = Null /\ wr_barrier_lock' = t /\ Barring(t)'
         \/ /\ ReleaseBarrier(t) /\ t \in Clients /\ KeepsFlush(t) /\ KeepsCount(t)
            /\ Barring(t) /\ wr_barrier_lock' = Null /\ ~Barring(t)'
         \/ /\ Flush(t) /\ wr_barrier_lock' = wr_barrier_lock /\ num_flying_wr' = num_flying_wr
            /\ (t \in Clients => (Barring(t)' <=> Barring(t)) /\ (Flying(t)' <=> Flying(t)))
            /\ flush_lock[task[t].buf] = Null /\ flush_lock' = [flush_lock EXCEPT ![task[t].buf] = t]
            /\ \A f \in Buffers : Flushes(t, f)' <=> f = task[t].buf
         \/ /\ Cleaned(t) /\ wr_barrier_lock' = wr_barrier_lock /\ num_flying_wr' = num_flying_wr
            /\ (t \in Clients => (Barring(t)' <=> Barring(t)) /\ (Flying(t)' <=> Flying(t)))
            /\ flush_lock' = [flush_lock EXCEPT ![task[t].buf] = Null]
            /\ \A f \in Buffers : (Flushes(t, f) <=> f = task[t].buf) /\ ~Flushes(t, f)'
  <1>0. Clients \cap Buffers = {} /\ ControlOf(t)
    BY Consts DEF Control
  <1>1. CASE t \in Clients /\ Gate(t)
    <2>1. task[t].pc = "gate" /\ task'[t].pc = "enter" /\ task'[t].req = task[t].req /\ task'[t].b = task[t].b /\ task'[t].buf = task[t].buf
      BY <1>1, GateMoves DEF Gate, Moves, SameBio, SameCopy, SameFlush
    <2>2. ClientControl(t)
      BY <1>1, <1>0 DEF ControlOf
    <2>3. (Barring(t)' <=> Barring(t)) /\ (Flying(t)' <=> Flying(t)) /\ \A f \in Buffers : ~Flushes(t, f) /\ ~Flushes(t, f)'
      BY <2>1, <2>2 DEF Flushes, Barring, Flying, FlushPcs, ClientControl
    <2> QED
      BY <1>1, <2>3 DEF Gate, KeepsBooks
  <1>2. CASE t \in Clients /\ SyncCaches(t)
    <2>1. task[t].pc = "sync" /\ task'[t].pc = "synced" /\ task'[t].req = task[t].req /\ task'[t].b = task[t].b /\ task'[t].buf = task[t].buf
      BY <1>2, SyncCachesMoves DEF SyncCaches, Moves, SameBio, SameCopy, SameFlush
    <2>2. ClientControl(t)
      BY <1>2, <1>0 DEF ControlOf
    <2>3. (Barring(t)' <=> Barring(t)) /\ (Flying(t)' <=> Flying(t)) /\ \A f \in Buffers : ~Flushes(t, f) /\ ~Flushes(t, f)'
      BY <2>1, <2>2 DEF Flushes, Barring, Flying, FlushPcs, ClientControl
    <2> QED
      BY <1>2, <2>3 DEF SyncCaches, KeepsBooks
  <1>3. CASE t \in Clients /\ AllocFull(t)
    <2>1. task[t].pc = "alloc" /\ task'[t].pc = "check" /\ task'[t].req = task[t].req /\ task'[t].b = task[t].b
      BY <1>3, AllocFullTask DEF AllocFull, SameBio, SameCopy
    <2>2. ClientControl(t)
      BY <1>3, <1>0 DEF ControlOf
    <2>3. (Barring(t)' <=> Barring(t)) /\ (Flying(t)' <=> Flying(t)) /\ \A f \in Buffers : ~Flushes(t, f) /\ ~Flushes(t, f)'
      BY <2>1, <2>2 DEF Flushes, Barring, Flying, FlushPcs, ClientControl
    <2> QED
      BY <1>3, <2>3 DEF AllocFull, KeepsBooks
  <1>4. CASE t \in Clients /\ Alloc(t)
    <2>1. task[t].pc = "alloc" /\ task'[t].pc = "copy" /\ task'[t].req = task[t].req /\ task'[t].b = task[t].b /\ task'[t].buf = task[t].buf
      BY <1>4, AllocMoves DEF Alloc, Moves, SameBio, SameCopy, SameFlush
    <2>2. ClientControl(t)
      BY <1>4, <1>0 DEF ControlOf
    <2>3. (Barring(t)' <=> Barring(t)) /\ (Flying(t)' <=> Flying(t)) /\ \A f \in Buffers : ~Flushes(t, f) /\ ~Flushes(t, f)'
      BY <2>1, <2>2 DEF Flushes, Barring, Flying, FlushPcs, ClientControl
    <2> QED
      BY <1>4, <2>3 DEF Alloc, KeepsBooks
  <1>5. CASE t \in Clients /\ Drain(t)
    <2>1. task[t].pc = "drain" /\ task'[t].pc = "flush" /\ task'[t].req = task[t].req /\ task'[t].b = task[t].b
      BY <1>5, DrainTask DEF Drain, SameBio, SameCopy
    <2>2. ClientControl(t)
      BY <1>5, <1>0 DEF ControlOf
    <2>3. (Barring(t)' <=> Barring(t)) /\ (Flying(t)' <=> Flying(t)) /\ \A f \in Buffers : ~Flushes(t, f) /\ ~Flushes(t, f)'
      BY <2>1, <2>2 DEF Flushes, Barring, Flying, FlushPcs, ClientControl
    <2> QED
      BY <1>5, <2>3 DEF Drain, KeepsBooks
  <1>6. CASE t \in Clients /\ FuaWrite(t)
    <2>1. task[t].pc = "fua_write" /\ task'[t].pc = "end" /\ task'[t].req = task[t].req /\ task'[t].b = task[t].b /\ task'[t].buf = task[t].buf
      BY <1>6, FuaWriteMoves DEF FuaWrite, Moves, SameBio, SameCopy, SameFlush
    <2>2. ClientControl(t)
      BY <1>6, <1>0 DEF ControlOf
    <2>3. (Barring(t)' <=> Barring(t)) /\ (Flying(t)' <=> Flying(t)) /\ \A f \in Buffers : ~Flushes(t, f) /\ ~Flushes(t, f)'
      BY <2>1, <2>2 DEF Flushes, Barring, Flying, FlushPcs, ClientControl
    <2> QED
      BY <1>6, <2>3 DEF FuaWrite, KeepsBooks
  <1>7. CASE t \in Clients /\ LockBlock(t)
    <2>1. task[t].pc = "block" /\ (task'[t].pc = "copy" \/ (task'[t].pc = "alloc" /\ task[t].req.op = "write")) /\ task'[t].req = task[t].req /\ task'[t].b = task[t].b
      BY <1>7, LockBlockTask DEF LockBlock, SameBio
    <2>2. ClientControl(t)
      BY <1>7, <1>0 DEF ControlOf
    <2>3. (Barring(t)' <=> Barring(t)) /\ (Flying(t)' <=> Flying(t)) /\ \A f \in Buffers : ~Flushes(t, f) /\ ~Flushes(t, f)'
      BY <2>1, <2>2 DEF Flushes, Barring, Flying, FlushPcs, ClientControl
    <2> QED
      BY <1>7, <2>3 DEF LockBlock, KeepsBooks
  <1>8. CASE t \in Clients /\ (CopyTo(t) \/ CopyFrom(t))
    <2>1. task[t].pc = "copy" /\ task'[t].req = task[t].req /\ Advanced(t, task'[t].pc, task'[t].b)
      BY <1>8, CopyToTask, CopyFromTask DEF CopyTo, CopyFrom, SameBio
    <2>2. task'[t].pc \in {"block", "fua_lock", "end"}
      BY <2>1 DEF Advanced
    <2>3. (Barring(t)' <=> Barring(t)) /\ (Flying(t)' <=> Flying(t)) /\ \A f \in Buffers : ~Flushes(t, f) /\ ~Flushes(t, f)'
      BY <2>1, <2>2 DEF Flushes, Barring, Flying, FlushPcs
    <2> QED
      BY <1>8, <2>3 DEF CopyTo, CopyFrom, KeepsBooks
  <1>9. CASE t \in Clients /\ FuaLock(t)
    <2>1. Carries(t) /\ task[t].pc = "fua_lock"
      BY <1>0, <1>9 DEF ControlOf, ClientControl, FuaLock, Carries
    <2>2. task'[t].pc \in {"fua_lock", "fua_write"} /\ task'[t].req = task[t].req
      BY <1>9, <2>1, FuaLockTask, BioBlocks, Consts DEF SameBio
    <2>3. (Barring(t)' <=> Barring(t)) /\ (Flying(t)' <=> Flying(t)) /\ \A f \in Buffers : ~Flushes(t, f) /\ ~Flushes(t, f)'
      BY <2>1, <2>2 DEF Flushes, Barring, Flying, FlushPcs
    <2> QED
      BY <1>9, <2>3 DEF FuaLock, KeepsBooks
  <1>10. CASE t \in Clients /\ \E r \in Requests[t] : Submit(t, r)
    <2>1. PICK q \in Requests[t] : Submit(t, q)
      BY <1>10
    <2>2. task[t].pc = "idle" /\ task'[t].pc \in {"barrier", "gate", "enter"}
      <3>1. /\ task[t].pc = "idle"
            /\ task'[t].pc = CASE q.op = "flush" -> "barrier" [] q.op = "write" -> "gate" [] OTHER -> "enter"
        BY <1>10, <2>1, SubmitTask DEF Submit
      <3> QED
        BY <3>1
    <2>3. (Barring(t)' <=> Barring(t)) /\ (Flying(t)' <=> Flying(t)) /\ \A f \in Buffers : ~Flushes(t, f) /\ ~Flushes(t, f)'
      BY <2>2 DEF Flushes, Barring, Flying, FlushPcs
    <2> QED
      BY <2>1, <2>3 DEF Submit, KeepsBooks
  <1>11. CASE t \in Buffers /\ (StartSync(t) \/ StartIdleSync(t))
    <2>1. task[t].pc = "idle" /\ task'[t].pc = "check" /\ task'[t].req = task[t].req
      BY <1>11, StartMoves DEF StartSync, StartIdleSync, Moves, SameBio
    <2>2. \A f \in Buffers : ~Flushes(t, f) /\ ~Flushes(t, f)'
      BY <2>1 DEF Flushes
    <2> QED
      BY <1>0, <1>11, <2>2 DEF StartSync, StartIdleSync, KeepsBooks
  <1>12. CASE t \in Clients /\ Enter(t)
    <2>1. task[t].pc = "enter" /\ task'[t].pc \in {"end", "block"} /\ task'[t].req = task[t].req /\ task'[t].b = task[t].b /\ task'[t].buf = task[t].buf
      BY <1>12, EnterMoves DEF Enter, Moves, SameBio, SameCopy, SameFlush
    <2>2. (Barring(t)' <=> Barring(t)) /\ ~Flying(t) /\ Flying(t)' /\ \A f \in Buffers : ~Flushes(t, f) /\ ~Flushes(t, f)'
      BY <2>1 DEF Flushes, Barring, Flying, FlushPcs
    <2> QED
      BY <1>12, <2>2 DEF Enter, KeepsFlush, KeepsBarrier
  <1>13. CASE t \in Clients /\ End(t)
    <2>1. task[t].pc = "end" /\ task'[t] = Idle
      BY <1>13, IdleTask DEF End
    <2>2. task'[t].pc = "idle"
      BY <2>1 DEF Idle
    <2>3. (Barring(t)' <=> Barring(t)) /\ Flying(t) /\ ~Flying(t)' /\ \A f \in Buffers : ~Flushes(t, f) /\ ~Flushes(t, f)'
      BY <2>1, <2>2 DEF Flushes, Barring, Flying, FlushPcs
    <2> QED
      BY <1>13, <2>3 DEF End, KeepsFlush, KeepsBarrier
  <1>14. CASE t \in Clients /\ TakeBarrier(t)
    <2>1. task[t].pc = "barrier" /\ task'[t].pc = "drain" /\ task'[t].req = task[t].req /\ task'[t].b = task[t].b /\ task'[t].buf = task[t].buf
      BY <1>14, TakeBarrierMoves DEF TakeBarrier, Moves, SameBio, SameCopy, SameFlush
    <2>2. ClientControl(t)
      BY <1>14, <1>0 DEF ControlOf
    <2>3. Barring(t)' /\ (Flying(t)' <=> Flying(t)) /\ \A f \in Buffers : ~Flushes(t, f) /\ ~Flushes(t, f)'
      BY <2>1, <2>2 DEF Flushes, Barring, Flying, FlushPcs, ClientControl
    <2> QED
      BY <1>14, <2>3 DEF TakeBarrier, KeepsFlush, KeepsCount
  <1>15. CASE t \in Clients /\ ReleaseBarrier(t)
    <2>1. task[t].pc = "synced" /\ task'[t].pc = "gate" /\ task'[t].req = task[t].req /\ task'[t].b = task[t].b /\ task'[t].buf = task[t].buf
      BY <1>15, ReleaseBarrierMoves DEF ReleaseBarrier, Moves, SameBio, SameCopy, SameFlush
    <2>2. ClientControl(t)
      BY <1>15, <1>0 DEF ControlOf
    <2>3. Barring(t) /\ ~Barring(t)' /\ (Flying(t)' <=> Flying(t)) /\ \A f \in Buffers : ~Flushes(t, f) /\ ~Flushes(t, f)'
      BY <2>1, <2>2 DEF Flushes, Barring, Flying, FlushPcs, ClientControl
    <2> QED
      BY <1>15, <2>3 DEF ReleaseBarrier, KeepsFlush, KeepsCount
  <1>r. ASSUME NEW d \in Nat, task' = [task EXCEPT ![t] = Return(t, d)],
               task[t].pc \in {"check", "flush", "cleaned"}
        PROVE  /\ t \in Clients => (Barring(t)' <=> Barring(t)) /\ (Flying(t)' <=> Flying(t))
               /\ \A f \in Buffers : ~Flushes(t, f)'
    <2>1. CASE t \in Buffers
      <3>1. PICK pc \in {"check", "idle"} : task'[t] = [Idle EXCEPT !.buf = t, !.pc = pc]
        BY <1>r, <2>1, ReturnMoves
      <3>2. task'[t].pc \in {"check", "idle"}
        BY <3>1 DEF Idle
      <3> QED
        BY <1>0, <1>r, <2>1, <3>2 DEF Flushes
    <2>2. CASE t \in Clients /\ task[t].req.op = "write"
      <3>1. task'[t].req = task[t].req /\ task'[t].pc = "alloc"
        BY <1>r, <2>2, ReturnMoves DEF Moves, SameBio
      <3> QED
        BY <1>r, <2>2, <3>1 DEF Flushes, Barring, Flying, FlushPcs
    <2>3. CASE t \in Clients /\ task[t].req.op # "write"
      <3>1. task'[t].req = task[t].req /\ task'[t].pc \in {"flush", "sync"}
        BY <1>r, <2>3, ReturnMoves DEF SameBio, SameCopy
      <3>2. task[t].req.op = "flush" /\ task[t].pc \in {"flush", "cleaned"}
        BY <1>0, <1>r, <2>3 DEF ControlOf, ClientControl
      <3> QED
        BY <3>1, <3>2 DEF Flushes, Barring, Flying, FlushPcs
    <2> QED
      BY <2>1, <2>2, <2>3 DEF Tasks
  <1>16. CASE Check(t)
    <2>0. task[t].pc = "check" /\ flush_lock' = flush_lock /\ wr_barrier_lock' = wr_barrier_lock
          /\ num_flying_wr' = num_flying_wr
      BY <1>16 DEF Check
    <2>1. \A f \in Buffers : ~Flushes(t, f)
      BY <2>0 DEF Flushes
    <2>2. CASE Moves(t, "flush")
      <3>1. task'[t].req = task[t].req /\ task'[t].pc = "flush"
        BY <2>2 DEF Moves, SameBio
      <3>2. t \in Clients => task[t].req.op = "write"
        BY <1>0, <2>0 DEF ControlOf, ClientControl
      <3> QED
        BY <2>0, <3>1, <3>2 DEF Flushes, Barring, Flying, FlushPcs, KeepsBooks
    <2>3. CASE ~Moves(t, "flush")
      BY <1>16, <1>r, <2>0, <2>1, <2>3, CheckMoves DEF KeepsBooks
    <2> QED
      BY <2>2, <2>3
  <1>17. CASE Flush(t)
    <2>0. task[t].pc = "flush" /\ wr_barrier_lock' = wr_barrier_lock /\ num_flying_wr' = num_flying_wr
      BY <1>17 DEF Flush
    <2>1. \A f \in Buffers : ~Flushes(t, f)
      BY <2>0 DEF Flushes
    <2>2. CASE IsEmpty(task[t].buf) \/ NumToClean(t) = 0
      <3>1. flush_lock' = flush_lock
        BY <1>17, <2>2 DEF Flush
      <3> QED
        BY <1>17, <1>r, <2>0, <2>1, <2>2, <3>1, FlushMoves DEF KeepsBooks
    <2>3. CASE ~IsEmpty(task[t].buf) /\ NumToClean(t) # 0
      <3>1. ~FoundClean(task[t].buf, NumToClean(t)) /\ Scan(task[t].buf, NumToClean(t)) \subseteq Blocks
        BY <1>17, <2>3, FlushScan
      <3>2. task'[t].pc = "range" /\ task'[t].req = task[t].req /\ task'[t].buf = task[t].buf
        BY <1>17, <2>3, <3>1, FlushTask DEF SameBio
      <3>3. flush_lock[task[t].buf] = Null /\ flush_lock' = [flush_lock EXCEPT ![task[t].buf] = t]
        BY <1>17, <2>3, <3>1 DEF Flush
      <3>4. \A f \in Buffers : Flushes(t, f)' <=> f = task[t].buf
        BY <3>2 DEF Flushes
      <3>5. (Barring(t)' <=> Barring(t)) /\ (Flying(t)' <=> Flying(t))
        BY <2>0, <3>2 DEF Barring, Flying, FlushPcs
      <3> QED
        BY <1>17, <2>0, <3>3, <3>4, <3>5
    <2> QED
      BY <2>2, <2>3
  <1>18. CASE SyncBlock(t)
    <2>1. task[t].pc = "range" /\ task'[t].req = task[t].req /\ task'[t].b = task[t].b /\ task'[t].buf = task[t].buf /\ task'[t].todo = task[t].todo /\ task'[t].synced = task[t].synced + 1
      BY <1>18, SyncBlockTask DEF SyncBlock, SameBio, SameCopy
    <2>2. NextBlock(t) \in Range1(t) /\ flush_lock' = flush_lock /\ wr_barrier_lock' = wr_barrier_lock
          /\ num_flying_wr' = num_flying_wr
      BY <1>18 DEF SyncBlock
    <2>3. NextBlock(t) \in task[t].todo
      BY <2>1, <2>2, SequenceNext, SequenceFacts
    <2>4. task'[t].pc = "range"
      BY <1>18, <2>1, <2>3, SyncBlockTask DEF Rings, Flushed
    <2> QED
      BY <2>1, <2>2, <2>4 DEF Flushes, Barring, Flying, FlushPcs, KeepsBooks
  <1>19. CASE UnlinkRange(t)
    <2>1. task[t].pc = "range" /\ task'[t].pc \in {"range", "cleaned"} /\ task'[t].req = task[t].req /\ task'[t].b = task[t].b /\ task'[t].buf = task[t].buf /\ task'[t].synced = 0
      BY <1>19, UnlinkRangeTask DEF UnlinkRange, SameBio, SameCopy
    <2>2. flush_lock' = flush_lock /\ wr_barrier_lock' = wr_barrier_lock /\ num_flying_wr' = num_flying_wr
      BY <1>19 DEF UnlinkRange
    <2> QED
      BY <2>1, <2>2 DEF Flushes, Barring, Flying, FlushPcs, KeepsBooks
  <1>20. CASE Cleaned(t)
    <2>0. task[t].pc = "cleaned" /\ flush_lock' = [flush_lock EXCEPT ![task[t].buf] = Null]
          /\ wr_barrier_lock' = wr_barrier_lock /\ num_flying_wr' = num_flying_wr
      BY <1>20 DEF Cleaned
    <2>1. \A f \in Buffers : Flushes(t, f) <=> f = task[t].buf
      BY <2>0 DEF Flushes
    <2> QED
      BY <1>20, <1>r, <2>0, <2>1, CleanedMoves
  <1> QED
    BY <1>1, <1>2, <1>3, <1>4, <1>5, <1>6, <1>7, <1>8, <1>9, <1>10, <1>11, <1>12, <1>13, <1>14, <1>15, <1>16, <1>17, <1>18, <1>19, <1>20 DEF Acts, Bio, Flushing

\* Every step keeps the locks with those who hold them.
LEMMA LocksStep ==
  ASSUME Types, Control, Locks, Rings, NEW t \in Tasks, Acts(t), Types'
  PROVE  Locks'
  <1>0. /\ pbi_lock \in [Blocks -> Tasks \cup {Null}] /\ flush_lock \in [Buffers -> Tasks \cup {Null}]
        /\ Null \notin Tasks /\ task[t].buf \in Buffers /\ Clients \subseteq Tasks /\ Clients \cap Buffers = {}
    BY Consts, TaskFields DEF Types, LockTypes
  <1>1. /\ \A b \in Blocks, u \in Tasks : pbi_lock[b] = u <=> b \in Held(u)
        /\ \A f \in Buffers, u \in Tasks : flush_lock[f] = u <=> Flushes(u, f)
        /\ \A u \in Clients : wr_barrier_lock = u <=> Barring(u)
    BY DEF Locks
  <1>2. \A u \in Tasks \ {t} : /\ Held(u)' = Held(u) /\ (Barring(u)' <=> Barring(u))
                               /\ \A f \in Buffers : Flushes(u, f)' <=> Flushes(u, f)
    BY TypesStep, SameTask DEF Steps
  <1>3. \A b \in Blocks, u \in Tasks : pbi_lock'[b] = u <=> b \in Held(u)'
    <2>1. CASE KeepsBlocks(t)
      BY <1>1, <1>2, <2>1 DEF KeepsBlocks
    <2>2. ASSUME NEW b \in Blocks, TakesBlock(t, b)
          PROVE  \A c \in Blocks, u \in Tasks : pbi_lock'[c] = u <=> c \in Held(u)'
      <3>1. pbi_lock[b] = Null /\ pbi_lock' = [pbi_lock EXCEPT ![b] = t] /\ Held(t)' = Held(t) \cup {b}
        BY <2>2 DEF TakesBlock
      <3>2. pbi_lock'[b] = t /\ \A c \in Blocks \ {b} : pbi_lock'[c] = pbi_lock[c]
        BY <1>0, <3>1
      <3>3. \A u \in Tasks : b \notin Held(u)
        BY <1>0, <1>1, <3>1
      <3> QED
        BY <1>0, <1>1, <1>2, <3>1, <3>2, <3>3
    <2>3. ASSUME NEW S, FreesBlocks(t, S)
          PROVE  \A c \in Blocks, u \in Tasks : pbi_lock'[c] = u <=> c \in Held(u)'
      <3>1. S \subseteq Held(t) /\ Held(t)' = Held(t) \ S
            /\ pbi_lock' = [c \in Blocks |-> IF c \in S THEN Null ELSE pbi_lock[c]]
        BY <2>3 DEF FreesBlocks
      <3>2. \A c \in S, u \in Tasks \ {t} : c \notin Held(u)
        BY <3>1, HeldApart
      <3>3. \A c \in Blocks : pbi_lock'[c] = IF c \in S THEN Null ELSE pbi_lock[c]
        BY <3>1
      <3> QED
        BY <1>0, <1>1, <1>2, <3>1, <3>2, <3>3
    <2> QED
      BY <2>1, <2>2, <2>3, HeldStep DEF TakesBlock
  <1>4. \A f \in Buffers, u \in Tasks : flush_lock'[f] = u <=> Flushes(u, f)'
    <2>1. CASE KeepsFlush(t)
      BY <1>1, <1>2, <2>1 DEF KeepsFlush
    <2>2. CASE /\ flush_lock[task[t].buf] = Null /\ flush_lock' = [flush_lock EXCEPT ![task[t].buf] = t]
               /\ \A f \in Buffers : Flushes(t, f)' <=> f = task[t].buf
               /\ task[t].pc = "flush"
      <3>1. \A f \in Buffers : ~Flushes(t, f)
        BY <2>2 DEF Flushes
      <3> DEFINE g == task[t].buf
      <3>2. flush_lock'[g] = t /\ \A f \in Buffers \ {g} : flush_lock'[f] = flush_lock[f]
        BY <1>0, <2>2
      <3>3. g \in Buffers /\ flush_lock[g] = Null /\ \A f \in Buffers : Flushes(t, f)' <=> f = g
        BY <1>0, <2>2
      <3> HIDE DEF g
      <3> QED
        BY <1>0, <1>1, <1>2, <3>1, <3>2, <3>3
    <2>3. CASE /\ flush_lock' = [flush_lock EXCEPT ![task[t].buf] = Null]
               /\ \A f \in Buffers : (Flushes(t, f) <=> f = task[t].buf) /\ ~Flushes(t, f)'
      <3> DEFINE g == task[t].buf
      <3>2. flush_lock'[g] = Null /\ \A f \in Buffers \ {g} : flush_lock'[f] = flush_lock[f]
        BY <1>0, <2>3
      <3>3. g \in Buffers /\ \A f \in Buffers : (Flushes(t, f) <=> f = g) /\ ~Flushes(t, f)'
        BY <1>0, <2>3
      <3>4. \A u \in Tasks \ {t} : ~Flushes(u, g)
        BY <3>3, HeldApart
      <3> HIDE DEF g
      <3> QED
        BY <1>0, <1>1, <1>2, <3>2, <3>3, <3>4
    <2> QED
      BY <2>1, <2>2, <2>3, BooksStep DEF KeepsBooks, KeepsFlush, Flush
  <1>5. \A u \in Clients : wr_barrier_lock' = u <=> Barring(u)'
    <2>1. CASE wr_barrier_lock' = wr_barrier_lock /\ (t \in Clients => (Barring(t)' <=> Barring(t)))
      BY <1>0, <1>1, <1>2, <2>1
    <2>2. CASE t \in Clients /\ wr_barrier_lock = Null /\ wr_barrier_lock' = t /\ Barring(t)'
      BY <1>0, <1>1, <1>2, <2>2
    <2>3. CASE t \in Clients /\ Barring(t) /\ wr_barrier_lock' = Null /\ ~Barring(t)'
      BY <1>0, <1>1, <1>2, <2>3
    <2> QED
      BY <2>1, <2>2, <2>3, BooksStep DEF KeepsBooks, KeepsBarrier
  <1> QED
    BY <1>3, <1>4, <1>5 DEF Locks

\* Every step keeps the count of the bios in flight.
LEMMA CountedStep ==
  ASSUME Types, Control, Locks, Rings, Counted, NEW t \in Tasks, Acts(t), Types'
  PROVE  Counted'
  <1> DEFINE F == {u \in Clients : Flying(u)}
             G == {u \in Clients : Flying(u)'}
  <1>0. Clients \subseteq Tasks /\ IsFiniteSet(Clients) /\ num_flying_wr = Cardinality(F)
    BY Consts DEF Counted
  <1>1. \A u \in Clients \ {t} : Flying(u)' <=> Flying(u)
    BY <1>0, TypesStep, SameTask DEF Steps
  <1>2. IsFiniteSet(F) /\ Cardinality(F) \in Nat
    <2>1. F \subseteq Clients
      OBVIOUS
    <2> HIDE DEF F
    <2> QED
      BY <1>0, <2>1, FS_Subset, FS_CardinalityType
  <1>3. num_flying_wr' = Cardinality(G)
    <2>1. CASE num_flying_wr' = num_flying_wr /\ (t \in Clients => (Flying(t)' <=> Flying(t)))
      <3>1. F = G
        BY <1>1, <2>1
      <3> QED
        BY <1>0, <2>1, <3>1
    <2>2. CASE t \in Clients /\ ~Flying(t) /\ Flying(t)' /\ num_flying_wr' = num_flying_wr + 1
      <3>1. G = F \cup {t} /\ t \notin F
        BY <1>1, <2>2
      <3> HIDE DEF F, G
      <3> QED
        BY <1>0, <1>2, <2>2, <3>1, FS_AddElement
    <2>3. CASE t \in Clients /\ Flying(t) /\ ~Flying(t)' /\ num_flying_wr' = num_flying_wr - 1
      <3>1. G = F \ {t} /\ t \in F
        BY <1>1, <2>3
      <3> HIDE DEF F, G
      <3> QED
        BY <1>0, <1>2, <2>3, <3>1, FS_RemoveElement
    <2> QED
      BY <2>1, <2>2, <2>3, BooksStep DEF KeepsBooks, KeepsCount
  <1> QED
    BY <1>3 DEF Counted

-----------------------------------------------------------------------------
(***************************************************************************)
(* The ring of a buffer.                                                   *)
(***************************************************************************)
LEMMA SlotFacts ==
  ASSUME Types, NEW f \in Buffers, NEW i \in Positions
  PROVE  /\ slot[f] \in [Positions -> SlotType] /\ slot[f][i] \in SlotType
         /\ slot[f][i].pbn \in Blocks \cup {NoBlock} /\ slot[f][i].dirty \in BOOLEAN
         /\ slot[f][i].data \in [0 .. SPB - 1 -> Nat]
  <1>1. slot[f] \in [Positions -> SlotType]
    BY DEF Types, DataTypes
  <1> DEFINE r == slot[f][i]
  <1>2. r \in SlotType
    BY <1>1
  <1> HIDE DEF r
  <1>3. r.pbn \in Blocks \cup {NoBlock} /\ r.dirty \in BOOLEAN /\ r.data \in [0 .. SPB - 1 -> Nat]
    BY <1>2 DEF SlotType
  <1> QED
    BY <1>1, <1>2, <1>3 DEF r

\* A buffered block has its own dirty buffer block.
LEMMA BufferedFacts ==
  ASSUME Types, Rings, NEW b \in Blocks, IsBuffered(b)
  PROVE  /\ BufferOf(b) \in Buffers /\ bbn[b] \in Positions /\ slot[BufferOf(b)][bbn[b]].pbn = b
         /\ \E k \in 0 .. ring[BufferOf(b)].num_dirty - 1 : bbn[b] = At(BufferOf(b), k)
         /\ \A c \in Blocks : BufferOf(c) = BufferOf(b) /\ bbn[c] = bbn[b] => c = b
  <1> DEFINE f == BufferOf(b)
  <1>1. f \in Buffers /\ Ring(f)
    BY BufferOfBlock DEF Rings
  <1>2. bbn[b] \in Positions
    BY Consts DEF Types, DataTypes, IsBuffered
  <1> HIDE DEF f
  <1>3. \A c \in Blocks : BufferOf(c) = f /\ IsBuffered(c) =>
          slot[f][bbn[c]].pbn = c /\ \E k \in 0 .. ring[f].num_dirty - 1 : bbn[c] = At(f, k)
    BY <1>1 DEF Ring
  <1>4. \A c \in Blocks : bbn[c] = bbn[b] => IsBuffered(c)
    BY DEF IsBuffered
  <1>5. BufferOf(b) = f
    BY DEF f
  <1> QED
    BY <1>1, <1>2, <1>3, <1>4, <1>5

\* Who has synced a block is flushing its buffer.
LEMMA SyncedFlushes ==
  ASSUME Types, Control, Rings, NEW u \in Tasks, task[u].pc = "range", NEW b \in Synced(u)
  PROVE  /\ b \in Blocks /\ b \in Range1(u) /\ b \in task[u].todo /\ IsBuffered(b)
         /\ BufferOf(b) = task[u].buf /\ Flushes(u, BufferOf(b))
  <1>1. b \in Range1(u) /\ b \in task[u].todo /\ b \in Blocks
    BY SequenceNext, SequenceFacts
  <1>2. BufferOf(b) = task[u].buf /\ IsBuffered(b)
    BY <1>1 DEF Rings, Flushed
  <1> QED
    BY <1>1, <1>2 DEF Flushes

\* The ring of a buffer that the step leaves alone.
LEMMA RingFrame ==
  ASSUME Types, Control, Rings, NEW f \in Buffers,
         ring'[f] = ring[f], slot'[f] = slot[f],
         \A b \in Blocks : BufferOf(b) = f => bbn'[b] = bbn[b],
         \A u \in Tasks : Flushes(u, f) => task'[u] = task[u]
  PROVE  Ring(f)'
  <1>0. Ring(f)
    BY DEF Rings
  <1>1. \A k : At(f, k)' = At(f, k)
    BY DEF At
  <1>2. \A u \in Tasks : Flushes(u, f) => Flushes(u, f)' /\ Taken(u)' = Taken(u) /\ Synced(u)' = Synced(u)
                                          /\ task'[u].pc = task[u].pc
    BY SameTask
  <1>3. (ring[f].pos_clean = At(f, ring[f].num_dirty))'
    BY <1>0, <1>1 DEF Ring
  <1>4. ASSUME NEW k \in 0 .. ring'[f].num_dirty - 1
        PROVE  LET b == slot'[f][At(f, k)'].pbn IN
               \/ b \in Blocks /\ BufferOf(b) = f /\ bbn'[b] = At(f, k)'
               \/ \E u \in Tasks : Flushes(u, f)' /\ k < Taken(u)'
    <2> DEFINE b == slot[f][At(f, k)].pbn
    <2>1. (b \in Blocks /\ BufferOf(b) = f /\ bbn[b] = At(f, k)) \/ \E u \in Tasks : Flushes(u, f) /\ k < Taken(u)
      BY <1>0 DEF Ring
    <2>2. slot'[f][At(f, k)'].pbn = b
      BY <1>1
    <2> HIDE DEF b
    <2> QED
      BY <1>1, <1>2, <2>1, <2>2
  <1>5. ASSUME NEW b \in Blocks, BufferOf(b) = f, IsBuffered(b)'
        PROVE  /\ slot'[f][bbn'[b]].pbn = b
               /\ \E k \in 0 .. ring'[f].num_dirty - 1 : bbn'[b] = At(f, k)'
               /\ slot'[f][bbn'[b]].dirty \/ \E u \in Tasks : task'[u].pc = "range" /\ b \in Synced(u)'
    <2>1. bbn'[b] = bbn[b] /\ IsBuffered(b)
      BY <1>5 DEF IsBuffered
    <2>2. /\ slot[f][bbn[b]].pbn = b
          /\ \E k \in 0 .. ring[f].num_dirty - 1 : bbn[b] = At(f, k)
          /\ slot[f][bbn[b]].dirty \/ \E u \in Tasks : task[u].pc = "range" /\ b \in Synced(u)
      BY <1>0, <1>5, <2>1 DEF Ring
    <2>3. ASSUME NEW u \in Tasks, task[u].pc = "range", b \in Synced(u)
          PROVE  task'[u].pc = "range" /\ b \in Synced(u)'
      BY <1>2, <1>5, <2>3, SyncedFlushes
    <2> QED
      BY <1>1, <2>1, <2>2, <2>3
  <1>6. \A b \in Blocks : BufferOf(b)' = BufferOf(b)
    BY DEF BufferOf
  <1> QED
    BY <1>3, <1>4, <1>5, <1>6 DEF Ring

\* What a flusher has taken stays, whatever is added behind it.
LEMMA FlushedFrame ==
  ASSUME Rings, NEW u \in Tasks, task'[u] = task[u],
         task[u].pc \in {"range", "cleaned"} =>
           /\ ring'[task[u].buf].pos_dirty = ring[task[u].buf].pos_dirty
           /\ ring[task[u].buf].num_dirty <= ring'[task[u].buf].num_dirty
           /\ ring[task[u].buf].num_dirty \in Int /\ ring'[task[u].buf].num_dirty \in Int /\ Taken(u) \in Int
           /\ \A k \in 0 .. Taken(u) - 1 : slot'[task[u].buf][At(task[u].buf, k)].pbn
                                             = slot[task[u].buf][At(task[u].buf, k)].pbn
           /\ \A b \in task[u].todo : bbn'[b] = bbn[b]
  PROVE  Flushed(u)'
  <1>0. PICK f \in {task[u].buf} : f = task[u].buf
    OBVIOUS
  <1>1. task[u].pc \in {"range", "cleaned"} => \A k : At(f, k)' = At(f, k)
    BY <1>0 DEF At
  <1>2. Flushed(u) /\ Taken(u)' = Taken(u)
    BY SameTask DEF Rings
  <1>3. CASE task[u].pc \in {"range", "cleaned"}
    <2>1. Taken(u) <= ring'[f].num_dirty
      BY <1>0, <1>2, <1>3 DEF Flushed
    <2>2. \A b \in task[u].todo :
            BufferOf(b) = f /\ IsBuffered(b)' /\ \E k \in 0 .. Taken(u) - 1 : bbn'[b] = At(f, k)
      BY <1>0, <1>2, <1>3 DEF Flushed, IsBuffered
    <2>3. ASSUME NEW k \in 0 .. Taken(u) - 1
          PROVE  LET b == slot'[f][At(f, k)].pbn IN b = NoBlock \/ (b \in task[u].todo /\ bbn'[b] = At(f, k))
      <3> DEFINE b == slot[f][At(f, k)].pbn
      <3>1. b = NoBlock \/ (b \in task[u].todo /\ bbn[b] = At(f, k))
        BY <1>0, <1>2, <1>3 DEF Flushed
      <3>2. slot'[f][At(f, k)].pbn = b
        BY <1>0, <1>3
      <3> HIDE DEF b
      <3> QED
        BY <1>0, <1>3, <3>1, <3>2
    <2>4. \A b \in task[u].todo : BufferOf(b)' = BufferOf(b)
      BY DEF BufferOf
    <2>5. task'[u].buf = f /\ task'[u].todo = task[u].todo /\ \A k : At(f, k)' = At(f, k)
      BY <1>0, <1>1, <1>3
    <2> QED
      BY <1>2, <2>1, <2>2, <2>3, <2>4, <2>5 DEF Flushed
  <1>4. CASE task[u].pc \notin {"range", "cleaned"}
    BY <1>4 DEF Flushed
  <1> QED
    BY <1>3, <1>4

\* The steps that leave the rings and the links alone.
Calm(t) ==
  /\ slot' = slot /\ ring' = ring /\ bbn' = bbn /\ task[t].pc \notin {"range", "cleaned"}
  /\ Flushed(t)' /\ (t \in Clients => Placed(t)')

\* Only five actions touch the rings and the links.
LEMMA CalmStep ==
  ASSUME Types, Control, Locks, Rings, NEW t \in Tasks, Acts(t), Types'
  PROVE  \/ Calm(t)
         \/ t \in Clients /\ (Alloc(t) \/ CopyTo(t))
         \/ SyncBlock(t) \/ UnlinkRange(t) \/ Cleaned(t)
  <1>0. Clients \cap Buffers = {} /\ ControlOf(t)
    BY Consts DEF Control
  <1>q. ASSUME task'[t].pc \notin {"range", "cleaned", "alloc", "copy"},
               t \in Clients /\ task'[t].req.op = "write" => task'[t].pc \notin {"check", "flush"}
        PROVE  Flushed(t)' /\ (t \in Clients => Placed(t)')
    BY <1>q DEF Flushed, Placed, Seeking, FlushPcs
  <1>p. ASSUME slot' = slot, ring' = ring, bbn' = bbn, task[t].pc \notin {"range", "cleaned"},
               Flushed(t)', t \in Clients => Placed(t)'
        PROVE  Calm(t)
    BY <1>p DEF Calm
  <1>1. CASE t \in Clients /\ Gate(t)
    <2>1. task[t].pc = "gate" /\ task'[t].pc = "enter" /\ task'[t].req = task[t].req /\ task'[t].b = task[t].b /\ task'[t].buf = task[t].buf
      BY <1>1, GateMoves DEF Gate, Moves, SameBio, SameCopy, SameFlush
    <2>2. slot' = slot /\ ring' = ring /\ bbn' = bbn
      BY <1>1 DEF Gate, device
    <2> QED
      BY <1>p, <1>q, <2>1, <2>2
  <1>2. CASE t \in Clients /\ SyncCaches(t)
    <2>1. task[t].pc = "sync" /\ task'[t].pc = "synced" /\ task'[t].req = task[t].req /\ task'[t].b = task[t].b /\ task'[t].buf = task[t].buf
      BY <1>2, SyncCachesMoves DEF SyncCaches, Moves, SameBio, SameCopy, SameFlush
    <2>2. slot' = slot /\ ring' = ring /\ bbn' = bbn
      BY <1>2 DEF SyncCaches, device
    <2> QED
      BY <1>p, <1>q, <2>1, <2>2
  <1>3. CASE t \in Clients /\ FuaWrite(t)
    <2>1. task[t].pc = "fua_write" /\ task'[t].pc = "end" /\ task'[t].req = task[t].req /\ task'[t].b = task[t].b /\ task'[t].buf = task[t].buf
      BY <1>3, FuaWriteMoves DEF FuaWrite, Moves, SameBio, SameCopy, SameFlush
    <2>2. slot' = slot /\ ring' = ring /\ bbn' = bbn
      BY <1>3 DEF FuaWrite, device
    <2> QED
      BY <1>p, <1>q, <2>1, <2>2
  <1>4. CASE t \in Clients /\ Enter(t)
    <2>1. task[t].pc = "enter" /\ task'[t].pc \in {"end", "block"} /\ task'[t].req = task[t].req /\ task'[t].b = task[t].b /\ task'[t].buf = task[t].buf
      BY <1>4, EnterMoves DEF Enter, Moves, SameBio, SameCopy, SameFlush
    <2>2. slot' = slot /\ ring' = ring /\ bbn' = bbn
      BY <1>4 DEF Enter, device
    <2> QED
      BY <1>p, <1>q, <2>1, <2>2
  <1>5. CASE t \in Clients /\ TakeBarrier(t)
    <2>1. task[t].pc = "barrier" /\ task'[t].pc = "drain" /\ task'[t].req = task[t].req /\ task'[t].b = task[t].b /\ task'[t].buf = task[t].buf
      BY <1>5, TakeBarrierMoves DEF TakeBarrier, Moves, SameBio, SameCopy, SameFlush
    <2>2. slot' = slot /\ ring' = ring /\ bbn' = bbn
      BY <1>5 DEF TakeBarrier, device
    <2> QED
      BY <1>p, <1>q, <2>1, <2>2
  <1>6. CASE t \in Clients /\ ReleaseBarrier(t)
    <2>1. task[t].pc = "synced" /\ task'[t].pc = "gate" /\ task'[t].req = task[t].req /\ task'[t].b = task[t].b /\ task'[t].buf = task[t].buf
      BY <1>6, ReleaseBarrierMoves DEF ReleaseBarrier, Moves, SameBio, SameCopy, SameFlush
    <2>2. slot' = slot /\ ring' = ring /\ bbn' = bbn
      BY <1>6 DEF ReleaseBarrier, device
    <2> QED
      BY <1>p, <1>q, <2>1, <2>2
  <1>7. CASE t \in Clients /\ Drain(t)
    <2>1. task[t].pc = "drain" /\ task'[t].pc = "flush" /\ task'[t].req = task[t].req /\ task'[t].b = task[t].b
      BY <1>7, DrainTask DEF Drain, SameBio, SameCopy
    <2>2. slot' = slot /\ ring' = ring /\ bbn' = bbn
      BY <1>7 DEF Drain, device
    <2>3. task[t].req.op = "flush"
      BY <1>7, <1>0, <2>1 DEF ControlOf, ClientControl
    <2> QED
      BY <1>p, <1>q, <2>1, <2>2, <2>3
  <1>8. CASE t \in Clients /\ End(t)
    <2>1. task[t].pc = "end" /\ task'[t] = Idle
      BY <1>8, IdleTask DEF End
    <2>2. slot' = slot /\ ring' = ring /\ bbn' = bbn
      BY <1>8 DEF End, device
    <2>3. task'[t].pc = "idle"
      BY <2>1 DEF Idle
    <2> QED
      BY <1>p, <1>q, <2>1, <2>2, <2>3
  <1>9. CASE t \in Clients /\ CopyFrom(t)
    <2>1. task[t].pc = "copy" /\ task'[t].req = task[t].req /\ Advanced(t, task'[t].pc, task'[t].b)
      BY <1>9, CopyFromTask DEF CopyFrom, SameBio
    <2>2. task'[t].pc \in {"block", "fua_lock", "end"}
      BY <2>1 DEF Advanced
    <2>3. slot' = slot /\ ring' = ring /\ bbn' = bbn
      BY <1>9 DEF CopyFrom, device
    <2> QED
      BY <1>p, <1>q, <2>1, <2>2, <2>3
  <1>10. CASE t \in Clients /\ FuaLock(t)
    <2>1. Carries(t) /\ task[t].pc = "fua_lock"
      BY <1>0, <1>10 DEF ControlOf, ClientControl, FuaLock, Carries
    <2>2. task'[t].pc \in {"fua_lock", "fua_write"}
      BY <1>10, <2>1, FuaLockTask, BioBlocks, Consts DEF SameBio
    <2>3. slot' = slot /\ ring' = ring /\ bbn' = bbn
      BY <1>10 DEF FuaLock
    <2> QED
      BY <1>p, <1>q, <2>1, <2>2, <2>3
  <1>11. CASE t \in Clients /\ \E r \in Requests[t] : Submit(t, r)
    <2>1. PICK q \in Requests[t] : Submit(t, q)
      BY <1>11
    <2>2. task[t].pc = "idle" /\ task'[t].pc \in {"barrier", "gate", "enter"}
      <3>1. /\ task[t].pc = "idle"
            /\ task'[t].pc = CASE q.op = "flush" -> "barrier" [] q.op = "write" -> "gate" [] OTHER -> "enter"
        BY <1>11, <2>1, SubmitTask DEF Submit
      <3> QED
        BY <3>1
    <2>3. slot' = slot /\ ring' = ring /\ bbn' = bbn
      BY <2>1 DEF Submit, device
    <2> QED
      BY <1>p, <1>q, <2>2, <2>3
  <1>12. CASE t \in Buffers /\ (StartSync(t) \/ StartIdleSync(t))
    <2>1. task[t].pc = "idle" /\ task'[t].pc = "check" /\ task'[t].req = task[t].req
      BY <1>12, StartMoves DEF StartSync, StartIdleSync, Moves, SameBio
    <2>2. slot' = slot /\ ring' = ring /\ bbn' = bbn
      BY <1>12 DEF StartSync, StartIdleSync, device
    <2> QED
      BY <1>0, <1>p, <1>q, <1>12, <2>1, <2>2
  <1>13. CASE t \in Clients /\ LockBlock(t)
    <2>0. /\ task[t].pc = "block" /\ task'[t].req = task[t].req /\ task'[t].b = task[t].b
          /\ task'[t].pc = IF task[t].req.op = "write" /\ ~IsBuffered(task[t].b) THEN "alloc" ELSE "copy"
      BY <1>13, LockBlockTask DEF LockBlock, SameBio
    <2>1. task[t].pc = "block" /\ (task'[t].pc = "copy" \/ (task'[t].pc = "alloc" /\ task[t].req.op = "write")) /\ task'[t].req = task[t].req /\ task'[t].b = task[t].b
          /\ (task'[t].pc = "copy" /\ task[t].req.op = "write" => IsBuffered(task[t].b))
          /\ (task'[t].pc = "alloc" => ~IsBuffered(task[t].b))
      <3>1. CASE task[t].req.op = "write" /\ ~IsBuffered(task[t].b)
        BY <2>0, <3>1
      <3>2. CASE task[t].req.op = "write" /\ IsBuffered(task[t].b)
        BY <2>0, <3>2
      <3>3. CASE task[t].req.op # "write"
        BY <2>0, <3>3
      <3> QED
        BY <3>1, <3>2, <3>3
    <2>2. slot' = slot /\ ring' = ring /\ bbn' = bbn
      BY <1>13 DEF LockBlock, device
    <2>3. Flushed(t)'
      BY <2>1 DEF Flushed
    <2>4. Placed(t)'
      BY <2>1, <2>2 DEF Placed, Seeking, FlushPcs, IsBuffered
    <2> QED
      BY <1>p, <2>1, <2>2, <2>3, <2>4
  <1>14. CASE t \in Clients /\ AllocFull(t)
    <2>1. task[t].pc = "alloc" /\ task'[t].pc = "check" /\ task'[t].req = task[t].req /\ task'[t].b = task[t].b
      BY <1>14, AllocFullTask DEF AllocFull, SameBio, SameCopy
    <2>2. slot' = slot /\ ring' = ring /\ bbn' = bbn
      BY <1>14 DEF AllocFull, device
    <2>3. Flushed(t)'
      BY <2>1 DEF Flushed
    <2>4. Placed(t)
      BY <1>14 DEF Rings
    <2>5. Placed(t)'
      BY <2>1, <2>2, <2>4 DEF Placed, Seeking, FlushPcs, IsBuffered
    <2> QED
      BY <1>p, <2>1, <2>2, <2>3, <2>5
  <1>r. ASSUME NEW d \in Nat, task' = [task EXCEPT ![t] = Return(t, d)], bbn' = bbn,
               task[t].pc \in FlushPcs
        PROVE  Flushed(t)' /\ (t \in Clients => Placed(t)')
    <2>1. CASE t \in Buffers
      <3>1. PICK pc \in {"check", "idle"} : task'[t] = [Idle EXCEPT !.buf = t, !.pc = pc]
        BY <1>r, <2>1, ReturnMoves
      <3>2. task'[t].pc \in {"check", "idle"}
        BY <3>1 DEF Idle
      <3> QED
        BY <1>0, <2>1, <3>2 DEF Flushed
    <2>2. CASE t \in Clients /\ task[t].req.op = "write"
      <3>1. task'[t].req = task[t].req /\ task'[t].pc = "alloc" /\ task'[t].b = task[t].b
        BY <1>r, <2>2, ReturnMoves DEF Moves, SameBio, SameCopy
      <3>2. Placed(t)
        BY <2>2 DEF Rings
      <3> QED
        BY <1>r, <2>2, <3>1, <3>2 DEF Flushed, Placed, Seeking, FlushPcs, IsBuffered
    <2>3. CASE t \in Clients /\ task[t].req.op # "write"
      <3>1. task'[t].req = task[t].req /\ task'[t].pc \in {"flush", "sync"}
        BY <1>r, <2>3, ReturnMoves DEF SameBio, SameCopy
      <3> QED
        BY <1>q, <2>3, <3>1
    <2> QED
      BY <2>1, <2>2, <2>3 DEF Tasks
  <1>15. CASE Check(t)
    <2>0. task[t].pc = "check" /\ slot' = slot /\ ring' = ring /\ bbn' = bbn
      BY <1>15 DEF Check, device
    <2>2. CASE Moves(t, "flush")
      <3>1. task'[t].req = task[t].req /\ task'[t].pc = "flush" /\ task'[t].b = task[t].b
        BY <2>2 DEF Moves, SameBio, SameCopy
      <3>2. t \in Clients => Placed(t)
        BY DEF Rings
      <3>3. Flushed(t)' /\ (t \in Clients => Placed(t)')
        BY <2>0, <3>1, <3>2 DEF Flushed, Placed, Seeking, FlushPcs, IsBuffered
      <3> QED
        BY <1>p, <2>0, <3>3
    <2>3. CASE ~Moves(t, "flush")
      <3>1. Flushed(t)' /\ (t \in Clients => Placed(t)')
        BY <1>15, <1>r, <2>0, <2>3, CheckMoves DEF FlushPcs
      <3> QED
        BY <1>p, <2>0, <3>1
    <2> QED
      BY <2>2, <2>3
  <1>16. CASE Flush(t)
    <2>0. task[t].pc = "flush" /\ slot' = slot /\ ring' = ring /\ bbn' = bbn
      BY <1>16 DEF Flush
    <2>2. CASE IsEmpty(task[t].buf) \/ NumToClean(t) = 0
      <3>1. Flushed(t)' /\ (t \in Clients => Placed(t)')
        BY <1>16, <1>r, <2>0, <2>2, FlushMoves DEF FlushPcs
      <3> QED
        BY <1>p, <2>0, <3>1
    <2>3. CASE ~IsEmpty(task[t].buf) /\ NumToClean(t) # 0
      <3>0. PICK f \in Buffers : f = task[t].buf
        BY TaskFields
      <3> DEFINE S == Scan(f, NumToClean(t))
                 n == Scanned(f, NumToClean(t))
      <3>a. n \in 1 .. ring[f].num_dirty /\ S \subseteq Blocks /\ Cardinality(S) = n
        BY <1>16, <2>3, <3>0, FlushScan
      <3>b. ~FoundClean(f, NumToClean(t)) /\ S = {slot[f][At(f, k)].pbn : k \in 0 .. n - 1}
        BY <1>16, <2>3, <3>0, FlushScan
      <3>c. \A k \in 0 .. n - 1 :
              LET b == slot[f][At(f, k)].pbn IN
              b \in Blocks /\ BufferOf(b) = f /\ IsBuffered(b) /\ bbn[b] = At(f, k)
        BY <1>16, <2>3, <3>0, FlushScan
      <3>1. /\ n \in 1 .. ring[f].num_dirty /\ S \subseteq Blocks /\ Cardinality(S) = n
            /\ ~FoundClean(f, NumToClean(t)) /\ S = {slot[f][At(f, k)].pbn : k \in 0 .. n - 1}
            /\ \A k \in 0 .. n - 1 :
                 LET b == slot[f][At(f, k)].pbn IN
                 b \in Blocks /\ BufferOf(b) = f /\ IsBuffered(b) /\ bbn[b] = At(f, k)
        BY <3>a, <3>b, <3>c
      <3>2. task'[t].pc = "range" /\ task'[t].req = task[t].req /\ task'[t].buf = f
            /\ task'[t].b = task[t].b /\ task'[t].todo = S /\ task'[t].cleaned = 0
        BY <1>16, <2>3, <3>0, <3>1, FlushTask DEF SameBio, SameCopy
      <3>3. t \in Clients => Placed(t)'
        <4>1. t \in Clients => Placed(t)
          BY DEF Rings
        <4> QED
          BY <2>0, <3>2, <4>1 DEF Placed, Seeking, FlushPcs, IsBuffered
      <3>4. Taken(t)' = n /\ n \in Nat
        BY <3>1, <3>2 DEF Taken
      <3>5. \A k : At(f, k)' = At(f, k)
        BY <2>0 DEF At
      <3> HIDE DEF S, n
      <3>6. \A b \in S : BufferOf(b) = f /\ IsBuffered(b)' /\ \E k \in 0 .. n - 1 : bbn'[b] = At(f, k)
        BY <2>0, <3>1 DEF IsBuffered
      <3>7. ASSUME NEW k \in 0 .. n - 1
            PROVE  LET b == slot'[f][At(f, k)].pbn IN b = NoBlock \/ (b \in S /\ bbn'[b] = At(f, k))
        BY <2>0, <3>1
      <3>8. n <= ring'[f].num_dirty
        BY <2>0, <3>1
      <3>9. \A b : BufferOf(b)' = BufferOf(b)
        BY DEF BufferOf
      <3>10. Flushed(t)'
        BY <3>2, <3>4, <3>5, <3>6, <3>7, <3>8, <3>9 DEF Flushed
      <3> QED
        BY <1>p, <2>0, <3>3, <3>10
    <2> QED
      BY <2>2, <2>3
  <1> QED
    BY <1>1, <1>2, <1>3, <1>4, <1>5, <1>6, <1>7, <1>8, <1>9, <1>10, <1>11, <1>12, <1>13, <1>14, <1>15, <1>16 DEF Acts, Bio, Flushing

\* A writer's block keeps its place while its link does.
LEMMA PlacedFrame ==
  ASSUME Rings, NEW u \in Clients, task'[u] = task[u],
         Seeking(u) \/ task[u].pc = "copy" => bbn'[task[u].b] = bbn[task[u].b]
  PROVE  Placed(u)'
  <1>1. Placed(u)
    BY DEF Rings
  <1> QED
    BY <1>1 DEF Placed, Seeking, IsBuffered

\* A step that leaves the rings alone keeps them.
LEMMA CalmRings ==
  ASSUME Types, Control, Locks, Rings, NEW t \in Tasks, Acts(t), Types', Calm(t)
  PROVE  Rings'
  <1>1. slot' = slot /\ ring' = ring /\ bbn' = bbn /\ \A u \in Tasks \ {t} : task'[u] = task[u]
    BY TypesStep DEF Calm, Steps
  <1>2. \A f \in Buffers : Ring(f)'
    <2>1. \A f \in Buffers, u \in Tasks : Flushes(u, f) => task'[u] = task[u]
      BY <1>1 DEF Flushes, Calm
    <2> QED
      BY <1>1, <2>1, RingFrame
  <1>3. ASSUME NEW u \in Tasks \ {t} PROVE Flushed(u)'
    <2>1. ring[task[u].buf].num_dirty \in Int
      BY TaskFields, RingPositions
    <2>2. Taken(u) \in Int
      BY TaskFields, Consts, FS_Subset, FS_CardinalityType DEF Taken
    <2> QED
      BY <1>1, <2>1, <2>2, FlushedFrame
  <1>4. \A u \in Clients \ {t} : Placed(u)'
    BY <1>1, PlacedFrame, Consts
  <1> QED
    BY <1>2, <1>3, <1>4 DEF Rings, Calm

\* The blocks taken are a number.
LEMMA TakenType ==
  ASSUME Types, NEW u \in Tasks
  PROVE  Taken(u) \in Nat
  <1>1. task[u].todo \subseteq Blocks /\ task[u].cleaned \in Nat /\ IsFiniteSet(Blocks)
    BY TaskFields, Consts
  <1>2. Cardinality(task[u].todo) \in Nat
    BY <1>1, FS_Subset, FS_CardinalityType
  <1> QED
    BY <1>1, <1>2 DEF Taken

\* A block that t has locked is no other task's.
LEMMA PlacedOthers ==
  ASSUME Types, Control, Locks, Rings, NEW t \in Tasks, NEW S \in SUBSET Held(t), NEW u \in Clients \ {t},
         task'[u] = task[u], \A c \in Blocks \ S : bbn'[c] = bbn[c]
  PROVE  Placed(u)'
  <1>1. Seeking(u) \/ task[u].pc = "copy" => task[u].b \in Blocks
    <2>1. Seeking(u) \/ task[u].pc = "copy" => Carries(u) /\ task[u].b \in ReqBlocks(u)
      BY Consts DEF Control, ControlOf, ClientControl, Carries, Seeking
    <2> QED
      BY <2>1, BioBlocks
  <1>2. Seeking(u) \/ task[u].pc = "copy" => task[u].b \in Held(u)
    BY <1>1 DEF Held
  <1>3. Seeking(u) \/ task[u].pc = "copy" => task[u].b \notin S
    BY <1>2, HeldApart, Consts
  <1> QED
    BY <1>1, <1>3, PlacedFrame

\* A block allocated is linked behind the dirty ones.
LEMMA AllocRings ==
  ASSUME Types, Control, Locks, Rings, NEW t \in Clients, Alloc(t), Types'
  PROVE  Rings'
  <1>0. /\ t \in Tasks /\ task[t].pc = "alloc" /\ task[t].req.op = "write"
        /\ task[t].b \in Blocks /\ task[t].b \in Held(t) /\ ~IsBuffered(task[t].b)
    <2>1. t \in Tasks /\ task[t].pc = "alloc" /\ ClientControl(t)
      BY Consts DEF Alloc, Control, ControlOf
    <2>2. task[t].req.op = "write" /\ Seeking(t) /\ Carries(t) /\ task[t].b \in ReqBlocks(t)
      BY <2>1 DEF ClientControl, Seeking, Carries
    <2>3. task[t].b \in Blocks
      BY <2>2, BioBlocks
    <2> QED
      BY <2>1, <2>2, <2>3 DEF Held, Rings, Placed
  <1>b. PICK b \in Blocks : b = task[t].b
    BY <1>0
  <1>f. PICK f \in Buffers : f = BufferOf(b)
    BY BufferOfBlock
  <1>n. PICK n \in 0 .. NumBlocks - 1 : n = ring[f].num_dirty
    <2>1. ~IsFull(f)
      BY <1>b, <1>f DEF Alloc
    <2> QED
      BY <2>1, RingPositions DEF IsFull
  <1>p. PICK p \in Positions : p = ring[f].pos_clean /\ p = At(f, n)
    <2>1. Ring(f) /\ At(f, n) \in Positions
      BY <1>n, RingPositions DEF Rings
    <2> QED
      BY <2>1, <1>n DEF Ring
  <1>1. /\ ring' = [ring EXCEPT ![f].pos_clean = NextPos(p), ![f].num_dirty = n + 1]
        /\ slot' = [slot EXCEPT ![f][p].pbn = b, ![f][p].dirty = TRUE]
        /\ bbn' = [bbn EXCEPT ![b] = p]
    BY <1>b, <1>f, <1>n, <1>p DEF Alloc, Linked
  <1>2. /\ ring'[f].pos_clean = NextPos(p) /\ ring'[f].num_dirty = n + 1
        /\ ring'[f].pos_dirty = ring[f].pos_dirty /\ \A g \in Buffers \ {f} : ring'[g] = ring[g]
    <2>1. ring \in [Buffers -> RingType]
      BY DEF Types, DataTypes
    <2> QED
      BY <1>1, <2>1 DEF RingType
  <1>3. /\ slot'[f][p].pbn = b /\ slot'[f][p].dirty = TRUE
        /\ \A i \in Positions \ {p} : slot'[f][i] = slot[f][i]
        /\ \A g \in Buffers \ {f} : slot'[g] = slot[g]
    <2>1. slot \in [Buffers -> [Positions -> SlotType]] /\ slot[f] \in [Positions -> SlotType] /\ slot[f][p] \in SlotType
      BY SlotFacts DEF Types, DataTypes
    <2> DEFINE r == [slot[f][p] EXCEPT !.pbn = b, !.dirty = TRUE]
    <2>2. r.pbn = b /\ r.dirty = TRUE
      BY <2>1 DEF SlotType
    <2>3. slot' = [slot EXCEPT ![f] = [slot[f] EXCEPT ![p] = r]]
      BY <1>1, <2>1
    <2> HIDE DEF r
    <2> QED
      BY <2>1, <2>2, <2>3
  <1>4. bbn'[b] = p /\ \A c \in Blocks \ {b} : bbn'[c] = bbn[c]
    BY <1>1 DEF Types, DataTypes
  <1>5. Moves(t, "copy") /\ \A u \in Tasks \ {t} : task'[u] = task[u]
    BY AllocMoves DEF Moves, Steps
  <1>6. /\ NumBlocks \in Nat /\ \A k \in 0 .. n - 1 : At(f, k) \in Positions /\ At(f, k) # p
        /\ At(f, n + 1) = NextPos(p) /\ \A k : At(f, k)' = At(f, k)
    <2>1. \A k : At(f, k)' = At(f, k)
      BY <1>2 DEF At
    <2> QED
      BY <2>1, <1>p, RingPositions
  <1>7. \A g \in Buffers : ~Flushes(t, g)
    BY <1>0 DEF Flushes
  <1>8. ASSUME NEW u \in Tasks
        PROVE  /\ Flushes(u, f) => u # t /\ Flushes(u, f)' /\ Taken(u)' = Taken(u)
               /\ task[u].pc = "range" => u # t /\ task'[u].pc = "range" /\ Synced(u)' = Synced(u)
    BY <1>0, <1>5, <1>7, SameTask
  <1>9. Ring(f)'
    <2>0. Ring(f)
      BY DEF Rings
    <2>1. (ring[f].pos_clean = At(f, ring[f].num_dirty))'
      BY <1>2, <1>6
    <2>2. ASSUME NEW k \in 0 .. n
          PROVE  LET c == slot'[f][At(f, k)].pbn IN
                 \/ c \in Blocks /\ BufferOf(c) = f /\ bbn'[c] = At(f, k)
                 \/ \E u \in Tasks : Flushes(u, f)' /\ k < Taken(u)'
      <3>1. CASE k = n
        BY <3>1, <1>p, <1>f, <1>3, <1>4
      <3>2. CASE k # n
        <4>1. k \in 0 .. n - 1
          BY <3>2
        <4> DEFINE c == slot[f][At(f, k)].pbn
        <4>2. slot'[f][At(f, k)].pbn = c
          BY <4>1, <1>3, <1>6
        <4>3. \/ c \in Blocks /\ BufferOf(c) = f /\ bbn[c] = At(f, k)
              \/ \E u \in Tasks : Flushes(u, f) /\ k < Taken(u)
          BY <2>0, <4>1, <1>n DEF Ring
        <4>4. c \in Blocks /\ bbn[c] = At(f, k) => c # b
          <5>1. bbn[b] \notin Positions
            BY <1>0, <1>b, <1>6 DEF IsBuffered, Positions
          <5> QED
            BY <5>1, <4>1, <1>6
        <4> HIDE DEF c
        <4> QED
          BY <4>2, <4>3, <4>4, <1>4, <1>8
      <3> QED
        BY <3>1, <3>2
    <2>3. ASSUME NEW c \in Blocks, BufferOf(c) = f, bbn'[c] < NumBlocks
          PROVE  /\ slot'[f][bbn'[c]].pbn = c
                 /\ \E k \in 0 .. n : bbn'[c] = At(f, k)
                 /\ slot'[f][bbn'[c]].dirty \/ \E u \in Tasks : task'[u].pc = "range" /\ c \in Synced(u)'
      <3>1. CASE c = b
        BY <3>1, <1>3, <1>4, <1>p
      <3>2. CASE c # b
        <4>1. bbn'[c] = bbn[c] /\ IsBuffered(c)
          BY <2>3, <3>2, <1>4 DEF IsBuffered
        <4>2. /\ slot[f][bbn[c]].pbn = c
              /\ \E k \in 0 .. n - 1 : bbn[c] = At(f, k)
              /\ slot[f][bbn[c]].dirty \/ \E u \in Tasks : task[u].pc = "range" /\ c \in Synced(u)
          BY <2>0, <2>3, <4>1, <1>n DEF Ring
        <4>3. slot'[f][bbn[c]] = slot[f][bbn[c]]
          BY <4>2, <1>3, <1>6
        <4>4. \E k \in 0 .. n : bbn[c] = At(f, k)
          BY <4>2
        <4> QED
          BY <4>1, <4>2, <4>3, <4>4, <1>8
      <3> QED
        BY <3>1, <3>2
    <2>4. ring'[f].num_dirty - 1 = n
      BY <1>2
    <2>5. \A c : BufferOf(c)' = BufferOf(c)
      BY DEF BufferOf
    <2> QED
      BY <2>1, <2>2, <2>3, <2>4, <2>5, <1>6 DEF Ring, IsBuffered
  <1>10. ASSUME NEW g \in Buffers \ {f} PROVE Ring(g)'
    <2>1. \A c \in Blocks : BufferOf(c) = g => bbn'[c] = bbn[c]
      BY <1>4, <1>f
    <2>2. \A u \in Tasks : Flushes(u, g) => task'[u] = task[u]
      BY <1>5, <1>7
    <2> QED
      BY <2>1, <2>2, <1>2, <1>3, RingFrame
  <1>11. ASSUME NEW u \in Tasks PROVE Flushed(u)'
    <2>1. CASE u = t
      BY <2>1, <1>5 DEF Moves, Flushed
    <2>2. CASE u # t /\ task[u].pc \in {"range", "cleaned"}
      <3>1. PICK g \in Buffers : g = task[u].buf
        BY TaskFields
      <3>2. ring'[g].pos_dirty = ring[g].pos_dirty /\ ring[g].num_dirty \in Nat /\ ring'[g].num_dirty \in Int
            /\ ring[g].num_dirty <= ring'[g].num_dirty
        <4>1. ring[g].num_dirty \in Nat
          BY RingPositions
        <4>2. CASE g = f
          BY <4>1, <4>2, <1>2, <1>n
        <4>3. CASE g # f
          BY <4>1, <4>3, <1>2
        <4> QED
          BY <4>1, <4>2, <4>3
      <3>3. Taken(u) \in Nat /\ Taken(u) <= ring[g].num_dirty
        BY <2>2, <3>1, TakenType DEF Rings, Flushed
      <3>4. \A k \in 0 .. Taken(u) - 1 : slot'[g][At(g, k)].pbn = slot[g][At(g, k)].pbn
        <4>1. CASE g = f
          <5>1. \A k \in 0 .. Taken(u) - 1 : k \in 0 .. n - 1
            BY <3>3, <4>1, <1>n
          <5> QED
            BY <4>1, <5>1, <1>3, <1>6
        <4>2. CASE g # f
          BY <4>2, <1>3
        <4> QED
          BY <4>1, <4>2
      <3>5. \A c \in task[u].todo : bbn'[c] = bbn[c]
        <4>1. \A c \in task[u].todo : IsBuffered(c) /\ c \in Blocks
          BY <2>2, TaskFields DEF Rings, Flushed
        <4> QED
          BY <4>1, <1>0, <1>b, <1>4
      <3> QED
        BY <2>2, <3>1, <3>2, <3>3, <3>4, <3>5, <1>5, FlushedFrame
    <2>3. CASE u # t /\ task[u].pc \notin {"range", "cleaned"}
      BY <2>3, <1>5, FlushedFrame
    <2> QED
      BY <2>1, <2>2, <2>3
  <1>12. ASSUME NEW u \in Clients PROVE Placed(u)'
    <2>1. CASE u = t
      BY <2>1, <1>b, <1>4, <1>5, <1>6 DEF Moves, SameCopy, Placed, Seeking, FlushPcs, IsBuffered, Positions
    <2>2. CASE u # t
      <3>1. {b} \in SUBSET Held(t)
        BY <1>0, <1>b
      <3> QED
        BY <2>2, <3>1, <1>0, <1>4, <1>5, PlacedOthers, Consts
    <2> QED
      BY <2>1, <2>2
  <1> QED
    BY <1>9, <1>10, <1>11, <1>12 DEF Rings

\* A step that only changes data and dirty bits.
LEMMA SameLinks ==
  ASSUME Types, Control, Rings, NEW t \in Tasks, ring' = ring, bbn' = bbn,
         \A f \in Buffers, i \in Positions : slot'[f][i].pbn = slot[f][i].pbn,
         \A u \in Tasks \ {t} : task'[u] = task[u],
         task[t].pc \in {"range", "cleaned"} => task'[t].pc = task[t].pc,
         task[t].pc \notin {"range", "cleaned"} => task'[t].pc \notin {"range", "cleaned"},
         task'[t].buf = task[t].buf, task'[t].todo = task[t].todo, task'[t].cleaned = task[t].cleaned,
         \A b \in Blocks : IsBuffered(b) /\
           (\/ slot[BufferOf(b)][bbn[b]].dirty
            \/ \E u \in Tasks : task[u].pc = "range" /\ b \in Synced(u))
           => (\/ slot'[BufferOf(b)][bbn[b]].dirty
               \/ \E u \in Tasks : task'[u].pc = "range" /\ b \in Synced(u)')
  PROVE  (\A f \in Buffers : Ring(f)') /\ (\A u \in Tasks : Flushed(u)')
  <1>1. \A f, k : At(f, k)' = At(f, k)
    BY DEF At
  <1>2. \A u \in Tasks : Taken(u)' = Taken(u)
    BY SameTask DEF Taken
  <1>3. \A u \in Tasks : task'[u].buf = task[u].buf /\ task'[u].todo = task[u].todo
    OBVIOUS
  <1>4. \A u \in Tasks, f \in Buffers : Flushes(u, f)' <=> Flushes(u, f)
    BY DEF Flushes
  <1>5. \A b : (IsBuffered(b)' <=> IsBuffered(b)) /\ BufferOf(b)' = BufferOf(b)
    BY DEF IsBuffered, BufferOf
  <1>6. ASSUME NEW f \in Buffers PROVE Ring(f)'
    <2>0. Ring(f) /\ ring[f].num_dirty \in Nat /\ ring[f].num_dirty <= NumBlocks /\ NumBlocks \in Nat
      BY RingPositions DEF Rings
    <2>1. (ring[f].pos_clean = At(f, ring[f].num_dirty))'
      BY <2>0, <1>1 DEF Ring
    <2>2. ASSUME NEW k \in 0 .. ring[f].num_dirty - 1
          PROVE  LET b == slot'[f][At(f, k)].pbn IN
                 \/ b \in Blocks /\ BufferOf(b) = f /\ bbn[b] = At(f, k)
                 \/ \E u \in Tasks : Flushes(u, f)' /\ k < Taken(u)'
      <3> DEFINE b == slot[f][At(f, k)].pbn
      <3>1. At(f, k) \in Positions
        BY <2>0, RingPositions
      <3>2. slot'[f][At(f, k)].pbn = b
        BY <3>1
      <3>3. (b \in Blocks /\ BufferOf(b) = f /\ bbn[b] = At(f, k)) \/ \E u \in Tasks : Flushes(u, f) /\ k < Taken(u)
        BY <2>0 DEF Ring
      <3> HIDE DEF b
      <3> QED
        BY <3>2, <3>3, <1>2, <1>4
    <2>3. ASSUME NEW b \in Blocks, BufferOf(b) = f, IsBuffered(b)
          PROVE  /\ slot'[f][bbn[b]].pbn = b
                 /\ \E k \in 0 .. ring[f].num_dirty - 1 : bbn[b] = At(f, k)
                 /\ slot'[f][bbn[b]].dirty \/ \E u \in Tasks : task'[u].pc = "range" /\ b \in Synced(u)'
      <3>1. /\ slot[f][bbn[b]].pbn = b /\ bbn[b] \in Positions
            /\ \E k \in 0 .. ring[f].num_dirty - 1 : bbn[b] = At(f, k)
        BY <2>3, BufferedFacts
      <3>2. slot[f][bbn[b]].dirty \/ \E u \in Tasks : task[u].pc = "range" /\ b \in Synced(u)
        BY <2>0, <2>3 DEF Ring
      <3>3. slot'[f][bbn[b]].dirty \/ \E u \in Tasks : task'[u].pc = "range" /\ b \in Synced(u)'
        BY <2>3, <3>2
      <3> QED
        BY <3>1, <3>3
    <2> QED
      BY <2>1, <2>2, <2>3, <1>1, <1>5 DEF Ring
  <1>7. ASSUME NEW u \in Tasks PROVE Flushed(u)'
    <2>1. CASE task[u].pc \notin {"range", "cleaned"}
      BY <2>1 DEF Flushed
    <2>2. CASE task[u].pc \in {"range", "cleaned"}
      <3>1. PICK f \in Buffers : f = task[u].buf
        BY TaskFields
      <3>2. /\ Taken(u) <= ring[f].num_dirty
            /\ \A b \in task[u].todo : BufferOf(b) = f /\ IsBuffered(b) /\ \E k \in 0 .. Taken(u) - 1 : bbn[b] = At(f, k)
            /\ \A k \in 0 .. Taken(u) - 1 :
                 LET b == slot[f][At(f, k)].pbn IN b = NoBlock \/ (b \in task[u].todo /\ bbn[b] = At(f, k))
        BY <2>2, <3>1 DEF Rings, Flushed
      <3>3. \A k \in 0 .. Taken(u) - 1 : At(f, k) \in Positions
        <4>1. Taken(u) \in Nat /\ ring[f].num_dirty \in Nat /\ ring[f].num_dirty <= NumBlocks /\ NumBlocks \in Nat
          BY TakenType, RingPositions
        <4>2. \A k \in 0 .. Taken(u) - 1 : k \in 0 .. NumBlocks
          BY <3>2, <4>1
        <4> QED
          BY <4>2, RingPositions
      <3>4. \A k \in 0 .. Taken(u) - 1 : slot'[f][At(f, k)].pbn = slot[f][At(f, k)].pbn
        BY <3>3
      <3> QED
        <4>1. task'[u].buf = f /\ task'[u].todo = task[u].todo /\ Taken(u)' = Taken(u) /\ ring'[f].num_dirty = ring[f].num_dirty
          BY <3>1, <1>1, <1>2, <1>3, <1>5
        <4>2. bbn' = bbn /\ \A k : At(f, k)' = At(f, k)
          BY <1>1, <1>5
        <4> QED
          BY <3>2, <3>4, <4>1, <4>2 DEF Flushed, IsBuffered
    <2> QED
      BY <2>1, <2>2
  <1> QED
    BY <1>6, <1>7

\* A writer that copies holds its block, which is buffered.
LEMMA CopyToFacts ==
  ASSUME Types, Control, Locks, Rings, NEW t \in Clients, CopyTo(t)
  PROVE  /\ t \in Tasks /\ task[t].pc = "copy" /\ task[t].req.op = "write" /\ Carries(t)
         /\ task[t].b \in Blocks /\ task[t].b \in ReqBlocks(t) /\ IsBuffered(task[t].b)
         /\ Held(t) = {task[t].b} /\ BufferOf(task[t].b) \in Buffers /\ bbn[task[t].b] \in Positions
         /\ Part(t) = Sect(task[t].b) \cap (task[t].req.first .. task[t].req.last)
  <1>1. t \in Tasks /\ task[t].pc = "copy" /\ task[t].req.op = "write" /\ ClientControl(t)
    BY Consts DEF CopyTo, Control, ControlOf
  <1>2. Carries(t) /\ task[t].b \in ReqBlocks(t)
    BY <1>1 DEF ClientControl, Carries
  <1>3. task[t].b \in Blocks /\ IsBuffered(task[t].b)
    BY <1>1, <1>2, BioBlocks DEF Rings, Placed
  <1>4. Held(t) = {task[t].b}
    BY <1>1, <1>3 DEF Held, Seeking, FlushPcs
  <1> QED
    BY <1>1, <1>2, <1>3, <1>4, BufferedFacts DEF Part

\* The buffer block that a copy fills.
Filled(t) == [k \in 0 .. SPB - 1 |-> IF task[t].b * SPB + k \in Part(t) THEN clock + 1 ELSE Old(t)[k]]

\* What a copy makes of the buffer block.
LEMMA CopyToSlot ==
  ASSUME Types, Control, Locks, Rings, NEW t \in Clients, CopyTo(t),
         NEW b \in Blocks, b = task[t].b, NEW f \in Buffers, f = BufferOf(b), NEW p \in Positions, p = bbn[b]
  PROVE  /\ slot'[f][p].pbn = slot[f][p].pbn /\ slot'[f][p].dirty
         /\ slot'[f][p].data = Filled(t)
         /\ \A i \in Positions \ {p} : slot'[f][i] = slot[f][i]
         /\ \A g \in Buffers \ {f} : slot'[g] = slot[g]
  <1> DEFINE data == [k \in 0 .. SPB - 1 |-> IF b * SPB + k \in Part(t) THEN clock + 1 ELSE Old(t)[k]]
             r == [slot[f][p] EXCEPT !.dirty = TRUE, !.data = data]
  <1>1. slot \in [Buffers -> [Positions -> SlotType]] /\ slot[f] \in [Positions -> SlotType] /\ slot[f][p] \in SlotType
    BY SlotFacts DEF Types, DataTypes
  <1>2. slot' = [slot EXCEPT ![f][p].dirty = TRUE, ![f][p].data = data]
    BY DEF CopyTo
  <1> HIDE DEF data
  <1>3. r.pbn = slot[f][p].pbn /\ r.dirty = TRUE /\ r.data = data
    BY <1>1 DEF SlotType
  <1>4. slot' = [slot EXCEPT ![f] = [slot[f] EXCEPT ![p] = r]]
    BY <1>1, <1>2
  <1>5. data = Filled(t)
    BY DEF data, Filled
  <1> HIDE DEF r
  <1> QED
    BY <1>1, <1>3, <1>4, <1>5

\* A copy keeps the rings: the block it marks dirty is one of the dirty ones.
LEMMA CopyToRings ==
  ASSUME Types, Control, Locks, Rings, NEW t \in Clients, CopyTo(t), Types'
  PROVE  Rings'
  <1>1. PICK b \in Blocks : b = task[t].b /\ IsBuffered(b) /\ b \in Held(t) /\ t \in Tasks /\ task[t].pc = "copy"
    BY CopyToFacts
  <1>2. PICK f \in Buffers : f = BufferOf(b)
    BY BufferOfBlock
  <1>3. PICK p \in Positions : p = bbn[b]
    BY <1>1, BufferedFacts
  <1>4. /\ slot'[f][p].pbn = slot[f][p].pbn /\ slot'[f][p].dirty
        /\ \A i \in Positions \ {p} : slot'[f][i] = slot[f][i]
        /\ \A g \in Buffers \ {f} : slot'[g] = slot[g]
    BY <1>1, <1>2, <1>3, CopyToSlot
  <1>5. ring' = ring /\ bbn' = bbn
    BY DEF CopyTo
  <1>6. /\ \A u \in Tasks \ {t} : task'[u] = task[u]
        /\ SameFlush(t) /\ task'[t].pc \in {"block", "fua_lock", "end"}
    BY CopyToTask DEF Steps, Advanced
  <1>7. \A g \in Buffers, i \in Positions : slot'[g][i].pbn = slot[g][i].pbn
    BY <1>4
  <1>8. ASSUME NEW c \in Blocks, IsBuffered(c),
               \/ slot[BufferOf(c)][bbn[c]].dirty
               \/ \E u \in Tasks : task[u].pc = "range" /\ c \in Synced(u)
        PROVE  \/ slot'[BufferOf(c)][bbn[c]].dirty
               \/ \E u \in Tasks : task'[u].pc = "range" /\ c \in Synced(u)'
    <2>1. CASE slot[BufferOf(c)][bbn[c]].dirty
      <3>1. BufferOf(c) \in Buffers /\ bbn[c] \in Positions
        BY <1>8, BufferedFacts
      <3> QED
        BY <2>1, <3>1, <1>4
    <2>2. ASSUME NEW u \in Tasks, task[u].pc = "range", c \in Synced(u)
          PROVE  task'[u].pc = "range" /\ c \in Synced(u)'
      BY <2>2, <1>1, <1>6, SameTask
    <2> QED
      BY <1>8, <2>1, <2>2
  <1>9. (\A g \in Buffers : Ring(g)') /\ (\A u \in Tasks : Flushed(u)')
    BY <1>1, <1>5, <1>6, <1>7, <1>8, SameLinks DEF SameFlush
  <1>10. \A u \in Clients : Placed(u)'
    <2>1. Placed(t)'
      BY <1>6 DEF Placed, Seeking, FlushPcs
    <2>2. \A u \in Clients \ {t} : Placed(u)'
      BY <1>5, <1>6, Consts, PlacedFrame
    <2> QED
      BY <2>1, <2>2
  <1> QED
    BY <1>9, <1>10 DEF Rings

\* The block a flusher copies is dirty, buffered in its buffer, and no one's.
LEMMA SyncBlockFacts ==
  ASSUME Types, Control, Locks, Rings, NEW t \in Tasks, SyncBlock(t)
  PROVE  /\ task[t].pc = "range" /\ task'[t].pc = "range"
         /\ NextBlock(t) \in Blocks /\ NextBlock(t) \in Range1(t) /\ NextBlock(t) \in task[t].todo
         /\ NextBlock(t) \notin Synced(t) /\ IsBuffered(NextBlock(t)) /\ pbi_lock[NextBlock(t)] = Null
         /\ BufferOf(NextBlock(t)) = task[t].buf /\ bbn[NextBlock(t)] \in Positions
         /\ slot[task[t].buf][bbn[NextBlock(t)]].dirty /\ slot[task[t].buf][bbn[NextBlock(t)]].pbn = NextBlock(t)
         /\ Synced(t)' = Synced(t) \cup {NextBlock(t)} /\ Range1(t)' = Range1(t)
         /\ \A u \in Tasks : task[u].pc = "range" => NextBlock(t) \notin Synced(u)
  <1> DEFINE b == NextBlock(t)
  <1>1. task[t].pc = "range" /\ b \in Range1(t) /\ pbi_lock[b] = Null
    BY DEF SyncBlock
  <1>2. task[t].todo # {} /\ b \in task[t].todo /\ b \in Blocks /\ b \notin Synced(t)
    BY <1>1, SequenceNext, SequenceFacts
  <1>3. BufferOf(b) = task[t].buf /\ IsBuffered(b)
    BY <1>1, <1>2 DEF Rings, Flushed
  <1>4. bbn[b] \in Positions /\ slot[task[t].buf][bbn[b]].pbn = b
    BY <1>2, <1>3, BufferedFacts
  <1>5. Synced(t)' = Synced(t) \cup {b} /\ Range1(t)' = Range1(t)
    BY <1>2, SyncBlockTask, SyncedMore
  <1>6. ASSUME NEW u \in Tasks, task[u].pc = "range", b \in Synced(u) PROVE FALSE
    <2>1. b \in Held(u)
      BY <1>2, <1>6 DEF Held
    <2> QED
      BY <1>1, <1>2, <2>1, HeldApart
  <1>7. slot[task[t].buf][bbn[b]].dirty
    <2>1. Ring(BufferOf(b))
      BY <1>2, BufferOfBlock DEF Rings
    <2>2. slot[BufferOf(b)][bbn[b]].dirty \/ \E u \in Tasks : task[u].pc = "range" /\ b \in Synced(u)
      <3> HIDE DEF b
      <3> QED
        BY <1>2, <1>3, <2>1 DEF Ring
    <2> QED
      BY <1>3, <1>6, <2>2
  <1>8. task'[t].pc = "range"
    BY <1>3, SyncBlockTask
  <1> HIDE DEF b
  <1> QED
    BY <1>1, <1>2, <1>3, <1>4, <1>5, <1>6, <1>7, <1>8 DEF b

\* The buffer block that a flusher has copied is clean; the PM block has its data.
LEMMA SyncBlockSlot ==
  ASSUME Types, Control, Locks, Rings, NEW t \in Tasks, SyncBlock(t),
         NEW b \in Blocks, b = NextBlock(t), NEW f \in Buffers, f = task[t].buf, NEW p \in Positions, p = bbn[b]
  PROVE  /\ slot'[f][p].pbn = slot[f][p].pbn /\ slot'[f][p].data = slot[f][p].data
         /\ \A i \in Positions \ {p} : slot'[f][i] = slot[f][i]
         /\ \A g \in Buffers \ {f} : slot'[g] = slot[g]
         /\ \A s \in Sectors : pm'[s] = IF BlockOf(s) = b THEN slot[f][p].data[s - b * SPB] ELSE pm[s]
         /\ nvm' = IF FlushEach THEN [s \in Sectors |-> IF BlockOf(s) = b THEN pm'[s] ELSE nvm[s]] ELSE nvm
         /\ faults' = faults \cup ({b} \ writable)
  <1> DEFINE r == [slot[f][p] EXCEPT !.dirty = FALSE]
  <1>1. slot \in [Buffers -> [Positions -> SlotType]] /\ slot[f] \in [Positions -> SlotType] /\ slot[f][p] \in SlotType
    BY SlotFacts DEF Types, DataTypes
  <1>2. IsBuffered(b) /\ slot[f][p].dirty
    BY SyncBlockFacts
  <1>3. slot' = [slot EXCEPT ![f][p].dirty = FALSE]
    BY <1>2 DEF SyncBlock
  <1>4. r.pbn = slot[f][p].pbn /\ r.data = slot[f][p].data
    BY <1>1 DEF SlotType
  <1>5. slot' = [slot EXCEPT ![f] = [slot[f] EXCEPT ![p] = r]]
    BY <1>1, <1>3
  <1> HIDE DEF r
  <1>6. /\ slot'[f][p] = r /\ \A i \in Positions \ {p} : slot'[f][i] = slot[f][i]
        /\ \A g \in Buffers \ {f} : slot'[g] = slot[g]
    BY <1>1, <1>5
  <1>7. /\ pm' = [s \in Sectors |-> IF s \in Sect(b) THEN slot[f][p].data[s - b * SPB] ELSE pm[s]]
        /\ nvm' = IF FlushEach THEN [s \in Sectors |-> IF s \in Sect(b) THEN pm'[s] ELSE nvm[s]] ELSE nvm
    BY <1>2 DEF SyncBlock
  <1>8. \A s \in Sectors : s \in Sect(b) <=> BlockOf(s) = b
    BY SectOfBlock
  <1>9. \A s \in Sectors : pm'[s] = IF BlockOf(s) = b THEN slot[f][p].data[s - b * SPB] ELSE pm[s]
    BY <1>7, <1>8
  <1>10. nvm' = IF FlushEach THEN [s \in Sectors |-> IF BlockOf(s) = b THEN pm'[s] ELSE nvm[s]] ELSE nvm
    BY <1>7, <1>8
  <1>11. faults' = faults \cup ({b} \ writable)
    <2>1. Sect(b) # {}
      <3>1. b * SPB + 0 \in Sectors /\ BlockOf(b * SPB + 0) = b /\ 0 \in 0 .. SPB - 1
        BY BlockOfSector, Consts
      <3> QED
        BY <3>1, <1>8
    <2> QED
      BY <1>2, <2>1 DEF SyncBlock
  <1> QED
    BY <1>4, <1>6, <1>9, <1>10, <1>11

\* A block copied is clean, and among those synced.
LEMMA SyncBlockRings ==
  ASSUME Types, Control, Locks, Rings, NEW t \in Tasks, SyncBlock(t), Types'
  PROVE  Rings'
  <1>1. PICK b \in Blocks : b = NextBlock(t)
    BY SyncBlockFacts
  <1>2. PICK f \in Buffers : f = task[t].buf
    BY TaskFields
  <1>3. PICK p \in Positions : p = bbn[b]
    BY <1>1, SyncBlockFacts
  <1>4. /\ slot'[f][p].pbn = slot[f][p].pbn
        /\ \A i \in Positions \ {p} : slot'[f][i] = slot[f][i]
        /\ \A g \in Buffers \ {f} : slot'[g] = slot[g]
    BY <1>1, <1>2, <1>3, SyncBlockSlot
  <1>5. ring' = ring /\ bbn' = bbn
    BY DEF SyncBlock
  <1>6. /\ task[t].pc = "range" /\ task'[t].pc = "range" /\ BufferOf(b) = f /\ IsBuffered(b)
        /\ Synced(t)' = Synced(t) \cup {b}
    BY <1>1, <1>2, SyncBlockFacts
  <1>7. /\ \A u \in Tasks \ {t} : task'[u] = task[u]
        /\ task'[t].buf = task[t].buf /\ task'[t].todo = task[t].todo /\ task'[t].cleaned = task[t].cleaned
        /\ task'[t].req = task[t].req /\ task'[t].b = task[t].b
    BY SyncBlockTask DEF Steps, SameBio, SameCopy
  <1>8. \A g \in Buffers, i \in Positions : slot'[g][i].pbn = slot[g][i].pbn
    BY <1>4
  <1>9. ASSUME NEW c \in Blocks, IsBuffered(c),
               \/ slot[BufferOf(c)][bbn[c]].dirty
               \/ \E u \in Tasks : task[u].pc = "range" /\ c \in Synced(u)
        PROVE  \/ slot'[BufferOf(c)][bbn[c]].dirty
               \/ \E u \in Tasks : task'[u].pc = "range" /\ c \in Synced(u)'
    <2>1. CASE c = b
      BY <2>1, <1>6
    <2>2. CASE c # b /\ slot[BufferOf(c)][bbn[c]].dirty
      <3>1. BufferOf(c) \in Buffers /\ bbn[c] \in Positions
        BY <1>9, BufferedFacts
      <3>2. BufferOf(c) = f => bbn[c] # p
        BY <1>3, <1>6, <2>2, BufferedFacts
      <3>3. slot'[BufferOf(c)][bbn[c]] = slot[BufferOf(c)][bbn[c]]
        BY <3>1, <3>2, <1>4
      <3> QED
        BY <2>2, <3>3
    <2>3. ASSUME NEW u \in Tasks, task[u].pc = "range", c \in Synced(u)
          PROVE  task'[u].pc = "range" /\ c \in Synced(u)'
      BY <2>3, <1>6, <1>7, SameTask
    <2> QED
      BY <1>9, <2>1, <2>2, <2>3
  <1>10. (\A g \in Buffers : Ring(g)') /\ (\A u \in Tasks : Flushed(u)')
    BY <1>5, <1>6, <1>7, <1>8, <1>9, SameLinks
  <1>11. \A u \in Clients : Placed(u)'
    <2>1. t \in Clients => Placed(t)'
      <3>1. t \in Clients => Placed(t)
        BY DEF Rings
      <3> QED
        BY <3>1, <1>5, <1>6, <1>7 DEF Placed, Seeking, FlushPcs, IsBuffered
    <2>2. \A u \in Clients \ {t} : Placed(u)'
      BY <1>5, <1>7, Consts, PlacedFrame
    <2> QED
      BY <2>1, <2>2
  <1> QED
    BY <1>10, <1>11 DEF Rings

\* The blocks of a sequence that a flusher is through with.
LEMMA UnlinkFacts ==
  ASSUME Types, Control, Locks, Rings, NEW t \in Tasks, UnlinkRange(t), Types',
         NEW f \in Buffers, f = task[t].buf, NEW R \in SUBSET Blocks, R = Range1(t)
  PROVE  /\ task[t].pc = "range" /\ task'[t].pc \in {"range", "cleaned"} /\ Synced(t) = R /\ R \subseteq task[t].todo
         /\ task'[t].todo = task[t].todo \ R /\ task'[t].buf = f /\ Taken(t)' = Taken(t)
         /\ task'[t].pc = "cleaned" <=> task'[t].todo = {}
         /\ task'[t].pc = "range" => Synced(t)' = {}
         /\ task'[t].req = task[t].req /\ task'[t].b = task[t].b
         /\ \A u \in Tasks \ {t} : task'[u] = task[u]
         /\ \A b \in R : BufferOf(b) = f /\ IsBuffered(b) /\ b \in Held(t)
         /\ \A b \in R : bbn'[b] = Unbuffered
         /\ \A b \in Blocks \ R : bbn'[b] = bbn[b]
         /\ \A i \in Positions : /\ (\E b \in R : bbn[b] = i) => slot'[f][i].pbn = NoBlock
                                 /\ ~(\E b \in R : bbn[b] = i) => slot'[f][i] = slot[f][i]
                                 /\ slot'[f][i].dirty = slot[f][i].dirty /\ slot'[f][i].data = slot[f][i].data
         /\ \A g \in Buffers \ {f} : slot'[g] = slot[g]
  <1>1. task[t].pc = "range" /\ NextBlock(t) \notin R
    BY DEF UnlinkRange
  <1>2. task[t].todo # {} /\ Synced(t) = R /\ R \subseteq task[t].todo
    BY <1>1, SequenceNext, SequenceFacts
  <1>3. \A b \in R : BufferOf(b) = f /\ IsBuffered(b)
    BY <1>1, <1>2 DEF Rings, Flushed
  <1>4. \A b \in R : b \in Held(t)
    BY <1>1, <1>2 DEF Held
  <1>5. /\ Steps(t) /\ SameBio(t) /\ SameCopy(t) /\ task'[t].todo = task[t].todo \ R /\ task'[t].buf = f
        /\ task'[t].cleaned = task[t].cleaned + Cardinality(R) /\ task'[t].synced = 0
        /\ task'[t].pc = IF task'[t].todo = {} THEN "cleaned" ELSE "range"
    BY UnlinkRangeTask
  <1>6. task'[t].pc = "range" => Synced(t)' = {}
    BY <1>5, SyncedNone
  <1>7. Taken(t)' = Taken(t)
    <2> DEFINE T == task[t].todo
    <2>1. IsFiniteSet(T) /\ task[t].cleaned \in Nat
      <3>1. T \subseteq Blocks /\ IsFiniteSet(Blocks) /\ task[t].cleaned \in Nat
        BY TaskFields, Consts
      <3> HIDE DEF T
      <3> QED
        BY <3>1, FS_Subset
    <2>2. R \subseteq T
      BY <1>2
    <2> HIDE DEF T
    <2>3. IsFiniteSet(R) /\ Cardinality(R) \in Nat /\ Cardinality(T) \in Nat /\ Cardinality(T \ R) \in Nat
      BY <2>1, <2>2, FS_Subset, FS_CardinalityType, FS_Difference
    <2>4. Cardinality(T \ R) = Cardinality(T) - Cardinality(R)
      <3>1. T \cap R = R
        BY <2>2
      <3>2. Cardinality(T \ R) = Cardinality(T) - Cardinality(T \cap R)
        BY <2>1, FS_Difference, Zenon
      <3> QED
        BY <3>1, <3>2
    <2>5. Taken(t)' = (task[t].cleaned + Cardinality(R)) + Cardinality(T \ R)
      BY <1>5 DEF Taken, T
    <2>6. Taken(t) = task[t].cleaned + Cardinality(T)
      BY DEF Taken, T
    <2> DEFINE x == task[t].cleaned  y == Cardinality(R)  z == Cardinality(T)  w == Cardinality(T \ R)
    <2>7. x \in Nat /\ y \in Nat /\ z \in Nat /\ w = z - y /\ Taken(t)' = (x + y) + w /\ Taken(t) = x + z
      BY <2>1, <2>3, <2>4, <2>5, <2>6
    <2> HIDE DEF x, y, z, w
    <2> QED
      BY <2>7
  <1>8. (\A b \in R : bbn'[b] = Unbuffered) /\ (\A b \in Blocks \ R : bbn'[b] = bbn[b])
    BY DEF UnlinkRange
  <1>9. slot[f] \in [Positions -> SlotType] /\ slot \in [Buffers -> [Positions -> SlotType]]
    BY Consts, SlotFacts DEF Types, DataTypes
  <1> DEFINE h == [i \in Positions |-> IF \E b \in R : bbn[b] = i THEN [slot[f][i] EXCEPT !.pbn = NoBlock] ELSE slot[f][i]]
  <1>10. slot' = [slot EXCEPT ![f] = h]
    <2>1. DOMAIN slot[f] = Positions
      BY <1>9
    <2> QED
      BY <2>1 DEF UnlinkRange
  <1>11. ASSUME NEW i \in Positions
         PROVE  /\ (\E b \in R : bbn[b] = i) => h[i].pbn = NoBlock
                /\ ~(\E b \in R : bbn[b] = i) => h[i] = slot[f][i]
                /\ h[i].dirty = slot[f][i].dirty /\ h[i].data = slot[f][i].data
    <2>1. slot[f][i] \in SlotType
      BY <1>9
    <2> DEFINE r == [slot[f][i] EXCEPT !.pbn = NoBlock]
    <2>2. r.pbn = NoBlock /\ r.dirty = slot[f][i].dirty /\ r.data = slot[f][i].data
      BY <2>1 DEF SlotType
    <2>3. h[i] = IF \E b \in R : bbn[b] = i THEN r ELSE slot[f][i]
      OBVIOUS
    <2> HIDE DEF r, h
    <2> QED
      BY <2>2, <2>3
  <1> HIDE DEF h
  <1>12. slot'[f] = h /\ \A g \in Buffers \ {f} : slot'[g] = slot[g]
    BY <1>9, <1>10
  <1>13. \A i \in Positions : /\ (\E b \in R : bbn[b] = i) => slot'[f][i].pbn = NoBlock
                              /\ ~(\E b \in R : bbn[b] = i) => slot'[f][i] = slot[f][i]
                              /\ slot'[f][i].dirty = slot[f][i].dirty /\ slot'[f][i].data = slot[f][i].data
    BY <1>11, <1>12
  <1>14. task'[t].req = task[t].req /\ task'[t].b = task[t].b /\ \A u \in Tasks \ {t} : task'[u] = task[u]
    BY <1>5 DEF Steps, SameBio, SameCopy
  <1> QED
    BY <1>1, <1>2, <1>3, <1>4, <1>5, <1>6, <1>7, <1>8, <1>12, <1>13, <1>14

\* Blocks unlinked are among those the flusher has taken.
LEMMA UnlinkRings ==
  ASSUME Types, Control, Locks, Rings, NEW t \in Tasks, UnlinkRange(t), Types'
  PROVE  Rings'
  <1>f. PICK f \in Buffers : f = task[t].buf
    BY TaskFields
  <1>r. PICK R \in SUBSET Blocks : R = Range1(t)
    BY TaskFields DEF Range1, Contiguous
  <1>1. /\ task[t].pc = "range" /\ task'[t].pc \in {"range", "cleaned"} /\ Synced(t) = R /\ R \subseteq task[t].todo
        /\ task'[t].todo = task[t].todo \ R /\ task'[t].buf = f /\ Taken(t)' = Taken(t)
        /\ task'[t].pc = "cleaned" <=> task'[t].todo = {}
        /\ task'[t].req = task[t].req /\ task'[t].b = task[t].b
        /\ \A u \in Tasks \ {t} : task'[u] = task[u]
        /\ \A b \in R : BufferOf(b) = f /\ IsBuffered(b) /\ b \in Held(t)
    BY <1>f, <1>r, UnlinkFacts
  <1>2. (\A b \in R : bbn'[b] = Unbuffered) /\ (\A b \in Blocks \ R : bbn'[b] = bbn[b])
    BY <1>f, <1>r, UnlinkFacts
  <1>3. /\ \A i \in Positions : /\ (\E b \in R : bbn[b] = i) => slot'[f][i].pbn = NoBlock
                                /\ ~(\E b \in R : bbn[b] = i) => slot'[f][i] = slot[f][i]
        /\ \A g \in Buffers \ {f} : slot'[g] = slot[g]
    BY <1>f, <1>r, UnlinkFacts
  <1>4. ring' = ring /\ ~(Unbuffered < NumBlocks) /\ ring[f].num_dirty \in Nat /\ ring[f].num_dirty <= NumBlocks
        /\ NumBlocks \in Nat /\ Taken(t) \in Nat
    BY Consts, RingPositions, TakenType DEF UnlinkRange
  <1>5. Flushes(t, f) /\ Flushes(t, f)' /\ Flushed(t) /\ Ring(f)
    BY <1>1, <1>f DEF Flushes, Rings
  <1>6. /\ Taken(t) <= ring[f].num_dirty
        /\ \A b \in task[t].todo : BufferOf(b) = f /\ IsBuffered(b) /\ \E k \in 0 .. Taken(t) - 1 : bbn[b] = At(f, k)
        /\ \A k \in 0 .. Taken(t) - 1 :
             LET b == slot[f][At(f, k)].pbn IN b = NoBlock \/ (b \in task[t].todo /\ bbn[b] = At(f, k))
    BY <1>1, <1>5, <1>f DEF Flushed
  <1>7. \A g, k : At(g, k)' = At(g, k)
    BY <1>4 DEF At
  <1>8. \A b : BufferOf(b)' = BufferOf(b)
    BY DEF BufferOf
  \* The positions of the unlinked blocks are among those taken.
  <1>9. \A b \in R : bbn[b] \in Positions /\ \A c \in Blocks : BufferOf(c) = f /\ bbn[c] = bbn[b] => c = b
    BY <1>1, BufferedFacts
  <1>10. \A u \in Tasks : Flushes(u, f) => u = t
    BY <1>5, HeldApart
  <1>11. ASSUME NEW k \in 0 .. ring[f].num_dirty - 1
         PROVE  LET b == slot'[f][At(f, k)].pbn IN
                \/ b \in Blocks /\ BufferOf(b) = f /\ bbn'[b] = At(f, k)
                \/ \E u \in Tasks : Flushes(u, f)' /\ k < Taken(u)'
    <2>1. CASE k < Taken(t)
      BY <2>1, <1>1, <1>5
    <2>2. CASE ~(k < Taken(t))
      <3> DEFINE b == slot[f][At(f, k)].pbn
      <3>0. k \in 0 .. NumBlocks - 1 /\ k \in 0 .. NumBlocks
        BY <1>4
      <3>1. At(f, k) \in Positions
        BY <3>0, RingPositions
      <3>2. b \in Blocks /\ BufferOf(b) = f /\ bbn[b] = At(f, k)
        BY <2>2, <1>5, <1>10 DEF Ring
      <3>3. \A c \in R : bbn[c] # At(f, k)
        <4> SUFFICES ASSUME NEW c \in R, bbn[c] = At(f, k) PROVE FALSE
          OBVIOUS
        <4>1. PICK j \in 0 .. Taken(t) - 1 : bbn[c] = At(f, j)
          BY <1>1, <1>6
        <4>2. j \in 0 .. NumBlocks - 1
          BY <1>4, <1>6
        <4>3. j = k
          BY <3>0, <4>1, <4>2, RingPositions
        <4> QED
          BY <2>2, <4>3, <1>4
      <3>4. slot'[f][At(f, k)] = slot[f][At(f, k)]
        BY <1>3, <3>1, <3>3
      <3>5. b \notin R
        BY <3>2, <3>3
      <3>6. slot'[f][At(f, k)].pbn = b
        BY <3>4
      <3> HIDE DEF b
      <3> QED
        BY <1>2, <3>2, <3>5, <3>6
    <2> QED
      BY <2>1, <2>2
  <1>12. ASSUME NEW b \in Blocks, BufferOf(b) = f, bbn'[b] < NumBlocks
         PROVE  /\ slot'[f][bbn'[b]].pbn = b
                /\ \E k \in 0 .. ring[f].num_dirty - 1 : bbn'[b] = At(f, k)
                /\ slot'[f][bbn'[b]].dirty \/ \E u \in Tasks : task'[u].pc = "range" /\ b \in Synced(u)'
    <2>1. b \notin R
      BY <1>2, <1>4, <1>12
    <2>2. bbn'[b] = bbn[b] /\ IsBuffered(b)
      BY <2>1, <1>2, <1>12 DEF IsBuffered
    <2>3. /\ slot[f][bbn[b]].pbn = b /\ \E k \in 0 .. ring[f].num_dirty - 1 : bbn[b] = At(f, k)
          /\ slot[f][bbn[b]].dirty \/ \E u \in Tasks : task[u].pc = "range" /\ b \in Synced(u)
          /\ bbn[b] \in Positions
      BY <2>2, <1>5, <1>12, BufferedFacts DEF Ring
    <2>4. slot'[f][bbn[b]] = slot[f][bbn[b]]
      <3>1. \A c \in R : bbn[c] # bbn[b]
        BY <2>1, <1>9, <1>12
      <3> QED
        BY <2>3, <3>1, <1>3
    <2>5. ASSUME NEW u \in Tasks, task[u].pc = "range", b \in Synced(u)
          PROVE  task'[u].pc = "range" /\ b \in Synced(u)'
      BY <2>1, <2>5, <1>1, SameTask
    <2> QED
      BY <2>2, <2>3, <2>4, <2>5
  <1>13. Ring(f)'
    <2>1. (ring[f].pos_clean = At(f, ring[f].num_dirty))'
      BY <1>4, <1>5, <1>7 DEF Ring
    <2> QED
      BY <2>1, <1>4, <1>7, <1>8, <1>11, <1>12 DEF Ring, IsBuffered
  <1>14. ASSUME NEW g \in Buffers \ {f} PROVE Ring(g)'
    <2>1. \A c \in Blocks : BufferOf(c) = g => bbn'[c] = bbn[c]
      BY <1>1, <1>2
    <2>2. \A u \in Tasks : Flushes(u, g) => task'[u] = task[u]
      BY <1>1, <1>f DEF Flushes
    <2> QED
      BY <2>1, <2>2, <1>3, <1>4, RingFrame
  <1>15. Flushed(t)'
    <2>1. \A b \in task'[t].todo : b \in task[t].todo /\ b \in Blocks \ R
      BY <1>1, TaskFields
    <2>2. \A b \in task'[t].todo : BufferOf(b) = f /\ bbn'[b] < NumBlocks /\ \E k \in 0 .. Taken(t) - 1 : bbn'[b] = At(f, k)
      BY <2>1, <1>2, <1>6 DEF IsBuffered
    <2>3. ASSUME NEW k \in 0 .. Taken(t) - 1
          PROVE  LET b == slot'[f][At(f, k)].pbn IN b = NoBlock \/ (b \in task'[t].todo /\ bbn'[b] = At(f, k))
      <3> DEFINE b == slot[f][At(f, k)].pbn
      <3>1. At(f, k) \in Positions
        <4>1. k \in 0 .. NumBlocks
          BY <1>4, <1>6
        <4> QED
          BY <4>1, RingPositions
      <3>2. CASE \E c \in R : bbn[c] = At(f, k)
        BY <3>1, <3>2, <1>3
      <3>3. CASE ~\E c \in R : bbn[c] = At(f, k)
        <4>1. slot'[f][At(f, k)].pbn = b
          BY <3>1, <3>3, <1>3
        <4>2. b = NoBlock \/ (b \in task[t].todo /\ bbn[b] = At(f, k))
          BY <1>6
        <4>3. b \in task[t].todo /\ bbn[b] = At(f, k) => b \in task'[t].todo /\ bbn'[b] = At(f, k)
          <5>1. bbn[b] = At(f, k) => b \notin R
            BY <3>3
          <5> HIDE DEF b
          <5> QED
            BY <5>1, <2>1, <1>1, <1>2
        <4> HIDE DEF b
        <4> QED
          BY <4>1, <4>2, <4>3
      <3> QED
        BY <3>2, <3>3
    <2> QED
      BY <2>2, <2>3, <1>1, <1>4, <1>6, <1>7, <1>8 DEF Flushed, IsBuffered
  <1>16. ASSUME NEW u \in Tasks \ {t} PROVE Flushed(u)'
    <2>1. CASE task[u].pc \notin {"range", "cleaned"}
      BY <2>1, <1>1, FlushedFrame
    <2>2. CASE task[u].pc \in {"range", "cleaned"}
      <3>1. PICK g \in Buffers : g = task[u].buf
        BY TaskFields
      <3>2. g # f
        BY <2>2, <3>1, <1>10 DEF Flushes
      <3>3. \A c \in task[u].todo : c \in Blocks /\ BufferOf(c) = g
        BY <2>2, <3>1, TaskFields DEF Rings, Flushed
      <3>4. \A c \in task[u].todo : bbn'[c] = bbn[c]
        BY <3>2, <3>3, <1>1, <1>2
      <3>5. ring[g].num_dirty \in Int /\ Taken(u) \in Int /\ ring[g].num_dirty <= ring[g].num_dirty
        BY RingPositions, TakenType
      <3> QED
        BY <2>2, <3>1, <3>2, <3>4, <3>5, <1>1, <1>3, <1>4, FlushedFrame
    <2> QED
      BY <2>1, <2>2
  <1>17. ASSUME NEW u \in Clients PROVE Placed(u)'
    <2>1. CASE u = t
      <3>1. Placed(t)
        BY <2>1 DEF Rings
      <3>2. Seeking(t)' => Seeking(t)
        BY <1>1 DEF Seeking, FlushPcs
      <3>3. Seeking(t) => task[t].b \in Blocks
        BY <2>1, BioBlocks DEF Control, ControlOf, ClientControl, Seeking, Carries
      <3>4. Seeking(t) => ~IsBuffered(task[t].b)'
        <4> SUFFICES ASSUME Seeking(t) PROVE ~(bbn'[task[t].b] < NumBlocks)
          BY <1>1 DEF IsBuffered
        <4>1. ~(bbn[task[t].b] < NumBlocks) /\ task[t].b \in Blocks
          BY <3>1, <3>3 DEF Placed, IsBuffered
        <4> QED
          BY <4>1, <1>2, <1>4
      <3> QED
        BY <2>1, <3>2, <3>4, <1>1 DEF Placed
    <2>2. CASE u # t
      <3>1. R \in SUBSET Held(t)
        BY <1>1
      <3> QED
        BY <2>2, <3>1, <1>1, <1>2, PlacedOthers, Consts
    <2> QED
      BY <2>1, <2>2
  <1> QED
    BY <1>13, <1>14, <1>15, <1>16, <1>17 DEF Rings

\* With the control info brought up to date the ring holds what is left.
LEMMA CleanedRings ==
  ASSUME Types, Control, Locks, Rings, NEW t \in Tasks, Cleaned(t), Types'
  PROVE  Rings'
  <1>f. PICK f \in Buffers : f = task[t].buf
    BY TaskFields
  <1>n. PICK n \in Nat : n = task[t].cleaned
    BY TaskFields
  <1>d. PICK d \in Nat : d = ring[f].num_dirty
    BY RingPositions
  <1>1. /\ task[t].pc = "cleaned" /\ task[t].todo = {} /\ Taken(t) = n /\ n <= d /\ d - n \in Nat
        /\ task' = [task EXCEPT ![t] = Return(t, d - n)]
    BY <1>f, <1>n, <1>d, CleanedMoves DEF Cleaned
  <1>2. ring' = [ring EXCEPT ![f].pos_dirty = PosDirty(f, n), ![f].num_dirty = d - n] /\ slot' = slot /\ bbn' = bbn
    BY <1>f, <1>n, <1>d DEF Cleaned
  <1>3. d <= NumBlocks /\ NumBlocks \in Nat \ {0} /\ Ring(f) /\ Flushes(t, f)
    BY <1>d, <1>f, <1>1, RingPositions DEF Rings, Flushes
  <1>4. PosDirty(f, n) = At(f, n)
    BY DEF PosDirty, At
  <1>5. /\ ring'[f].pos_dirty = At(f, n) /\ ring'[f].num_dirty = d - n /\ ring'[f].pos_clean = ring[f].pos_clean
        /\ \A g \in Buffers \ {f} : ring'[g] = ring[g]
    <2>1. ring \in [Buffers -> RingType]
      BY DEF Types, DataTypes
    <2> QED
      BY <2>1, <1>2, <1>4 DEF RingType
  <1>6. Steps(t) /\ \A u \in Tasks \ {t} : task'[u] = task[u]
    BY <1>1, ReturnMoves DEF Steps
  <1>7. task'[t].pc \notin {"range", "cleaned"} /\ (t \in Clients => Placed(t)')
    <2>0. ControlOf(t) /\ Clients \cap Buffers = {}
      BY Consts DEF Control
    <2>1. CASE t \in Buffers
      <3>1. PICK pc \in {"check", "idle"} : task'[t] = [Idle EXCEPT !.buf = t, !.pc = pc]
        BY <1>1, <2>1, ReturnMoves
      <3>2. task'[t].pc \in {"check", "idle"}
        BY <3>1 DEF Idle
      <3> QED
        BY <2>0, <2>1, <3>2
    <2>2. CASE t \in Clients /\ task[t].req.op = "write"
      <3>1. task'[t].req = task[t].req /\ task'[t].pc = "alloc" /\ task'[t].b = task[t].b
        BY <1>1, <2>2, ReturnMoves DEF Moves, SameBio, SameCopy
      <3>2. Placed(t)
        BY <2>2 DEF Rings
      <3> QED
        BY <1>1, <1>2, <2>2, <3>1, <3>2 DEF Placed, Seeking, FlushPcs, IsBuffered
    <2>3. CASE t \in Clients /\ task[t].req.op # "write"
      <3>1. task'[t].req = task[t].req /\ task'[t].pc \in {"flush", "sync"}
        BY <1>1, <2>3, ReturnMoves DEF SameBio, SameCopy
      <3> QED
        BY <2>3, <3>1 DEF Placed, Seeking, FlushPcs
    <2> QED
      BY <2>1, <2>2, <2>3 DEF Tasks
  <1>8. \A u \in Tasks : Flushes(u, f) => u = t
    BY <1>3, HeldApart
  \* The ring without the blocks that have been cleaned.
  <1>9. ASSUME NEW k \in 0 .. d - n
        PROVE  At(f, k)' = At(f, n + k) /\ n + k \in 0 .. NumBlocks /\ At(f, n + k) \in Positions
    <2>1. n \in 0 .. NumBlocks /\ k \in 0 .. NumBlocks /\ n + k \in 0 .. NumBlocks /\ n + k <= NumBlocks
      BY <1>1, <1>3
    <2>2. (At(f, n) + k) % NumBlocks = At(f, n + k) /\ At(f, n + k) \in Positions
      BY <2>1, RingPositions
    <2> QED
      BY <2>1, <2>2, <1>5 DEF At
  <1>10. \A u \in Tasks : ~Flushes(u, f)'
    <2>1. ~Flushes(t, f)'
      BY <1>7 DEF Flushes
    <2> QED
      BY <2>1, <1>6, <1>8, SameTask
  <1>11. ASSUME NEW k \in 0 .. d - n - 1
         PROVE  LET b == slot'[f][At(f, k)'].pbn IN b \in Blocks /\ BufferOf(b) = f /\ bbn'[b] = At(f, k)'
    <2>1. n + k \in 0 .. d - 1 /\ ~(n + k < n) /\ k \in 0 .. d - n
      BY <1>1
    <2>2. LET b == slot[f][At(f, n + k)].pbn IN b \in Blocks /\ BufferOf(b) = f /\ bbn[b] = At(f, n + k)
      <3> DEFINE b == slot[f][At(f, n + k)].pbn
      <3>1. \/ b \in Blocks /\ BufferOf(b) = f /\ bbn[b] = At(f, n + k)
            \/ \E u \in Tasks : Flushes(u, f) /\ n + k < Taken(u)
        BY <2>1, <1>3, <1>d DEF Ring
      <3> HIDE DEF b
      <3>2. b \in Blocks /\ BufferOf(b) = f /\ bbn[b] = At(f, n + k)
        BY <2>1, <3>1, <1>1, <1>8
      <3> QED
        BY <3>2 DEF b
    <2> QED
      BY <2>1, <2>2, <1>2, <1>9
  <1>12. ASSUME NEW b \in Blocks, BufferOf(b) = f, IsBuffered(b)
         PROVE  /\ slot[f][bbn[b]].pbn = b
                /\ \E k \in 0 .. d - n - 1 : bbn[b] = At(f, k)'
                /\ slot[f][bbn[b]].dirty \/ \E u \in Tasks : task'[u].pc = "range" /\ b \in Synced(u)'
    <2>1. /\ slot[f][bbn[b]].pbn = b
          /\ slot[f][bbn[b]].dirty \/ \E u \in Tasks : task[u].pc = "range" /\ b \in Synced(u)
      BY <1>3, <1>12 DEF Ring
    <2>2. PICK j \in 0 .. d - 1 : bbn[b] = At(f, j)
      BY <1>3, <1>12, <1>d DEF Ring
    <2>3. ~(j < n)
      <3> SUFFICES ASSUME j < n PROVE FALSE
        OBVIOUS
      <3>1. j \in 0 .. Taken(t) - 1 /\ Flushed(t)
        BY <1>1 DEF Rings
      <3>2. slot[f][At(f, j)].pbn = NoBlock
        BY <3>1, <1>1, <1>f DEF Flushed
      <3> QED
        BY <2>1, <2>2, <3>2, Consts
    <2>4. j - n \in 0 .. d - n - 1 /\ j - n \in 0 .. d - n /\ n + (j - n) = j
      BY <2>3, <1>1
    <2>5. At(f, j - n)' = At(f, n + (j - n))
      BY <2>4, <1>9
    <2>6. At(f, j - n)' = bbn[b]
      BY <2>2, <2>4, <2>5
    <2>7. ASSUME NEW u \in Tasks, task[u].pc = "range", b \in Synced(u)
          PROVE  task'[u].pc = "range" /\ b \in Synced(u)'
      BY <2>7, <1>1, <1>6, SameTask
    <2>8. \E k \in 0 .. d - n - 1 : bbn[b] = At(f, k)'
      <3> DEFINE k == j - n
      <3>1. k \in 0 .. d - n - 1 /\ At(f, k)' = bbn[b]
        BY <2>4, <2>6
      <3> HIDE DEF k
      <3> QED
        BY <3>1
    <2> QED
      BY <2>1, <2>7, <2>8
  <1>13. Ring(f)'
    <2>1. (ring[f].pos_clean = At(f, ring[f].num_dirty))'
      <3>1. d - n \in 0 .. d - n /\ n + (d - n) = d
        BY <1>1
      <3>2. At(f, d - n)' = At(f, d)
        BY <3>1, <1>9
      <3>3. ring[f].pos_clean = At(f, d)
        BY <1>3, <1>d DEF Ring
      <3> QED
        BY <1>5, <3>2, <3>3 DEF At
    <2>2. \A b : (IsBuffered(b)' <=> IsBuffered(b)) /\ BufferOf(b)' = BufferOf(b)
      BY <1>2 DEF IsBuffered, BufferOf
    <2> QED
      BY <2>1, <2>2, <1>2, <1>5, <1>11, <1>12 DEF Ring
  <1>14. ASSUME NEW g \in Buffers \ {f} PROVE Ring(g)'
    <2>1. \A u \in Tasks : Flushes(u, g) => task'[u] = task[u]
      BY <1>6, <1>f DEF Flushes
    <2> QED
      BY <2>1, <1>2, <1>5, RingFrame
  <1>15. ASSUME NEW u \in Tasks PROVE Flushed(u)'
    <2>1. CASE u = t
      BY <2>1, <1>7 DEF Flushed
    <2>2. CASE u # t /\ task[u].pc \notin {"range", "cleaned"}
      BY <2>2, <1>6, FlushedFrame
    <2>3. CASE u # t /\ task[u].pc \in {"range", "cleaned"}
      <3>1. PICK g \in Buffers : g = task[u].buf
        BY TaskFields
      <3>2. g # f
        BY <2>3, <3>1, <1>8 DEF Flushes
      <3>3. ring[g].num_dirty \in Int /\ Taken(u) \in Int /\ ring[g].num_dirty <= ring[g].num_dirty
        BY RingPositions, TakenType
      <3> QED
        BY <2>3, <3>1, <3>2, <3>3, <1>2, <1>5, <1>6, FlushedFrame
    <2> QED
      BY <2>1, <2>2, <2>3
  <1>16. \A u \in Clients : Placed(u)'
    <2>1. \A u \in Clients \ {t} : Placed(u)'
      BY <1>2, <1>6, Consts, PlacedFrame
    <2> QED
      BY <2>1, <1>7
  <1> QED
    BY <1>13, <1>14, <1>15, <1>16 DEF Rings

\* Every step keeps the rings.
LEMMA RingsStep ==
  ASSUME Types, Control, Locks, Rings, NEW t \in Tasks, Acts(t), Types'
  PROVE  Rings'
  BY CalmStep, CalmRings, AllocRings, CopyToRings, SyncBlockRings, UnlinkRings, CleanedRings

-----------------------------------------------------------------------------
(***************************************************************************)
(* The data.                                                               *)
(***************************************************************************)
\* The steps that neither move data nor change the links.
SameData == pm' = pm /\ slot' = slot /\ bbn' = bbn /\ clock' = clock /\ latest' = latest /\ fua' = fua /\ late' = late /\ faults' = faults
Still(t) ==
  /\ SameData /\ writable \subseteq writable' /\ (nvm' = nvm \/ (t \in Clients /\ task[t].pc = "sync" /\ nvm' = pm))
  /\ \A s \in Sectors : done'[s] \in {done[s], task[t].stamps[s]}
  /\ task'[t].stamps \in {task[t].stamps, Zeros} /\ task'[t].need \in {task[t].need, done, Zeros}
  /\ ~Fills(t) /\ ~Fills(t)'
  /\ task'[t].pc = "range" => Synced(t)' = {} /\ Range1(t)' \subseteq writable'

\* Only five actions move data or links.
LEMMA StillStep ==
  ASSUME Types, Control, Locks, Rings, NEW t \in Tasks, Acts(t), Types'
  PROVE  \/ Still(t)
         \/ t \in Clients /\ (Alloc(t) \/ CopyTo(t) \/ FuaWrite(t))
         \/ SyncBlock(t) \/ UnlinkRange(t)
  <1>0. Clients \cap Buffers = {} /\ ControlOf(t)
    BY Consts DEF Control
  <1>d. ASSUME done' = done PROVE \A s \in Sectors : done'[s] \in {done[s], task[t].stamps[s]}
    BY <1>d
  <1>p. ASSUME SameData /\ nvm' = nvm /\ done' = done /\ writable' = writable,
               task'[t].stamps = task[t].stamps, task'[t].need = task[t].need,
               ~Fills(t), ~Fills(t)', task'[t].pc # "range"
        PROVE  Still(t)
    BY <1>p, <1>d DEF Still
  <1>z. Idle.stamps = Zeros /\ Idle.need = Zeros
    BY DEF Idle
  <1>1. CASE t \in Clients /\ Gate(t)
    <2>1. SameData /\ nvm' = nvm /\ done' = done /\ writable' = writable
      BY <1>1 DEF Gate, SameData, device, history
    <2>2. task[t].pc = "gate" /\ task'[t].pc = "enter" /\ task'[t].stamps = task[t].stamps /\ task'[t].need = task[t].need
      BY <1>1, GateMoves DEF Gate, Moves, SameBio, SameCopy
    <2> QED
      BY <1>p, <2>1, <2>2 DEF Fills
  <1>2. CASE t \in Clients /\ TakeBarrier(t)
    <2>1. SameData /\ nvm' = nvm /\ done' = done /\ writable' = writable
      BY <1>2 DEF TakeBarrier, SameData, device, history
    <2>2. task[t].pc = "barrier" /\ task'[t].pc = "drain" /\ task'[t].stamps = task[t].stamps /\ task'[t].need = task[t].need
      BY <1>2, TakeBarrierMoves DEF TakeBarrier, Moves, SameBio, SameCopy
    <2> QED
      BY <1>p, <2>1, <2>2 DEF Fills
  <1>3. CASE t \in Clients /\ ReleaseBarrier(t)
    <2>1. SameData /\ nvm' = nvm /\ done' = done /\ writable' = writable
      BY <1>3 DEF ReleaseBarrier, SameData, device, history
    <2>2. task[t].pc = "synced" /\ task'[t].pc = "gate" /\ task'[t].stamps = task[t].stamps /\ task'[t].need = task[t].need
      BY <1>3, ReleaseBarrierMoves DEF ReleaseBarrier, Moves, SameBio, SameCopy
    <2> QED
      BY <1>p, <2>1, <2>2 DEF Fills
  <1>4. CASE t \in Clients /\ SyncCaches(t)
    <2>1. SameData /\ nvm' = pm /\ done' = done /\ writable' = writable
      BY <1>4 DEF SyncCaches, SameData, device, history
    <2>2. task[t].pc = "sync" /\ task'[t].pc = "synced" /\ task'[t].stamps = task[t].stamps /\ task'[t].need = task[t].need
      BY <1>4, SyncCachesMoves DEF SyncCaches, Moves, SameBio, SameCopy
    <2> QED
      BY <1>4, <1>d, <2>1, <2>2 DEF Fills, Still
  <1>5. CASE t \in Clients /\ Enter(t)
    <2>1. SameData /\ nvm' = nvm /\ done' = done /\ writable' = writable
      BY <1>5 DEF Enter, SameData, device, history
    <2>2. task[t].pc = "enter" /\ task'[t].pc \in {"end", "block"} /\ task'[t].stamps = task[t].stamps /\ task'[t].need = task[t].need
      BY <1>5, EnterMoves DEF Enter, Moves, SameBio, SameCopy
    <2> QED
      BY <1>p, <2>1, <2>2 DEF Fills
  <1>6. CASE t \in Clients /\ Drain(t)
    <2>1. SameData /\ nvm' = nvm /\ done' = done /\ writable' = writable
      BY <1>6 DEF Drain, SameData, device, history
    <2>2. task[t].pc = "drain" /\ task'[t].pc = "flush" /\ task'[t].stamps = task[t].stamps /\ task'[t].need = task[t].need
      BY <1>6, DrainTask DEF Drain, SameBio, SameCopy
    <2> QED
      BY <1>p, <2>1, <2>2 DEF Fills
  <1>7. CASE t \in Clients /\ AllocFull(t)
    <2>1. SameData /\ nvm' = nvm /\ done' = done /\ writable' = writable
      BY <1>7 DEF AllocFull, SameData, device, history
    <2>2. task[t].pc = "alloc" /\ task'[t].pc = "check" /\ task'[t].stamps = task[t].stamps /\ task'[t].need = task[t].need
      BY <1>7, AllocFullTask DEF AllocFull, SameBio, SameCopy
    <2> QED
      BY <1>p, <2>1, <2>2 DEF Fills
  <1>8. CASE t \in Clients /\ End(t)
    <2>1. SameData /\ nvm' = nvm /\ writable' = writable
      BY <1>8 DEF End, SameData, device
    <2>a. task[t].pc = "end" /\ task'[t] = Idle
      BY <1>8, IdleTask DEF End
    <2>2. task[t].pc = "end" /\ task'[t] = Idle /\ task'[t].pc = "idle"
      BY <2>a DEF Idle
    <2>3. \A s \in Sectors : done'[s] \in {done[s], task[t].stamps[s]}
      <3>1. \A s \in Sectors : done[s] \in Nat /\ task[t].stamps[s] \in Nat
        BY TaskFields DEF Types, DataTypes
      <3> QED
        BY <1>8, <3>1, MaxOfTwo DEF End
    <2> QED
      BY <1>z, <2>1, <2>2, <2>3 DEF Fills, Still
  <1>9. CASE t \in Clients /\ CopyFrom(t)
    <2>1. SameData /\ nvm' = nvm /\ done' = done /\ writable' = writable
      BY <1>9 DEF CopyFrom, SameData, device, history
    <2>2. task[t].req.op = "read" /\ task'[t].stamps = task[t].stamps /\ task'[t].need = task[t].need /\ Advanced(t, task'[t].pc, task'[t].b)
      BY <1>9, CopyFromTask DEF CopyFrom, SameBio
    <2>3. task'[t].pc \in {"block", "fua_lock", "end"}
      BY <2>2 DEF Advanced
    <2> QED
      BY <1>p, <2>1, <2>2, <2>3 DEF Fills
  <1>10. CASE t \in Clients /\ FuaLock(t)
    <2>1. SameData /\ nvm' = nvm /\ done' = done /\ writable \subseteq writable'
      BY <1>10 DEF FuaLock, SameData, history
    <2>2. Carries(t) /\ task[t].pc = "fua_lock"
      BY <1>0, <1>10 DEF ControlOf, ClientControl, FuaLock, Carries
    <2>3. task'[t].pc \in {"fua_lock", "fua_write"} /\ task'[t].stamps = task[t].stamps /\ task'[t].need = task[t].need
      BY <1>10, <2>2, FuaLockTask, BioBlocks, Consts DEF SameBio
    <2> QED
      BY <1>d, <2>1, <2>2, <2>3 DEF Fills, Still
  <1>11. CASE t \in Clients /\ \E r \in Requests[t] : Submit(t, r)
    <2>1. PICK q \in Requests[t] : Submit(t, q)
      BY <1>11
    <2>2. SameData /\ nvm' = nvm /\ done' = done /\ writable' = writable
      BY <2>1 DEF Submit, SameData, device
    <2>3. task[t].pc = "idle" /\ task'[t].pc \in {"barrier", "gate", "enter"} /\ task'[t].stamps = Zeros /\ task'[t].need = done
      <3>1. /\ task[t].pc = "idle" /\ task'[t].stamps = Zeros /\ task'[t].need = done
            /\ task'[t].pc = CASE q.op = "flush" -> "barrier" [] q.op = "write" -> "gate" [] OTHER -> "enter"
        BY <1>11, <2>1, SubmitTask DEF Submit
      <3> QED
        BY <3>1
    <2> QED
      BY <1>d, <2>2, <2>3 DEF Fills, Still
  <1>12. CASE t \in Buffers /\ (StartSync(t) \/ StartIdleSync(t))
    <2>1. SameData /\ nvm' = nvm /\ done' = done /\ writable' = writable
      BY <1>12 DEF StartSync, StartIdleSync, SameData, device, history
    <2>2. task'[t].pc = "check" /\ task'[t].stamps = task[t].stamps /\ task'[t].need = task[t].need
      BY <1>12, StartMoves DEF Moves, SameBio, SameCopy
    <2> QED
      BY <1>12, <1>0, <1>p, <2>1, <2>2 DEF Fills
  <1>13. CASE t \in Clients /\ LockBlock(t)
    <2>1. SameData /\ nvm' = nvm /\ done' = done /\ writable' = writable
      BY <1>13 DEF LockBlock, SameData, device, history
    <2>2. /\ task[t].pc = "block" /\ task'[t].stamps = task[t].stamps /\ task'[t].need = task[t].need /\ task'[t].req = task[t].req
          /\ task'[t].pc = IF task[t].req.op = "write" /\ ~IsBuffered(task[t].b) THEN "alloc" ELSE "copy"
          /\ task'[t].fresh = (task[t].req.op = "write" /\ ~IsBuffered(task[t].b))
      BY <1>13, LockBlockTask DEF LockBlock, SameBio
    <2>3. task'[t].pc \in {"alloc", "copy"} /\ (task'[t].pc = "copy" => ~task'[t].fresh)
      <3>1. CASE task[t].req.op = "write" /\ ~IsBuffered(task[t].b)
        BY <2>2, <3>1
      <3>2. CASE ~(task[t].req.op = "write" /\ ~IsBuffered(task[t].b))
        BY <2>2, <3>2
      <3> QED
        BY <3>1, <3>2
    <2>4. ~Fills(t) /\ ~Fills(t)'
      BY <2>2, <2>3 DEF Fills
    <2> QED
      BY <1>p, <2>1, <2>2, <2>3, <2>4
  <1>r. ASSUME NEW d \in Nat, task' = [task EXCEPT ![t] = Return(t, d)], SameData /\ nvm' = nvm /\ done' = done /\ writable' = writable, task[t].pc \in FlushPcs
        PROVE  Still(t)
    <2>1. CASE t \in Buffers
      <3>1. PICK pc \in {"check", "idle"} : task'[t] = [Idle EXCEPT !.buf = t, !.pc = pc]
        BY <1>r, <2>1, ReturnMoves
      <3>2. task'[t].pc \in {"check", "idle"} /\ task'[t].stamps = Zeros /\ task'[t].need = Zeros
        BY <3>1 DEF Idle
      <3> QED
        BY <1>0, <1>d, <1>r, <2>1, <3>2 DEF Fills, Still
    <2>2. CASE t \in Clients /\ task[t].req.op = "write"
      <3>1. task'[t].pc = "alloc" /\ task'[t].stamps = task[t].stamps /\ task'[t].need = task[t].need
        BY <1>r, <2>2, ReturnMoves DEF Moves, SameBio, SameCopy
      <3> QED
        BY <1>p, <1>r, <2>2, <3>1 DEF FlushPcs, Fills
    <2>3. CASE t \in Clients /\ task[t].req.op # "write"
      <3>1. task'[t].pc \in {"flush", "sync"} /\ task'[t].stamps = task[t].stamps /\ task'[t].need = task[t].need
        BY <1>r, <2>3, ReturnMoves DEF SameBio, SameCopy
      <3> QED
        BY <1>p, <1>r, <2>3, <3>1 DEF FlushPcs, Fills
    <2> QED
      BY <2>1, <2>2, <2>3 DEF Tasks
  <1>14. CASE Check(t)
    <2>1. SameData /\ nvm' = nvm /\ done' = done /\ writable' = writable
      BY <1>14 DEF Check, SameData, device, history
    <2>0. task[t].pc = "check"
      BY <1>14 DEF Check
    <2>2. CASE Moves(t, "flush")
      <3>1. task'[t].stamps = task[t].stamps /\ task'[t].need = task[t].need /\ task'[t].pc = "flush"
        BY <2>2 DEF Moves, SameBio, SameCopy
      <3> QED
        BY <1>p, <2>0, <2>1, <3>1 DEF Fills
    <2>3. CASE ~Moves(t, "flush")
      BY <1>14, <1>r, <2>0, <2>1, <2>3, CheckMoves DEF FlushPcs
    <2> QED
      BY <2>2, <2>3
  <1>15. CASE Cleaned(t)
    <2>1. SameData /\ nvm' = nvm /\ done' = done /\ writable' = writable
      BY <1>15 DEF Cleaned, SameData, device, history
    <2>0. task[t].pc = "cleaned"
      BY <1>15 DEF Cleaned
    <2> QED
      BY <1>15, <1>r, <2>0, <2>1, CleanedMoves DEF FlushPcs
  <1>16. CASE Flush(t)
    <2>0. task[t].pc = "flush"
      BY <1>16 DEF Flush
    <2>2. CASE IsEmpty(task[t].buf) \/ NumToClean(t) = 0
      <3>1. SameData /\ nvm' = nvm /\ done' = done /\ writable' = writable
        BY <1>16, <2>2 DEF Flush, SameData, history
      <3> QED
        BY <1>16, <1>r, <2>0, <2>2, <3>1, FlushMoves DEF FlushPcs
    <2>3. CASE ~IsEmpty(task[t].buf) /\ NumToClean(t) # 0
      <3> DEFINE S == Scan(task[t].buf, NumToClean(t))
      <3>1. S \subseteq Blocks
        BY <1>16, <2>3, FlushScan
      <3>2. ~FoundClean(task[t].buf, NumToClean(t))
        BY <1>16, <2>3, FlushScan
      <3>c. LET n == Scanned(task[t].buf, NumToClean(t)) IN Cardinality(S) = n /\ n \in 1 .. ring[task[t].buf].num_dirty
        BY <1>16, <2>3, FlushScan
      <3>3. task'[t].pc = "range" /\ task'[t].stamps = task[t].stamps /\ task'[t].need = task[t].need /\ task'[t].todo = S /\ task'[t].synced = 0
        BY <1>16, <2>3, <3>1, <3>2, FlushTask DEF SameBio, SameCopy
      <3>4. SameData /\ nvm' = nvm /\ done' = done /\ writable' = writable \cup Contiguous(S)
        BY <1>16, <2>3, <3>2 DEF Flush, SameData, history
      <3>5. S # {}
        BY <3>c, FS_EmptySet
      <3> HIDE DEF S
      <3>6. Synced(t)' = {}
        BY <3>3, <3>5, SyncedNone
      <3>7. Range1(t)' = Contiguous(S)
        BY <3>3 DEF Range1, Contiguous
      <3> QED
        BY <1>d, <2>0, <3>3, <3>4, <3>6, <3>7 DEF Fills, Still
    <2> QED
      BY <2>2, <2>3
  <1> QED
    BY <1>1, <1>2, <1>3, <1>4, <1>5, <1>6, <1>7, <1>8, <1>9, <1>10, <1>11, <1>12, <1>13, <1>14, <1>15, <1>16 DEF Acts, Bio, Flushing

\* The data that a step leaves alone.
LEMMA SameVisible ==
  ASSUME NEW s \in Sectors,
         bbn'[BlockOf(s)] = bbn[BlockOf(s)], pm'[s] = pm[s],
         IsBuffered(BlockOf(s)) =>
           slot'[BufferOf(BlockOf(s))][bbn[BlockOf(s)]].data = slot[BufferOf(BlockOf(s))][bbn[BlockOf(s)]].data
  PROVE  Visible(s)' = Visible(s)
  BY DEF Visible, IsBuffered, BufferOf

\* A block that is about to be filled is locked and buffered.
LEMMA FillingFacts ==
  ASSUME Types, Control, Locks, Rings, NEW u \in Tasks, Fills(u)
  PROVE  /\ u \in Clients /\ task[u].b \in Blocks /\ task[u].b \in Held(u) /\ IsBuffered(task[u].b)
         /\ \A w \in Tasks : task[u].b \in Held(w) => w = u
  <1>1. u \in Clients /\ task[u].pc = "copy" /\ task[u].req.op = "write"
    BY DEF Fills
  <1>2. Placed(u) /\ ControlOf(u)
    BY <1>1 DEF Rings, Control
  <1>3. Carries(u) /\ task[u].b \in ReqBlocks(u)
    BY <1>1, <1>2 DEF ControlOf, ClientControl, Carries
  <1>4. task[u].b \in Blocks
    BY <1>1, <1>3, BioBlocks
  <1>5. task[u].b \in Held(u)
    BY <1>1, <1>4 DEF Held
  <1> QED
    BY <1>1, <1>2, <1>4, <1>5, HeldApart DEF Placed

\* Which blocks are about to be filled, behind a step of t.
LEMMA FillingOthers ==
  ASSUME NEW t \in Tasks, \A u \in Tasks \ {t} : task'[u] = task[u], NEW b,
         Fills(t)' /\ task'[t].b = b <=> Fills(t) /\ task[t].b = b
  PROVE  Filling(b)' <=> Filling(b)
  <1>1. Clients \subseteq Tasks
    BY Consts
  <1>2. \A u \in Clients \ {t} : Fills(u)' <=> Fills(u)
    BY <1>1 DEF Fills
  <1> QED
    BY <1>1, <1>2 DEF Filling

\* How a sector is shown to hold its last write,
LEMMA GoodIntro ==
  ASSUME NEW s \in Sectors, NEW b, b = BlockOf(s),
         Filling(b)' => pm'[s] = latest'[s] \/ pm'[s] \in late',
         ~Filling(b)' => Visible(s)' = latest'[s] \/ Visible(s)' \in late'
  PROVE  GoodAt(s)'
  BY DEF GoodAt, Good, BlockOf

\* and what follows from that.
LEMMA GoodElim ==
  ASSUME Contents, NEW s \in Sectors
  PROVE  /\ Filling(BlockOf(s)) => pm[s] = latest[s] \/ pm[s] \in late
         /\ ~Filling(BlockOf(s)) => Visible(s) = latest[s] \/ Visible(s) \in late
  BY DEF Contents, GoodAt, Good

\* How a block is shown to be copied,
LEMMA CopiedIntro ==
  ASSUME NEW u \in Tasks, NEW s \in Sectors, NEW b, b = BlockOf(s),
         task'[u].pc = "range" /\ b \in Synced(u)' => pm'[s] = Visible(s)'
  PROVE  CopiedAt(u, s)'
  BY DEF CopiedAt, BlockOf

\* and when it stays so.
LEMMA CopiedFrame ==
  ASSUME Contents, NEW u \in Tasks, NEW s \in Sectors, task'[u] = task[u],
         task[u].pc = "range" /\ BlockOf(s) \in Synced(u) => pm'[s] = pm[s] /\ Visible(s)' = Visible(s)
  PROVE  CopiedAt(u, s)'
  <1>1. Synced(u)' = Synced(u)
    BY SameTask
  <1>2. CopiedAt(u, s)
    BY DEF Contents
  <1>3. PICK b : b = BlockOf(s)
    OBVIOUS
  <1>4. task'[u].pc = "range" /\ b \in Synced(u)' => pm'[s] = Visible(s)'
    BY <1>1, <1>2, <1>3 DEF CopiedAt
  <1> QED
    BY <1>3, <1>4, CopiedIntro

\* Who has the lock of a block finds the last write to it.
LEMMA HeldGood ==
  ASSUME Types, Control, Locks, Rings, Contents, NEW t \in Tasks, NEW s \in Sectors,
         BlockOf(s) \in Held(t) \/ pbi_lock[BlockOf(s)] = Null, ~Fills(t)
  PROVE  Good(Visible(s), s) /\ ~Filling(BlockOf(s))
  <1>1. ~Filling(BlockOf(s))
    <2>1. ASSUME NEW u \in Clients, Fills(u), task[u].b = BlockOf(s) PROVE FALSE
      <3>1. u \in Tasks /\ BlockOf(s) \in Held(u) /\ \A w \in Tasks : BlockOf(s) \in Held(w) => w = u
        BY <2>1, FillingFacts, Consts
      <3>2. BlockOf(s) \in Blocks
        BY SectorOfBlock
      <3> QED
        BY <2>1, <3>1, <3>2, HeldApart
    <2> QED
      BY <2>1 DEF Filling
  <1> QED
    BY <1>1, GoodElim DEF Good

\* A step that moves no data keeps the contents.
LEMMA StillContents ==
  ASSUME Types, Control, Locks, Rings, Contents, NEW t \in Tasks, Steps(t), Still(t)
  PROVE  Contents'
  <1>1. /\ pm' = pm /\ slot' = slot /\ bbn' = bbn /\ latest' = latest /\ fua' = fua /\ late' = late
        /\ ~Fills(t) /\ ~Fills(t)' /\ \A u \in Tasks \ {t} : task'[u] = task[u]
    BY DEF Still, SameData, Steps
  <1>2. \A s \in Sectors : Visible(s)' = Visible(s)
    BY <1>1, SameVisible
  <1>3. \A b : Filling(b)' <=> Filling(b)
    BY <1>1, FillingOthers
  <1>4. ASSUME NEW s \in Sectors PROVE GoodAt(s)'
    BY <1>1, <1>2, <1>3, GoodElim, GoodIntro
  <1>5. ASSUME NEW u \in Tasks, NEW s \in Sectors PROVE CopiedAt(u, s)'
    <2>1. CASE u # t
      BY <1>1, <1>2, <2>1, CopiedFrame
    <2>2. CASE u = t
      BY <2>2, CopiedIntro DEF Still
    <2> QED
      BY <2>1, <2>2
  <1> QED
    BY <1>4, <1>5 DEF Contents

\* A new buffer block does not have the data of its block yet.
LEMMA AllocFacts ==
  ASSUME Types, Control, Locks, Rings, NEW t \in Clients, Alloc(t)
  PROVE  /\ t \in Tasks /\ task[t].pc = "alloc" /\ task[t].req.op = "write" /\ task[t].fresh
         /\ task[t].b \in Blocks /\ task[t].b \in Held(t) /\ ~IsBuffered(task[t].b)
         /\ ~Fills(t) /\ Fills(t)' /\ task'[t].b = task[t].b
         /\ \A g \in Buffers, i \in Positions : slot'[g][i].data = slot[g][i].data
         /\ \A c \in Blocks \ {task[t].b} : bbn'[c] = bbn[c]
  <1>1. t \in Tasks /\ task[t].pc = "alloc" /\ ClientControl(t)
    BY Consts DEF Alloc, Control, ControlOf
  <1>2. task[t].req.op = "write" /\ Seeking(t) /\ Carries(t) /\ task[t].b \in ReqBlocks(t) /\ task[t].fresh
    BY <1>1 DEF ClientControl, Seeking, Carries
  <1>3. task[t].b \in Blocks
    BY <1>2, BioBlocks
  <1>4. task[t].b \in Held(t) /\ ~IsBuffered(task[t].b)
    BY <1>2, <1>3 DEF Held, Rings, Placed
  <1>5. task'[t].pc = "copy" /\ task'[t].req = task[t].req /\ task'[t].fresh = task[t].fresh /\ task'[t].b = task[t].b
    BY AllocMoves DEF Moves, SameBio, SameCopy
  <1>6. ~Fills(t) /\ Fills(t)'
    BY <1>1, <1>2, <1>5 DEF Fills
  <1>7. PICK b \in Blocks : b = task[t].b
    BY <1>3
  <1>8. PICK f \in Buffers : f = BufferOf(b)
    BY BufferOfBlock
  <1>9. PICK p \in Positions : p = ring[f].pos_clean
    BY DEF Types, DataTypes, RingType
  <1>10. slot' = [slot EXCEPT ![f][p].pbn = b, ![f][p].dirty = TRUE] /\ bbn' = [bbn EXCEPT ![b] = p]
    BY <1>7, <1>8, <1>9 DEF Alloc, Linked
  <1>11. \A g \in Buffers, i \in Positions : slot'[g][i].data = slot[g][i].data
    <2>1. slot \in [Buffers -> [Positions -> SlotType]] /\ slot[f] \in [Positions -> SlotType] /\ slot[f][p] \in SlotType
      BY SlotFacts DEF Types, DataTypes
    <2> DEFINE r == [slot[f][p] EXCEPT !.pbn = b, !.dirty = TRUE]
    <2>2. r.data = slot[f][p].data
      BY <2>1 DEF SlotType
    <2>3. slot' = [slot EXCEPT ![f] = [slot[f] EXCEPT ![p] = r]]
      BY <1>10, <2>1
    <2> HIDE DEF r
    <2> QED
      BY <2>1, <2>2, <2>3
  <1>12. \A c \in Blocks \ {b} : bbn'[c] = bbn[c]
    BY <1>10 DEF Types, DataTypes
  <1> QED
    BY <1>1, <1>2, <1>3, <1>4, <1>5, <1>6, <1>7, <1>11, <1>12

\* With a buffer block linked, the data is still in the PM: the block is about to be filled.
LEMMA AllocContents ==
  ASSUME Types, Control, Locks, Rings, Contents, NEW t \in Clients, Alloc(t), Steps(t)
  PROVE  Contents'
  <1>1. PICK b \in Blocks : b = task[t].b
    BY AllocFacts
  <1>2. /\ t \in Tasks /\ task[t].pc = "alloc" /\ b \in Held(t) /\ ~IsBuffered(b)
        /\ ~Fills(t) /\ Fills(t)' /\ task'[t].b = b
        /\ \A g \in Buffers, i \in Positions : slot'[g][i].data = slot[g][i].data
        /\ \A c \in Blocks \ {b} : bbn'[c] = bbn[c]
    BY <1>1, AllocFacts
  <1>3. pm' = pm /\ latest' = latest /\ late' = late /\ (\A u \in Tasks \ {t} : task'[u] = task[u]) /\ task'[t].pc = "copy"
    BY AllocMoves DEF Alloc, history, Steps, Moves
  <1>4. ASSUME NEW s \in Sectors, BlockOf(s) # b
        PROVE  Visible(s)' = Visible(s)
    <2>1. BlockOf(s) \in Blocks
      BY SectorOfBlock
    <2>2. IsBuffered(BlockOf(s)) => BufferOf(BlockOf(s)) \in Buffers /\ bbn[BlockOf(s)] \in Positions
      BY <2>1, BufferedFacts
    <2> QED
      BY <1>2, <1>3, <1>4, <2>1, <2>2, SameVisible
  <1>5. ASSUME NEW s \in Sectors PROVE GoodAt(s)'
    <2>1. CASE BlockOf(s) = b
      <3>1. Filling(b)'
        BY <1>2 DEF Filling
      <3>2. Visible(s) = pm[s]
        BY <1>2, <2>1 DEF Visible
      <3>3. pm[s] = latest[s] \/ pm[s] \in late
        BY <1>2, <2>1, <3>2, HeldGood DEF Good
      <3> QED
        BY <2>1, <3>1, <3>3, <1>3, GoodIntro
    <2>2. CASE BlockOf(s) # b
      <3>1. PICK c : c = BlockOf(s)
        OBVIOUS
      <3>2. Filling(c)' <=> Filling(c)
        BY <1>2, <1>3, <2>2, <3>1, FillingOthers
      <3> QED
        BY <2>2, <3>1, <3>2, <1>3, <1>4, GoodElim, GoodIntro
    <2> QED
      BY <2>1, <2>2
  <1>6. ASSUME NEW u \in Tasks, NEW s \in Sectors PROVE CopiedAt(u, s)'
    <2>1. CASE u = t
      BY <2>1, <1>3, CopiedIntro
    <2>2. CASE u # t
      <3>1. task[u].pc = "range" /\ BlockOf(s) \in Synced(u) => BlockOf(s) # b
        <4>1. task[u].pc = "range" /\ BlockOf(s) \in Synced(u) => BlockOf(s) \in Held(u)
          BY SectorOfBlock DEF Held
        <4> QED
          BY <4>1, <2>2, <1>2, HeldApart
      <3> QED
        BY <2>2, <3>1, <1>3, <1>4, CopiedFrame
    <2> QED
      BY <2>1, <2>2
  <1> QED
    BY <1>5, <1>6 DEF Contents

\* The copy to the buffer block: the old data of the block is kept or fetched.
LEMMA CopyToContents ==
  ASSUME Types, Control, Locks, Rings, Contents, NEW t \in Clients, CopyTo(t), Steps(t), Types'
  PROVE  Contents'
  <1>1. PICK b \in Blocks : b = task[t].b /\ IsBuffered(b) /\ b \in Held(t) /\ t \in Tasks /\ task[t].pc = "copy"
    BY CopyToFacts
  <1>2. PICK f \in Buffers : f = BufferOf(b)
    BY BufferOfBlock
  <1>3. PICK p \in Positions : p = bbn[b]
    BY <1>1, BufferedFacts
  <1>4. /\ slot'[f][p].data = Filled(t)
        /\ \A i \in Positions \ {p} : slot'[f][i] = slot[f][i]
        /\ \A g \in Buffers \ {f} : slot'[g] = slot[g]
    BY <1>1, <1>2, <1>3, CopyToSlot
  <1>5. /\ pm' = pm /\ bbn' = bbn /\ late \subseteq late' /\ task[t].req.op = "write"
        /\ latest' = [s \in Sectors |-> IF s \in Part(t) THEN clock + 1 ELSE latest[s]]
    BY DEF CopyTo
  <1>6. \A u \in Tasks \ {t} : task'[u] = task[u]
    BY DEF Steps
  <1>7. task'[t].pc \in {"block", "fua_lock", "end"}
    BY CopyToTask DEF Advanced
  <1>8. ~Fills(t)'
    BY <1>7 DEF Fills
  <1>9. Part(t) \subseteq Sect(b)
    BY <1>1 DEF Part
  <1>10. ASSUME NEW s \in Sectors, BlockOf(s) # b
         PROVE  Visible(s)' = Visible(s) /\ latest'[s] = latest[s]
    <2>1. PICK c \in Blocks : c = BlockOf(s)
      BY SectorOfBlock
    <2>2. IsBuffered(c) => BufferOf(c) \in Buffers /\ bbn[c] \in Positions /\ (BufferOf(c) = f => bbn[c] # p)
      BY <1>1, <1>2, <1>3, <1>10, <2>1, BufferedFacts
    <2>3. IsBuffered(c) => slot'[BufferOf(c)][bbn[c]] = slot[BufferOf(c)][bbn[c]]
      BY <2>2, <1>4
    <2>4. Visible(s)' = Visible(s)
      BY <2>1, <2>3, <1>5, SameVisible
    <2>5. s \notin Part(t)
      BY <1>9, <1>10, SectOfBlock
    <2> QED
      BY <2>4, <2>5, <1>5
  <1>11. ASSUME NEW s \in Sectors, BlockOf(s) = b
         PROVE  Visible(s)' = latest'[s] \/ Visible(s)' \in late'
    <2> DEFINE k == s - b * SPB
    <2>1. k \in 0 .. SPB - 1 /\ b * SPB + k = s
      <3>1. s \in Nat /\ b * SPB \in Nat /\ k \in 0 .. SPB - 1
        BY <1>11, SectorOfBlock, BlockOfSector, Consts
      <3> QED
        BY <3>1
    <2>2. Visible(s)' = Filled(t)[k]
      <3>1. Visible(s)' = slot'[f][p].data[k]
        BY <1>1, <1>2, <1>3, <1>5, <1>11 DEF Visible, IsBuffered, BlockOf, BufferOf
      <3> QED
        BY <3>1, <1>4
    <2>3. Filled(t)[k] = IF s \in Part(t) THEN clock + 1 ELSE Old(t)[k]
      BY <2>1, <1>1 DEF Filled
    <2>4. CASE s \in Part(t)
      BY <2>2, <2>3, <2>4, <1>5
    <2>5. CASE s \notin Part(t) /\ task[t].fresh
      <3>1. Part(t) # Sect(b)
        BY <2>5, <1>11, SectOfBlock
      <3>2. Old(t)[k] = pm[s]
        BY <3>1, <2>1, <2>5, <1>1 DEF Old
      <3>3. Filling(BlockOf(s))
        BY <1>1, <1>5, <1>11, <2>5 DEF Filling, Fills
      <3> QED
        BY <2>2, <2>3, <2>5, <3>2, <3>3, <1>5, GoodElim
    <2>6. CASE s \notin Part(t) /\ ~task[t].fresh
      <3>1. Old(t)[k] = Visible(s)
        BY <1>1, <1>11, <2>6 DEF Old, Visible
      <3>2. ~Fills(t)
        BY <2>6 DEF Fills
      <3>3. Visible(s) = latest[s] \/ Visible(s) \in late
        BY <3>2, <1>1, <1>11, HeldGood DEF Good
      <3> QED
        BY <2>2, <2>3, <2>6, <3>1, <3>3, <1>5
    <2> QED
      BY <2>4, <2>5, <2>6
  <1>12. ASSUME NEW s \in Sectors PROVE GoodAt(s)'
    <2>1. CASE BlockOf(s) = b
      <3>1. ~Filling(b)'
        <4>1. ASSUME NEW u \in Clients, Fills(u)', task'[u].b = b PROVE FALSE
          <5>1. u # t /\ u \in Tasks /\ task'[u] = task[u]
            BY <4>1, <1>6, <1>8, Consts
          <5>2. Fills(u) /\ task[u].b = b
            BY <4>1, <5>1 DEF Fills
          <5> QED
            BY <5>1, <5>2, <1>1, FillingFacts
        <4> QED
          BY <4>1 DEF Filling
      <3> QED
        BY <2>1, <3>1, <1>11, GoodIntro
    <2>2. CASE BlockOf(s) # b
      <3>1. PICK c : c = BlockOf(s)
        OBVIOUS
      <3>2. Filling(c)' <=> Filling(c)
        BY <1>1, <1>6, <1>8, <2>2, <3>1, FillingOthers
      <3> QED
        BY <2>2, <3>1, <3>2, <1>5, <1>10, GoodElim, GoodIntro
    <2> QED
      BY <2>1, <2>2
  <1>13. ASSUME NEW u \in Tasks, NEW s \in Sectors PROVE CopiedAt(u, s)'
    <2>1. CASE u = t
      BY <2>1, <1>7, CopiedIntro
    <2>2. CASE u # t
      <3>1. task[u].pc = "range" /\ BlockOf(s) \in Synced(u) => BlockOf(s) # b
        <4>1. task[u].pc = "range" /\ BlockOf(s) \in Synced(u) => BlockOf(s) \in Held(u)
          BY SectorOfBlock DEF Held
        <4> QED
          BY <4>1, <2>2, <1>1, HeldApart
      <3> QED
        BY <2>2, <3>1, <1>5, <1>6, <1>10, CopiedFrame
    <2> QED
      BY <2>1, <2>2
  <1> QED
    BY <1>12, <1>13 DEF Contents

\* The second copy of a FUA write, under the locks of all its blocks.
LEMMA FuaWriteFacts ==
  ASSUME Types, Control, Locks, Rings, FuaStamps, NEW t \in Clients, FuaWrite(t)
  PROVE  /\ t \in Tasks /\ task[t].pc = "fua_write" /\ task[t].req.fua /\ Carries(t) /\ task'[t].pc = "end"
         /\ ReqBlocks(t) \subseteq Held(t) /\ task[t].req.first \in Sectors
         /\ \A s \in task[t].req.first .. task[t].req.last :
              /\ s \in Sectors /\ BlockOf(s) \in ReqBlocks(t) /\ task[t].stamps[s] \in fua
              /\ task[t].stamps[s] = latest[s] \/ task[t].stamps[s] \in late'
         /\ late \subseteq late' /\ late' \subseteq fua' /\ latest' = latest
         /\ \A s \in Sectors : \/ s \notin task[t].req.first .. task[t].req.last /\ pm'[s] = pm[s] /\ nvm'[s] = nvm[s]
                               \/ /\ s \in task[t].req.first .. task[t].req.last
                                  /\ pm'[s] = task[t].stamps[s] /\ nvm'[s] = task[t].stamps[s]
         /\ fua # {}
  <1>1. t \in Tasks /\ task[t].pc = "fua_write" /\ ClientControl(t)
    BY Consts DEF FuaWrite, Control, ControlOf
  <1>2. task[t].req.fua /\ Carries(t) /\ task[t].req.first <= task[t].req.last
    BY <1>1 DEF ClientControl, Carries
  <1>3. /\ task[t].req.first \in Sectors /\ ReqBlocks(t) \subseteq Blocks
        /\ \A s \in task[t].req.first .. task[t].req.last : s \in Sectors /\ BlockOf(s) \in ReqBlocks(t)
    BY <1>2, BioBlocks
  <1>4. ReqBlocks(t) \subseteq Held(t)
    BY <1>1, <1>3 DEF Held
  <1>5. \A s \in task[t].req.first .. task[t].req.last : task[t].stamps[s] \in fua
    BY <1>1, <1>2, <1>3 DEF FuaStamps, FuaStampsOf
  <1>9. \A s \in task[t].req.first .. task[t].req.last :
          task[t].stamps[s] = latest[s] \/ task[t].stamps[s] \in late'
    BY DEF FuaWrite, Replaced
  <1>10. late \subseteq late' /\ late' \subseteq fua' /\ latest' = latest
    BY <1>5 DEF FuaWrite, Replaced, FuaStamps
  <1>6. \A s \in Sectors : \/ s \notin task[t].req.first .. task[t].req.last /\ pm'[s] = pm[s] /\ nvm'[s] = nvm[s]
                           \/ /\ s \in task[t].req.first .. task[t].req.last
                              /\ pm'[s] = task[t].stamps[s] /\ nvm'[s] = task[t].stamps[s]
    BY DEF FuaWrite
  <1>7. task'[t].pc = "end"
    BY FuaWriteMoves DEF Moves
  <1>8. task[t].req.first \in task[t].req.first .. task[t].req.last
    BY <1>2, <1>3, BioBlocks DEF Sectors
  <1> QED
    BY <1>1, <1>2, <1>3, <1>4, <1>5, <1>6, <1>7, <1>8, <1>9, <1>10

\* The second copy writes what was written last, or is late.
LEMMA FuaWriteContents ==
  ASSUME Types, Control, Locks, Rings, Contents, FuaStamps, NEW t \in Clients, FuaWrite(t), Steps(t)
  PROVE  Contents'
  <1>1. /\ t \in Tasks /\ task[t].pc = "fua_write" /\ task'[t].pc = "end" /\ ReqBlocks(t) \subseteq Held(t)
        /\ \A s \in task[t].req.first .. task[t].req.last :
             /\ s \in Sectors /\ BlockOf(s) \in ReqBlocks(t)
             /\ task[t].stamps[s] = latest[s] \/ task[t].stamps[s] \in late'
        /\ late \subseteq late'
    BY FuaWriteFacts
  <1>2. \A s \in Sectors : \/ s \notin task[t].req.first .. task[t].req.last /\ pm'[s] = pm[s]
                           \/ s \in task[t].req.first .. task[t].req.last /\ pm'[s] = task[t].stamps[s]
    BY FuaWriteFacts
  <1>3. slot' = slot /\ bbn' = bbn /\ latest' = latest /\ \A u \in Tasks \ {t} : task'[u] = task[u]
    BY DEF FuaWrite, Steps
  <1>4. ~Fills(t) /\ ~Fills(t)'
    BY <1>1 DEF Fills
  <1>5. ASSUME NEW s \in Sectors PROVE GoodAt(s)'
    <2>1. PICK c \in Blocks : c = BlockOf(s)
      BY SectorOfBlock
    <2>2. Filling(c)' <=> Filling(c)
      BY <1>1, <1>3, <1>4, FillingOthers
    <2>3. CASE s \notin task[t].req.first .. task[t].req.last
      BY <1>1, <1>2, <1>3, <2>1, <2>2, <2>3, SameVisible, GoodElim, GoodIntro
    <2>4. CASE s \in task[t].req.first .. task[t].req.last
      <3>1. c \in Held(t) /\ (pm'[s] = latest'[s] \/ pm'[s] \in late')
        BY <1>1, <1>2, <1>3, <2>1, <2>4
      <3>2. ~Filling(c) /\ (Visible(s) = latest[s] \/ Visible(s) \in late)
        BY <1>1, <1>4, <2>1, <3>1, HeldGood DEF Good
      <3>3. Visible(s)' = latest'[s] \/ Visible(s)' \in late'
        <4>1. CASE IsBuffered(c)
          <5>1. Visible(s)' = Visible(s)
            BY <1>3, <2>1, <4>1 DEF Visible, IsBuffered, BlockOf, BufferOf
          <5> QED
            BY <1>1, <1>3, <3>2, <5>1
        <4>2. CASE ~IsBuffered(c)
          <5>1. Visible(s)' = pm'[s]
            BY <1>3, <2>1, <4>2 DEF Visible, IsBuffered, BlockOf
          <5> QED
            BY <3>1, <5>1
        <4> QED
          BY <4>1, <4>2
      <3> QED
        BY <2>1, <2>2, <3>2, <3>3, GoodIntro
    <2> QED
      BY <2>3, <2>4
  <1>6. ASSUME NEW u \in Tasks, NEW s \in Sectors PROVE CopiedAt(u, s)'
    <2>1. CASE u = t
      BY <2>1, <1>1, CopiedIntro
    <2>2. CASE u # t
      <3>1. task[u].pc = "range" /\ BlockOf(s) \in Synced(u) => BlockOf(s) \in Held(u)
        BY SectorOfBlock DEF Held
      <3>2. task[u].pc = "range" /\ BlockOf(s) \in Synced(u) => s \notin task[t].req.first .. task[t].req.last
        BY <3>1, <2>2, <1>1, HeldApart
      <3>3. task[u].pc = "range" /\ BlockOf(s) \in Synced(u) => pm'[s] = pm[s] /\ Visible(s)' = Visible(s)
        BY <3>2, <1>2, <1>3, SameVisible
      <3> QED
        BY <2>2, <3>3, <1>3, CopiedFrame
    <2> QED
      BY <2>1, <2>2
  <1> QED
    BY <1>5, <1>6 DEF Contents

\* A flusher copies the last write to the PM.
LEMMA SyncBlockContents ==
  ASSUME Types, Control, Locks, Rings, Contents, NEW t \in Tasks, SyncBlock(t), Steps(t)
  PROVE  /\ Contents'
         /\ \A s \in Sectors : IF BlockOf(s) = NextBlock(t) THEN pm'[s] = Visible(s) /\ Good(Visible(s), s)
                                                            ELSE pm'[s] = pm[s]
  <1>1. PICK b \in Blocks : b = NextBlock(t)
    BY SyncBlockFacts
  <1>2. PICK f \in Buffers : f = task[t].buf
    BY TaskFields
  <1>3. PICK p \in Positions : p = bbn[b]
    BY <1>1, SyncBlockFacts
  <1>4. /\ slot'[f][p].data = slot[f][p].data
        /\ \A i \in Positions \ {p} : slot'[f][i] = slot[f][i]
        /\ \A g \in Buffers \ {f} : slot'[g] = slot[g]
        /\ \A s \in Sectors : pm'[s] = IF BlockOf(s) = b THEN slot[f][p].data[s - b * SPB] ELSE pm[s]
    BY <1>1, <1>2, <1>3, SyncBlockSlot
  <1>5. /\ task[t].pc = "range" /\ task'[t].pc = "range" /\ BufferOf(b) = f /\ IsBuffered(b) /\ pbi_lock[b] = Null
        /\ Synced(t)' = Synced(t) \cup {b} /\ \A u \in Tasks : task[u].pc = "range" => b \notin Synced(u)
    BY <1>1, <1>2, SyncBlockFacts
  <1>6. bbn' = bbn /\ latest' = latest /\ late' = late /\ \A u \in Tasks \ {t} : task'[u] = task[u]
    BY DEF SyncBlock, history, Steps
  <1>7. ~Fills(t) /\ ~Fills(t)'
    BY <1>5 DEF Fills
  <1>8. \A g \in Buffers, i \in Positions : slot'[g][i].data = slot[g][i].data
    BY <1>4
  <1>9. ASSUME NEW s \in Sectors, BlockOf(s) = b
        PROVE  pm'[s] = Visible(s) /\ Visible(s)' = Visible(s) /\ Good(Visible(s), s) /\ ~Filling(b)
    <2>1. pm'[s] = Visible(s)
      BY <1>3, <1>4, <1>5, <1>9 DEF Visible
    <2>2. Visible(s)' = Visible(s)
      BY <1>3, <1>5, <1>6, <1>8, <1>9 DEF Visible, IsBuffered, BlockOf, BufferOf
    <2> QED
      BY <2>1, <2>2, <1>5, <1>7, <1>9, HeldGood
  <1>10. ASSUME NEW s \in Sectors, BlockOf(s) # b
         PROVE  pm'[s] = pm[s] /\ Visible(s)' = Visible(s)
    <2>1. PICK c \in Blocks : c = BlockOf(s)
      BY SectorOfBlock
    <2>2. IsBuffered(c) => slot'[BufferOf(c)][bbn[c]].data = slot[BufferOf(c)][bbn[c]].data
      BY <1>8, BufferedFacts
    <2> QED
      BY <1>4, <1>6, <1>10, <2>1, <2>2, SameVisible
  <1>11. ASSUME NEW s \in Sectors PROVE GoodAt(s)'
    <2>1. PICK c : c = BlockOf(s)
      OBVIOUS
    <2>2. Filling(c)' <=> Filling(c)
      BY <1>6, <1>7, FillingOthers
    <2>3. CASE c = b
      BY <2>1, <2>2, <2>3, <1>6, <1>9, GoodIntro DEF Good
    <2>4. CASE c # b
      BY <2>1, <2>2, <2>4, <1>6, <1>10, GoodElim, GoodIntro
    <2> QED
      BY <2>3, <2>4
  <1>12. ASSUME NEW u \in Tasks, NEW s \in Sectors PROVE CopiedAt(u, s)'
    <2>1. PICK c : c = BlockOf(s)
      OBVIOUS
    <2>2. CASE u = t /\ c = b
      BY <2>1, <2>2, <1>9, CopiedIntro
    <2>3. CASE u = t /\ c # b
      <3>1. CopiedAt(t, s)
        BY DEF Contents
      <3>2. c \in Synced(t) => pm[s] = Visible(s)
        BY <3>1, <2>1, <1>5 DEF CopiedAt
      <3> QED
        BY <2>1, <2>3, <3>2, <1>5, <1>10, CopiedIntro
    <2>4. CASE u # t
      <3>1. task[u].pc = "range" /\ c \in Synced(u) => c # b
        BY <1>5
      <3> QED
        BY <2>1, <2>4, <3>1, <1>6, <1>10, CopiedFrame
    <2> QED
      BY <2>2, <2>3, <2>4
  <1> QED
    BY <1>1, <1>9, <1>10, <1>11, <1>12 DEF Contents

\* A block is unlinked when the PM has what its buffer block has.
LEMMA UnlinkContents ==
  ASSUME Types, Control, Locks, Rings, Contents, NEW t \in Tasks, UnlinkRange(t), Steps(t), Types'
  PROVE  Contents'
  <1>f. PICK f \in Buffers : f = task[t].buf
    BY TaskFields
  <1>r. PICK R \in SUBSET Blocks : R = Range1(t)
    <2>1. task[t].todo # {}
      BY SequenceNext DEF UnlinkRange
    <2> QED
      BY <2>1, SequenceFacts
  <1>1. /\ task[t].pc = "range" /\ task'[t].pc \in {"range", "cleaned"} /\ Synced(t) = R
        /\ task'[t].pc = "range" => Synced(t)' = {}
        /\ \A b \in R : IsBuffered(b) /\ b \in Held(t)
        /\ \A b \in R : bbn'[b] = Unbuffered
        /\ \A b \in Blocks \ R : bbn'[b] = bbn[b]
    BY <1>f, <1>r, UnlinkFacts
  <1>2. /\ \A i \in Positions : slot'[f][i].data = slot[f][i].data
        /\ \A g \in Buffers \ {f} : slot'[g] = slot[g]
    BY <1>f, <1>r, UnlinkFacts
  <1>3. pm' = pm /\ latest' = latest /\ late' = late /\ \A u \in Tasks \ {t} : task'[u] = task[u]
    BY DEF UnlinkRange, history, Steps
  <1>4. ~Fills(t) /\ ~Fills(t)'
    BY <1>1 DEF Fills
  <1>5. ASSUME NEW s \in Sectors PROVE Visible(s)' = Visible(s)
    <2>1. PICK c \in Blocks : c = BlockOf(s)
      BY SectorOfBlock
    <2>2. CASE c \in R
      <3>1. Visible(s)' = pm'[s]
        BY <1>1, <2>1, <2>2, Consts DEF Visible, IsBuffered, BlockOf
      <3>2. CopiedAt(t, s)
        BY DEF Contents
      <3> QED
        BY <3>1, <3>2, <1>1, <1>3, <2>1, <2>2 DEF CopiedAt
    <2>3. CASE c \notin R
      <3>1. IsBuffered(c) => slot'[BufferOf(c)][bbn[c]].data = slot[BufferOf(c)][bbn[c]].data
        BY <1>2, BufferedFacts
      <3> QED
        BY <1>1, <1>3, <2>1, <2>3, <3>1, SameVisible
    <2> QED
      BY <2>2, <2>3
  <1>6. ASSUME NEW s \in Sectors PROVE GoodAt(s)'
    <2>1. PICK c : c = BlockOf(s)
      OBVIOUS
    <2>2. Filling(c)' <=> Filling(c)
      BY <1>3, <1>4, FillingOthers
    <2> QED
      BY <2>1, <2>2, <1>3, <1>5, GoodElim, GoodIntro
  <1>7. ASSUME NEW u \in Tasks, NEW s \in Sectors PROVE CopiedAt(u, s)'
    <2>1. CASE u = t
      BY <2>1, <1>1, CopiedIntro
    <2>2. CASE u # t
      BY <2>2, <1>3, <1>5, CopiedFrame
    <2> QED
      BY <2>1, <2>2
  <1> QED
    BY <1>6, <1>7 DEF Contents

\* Every step keeps the contents.
LEMMA ContentsStep ==
  ASSUME Types, Control, Locks, Rings, Contents, FuaStamps, NEW t \in Tasks, Acts(t), Types', Steps(t)
  PROVE  Contents'
  BY StillStep, StillContents, AllocContents, CopyToContents, FuaWriteContents, SyncBlockContents, UnlinkContents

\* A step of t that gives out no stamp but old ones.
LEMMA StampsFrame ==
  ASSUME Types, Types', Stamps, NEW t \in Tasks, Steps(t), clock <= clock',
         \A s \in Sectors : latest[s] <= latest'[s] /\ latest'[s] <= clock',
         \A s \in Sectors : pm'[s] <= clock' /\ nvm'[s] <= clock' /\ done'[s] <= latest'[s],
         \A f \in Buffers, i \in Positions, k \in 0 .. SPB - 1 : slot'[f][i].data[k] <= clock',
         \A s \in Sectors : task'[t].stamps[s] <= latest'[s] /\ task'[t].need[s] <= latest'[s]
  PROVE  Stamps'
  <1>1. ASSUME NEW u \in Tasks, NEW s \in Sectors
        PROVE  task'[u].stamps[s] <= latest'[s] /\ task'[u].need[s] <= latest'[s]
    <2>1. CASE u = t
      BY <2>1
    <2>2. CASE u # t
      <3>1. /\ task'[u] = task[u] /\ task[u].stamps[s] <= latest[s] /\ task[u].need[s] <= latest[s]
            /\ latest[s] <= latest'[s]
        BY <2>2 DEF Steps, Stamps
      <3>2. task[u].stamps[s] \in Nat /\ task[u].need[s] \in Nat /\ latest[s] \in Nat /\ latest'[s] \in Nat
        BY TaskFields DEF Types, DataTypes
      <3> QED
        BY <3>1, <3>2
    <2> QED
      BY <2>1, <2>2
  <1> QED
    BY <1>1 DEF Stamps

\* No step brings a stamp from the future.
LEMMA StampsStep ==
  ASSUME Types, Control, Locks, Rings, Contents, FuaStamps, Stamps, NEW t \in Tasks, Acts(t), Types', Steps(t)
  PROVE  Stamps'
  <1>t. \A s \in Sectors : /\ pm[s] \in Nat /\ nvm[s] \in Nat /\ latest[s] \in Nat /\ done[s] \in Nat
                           /\ task[t].stamps[s] \in Nat /\ task[t].need[s] \in Nat /\ Zeros[s] = 0
    BY TaskFields DEF Types, DataTypes, Zeros
  <1>c. clock \in Nat /\ \A f \in Buffers, i \in Positions, k \in 0 .. SPB - 1 : slot[f][i].data[k] \in Nat
    BY SlotFacts DEF Types, DataTypes
  <1>s. /\ \A s \in Sectors : /\ pm[s] <= clock /\ nvm[s] <= clock /\ latest[s] <= clock /\ done[s] <= latest[s]
                              /\ task[t].stamps[s] <= latest[s] /\ task[t].need[s] <= latest[s]
        /\ \A f \in Buffers, i \in Positions, k \in 0 .. SPB - 1 : slot[f][i].data[k] <= clock
    BY DEF Stamps
  <1>1. CASE Still(t)
    <2>1. /\ pm' = pm /\ slot' = slot /\ clock' = clock /\ latest' = latest /\ (nvm' = nvm \/ nvm' = pm)
          /\ \A s \in Sectors : done'[s] \in {done[s], task[t].stamps[s]}
          /\ task'[t].stamps \in {task[t].stamps, Zeros} /\ task'[t].need \in {task[t].need, done, Zeros}
      BY <1>1 DEF Still, SameData
    <2>2. \A s \in Sectors : pm'[s] <= clock' /\ nvm'[s] <= clock' /\ done'[s] <= latest'[s]
      BY <2>1, <1>s
    <2>3. \A s \in Sectors : task'[t].stamps[s] <= latest'[s] /\ task'[t].need[s] <= latest'[s]
      BY <2>1, <1>s, <1>t
    <2> QED
      BY <2>1, <2>2, <2>3, <1>s, <1>t, <1>c, StampsFrame
  <1>2. CASE t \in Clients /\ Alloc(t)
    <2>1. /\ pm' = pm /\ nvm' = nvm /\ clock' = clock /\ latest' = latest /\ done' = done
          /\ \A g \in Buffers, i \in Positions : slot'[g][i].data = slot[g][i].data
          /\ task'[t].stamps = task[t].stamps /\ task'[t].need = task[t].need
      BY <1>2, AllocFacts, AllocMoves DEF Alloc, history, Moves, SameBio, SameCopy
    <2> QED
      BY <2>1, <1>s, <1>t, <1>c, StampsFrame
  <1>3. CASE t \in Clients /\ CopyTo(t)
    <2>1. PICK b \in Blocks : b = task[t].b /\ IsBuffered(b)
      BY <1>3, CopyToFacts
    <2>2. PICK f \in Buffers : f = BufferOf(b)
      BY BufferOfBlock
    <2>3. PICK p \in Positions : p = bbn[b]
      BY <2>1, BufferedFacts
    <2>4. /\ slot'[f][p].data = Filled(t)
          /\ \A i \in Positions \ {p} : slot'[f][i] = slot[f][i]
          /\ \A g \in Buffers \ {f} : slot'[g] = slot[g]
      BY <1>3, <2>1, <2>2, <2>3, CopyToSlot
    <2>5. /\ pm' = pm /\ nvm' = nvm /\ clock' = clock + 1 /\ done' = done
          /\ latest' = [s \in Sectors |-> IF s \in Part(t) THEN clock + 1 ELSE latest[s]]
      BY <1>3 DEF CopyTo
    <2>6. task'[t].stamps = Stamped(t) /\ task'[t].need = task[t].need
      BY <1>3, CopyToTask DEF SameBio
    <2>7. \A s \in Sectors : latest[s] <= latest'[s] /\ latest'[s] <= clock'
      BY <2>5, <1>s, <1>t, <1>c
    <2>8. \A s \in Sectors : pm'[s] <= clock' /\ nvm'[s] <= clock' /\ done'[s] <= latest'[s]
      <3>1. ASSUME NEW s \in Sectors PROVE pm'[s] <= clock' /\ nvm'[s] <= clock' /\ done'[s] <= latest'[s]
        <4>1. latest'[s] \in Nat /\ latest[s] <= latest'[s]
          BY <2>7 DEF Types, DataTypes
        <4> QED
          BY <4>1, <2>5, <1>s, <1>t, <1>c
      <3> QED
        BY <3>1
    <2>9. ASSUME NEW k \in 0 .. SPB - 1 PROVE Filled(t)[k] <= clock'
      <3>1. Old(t)[k] \in Nat /\ Old(t)[k] <= clock
        <4>1. CASE task[t].fresh /\ Part(t) # Sect(b)
          <5>1. Old(t)[k] = pm[b * SPB + k] /\ b * SPB + k \in Sectors
            BY <2>1, <4>1, BlockOfSector DEF Old
          <5> QED
            BY <5>1, <1>s, <1>t
        <4>2. CASE ~(task[t].fresh /\ Part(t) # Sect(b))
          <5>1. Old(t)[k] = slot[f][p].data[k]
            BY <2>1, <2>2, <2>3, <4>2 DEF Old
          <5> QED
            BY <5>1, <1>s, <1>c
        <4> QED
          BY <4>1, <4>2
      <3>2. Filled(t)[k] = clock + 1 \/ Filled(t)[k] = Old(t)[k]
        BY DEF Filled
      <3> QED
        BY <3>1, <3>2, <2>5, <1>c
    <2>10. \A g \in Buffers, i \in Positions, k \in 0 .. SPB - 1 : slot'[g][i].data[k] <= clock'
      <3>1. ASSUME NEW g \in Buffers, NEW i \in Positions, NEW k \in 0 .. SPB - 1
            PROVE  slot'[g][i].data[k] <= clock'
        <4>1. CASE g = f /\ i = p
          BY <4>1, <2>4, <2>9
        <4>2. CASE ~(g = f /\ i = p)
          <5>1. slot'[g][i] = slot[g][i]
            BY <4>2, <2>4
          <5>2. slot[g][i].data[k] \in Nat /\ slot[g][i].data[k] <= clock
            BY <1>s, <1>c
          <5> QED
            BY <5>1, <5>2, <2>5, <1>c
        <4> QED
          BY <4>1, <4>2
      <3> QED
        BY <3>1
    <2>11. ASSUME NEW s \in Sectors PROVE task'[t].stamps[s] <= latest'[s] /\ task'[t].need[s] <= latest'[s]
      <3>1. latest'[s] \in Nat /\ latest[s] <= latest'[s]
        BY <2>7 DEF Types, DataTypes
      <3>2. task'[t].stamps[s] = IF s \in Part(t) THEN clock + 1 ELSE task[t].stamps[s]
        BY <2>6 DEF Stamped
      <3> QED
        BY <3>1, <3>2, <2>5, <2>6, <1>s, <1>t, <1>c
    <2>12. clock <= clock'
      BY <2>5, <1>c
    <2> QED
      BY <2>7, <2>8, <2>10, <2>11, <2>12, StampsFrame
  <1>4. CASE t \in Clients /\ FuaWrite(t)
    <2>1. /\ slot' = slot /\ clock' = clock /\ latest' = latest /\ done' = done
          /\ task'[t].stamps = task[t].stamps /\ task'[t].need = task[t].need
      BY <1>4, FuaWriteMoves DEF FuaWrite, history, Moves, SameBio, SameCopy
    <2>2. \A s \in Sectors : pm'[s] \in {pm[s], task[t].stamps[s]} /\ nvm'[s] \in {nvm[s], task[t].stamps[s]}
      BY <1>4, FuaWriteFacts
    <2>3. \A s \in Sectors : pm'[s] <= clock' /\ nvm'[s] <= clock'
      BY <2>1, <2>2, <1>s, <1>t, <1>c
    <2> QED
      BY <2>1, <2>3, <1>s, <1>t, <1>c, StampsFrame
  <1>5. CASE SyncBlock(t)
    <2>1. clock' = clock /\ latest' = latest /\ done' = done
      BY <1>5 DEF SyncBlock, history
    <2>2. task'[t].stamps = task[t].stamps /\ task'[t].need = task[t].need
      BY <1>5, SyncBlockTask DEF SameBio, SameCopy
    <2>3. PICK b \in Blocks : b = NextBlock(t)
      BY <1>5, SyncBlockFacts
    <2>4. PICK f \in Buffers : f = task[t].buf
      BY TaskFields
    <2>5. PICK p \in Positions : p = bbn[b]
      BY <1>5, <2>3, SyncBlockFacts
    <2>6. /\ slot'[f][p].data = slot[f][p].data
          /\ \A i \in Positions \ {p} : slot'[f][i] = slot[f][i]
          /\ \A g \in Buffers \ {f} : slot'[g] = slot[g]
          /\ \A s \in Sectors : pm'[s] = IF BlockOf(s) = b THEN slot[f][p].data[s - b * SPB] ELSE pm[s]
      BY <1>5, <2>3, <2>4, <2>5, SyncBlockSlot
    <2>7. nvm' = IF FlushEach THEN [s \in Sectors |-> IF BlockOf(s) = b THEN pm'[s] ELSE nvm[s]] ELSE nvm
      BY <1>5, <2>3, <2>4, <2>5, SyncBlockSlot
    <2>8. \A g \in Buffers, i \in Positions : slot'[g][i].data = slot[g][i].data
      BY <2>6
    <2>9. \A s \in Sectors : pm'[s] <= clock'
      BY <2>1, <2>6, <1>s, SectorOfBlock
    <2>10. \A s \in Sectors : nvm'[s] <= clock'
      BY <2>1, <2>7, <2>9, <1>s
    <2> QED
      BY <2>1, <2>2, <2>8, <2>9, <2>10, <1>s, <1>t, <1>c, StampsFrame
  <1>6. CASE UnlinkRange(t)
    <2>1. pm' = pm /\ nvm' = nvm /\ clock' = clock /\ latest' = latest /\ done' = done
      BY <1>6 DEF UnlinkRange, history
    <2>2. task'[t].stamps = task[t].stamps /\ task'[t].need = task[t].need
      BY <1>6, UnlinkRangeTask DEF SameBio, SameCopy
    <2>3. PICK f \in Buffers : f = task[t].buf
      BY TaskFields
    <2>4. PICK R \in SUBSET Blocks : R = Range1(t)
      <3>1. task[t].todo # {}
        BY <1>6, SequenceNext DEF UnlinkRange
      <3> QED
        BY <3>1, SequenceFacts
    <2>5. /\ \A i \in Positions : slot'[f][i].data = slot[f][i].data
          /\ \A g \in Buffers \ {f} : slot'[g] = slot[g]
      BY <1>6, <2>3, <2>4, UnlinkFacts
    <2>6. \A g \in Buffers, i \in Positions : slot'[g][i].data = slot[g][i].data
      BY <2>5
    <2> QED
      BY <2>1, <2>2, <2>6, <1>s, <1>t, <1>c, StampsFrame
  <1> QED
    BY <1>1, <1>2, <1>3, <1>4, <1>5, <1>6, StillStep

\* The pages of the blocks that a flusher is to copy are writable, while there is no
\* FUA write: no other flusher has them.
LEMMA PagesStep ==
  ASSUME Types, Control, Locks, Rings, FuaStamps, Pages, NEW t \in Tasks, Acts(t), Types', Steps(t)
  PROVE  Pages'
  <1>0. \A u \in Tasks \ {t} : task'[u] = task[u] /\ Range1(u)' = Range1(u)
    BY SameTask DEF Steps
  <1>1. CASE Still(t)
    <2>1. /\ fua' = fua /\ faults' = faults /\ writable \subseteq writable'
          /\ task'[t].pc = "range" => Range1(t)' \subseteq writable'
      BY <1>1 DEF Still, SameData
    <2>2. ASSUME fua = {}, NEW u \in Tasks, task'[u].pc = "range" PROVE Range1(u)' \subseteq writable'
      <3>1. CASE u = t
        BY <2>1, <2>2, <3>1
      <3>2. CASE u # t
        <4>1. task[u].pc = "range" /\ Range1(u)' = Range1(u)
          BY <1>0, <2>2, <3>2
        <4>2. Range1(u) \subseteq writable
          BY <2>2, <4>1 DEF Pages
        <4> QED
          BY <2>1, <4>1, <4>2
      <3> QED
        BY <3>1, <3>2
    <2> QED
      BY <2>1, <2>2 DEF Pages
  <1>2. CASE t \in Clients /\ (Alloc(t) \/ CopyTo(t))
    <2>1. faults' = faults /\ writable' = writable /\ (fua' = {} => fua = {})
      BY <1>2 DEF Alloc, CopyTo, history
    <2>2. task'[t].pc \in {"copy", "block", "fua_lock", "end"}
      BY <1>2, AllocMoves, CopyToTask DEF Moves, Advanced
    <2>3. ASSUME fua = {}, NEW u \in Tasks, task'[u].pc = "range" PROVE Range1(u)' \subseteq writable'
      <3>1. u # t
        BY <2>2, <2>3
      <3>2. task[u].pc = "range" /\ Range1(u)' = Range1(u)
        BY <1>0, <2>3, <3>1
      <3> QED
        BY <2>1, <2>3, <3>2 DEF Pages
    <2> QED
      BY <2>1, <2>3 DEF Pages
  <1>3. CASE t \in Clients /\ FuaWrite(t)
    <2>1. fua' = fua /\ fua # {}
      BY <1>3, FuaWriteFacts DEF FuaWrite, history
    <2> QED
      BY <2>1 DEF Pages
  <1>4. CASE SyncBlock(t)
    <2>1. PICK b \in Blocks : b = NextBlock(t)
      BY <1>4, SyncBlockFacts
    <2>2. PICK f \in Buffers : f = task[t].buf
      BY TaskFields
    <2>3. PICK p \in Positions : p = bbn[b]
      BY <1>4, <2>1, SyncBlockFacts
    <2>4. faults' = faults \cup ({b} \ writable)
      BY <1>4, <2>1, <2>2, <2>3, SyncBlockSlot
    <2>5. task[t].pc = "range" /\ b \in Range1(t) /\ Range1(t)' = Range1(t)
      BY <1>4, <2>1, SyncBlockFacts
    <2>6. fua' = fua /\ writable' = writable
      BY <1>4 DEF SyncBlock, history
    <2>7. fua = {} => faults' = {}
      BY <2>4, <2>5 DEF Pages
    <2>8. ASSUME fua = {}, NEW u \in Tasks, task'[u].pc = "range" PROVE Range1(u)' \subseteq writable'
      <3>1. task[u].pc = "range" /\ Range1(u)' = Range1(u)
        BY <1>0, <2>5, <2>8
      <3> QED
        BY <2>6, <2>8, <3>1 DEF Pages
    <2> QED
      BY <2>6, <2>7, <2>8 DEF Pages
  <1>5. CASE UnlinkRange(t)
    <2>1. PICK f \in Buffers : f = task[t].buf
      BY TaskFields
    <2>2. PICK R \in SUBSET Blocks : R = Range1(t)
      <3>1. task[t].todo # {}
        BY <1>5, SequenceNext DEF UnlinkRange
      <3> QED
        BY <3>1, SequenceFacts
    <2>3. /\ task[t].pc = "range" /\ task'[t].todo = task[t].todo \ R
          /\ \A b \in R : BufferOf(b) = f
      BY <1>5, <2>1, <2>2, UnlinkFacts
    <2>4. fua' = fua /\ faults' = faults /\ writable' = (writable \ R) \cup Contiguous(task[t].todo \ R)
      BY <1>5, <2>2 DEF UnlinkRange, history
    <2>5. Range1(t)' = Contiguous(task[t].todo \ R)
      BY <2>3 DEF Range1, Contiguous
    <2>6. ASSUME fua = {}, NEW u \in Tasks, u # t, task'[u].pc = "range" PROVE Range1(u)' \subseteq writable'
      <3>1. task[u].pc = "range" /\ Range1(u)' = Range1(u)
        BY <1>0, <2>6
      <3>2. PICK g \in Buffers : g = task[u].buf
        BY TaskFields
      <3>3. g # f
        <4>1. Flushes(u, g) /\ Flushes(t, f)
          BY <2>1, <2>3, <3>1, <3>2 DEF Flushes
        <4> QED
          BY <2>6, <4>1, HeldApart
      <3>4. \A c \in Range1(u) : BufferOf(c) = g
        <4>1. Range1(u) \subseteq task[u].todo
          BY DEF Range1, Contiguous
        <4> QED
          BY <3>1, <3>2, <4>1 DEF Rings, Flushed
      <3>5. Range1(u) \subseteq writable
        BY <2>6, <3>1 DEF Pages
      <3> QED
        BY <3>1, <3>3, <3>4, <3>5, <2>3, <2>4
    <2> QED
      BY <2>4, <2>5, <2>6 DEF Pages
  <1> QED
    BY <1>1, <1>2, <1>3, <1>4, <1>5, StillStep

\* Blocks are numbers.
LEMMA BlockNumbers == Blocks \subseteq Nat
  BY Consts

\* A FUA stamp stays one, and a late one stays late.
LEMMA FuaGrows ==
  ASSUME Types, Control, Locks, Rings, NEW t \in Tasks, Acts(t), Types'
  PROVE  fua \subseteq fua' /\ late \subseteq late'
  BY StillStep DEF Still, SameData, Alloc, CopyTo, FuaWrite, SyncBlock, UnlinkRange, history

\* A writer that flushes for room goes on with the same copy.
LEMMA WriterFlushes ==
  ASSUME Types, Control, Locks, Rings, NEW t \in Clients, Flushing(t), task[t].req.op = "write", Types'
  PROVE  /\ SameBio(t) /\ SameCopy(t) /\ task[t].pc \in FlushPcs
         /\ task'[t].pc \in FlushPcs \cup {"alloc"}
  <1>0. t \in Tasks
    BY Consts
  <1>1. CASE Check(t)
    <2>1. Moves(t, "flush") \/ Moves(t, "alloc")
      BY <1>0, <1>1, CheckMoves, ReturnMoves
    <2> QED
      BY <1>1, <2>1 DEF Check, Moves, FlushPcs
  <1>2. CASE Flush(t)
    <2>0. task[t].pc = "flush"
      BY <1>2 DEF Flush
    <2>1. CASE IsEmpty(task[t].buf) \/ NumToClean(t) = 0
      <3>1. Moves(t, "alloc")
        BY <1>0, <1>2, <2>1, FlushMoves, ReturnMoves
      <3> QED
        BY <2>0, <3>1 DEF Moves, FlushPcs
    <2>2. CASE ~IsEmpty(task[t].buf) /\ NumToClean(t) # 0
      <3>1. Scan(task[t].buf, NumToClean(t)) \subseteq Blocks
        BY <1>0, <1>2, <2>2, FlushScan
      <3>2. ~FoundClean(task[t].buf, NumToClean(t))
        BY <1>0, <1>2, <2>2, FlushScan
      <3>3. SameBio(t) /\ SameCopy(t) /\ task'[t].pc = "range"
        BY <1>0, <1>2, <2>2, <3>1, <3>2, FlushTask
      <3> QED
        BY <2>0, <3>3 DEF FlushPcs
    <2> QED
      BY <2>1, <2>2
  <1>3. CASE SyncBlock(t)
    BY <1>0, <1>3, SyncBlockTask, SyncBlockFacts DEF FlushPcs
  <1>4. CASE UnlinkRange(t)
    <2>1. task[t].pc = "range"
      BY <1>4 DEF UnlinkRange
    <2>2. SameBio(t) /\ SameCopy(t) /\ task'[t].pc \in {"range", "cleaned"}
      BY <1>0, <1>4, UnlinkRangeTask
    <2> QED
      BY <2>1, <2>2 DEF FlushPcs
  <1>5. CASE Cleaned(t)
    <2>1. Moves(t, "alloc")
      BY <1>0, <1>5, CleanedMoves, ReturnMoves
    <2> QED
      BY <1>5, <2>1 DEF Cleaned, Moves, FlushPcs
  <1> QED
    BY <1>1, <1>2, <1>3, <1>4, <1>5 DEF Flushing

\* A client that flushes keeps its bio.
LEMMA ClientFlushes ==
  ASSUME Types, Control, Locks, Rings, NEW t \in Clients, Flushing(t), Types'
  PROVE  SameBio(t) /\ SameCopy(t) /\ task[t].req.op \in {"write", "flush"}
  <1>0. t \in Tasks /\ ClientControl(t)
    BY Consts DEF Control, ControlOf
  <1>1. task[t].req.op \in {"write", "flush"}
    BY <1>0 DEF Flushing, Check, Flush, SyncBlock, UnlinkRange, Cleaned, ClientControl
  <1>2. CASE task[t].req.op = "write"
    BY <1>2, WriterFlushes
  <1>3. CASE task[t].req.op = "flush"
    <2>1. ~Check(t)
      BY <1>0, <1>3 DEF Check, ClientControl
    <2>2. ASSUME Flush(t), IsEmpty(task[t].buf) \/ NumToClean(t) = 0 PROVE SameBio(t) /\ SameCopy(t)
      BY <1>0, <1>3, <2>2, FlushMoves, ReturnMoves
    <2>3. ASSUME Flush(t), ~IsEmpty(task[t].buf) /\ NumToClean(t) # 0 PROVE SameBio(t) /\ SameCopy(t)
      <3>1. Scan(task[t].buf, NumToClean(t)) \subseteq Blocks
        BY <1>0, <2>3, FlushScan
      <3>2. ~FoundClean(task[t].buf, NumToClean(t))
        BY <1>0, <2>3, FlushScan
      <3> QED
        BY <1>0, <2>3, <3>1, <3>2, FlushTask
    <2>4. SyncBlock(t) \/ UnlinkRange(t) => SameBio(t) /\ SameCopy(t)
      BY <1>0, SyncBlockTask, UnlinkRangeTask
    <2>5. Cleaned(t) => SameBio(t) /\ SameCopy(t)
      BY <1>0, <1>3, CleanedMoves, ReturnMoves
    <2> QED
      BY <1>1, <2>1, <2>2, <2>3, <2>4, <2>5 DEF Flushing
  <1> QED
    BY <1>1, <1>2, <1>3

\* Every step keeps what a FUA write is to store.
LEMMA FuaStampsStep ==
  ASSUME Types, Control, Locks, Rings, FuaStamps, NEW t \in Tasks, Acts(t), Types', Steps(t), Control'
  PROVE  FuaStamps'
  <1>1. fua \subseteq fua'
    BY FuaGrows
  <1>5. late' \subseteq fua'
    <2>1. CASE t \in Clients /\ FuaWrite(t)
      BY <2>1, FuaWriteFacts
    <2>2. CASE ~(t \in Clients /\ FuaWrite(t))
      <3>1. late' = late
        BY <2>2, StillStep DEF Still, SameData, Alloc, CopyTo, SyncBlock, UnlinkRange, history
      <3> QED
        BY <1>1, <3>1 DEF FuaStamps
    <2> QED
      BY <2>1, <2>2
  <1>2. ASSUME NEW u \in Clients, u # t PROVE FuaStampsOf(u)'
    <2>1. task'[u] = task[u] /\ FuaStampsOf(u)
      BY <1>2, Consts DEF Steps, FuaStamps
    <2> QED
      BY <1>1, <2>1 DEF FuaStampsOf, BlockOf
  <1>3. ASSUME t \in Clients, task'[t].req.fua PROVE FuaStampsOf(t)'
    <2>0. /\ Clients \cap Buffers = {} /\ ClientControl(t) /\ FuaStampsOf(t) /\ task'[t].req.op = "write"
      BY <1>3, Consts DEF Control, ControlOf, ClientControl, FuaStamps
    <2>k. ASSUME task'[t].req = task[t].req, task'[t].stamps = task[t].stamps, task'[t].b = task[t].b,
                 task[t].pc \in FirstCopyPcs, task'[t].pc \in FirstCopyPcs
          PROVE  FuaStampsOf(t)'
      BY <1>1, <1>3, <2>0, <2>k DEF FuaStampsOf, FirstCopyPcs, FlushPcs, BlockOf
    <2>1. CASE Gate(t)
      BY <1>3, <2>1, <2>k, GateMoves DEF Gate, Moves, SameBio, SameCopy, FirstCopyPcs
    <2>2. CASE Enter(t)
      <3>1. Moves(t, IF task[t].req.op = "flush" THEN "end" ELSE "block")
        BY <1>3, <2>2, EnterMoves
      <3>2. Moves(t, "block")
        BY <2>0, <3>1 DEF Moves, SameBio
      <3> QED
        BY <2>2, <2>k, <3>2 DEF Enter, Moves, SameBio, SameCopy, FirstCopyPcs
    <2>3. CASE End(t)
      <3>1. task'[t] = Idle
        BY <2>3, IdleTask DEF End
      <3> QED
        BY <1>3, <3>1 DEF Idle, NoRequest
    <2>4. CASE LockBlock(t)
      <3>1. /\ task[t].pc = "block" /\ task'[t].req = task[t].req /\ task'[t].stamps = task[t].stamps
            /\ task'[t].b = task[t].b
            /\ task'[t].pc = IF task[t].req.op = "write" /\ ~IsBuffered(task[t].b) THEN "alloc" ELSE "copy"
        BY <1>3, <2>4, LockBlockTask DEF LockBlock, SameBio
      <3>2. task'[t].pc \in {"alloc", "copy"}
        BY <3>1
      <3> QED
        BY <2>k, <3>1, <3>2 DEF FirstCopyPcs
    <2>5. CASE Alloc(t)
      BY <1>3, <2>5, <2>k, AllocMoves DEF Alloc, Moves, SameBio, SameCopy, FirstCopyPcs
    <2>6. CASE AllocFull(t)
      BY <1>3, <2>6, <2>k, AllocFullTask DEF AllocFull, SameBio, SameCopy, FirstCopyPcs, FlushPcs
    <2>7. CASE CopyTo(t)
      <3> DEFINE first == task[t].req.first
                 last == task[t].req.last
      <3>1. /\ task'[t].req = task[t].req /\ task'[t].stamps = Stamped(t)
            /\ Advanced(t, task'[t].pc, task'[t].b)
        BY <1>3, <2>7, CopyToTask DEF SameBio
      <3>2. task[t].pc = "copy" /\ clock + 1 \in fua'
        BY <1>3, <2>7, <3>1 DEF CopyTo
      <3>3. PICK b \in Blocks : b = task[t].b
        BY <1>3, <2>7, CopyToFacts
      <3>4. Carries(t) /\ Part(t) = Sect(b) \cap (first .. last) /\ b \in Nat
        BY <1>3, <2>7, <3>3, CopyToFacts, TaskFields
      <3>5. \A s \in Sectors : task'[t].stamps[s] = IF s \in Part(t) THEN clock + 1 ELSE task[t].stamps[s]
        BY <3>1 DEF Stamped
      <3>6. ASSUME NEW s \in Sectors, s \notin first .. last PROVE task'[t].stamps[s] = 0
        BY <1>3, <2>0, <3>1, <3>4, <3>5, <3>6 DEF FuaStampsOf
      <3>7. ASSUME NEW s \in Sectors, s \in first .. last, BlockOf(s) <= b PROVE task'[t].stamps[s] \in fua'
        <4>1. CASE BlockOf(s) = b
          <5>1. s \in Part(t)
            BY <3>4, <3>7, <4>1, SectOfBlock
          <5> QED
            BY <5>1, <3>2, <3>5
        <4>2. CASE BlockOf(s) # b
          <5>1. BlockOf(s) < b
            <6>1. BlockOf(s) \in Nat
              BY SectorOfBlock, BlockNumbers
            <6> QED
              BY <3>4, <3>7, <4>2, <6>1
          <5>2. task[t].stamps[s] \in fua
            BY <1>3, <2>0, <3>1, <3>2, <3>3, <3>7, <5>1 DEF FuaStampsOf, FirstCopyPcs
          <5> QED
            BY <5>2, <3>2, <3>5, <1>1
        <4> QED
          BY <4>1, <4>2
      <3>8. \A s \in first .. last : s \in Sectors => BlockOf(s) \in Nat /\ BlockOf(s) <= LastBlock(t)
        <4>1. \A s \in first .. last : BlockOf(s) \in BlockOf(first) .. LastBlock(t)
          BY <1>3, <3>4, BioBlocks
        <4>2. BlockOf(first) \in Nat /\ LastBlock(t) \in Nat
          BY <1>3, <3>4, BioBlocks, SectorOfBlock, BlockNumbers
        <4> QED
          BY <4>1, <4>2
      <3>9. CASE b < LastBlock(t)
        <4>1. task'[t].pc = "block" /\ task'[t].b = b + 1
          BY <3>1, <3>3, <3>9 DEF Advanced
        <4>2. \A s \in Sectors : s \in first .. last /\ BlockOf(s) < b + 1 => task'[t].stamps[s] \in fua'
          BY <3>4, <3>7, <3>8
        <4> QED
          BY <3>1, <3>6, <4>1, <4>2 DEF FuaStampsOf, BlockOf
      <3>10. CASE ~(b < LastBlock(t))
        <4>1. task'[t].pc = "fua_lock"
          BY <1>3, <3>1, <3>3, <3>10 DEF Advanced
        <4>2. LastBlock(t) \in Nat
          BY <1>3, <3>4, BioBlocks, BlockNumbers
        <4>3. \A s \in Sectors : s \in first .. last => task'[t].stamps[s] \in fua'
          BY <3>4, <3>7, <3>8, <3>10, <4>2
        <4> QED
          BY <3>1, <3>6, <4>1, <4>3 DEF FuaStampsOf, FirstCopyPcs, FlushPcs
      <3> QED
        BY <3>9, <3>10
    <2>8. CASE CopyFrom(t)
      BY <1>3, <2>0, <2>8, CopyFromTask DEF CopyFrom, SameBio
    <2>9. CASE FuaLock(t)
      <3>1. Carries(t) /\ task[t].pc = "fua_lock"
        BY <2>0, <2>9 DEF ClientControl, FuaLock, Carries
      <3>2. /\ task'[t].pc \in {"fua_lock", "fua_write"} /\ task'[t].req = task[t].req
            /\ task'[t].stamps = task[t].stamps
        BY <1>3, <2>9, <3>1, FuaLockTask, BioBlocks, Consts DEF SameBio
      <3> QED
        BY <1>1, <1>3, <2>0, <3>1, <3>2 DEF FuaStampsOf, FirstCopyPcs, FlushPcs
    <2>10. CASE FuaWrite(t)
      <3>1. /\ task'[t].pc = "end" /\ task'[t].req = task[t].req /\ task'[t].stamps = task[t].stamps
        BY <1>3, <2>10, FuaWriteMoves DEF Moves, SameBio, SameCopy
      <3> QED
        BY <1>3, <2>0, <3>1 DEF FuaStampsOf, FirstCopyPcs, FlushPcs
    <2>11. CASE TakeBarrier(t)
      BY <1>3, <2>0, <2>11, TakeBarrierMoves DEF TakeBarrier, Moves, SameBio, ClientControl
    <2>12. CASE Drain(t)
      BY <1>3, <2>0, <2>12, DrainTask DEF Drain, SameBio, ClientControl
    <2>13. CASE SyncCaches(t)
      BY <1>3, <2>0, <2>13, SyncCachesMoves DEF SyncCaches, Moves, SameBio, ClientControl
    <2>14. CASE ReleaseBarrier(t)
      BY <1>3, <2>0, <2>14, ReleaseBarrierMoves DEF ReleaseBarrier, Moves, SameBio, ClientControl
    <2>15. CASE \E r \in Requests[t] : Submit(t, r)
      <3>1. PICK q \in Requests[t] : Submit(t, q)
        BY <2>15
      <3>2. /\ task'[t].req = q /\ task'[t].stamps = Zeros /\ task'[t].b = BlockOf(q.first)
            /\ task'[t].pc = CASE q.op = "flush" -> "barrier" [] q.op = "write" -> "gate" [] OTHER -> "enter"
        BY <1>3, <3>1, SubmitTask
      <3>3. task'[t].pc = "gate"
        BY <2>0, <3>2
      <3>4. q.first \in Nat /\ q.last \in Int /\ q.first \in Sectors
        <4>1. q.first \in Nat /\ q.last \in Int /\ {q.first, q.last} \subseteq Sectors
          BY <1>3, <2>0, <3>2, RequestsAssumption
        <4> QED
          BY <4>1
      <3>5. ASSUME NEW s \in Sectors, s \in q.first .. q.last, BlockOf(s) < BlockOf(q.first) PROVE FALSE
        <4>1. s \in Nat /\ q.first \in Nat /\ q.first <= s
          BY <3>4, <3>5, SectorOfBlock
        <4>2. BlockOf(q.first) <= BlockOf(s) /\ BlockOf(s) \in Nat /\ BlockOf(q.first) \in Nat
          BY <3>4, <4>1, BlockOfMonotone, SectorOfBlock, BlockNumbers
        <4> QED
          BY <3>5, <4>2
      <3> QED
        BY <3>2, <3>3, <3>5 DEF FuaStampsOf, FirstCopyPcs, FlushPcs, Zeros, BlockOf
    <2>16. CASE Flushing(t)
      <3>1. task[t].req.op = "write"
        BY <1>3, <2>0, <2>16, ClientFlushes DEF SameBio
      <3>2. SameBio(t) /\ SameCopy(t) /\ task[t].pc \in FlushPcs /\ task'[t].pc \in FlushPcs \cup {"alloc"}
        BY <1>3, <2>16, <3>1, WriterFlushes
      <3> QED
        BY <2>k, <3>2 DEF SameBio, SameCopy, FirstCopyPcs
    <2> QED
      BY <1>3, <2>0, <2>1, <2>2, <2>3, <2>4, <2>5, <2>6, <2>7, <2>8, <2>9, <2>10, <2>11, <2>12, <2>13, <2>14, <2>15, <2>16 DEF Acts, Bio
  <1>4. ASSUME t \in Clients, ~task'[t].req.fua PROVE FuaStampsOf(t)'
    BY <1>4 DEF FuaStampsOf
  <1> QED
    BY <1>2, <1>3, <1>4, <1>5 DEF FuaStamps

\* What a barrier has seen to stays so.
SafeNow(t, s) == Safe(pm[s], t, s)

\* Memory is only overwritten by the last write or a late FUA write.
LEMMA MemoryKept ==
  ASSUME Types, Control, Locks, Rings, Contents, FuaStamps, NEW t \in Tasks, Acts(t), Types', Steps(t)
  PROVE  /\ \A s \in Sectors : pm'[s] = pm[s] \/ pm'[s] = latest[s] \/ pm'[s] \in late'
         /\ \/ \A s \in Sectors : nvm'[s] = nvm[s] \/ nvm'[s] = latest[s] \/ nvm'[s] \in late'
            \/ t \in Clients /\ task[t].pc = "sync" /\ nvm' = pm /\ pm' = pm
  <1>0. late \subseteq late'
    BY FuaGrows
  <1>1. CASE Still(t)
    BY <1>1 DEF Still, SameData
  <1>2. CASE (t \in Clients /\ (Alloc(t) \/ CopyTo(t))) \/ UnlinkRange(t)
    BY <1>2 DEF Alloc, CopyTo, UnlinkRange
  <1>3. CASE t \in Clients /\ FuaWrite(t)
    <2>1. \A s \in Sectors : \/ s \notin task[t].req.first .. task[t].req.last /\ pm'[s] = pm[s] /\ nvm'[s] = nvm[s]
                             \/ /\ s \in task[t].req.first .. task[t].req.last
                                /\ pm'[s] = task[t].stamps[s] /\ nvm'[s] = task[t].stamps[s]
      BY <1>3, FuaWriteFacts
    <2>2. \A s \in task[t].req.first .. task[t].req.last : task[t].stamps[s] = latest[s] \/ task[t].stamps[s] \in late'
      BY <1>3, FuaWriteFacts
    <2> QED
      BY <2>1, <2>2
  <1>4. CASE SyncBlock(t)
    <2>1. \A s \in Sectors : IF BlockOf(s) = NextBlock(t) THEN pm'[s] = Visible(s) /\ Good(Visible(s), s)
                                                          ELSE pm'[s] = pm[s]
      BY <1>4, SyncBlockContents
    <2>2. \A s \in Sectors : pm'[s] = pm[s] \/ pm'[s] = latest[s] \/ pm'[s] \in late'
      BY <1>0, <2>1 DEF Good
    <2>3. PICK b \in Blocks : b = NextBlock(t)
      BY <1>4, SyncBlockFacts
    <2>4. PICK f \in Buffers : f = task[t].buf
      BY TaskFields
    <2>5. PICK p \in Positions : p = bbn[b]
      BY <1>4, <2>3, SyncBlockFacts
    <2>6. nvm' = IF FlushEach THEN [s \in Sectors |-> IF BlockOf(s) = b THEN pm'[s] ELSE nvm[s]] ELSE nvm
      BY <1>4, <2>3, <2>4, <2>5, SyncBlockSlot
    <2>7. \A s \in Sectors : nvm'[s] = nvm[s] \/ nvm'[s] = latest[s] \/ nvm'[s] \in late'
      <3>1. ASSUME NEW s \in Sectors PROVE nvm'[s] = nvm[s] \/ nvm'[s] = latest[s] \/ nvm'[s] \in late'
        <4>1. CASE FlushEach /\ BlockOf(s) = b
          <5>1. nvm'[s] = pm'[s]
            BY <2>6, <4>1
          <5>2. pm'[s] = latest[s] \/ pm'[s] \in late'
            BY <1>0, <2>1, <2>3, <4>1 DEF Good
          <5> QED
            BY <5>1, <5>2
        <4>2. CASE ~(FlushEach /\ BlockOf(s) = b)
          BY <2>6, <4>2
        <4> QED
          BY <4>1, <4>2
      <3> QED
        BY <3>1
    <2> QED
      BY <2>2, <2>7
  <1> QED
    BY <1>1, <1>2, <1>3, <1>4, StillStep

\* What a barrier has seen to is not undone by the others.
LEMMA BarriersFrame ==
  ASSUME Types, Stamps, Barriers, NEW u \in Clients, task'[u] = task[u], late \subseteq late',
         \A s \in Sectors : pm'[s] = pm[s] \/ pm'[s] = latest[s] \/ pm'[s] \in late',
         \/ \A s \in Sectors : nvm'[s] = nvm[s] \/ nvm'[s] = latest[s] \/ nvm'[s] \in late'
         \/ task[u].pc # "synced" /\ nvm' = pm /\ pm' = pm
  PROVE  BarriersOf(u)'
  <1>0. u \in Tasks /\ BarriersOf(u)
    BY Consts DEF Barriers
  <1>1. \A s \in Sectors : /\ task[u].need[s] \in Nat /\ task[u].stamps[s] \in Nat /\ latest[s] \in Nat
                           /\ task[u].need[s] <= latest[s] /\ task[u].stamps[s] <= latest[s]
    BY <1>0, TaskFields DEF Types, DataTypes, Stamps
  <1>2. \A s \in Sectors : Safe(pm[s], u, s) => Safe(pm[s], u, s)'
    BY <1>1 DEF Safe
  <1>3. \A s \in Sectors : Stored(pm[s], u, s) => Stored(pm[s], u, s)'
    BY <1>1 DEF Stored
  <1>4. task[u].pc = "synced" => \A s \in Sectors : Safe(nvm[s], u, s) => Safe(nvm[s], u, s)'
    BY <1>1 DEF Safe
  <1>5. \A s \in Sectors : Stored(pm[s], u, s) /\ Stored(nvm[s], u, s) => Stored(nvm[s], u, s)'
    BY <1>1 DEF Stored
  <1>6. Synced(u)' = Synced(u)
    BY <1>0, SameTask
  <1> QED
    BY <1>0, <1>2, <1>3, <1>4, <1>5, <1>6 DEF BarriersOf, BlockOf, BufferOf

\* The PM has the last write to a block that is not in a buffer.
LEMMA UnbufferedSafe ==
  ASSUME Types, Control, Locks, Rings, Contents, Stamps, NEW t \in Tasks, NEW s \in Sectors, ~IsBuffered(BlockOf(s))
  PROVE  SafeNow(t, s)
  <1>1. ~Filling(BlockOf(s))
    <2>1. ASSUME NEW u \in Clients, Fills(u), task[u].b = BlockOf(s) PROVE FALSE
      BY <2>1, Consts, FillingFacts
    <2> QED
      BY <2>1 DEF Filling
  <1>2. Visible(s) = pm[s]
    BY DEF Visible
  <1>3. pm[s] = latest[s] \/ pm[s] \in late
    BY <1>1, <1>2, GoodElim
  <1>4. task[t].need[s] \in Nat /\ latest[s] \in Nat /\ task[t].need[s] <= latest[s]
    BY TaskFields DEF Types, DataTypes, Stamps
  <1> QED
    BY <1>3, <1>4 DEF SafeNow, Safe

\* A sector that is not written stays safe.
LEMMA SafeKept ==
  ASSUME NEW t \in Tasks, task'[t].need = task[t].need, late \subseteq late',
         NEW s \in Sectors, pm'[s] = pm[s], SafeNow(t, s)
  PROVE  SafeNow(t, s)'
  BY DEF SafeNow, Safe

\* The barrier is on its way.
LEMMA BarrierIntro ==
  ASSUME NEW t \in Tasks, ~task'[t].req.fua, task'[t].pc \in {"flush", "range", "cleaned", "sync"},
         \A s \in Sectors : BufferOf(BlockOf(s)) < task'[t].buf => SafeNow(t, s)',
         \A s \in Sectors : task'[t].pc = "range" /\ BufferOf(BlockOf(s)) = task'[t].buf
           => BlockOf(s) \in task'[t].todo \ Synced(t)' \/ SafeNow(t, s)',
         \A s \in Sectors : task'[t].pc = "cleaned" /\ BufferOf(BlockOf(s)) = task'[t].buf => SafeNow(t, s)',
         \A s \in Sectors : task'[t].pc = "sync" => SafeNow(t, s)'
  PROVE  BarriersOf(t)'
  BY DEF BarriersOf, SafeNow, BlockOf, BufferOf

\* What a barrier on its way has seen to.
LEMMA BarrierElim ==
  ASSUME Barriers, NEW t \in Clients, task[t].req.op = "flush", NEW s \in Sectors
  PROVE  /\ task[t].pc \in {"flush", "range", "cleaned"} /\ BufferOf(BlockOf(s)) < task[t].buf => SafeNow(t, s)
         /\ task[t].pc = "range" /\ BufferOf(BlockOf(s)) = task[t].buf
              => BlockOf(s) \in task[t].todo \ Synced(t) \/ SafeNow(t, s)
         /\ task[t].pc = "cleaned" /\ BufferOf(BlockOf(s)) = task[t].buf => SafeNow(t, s)
         /\ task[t].pc = "sync" => SafeNow(t, s)
  BY DEF Barriers, BarriersOf, SafeNow


\* Elsewhere there is nothing a barrier has seen to.
LEMMA BarrierQuiet ==
  ASSUME NEW t \in Tasks, task'[t].pc \notin {"sync", "synced"},
         task'[t].req.op = "flush" => task'[t].pc \notin {"flush", "range", "cleaned"},
         task'[t].pc = "end" => ~task'[t].req.fua
  PROVE  BarriersOf(t)'
  BY DEF BarriersOf

\* The barrier is done with a buffer.
LEMMA BarrierReturns ==
  ASSUME Types, NEW t \in Clients, task[t].req.op = "flush", ~task[t].req.fua, NEW d \in Nat,
         task' = [task EXCEPT ![t] = Return(t, d)], pm' = pm, late \subseteq late',
         \A s \in Sectors : BufferOf(BlockOf(s)) <= task[t].buf => SafeNow(t, s)
  PROVE  BarriersOf(t)'
  <1>0. t \in Tasks
    BY Consts
  <1>1. /\ task'[t].req = task[t].req /\ task'[t].need = task[t].need
        /\ \/ task'[t].pc = "flush" /\ task'[t].buf = task[t].buf + 1
           \/ task'[t].pc = "sync" /\ task[t].buf = NumBuffers - 1
    BY <1>0, ReturnMoves DEF SameBio
  <1>2. \A s \in Sectors : BufferOf(BlockOf(s)) \in 0 .. NumBuffers - 1
    BY SectorOfBlock, BufferOfBlock DEF Buffers
  <1>3. task[t].buf \in 0 .. NumBuffers - 1 /\ NumBuffers \in Nat
    BY <1>0, TaskFields, Consts DEF Buffers
  <1>4. \A s \in Sectors : SafeNow(t, s) => SafeNow(t, s)'
    BY <1>0, <1>1, SafeKept
  <1>5. CASE task'[t].pc = "flush" /\ task'[t].buf = task[t].buf + 1
    <2>1. \A s \in Sectors : BufferOf(BlockOf(s)) < task'[t].buf => SafeNow(t, s)'
      BY <1>2, <1>3, <1>4, <1>5
    <2> QED
      BY <1>0, <1>1, <1>5, <2>1, BarrierIntro
  <1>6. CASE task'[t].pc = "sync" /\ task[t].buf = NumBuffers - 1
    <2>1. \A s \in Sectors : SafeNow(t, s)'
      BY <1>2, <1>3, <1>4, <1>6
    <2> QED
      BY <1>0, <1>1, <1>6, <2>1, BarrierIntro
  <1> QED
    BY <1>1, <1>5, <1>6

\* A barrier takes all the dirty blocks of a buffer: the others are in the PM.
LEMMA FlushBarriers ==
  ASSUME Types, Control, Locks, Rings, Contents, Stamps, Barriers, NEW t \in Clients,
         task[t].req.op = "flush", ~task[t].req.fua, Flush(t), Types'
  PROVE  BarriersOf(t)'
  <1>0. t \in Tasks /\ Clients \cap Buffers = {} /\ NumBlocks \in Nat \ {0} /\ late' = late /\ pm' = pm
        /\ task[t].pc = "flush"
    BY Consts DEF Flush, history
  <1>1. PICK f \in Buffers : f = task[t].buf
    BY <1>0, TaskFields
  <1>2. NumToClean(t) = NumBlocks
    BY DEF NumToClean
  <1>3. ASSUME NEW s \in Sectors, BufferOf(BlockOf(s)) < f PROVE SafeNow(t, s)
    BY <1>0, <1>1, <1>3, BarrierElim
  <1>4. CASE IsEmpty(f)
    <2>1. ASSUME NEW s \in Sectors, BufferOf(BlockOf(s)) = f PROVE SafeNow(t, s)
      <3>1. PICK b \in Blocks : b = BlockOf(s)
        BY SectorOfBlock
      <3>2. ~IsBuffered(b)
        <4>1. ASSUME IsBuffered(b) PROVE FALSE
          <5>1. \E k \in 0 .. ring[f].num_dirty - 1 : bbn[b] = At(f, k)
            BY <2>1, <3>1, <4>1, BufferedFacts
          <5> QED
            BY <5>1, <1>4 DEF IsEmpty
        <4> QED
          BY <4>1
      <3> QED
        BY <1>0, <3>1, <3>2, UnbufferedSafe
    <2>2. \A s \in Sectors : BufferOf(BlockOf(s)) <= f => SafeNow(t, s)
      <3>1. \A s \in Sectors : BufferOf(BlockOf(s)) \in Int /\ f \in Int
        BY SectorOfBlock, BufferOfBlock DEF Buffers
      <3> QED
        BY <3>1, <1>3, <2>1
    <2>3. PICK d \in Nat : task' = [task EXCEPT ![t] = Return(t, d)]
      BY <1>0, <1>1, <1>4, FlushMoves
    <2> QED
      BY <1>0, <1>1, <2>2, <2>3, BarrierReturns
  <1>5. CASE ~IsEmpty(f)
    <2>1. /\ Scanned(f, NumBlocks) \in 1 .. ring[f].num_dirty
          /\ Scan(f, NumBlocks) = {slot[f][At(f, k)].pbn : k \in 0 .. Scanned(f, NumBlocks) - 1}
          /\ Scan(f, NumBlocks) \subseteq Blocks /\ Cardinality(Scan(f, NumBlocks)) = Scanned(f, NumBlocks)
          /\ ~FoundClean(f, NumBlocks)
      BY <1>0, <1>1, <1>2, <1>5, FlushScan
    <2>2. Scanned(f, NumBlocks) = ring[f].num_dirty
      BY <1>1, RingPositions DEF Scanned
    <2>3. /\ SameBio(t) /\ task'[t].pc = "range" /\ task'[t].todo = Scan(f, NumBlocks)
          /\ task'[t].synced = 0 /\ task'[t].buf = f
      BY <1>0, <1>1, <1>2, <1>5, <2>1, FlushTask
    <2>4. task'[t].todo # {}
      <3>1. 0 \in 0 .. Scanned(f, NumBlocks) - 1
        BY <1>1, <2>1, RingPositions
      <3>2. slot[f][At(f, 0)].pbn \in {slot[f][At(f, k)].pbn : k \in 0 .. Scanned(f, NumBlocks) - 1}
        BY <3>1
      <3> QED
        BY <2>1, <2>3, <3>2
    <2>5. Synced(t)' = {}
      BY <1>0, <2>3, <2>4, SyncedNone
    <2>6. \A s \in Sectors : SafeNow(t, s) => SafeNow(t, s)'
      BY <1>0, <2>3, SafeKept DEF SameBio
    <2>7. ASSUME NEW s \in Sectors, BufferOf(BlockOf(s)) = f
          PROVE  BlockOf(s) \in task'[t].todo \/ SafeNow(t, s)'
      <3>1. PICK b \in Blocks : b = BlockOf(s)
        BY SectorOfBlock
      <3>2. CASE IsBuffered(b)
        <4>1. slot[f][bbn[b]].pbn = b /\ \E k \in 0 .. ring[f].num_dirty - 1 : bbn[b] = At(f, k)
          BY <2>7, <3>1, <3>2, BufferedFacts
        <4> QED
          BY <2>1, <2>2, <2>3, <3>1, <4>1
      <3>3. CASE ~IsBuffered(b)
        BY <1>0, <2>6, <3>1, <3>3, UnbufferedSafe
      <3> QED
        BY <3>2, <3>3
    <2> QED
      BY <1>0, <1>3, <2>3, <2>5, <2>6, <2>7, BarrierIntro DEF SameBio
  <1> QED
    BY <1>4, <1>5

\* A block that a barrier copies is safe.
LEMMA SyncBlockBarriers ==
  ASSUME Types, Control, Locks, Rings, Contents, Stamps, Barriers, NEW t \in Clients,
         task[t].req.op = "flush", ~task[t].req.fua, SyncBlock(t), Types', Steps(t)
  PROVE  BarriersOf(t)'
  <1>0. t \in Tasks
    BY Consts
  <1>1. PICK b \in Blocks : b = NextBlock(t)
    BY <1>0, SyncBlockFacts
  <1>2. /\ task[t].pc = "range" /\ task'[t].pc = "range" /\ Synced(t)' = Synced(t) \cup {b} /\ BufferOf(b) = task[t].buf
        /\ b \in task[t].todo
    BY <1>0, <1>1, SyncBlockFacts
  <1>3. /\ task'[t].req = task[t].req /\ task'[t].need = task[t].need /\ task'[t].todo = task[t].todo
        /\ task'[t].buf = task[t].buf
    BY <1>0, SyncBlockTask DEF SameBio
  <1>4. late' = late
    BY DEF SyncBlock, history
  <1>5. \A s \in Sectors : IF BlockOf(s) = b THEN pm'[s] = Visible(s) /\ Good(Visible(s), s) ELSE pm'[s] = pm[s]
    BY <1>0, <1>1, SyncBlockContents
  <1>6. ASSUME NEW s \in Sectors, BlockOf(s) = b PROVE SafeNow(t, s)'
    <2>1. pm'[s] = latest[s] \/ pm'[s] \in late
      BY <1>5, <1>6 DEF Good
    <2>2. task[t].need[s] \in Nat /\ latest[s] \in Nat /\ task[t].need[s] <= latest[s]
      BY <1>0, TaskFields DEF Types, DataTypes, Stamps
    <2> QED
      BY <2>1, <2>2, <1>3, <1>4 DEF SafeNow, Safe
  <1>7. ASSUME NEW s \in Sectors, BlockOf(s) # b, SafeNow(t, s) PROVE SafeNow(t, s)'
    BY <1>0, <1>3, <1>4, <1>5, <1>7, SafeKept
  <1>8. ASSUME NEW s \in Sectors, BufferOf(BlockOf(s)) < task'[t].buf PROVE SafeNow(t, s)'
    <2>1. SafeNow(t, s)
      BY <1>2, <1>3, <1>8, BarrierElim
    <2> QED
      BY <2>1, <1>6, <1>7
  <1>9. ASSUME NEW s \in Sectors, BufferOf(BlockOf(s)) = task'[t].buf
        PROVE  BlockOf(s) \in task'[t].todo \ Synced(t)' \/ SafeNow(t, s)'
    <2>1. BlockOf(s) \in task[t].todo \ Synced(t) \/ SafeNow(t, s)
      BY <1>2, <1>3, <1>9, BarrierElim
    <2> QED
      BY <2>1, <1>2, <1>3, <1>6, <1>7
  <1> QED
    BY <1>0, <1>2, <1>3, <1>8, <1>9, BarrierIntro

\* The blocks a barrier unlinks have been copied.
LEMMA UnlinkBarriers ==
  ASSUME Types, Control, Locks, Rings, Barriers, NEW t \in Clients,
         task[t].req.op = "flush", ~task[t].req.fua, UnlinkRange(t), Types'
  PROVE  BarriersOf(t)'
  <1>0. t \in Tasks /\ late' = late /\ pm' = pm
    BY Consts DEF UnlinkRange, history
  <1>1. PICK f \in Buffers : f = task[t].buf
    BY <1>0, TaskFields
  <1>2. PICK R \in SUBSET Blocks : R = Range1(t)
    <2>1. task[t].todo # {}
      BY <1>0, SequenceNext DEF UnlinkRange
    <2> QED
      BY <1>0, <2>1, SequenceFacts
  <1>3. /\ task[t].pc = "range" /\ task'[t].pc \in {"range", "cleaned"} /\ Synced(t) = R
        /\ task'[t].todo = task[t].todo \ R /\ task'[t].buf = f
        /\ task'[t].pc = "cleaned" <=> task'[t].todo = {}
        /\ task'[t].pc = "range" => Synced(t)' = {}
    BY <1>0, <1>1, <1>2, UnlinkFacts
  <1>4. task'[t].req = task[t].req /\ task'[t].need = task[t].need
    BY <1>0, UnlinkRangeTask DEF SameBio
  <1>5. \A s \in Sectors : SafeNow(t, s) => SafeNow(t, s)'
    BY <1>0, <1>4, SafeKept
  <1>6. ASSUME NEW s \in Sectors, BufferOf(BlockOf(s)) < task'[t].buf PROVE SafeNow(t, s)'
    BY <1>1, <1>3, <1>5, <1>6, BarrierElim
  <1>7. ASSUME NEW s \in Sectors, BufferOf(BlockOf(s)) = task'[t].buf
        PROVE  BlockOf(s) \in task'[t].todo \/ SafeNow(t, s)'
    BY <1>1, <1>3, <1>5, <1>7, BarrierElim
  <1> QED
    BY <1>0, <1>3, <1>4, <1>6, <1>7, BarrierIntro

\* A buffer that a barrier has cleaned is safe.
LEMMA CleanedBarriers ==
  ASSUME Types, Control, Rings, Barriers, NEW t \in Clients,
         task[t].req.op = "flush", ~task[t].req.fua, Cleaned(t)
  PROVE  BarriersOf(t)'
  <1>0. t \in Tasks /\ late' = late /\ pm' = pm /\ task[t].pc = "cleaned"
    BY Consts DEF Cleaned, history
  <1>1. PICK f \in Buffers : f = task[t].buf
    BY <1>0, TaskFields
  <1>2. \A s \in Sectors : BufferOf(BlockOf(s)) \in Int /\ f \in Int
    BY SectorOfBlock, BufferOfBlock DEF Buffers
  <1>3. \A s \in Sectors : BufferOf(BlockOf(s)) <= f => SafeNow(t, s)
    BY <1>0, <1>1, <1>2, BarrierElim
  <1>4. PICK d \in Nat : task' = [task EXCEPT ![t] = Return(t, d)]
    BY <1>0, CleanedMoves
  <1> QED
    BY <1>0, <1>1, <1>3, <1>4, BarrierReturns

\* A FUA write ends with its data stored.
LEMMA FuaWriteBarriers ==
  ASSUME Types, Control, Locks, Rings, FuaStamps, NEW t \in Clients, FuaWrite(t), Types'
  PROVE  BarriersOf(t)'
  <1>1. /\ t \in Tasks /\ task[t].req.fua /\ task'[t].pc = "end"
        /\ \A s \in Sectors : \/ s \notin task[t].req.first .. task[t].req.last
                              \/ /\ s \in task[t].req.first .. task[t].req.last
                                 /\ pm'[s] = task[t].stamps[s] /\ nvm'[s] = task[t].stamps[s]
    BY FuaWriteFacts
  <1>2. task'[t].stamps = task[t].stamps /\ task[t].stamps \in [Sectors -> Nat]
    BY <1>1, FuaWriteMoves, TaskFields DEF Moves, SameCopy
  <1>3. \A s \in Sectors : s \notin task[t].req.first .. task[t].req.last => task[t].stamps[s] = 0
    BY <1>1 DEF FuaStamps, FuaStampsOf
  <1>4. \A s \in Sectors : pm'[s] \in Nat /\ nvm'[s] \in Nat
    BY DEF Types, DataTypes
  <1>5. ASSUME NEW s \in Sectors PROVE Stored(pm[s], t, s)' /\ Stored(nvm[s], t, s)'
    <2>1. CASE s \in task[t].req.first .. task[t].req.last
      BY <1>1, <1>2, <2>1 DEF Stored
    <2>2. CASE s \notin task[t].req.first .. task[t].req.last
      BY <1>2, <1>3, <1>4, <2>2 DEF Stored
    <2> QED
      BY <2>1, <2>2
  <1> QED
    BY <1>1, <1>5 DEF BarriersOf

\* A barrier starts with no buffer done.
LEMMA DrainBarriers ==
  ASSUME Types, NEW t \in Clients, Drain(t), ~task[t].req.fua
  PROVE  BarriersOf(t)'
  <1>0. t \in Tasks
    BY Consts
  <1>1. task'[t].pc = "flush" /\ task'[t].buf = 0 /\ task'[t].req = task[t].req
    BY DrainTask DEF SameBio
  <1>2. \A s \in Sectors : BufferOf(BlockOf(s)) \in Nat
    BY SectorOfBlock, BufferOfBlock DEF Buffers
  <1>3. \A s \in Sectors : ~(BufferOf(BlockOf(s)) < task'[t].buf)
    BY <1>1, <1>2
  <1> QED
    BY <1>0, <1>1, <1>3, BarrierIntro

\* With the caches flushed, what is safe in the PM survives a power failure.
LEMMA SyncCachesBarriers ==
  ASSUME Types, Control, Barriers, NEW t \in Clients, SyncCaches(t)
  PROVE  BarriersOf(t)'
  <1>0. t \in Tasks /\ ClientControl(t) /\ task[t].pc = "sync" /\ nvm' = pm /\ late' = late
    BY Consts DEF SyncCaches, Control, ControlOf, history
  <1>1. task[t].req.op = "flush" /\ ~task[t].req.fua
    BY <1>0 DEF ClientControl
  <1>2. task'[t].pc = "synced" /\ task'[t].req = task[t].req /\ task'[t].need = task[t].need
    BY SyncCachesMoves DEF Moves, SameBio
  <1>3. \A s \in Sectors : SafeNow(t, s)
    BY <1>0, <1>1, BarrierElim
  <1>4. \A s \in Sectors : Safe(nvm[s], t, s)'
    BY <1>0, <1>2, <1>3 DEF SafeNow, Safe
  <1> QED
    BY <1>1, <1>2, <1>4 DEF BarriersOf

\* The steps of a flush keep what a barrier has seen to.
LEMMA FlushingBarriers ==
  ASSUME Types, Control, Locks, Rings, Contents, Stamps, Barriers, NEW t \in Clients, Flushing(t), Types', Steps(t)
  PROVE  BarriersOf(t)'
  <1>0. t \in Tasks /\ ClientControl(t)
    BY Consts DEF Control, ControlOf
  <1>1. SameBio(t) /\ task[t].req.op \in {"write", "flush"}
    BY ClientFlushes
  <1>2. CASE task[t].req.op = "write"
    <2>1. task'[t].pc \in FlushPcs \cup {"alloc"} /\ task'[t].req = task[t].req
      BY <1>1, <1>2, WriterFlushes DEF SameBio
    <2> QED
      BY <1>0, <1>2, <2>1, BarrierQuiet DEF FlushPcs
  <1>3. CASE task[t].req.op = "flush"
    <2>1. ~task[t].req.fua /\ ~Check(t)
      BY <1>0, <1>3 DEF ClientControl, Check
    <2> QED
      BY <1>3, <2>1, FlushBarriers, SyncBlockBarriers, UnlinkBarriers, CleanedBarriers DEF Flushing
  <1> QED
    BY <1>1, <1>2, <1>3

\* So do the steps of a bio.
LEMMA BioBarriers ==
  ASSUME Types, Control, Locks, Rings, FuaStamps, Barriers, NEW t \in Clients, Bio(t), Types'
  PROVE  BarriersOf(t)'
  <1>0. t \in Tasks /\ ClientControl(t)
    BY Consts DEF Control, ControlOf
  <1>1. CASE Gate(t)
    BY <1>0, <1>1, GateMoves, BarrierQuiet DEF Moves
  <1>2. CASE Enter(t)
    <2>1. /\ task'[t].pc = IF task[t].req.op = "flush" THEN "end" ELSE "block"
          /\ task'[t].req = task[t].req
      BY <1>2, EnterMoves DEF Moves, SameBio
    <2>2. task'[t].pc \in {"end", "block"} /\ (task'[t].pc = "end" => task[t].req.op = "flush")
      BY <2>1
    <2> QED
      BY <1>0, <2>1, <2>2, BarrierQuiet DEF ClientControl
  <1>3. CASE End(t)
    <2>1. task'[t] = Idle
      BY <1>0, <1>3, IdleTask DEF End
    <2>2. task'[t].pc = "idle"
      BY <2>1 DEF Idle
    <2> QED
      BY <1>0, <2>2, BarrierQuiet
  <1>4. CASE LockBlock(t)
    <2>1. task'[t].pc = IF task[t].req.op = "write" /\ ~IsBuffered(task[t].b) THEN "alloc" ELSE "copy"
      BY <1>4, LockBlockTask
    <2>2. task'[t].pc \in {"alloc", "copy"}
      BY <2>1
    <2> QED
      BY <1>0, <2>2, BarrierQuiet
  <1>5. CASE Alloc(t)
    BY <1>0, <1>5, AllocMoves, BarrierQuiet DEF Moves
  <1>6. CASE AllocFull(t)
    <2>1. task'[t].pc = "check" /\ task'[t].req = task[t].req /\ task[t].pc = "alloc"
      BY <1>6, AllocFullTask DEF SameBio, AllocFull
    <2>2. task[t].req.op = "write"
      BY <1>0, <2>1 DEF ClientControl, Seeking, FlushPcs
    <2> QED
      BY <1>0, <2>1, <2>2, BarrierQuiet
  <1>7. CASE CopyTo(t) \/ CopyFrom(t)
    <2>1. Advanced(t, task'[t].pc, task'[t].b) /\ task'[t].req = task[t].req
      BY <1>7, CopyToTask, CopyFromTask DEF SameBio
    <2>2. task'[t].pc \in {"block", "fua_lock"} \/ (task'[t].pc = "end" /\ ~task'[t].req.fua)
      BY <2>1 DEF Advanced
    <2> QED
      BY <1>0, <2>2, BarrierQuiet
  <1>8. CASE FuaLock(t)
    <2>1. task[t].pc = "fua_lock" /\ Carries(t)
      BY <1>0, <1>8 DEF FuaLock, ClientControl, Carries
    <2>2. task'[t].pc \in {"fua_lock", "fua_write"}
      BY <1>8, <2>1, FuaLockTask, BioBlocks, Consts
    <2> QED
      BY <1>0, <2>2, BarrierQuiet
  <1>9. CASE FuaWrite(t)
    BY <1>9, FuaWriteBarriers
  <1>10. CASE TakeBarrier(t)
    BY <1>0, <1>10, TakeBarrierMoves, BarrierQuiet DEF Moves
  <1>11. CASE Drain(t)
    <2>1. ~task[t].req.fua
      BY <1>0, <1>11 DEF Drain, ClientControl
    <2> QED
      BY <1>11, <2>1, DrainBarriers
  <1>12. CASE SyncCaches(t)
    BY <1>12, SyncCachesBarriers
  <1>13. CASE ReleaseBarrier(t)
    BY <1>0, <1>13, ReleaseBarrierMoves, BarrierQuiet DEF Moves
  <1> QED
    BY <1>1, <1>2, <1>3, <1>4, <1>5, <1>6, <1>7, <1>8, <1>9, <1>10, <1>11, <1>12, <1>13 DEF Bio

\* Every step keeps what the barriers have seen to.
LEMMA BarriersStep ==
  ASSUME Types, Control, Locks, Rings, Contents, Stamps, FuaStamps, Barriers, NEW t \in Tasks, Acts(t),
         Types', Steps(t)
  PROVE  Barriers'
  <1>0. Clients \subseteq Tasks /\ Clients \cap Buffers = {}
    BY Consts
  <1>1. ASSUME NEW u \in Clients, u # t PROVE BarriersOf(u)'
    <2>1. /\ task'[u] = task[u] /\ late \subseteq late'
          /\ \A s \in Sectors : pm'[s] = pm[s] \/ pm'[s] = latest[s] \/ pm'[s] \in late'
      BY <1>0, <1>1, FuaGrows, MemoryKept DEF Steps
    <2>2. ASSUME t \in Clients, task[t].pc = "sync", task[u].pc = "synced" PROVE FALSE
      <3>1. Barring(t) /\ Barring(u)
        BY <1>0, <2>2 DEF Barring, Control, ControlOf, ClientControl
      <3> QED
        BY <1>1, <2>2, <3>1 DEF Locks
    <2>3. \/ \A s \in Sectors : nvm'[s] = nvm[s] \/ nvm'[s] = latest[s] \/ nvm'[s] \in late'
          \/ task[u].pc # "synced" /\ nvm' = pm /\ pm' = pm
      BY <2>2, MemoryKept
    <2> QED
      BY <2>1, <2>3, BarriersFrame
  <1>2. ASSUME t \in Clients PROVE BarriersOf(t)'
    <2>1. CASE \E r \in Requests[t] : Submit(t, r)
      <3>1. PICK q \in Requests[t] : Submit(t, q)
        BY <2>1
      <3>2. task'[t].pc = CASE q.op = "flush" -> "barrier" [] q.op = "write" -> "gate" [] OTHER -> "enter"
        BY <1>2, <3>1, SubmitTask
      <3>3. task'[t].pc \in {"barrier", "gate", "enter"}
        BY <3>2
      <3> QED
        BY <3>3, BarrierQuiet
    <2> QED
      BY <1>0, <1>2, <2>1, BioBarriers, FlushingBarriers DEF Acts
  <1> QED
    BY <1>1, <1>2 DEF Barriers

-----------------------------------------------------------------------------
(***************************************************************************)
(* The reads, and all of the invariant.                                    *)
(***************************************************************************)
\* A reader holds the block: it finds the last write there.
LEMMA CopyFromReads ==
  ASSUME Types, Control, Locks, Rings, Contents, Stamps, NEW t \in Clients, CopyFrom(t), task[t].ok
  PROVE  task'[t].ok
  <1>0. /\ t \in Tasks /\ ClientControl(t) /\ task[t].pc = "copy" /\ task[t].req.op = "read"
    BY Consts DEF CopyFrom, Control, ControlOf
  <1>1. Carries(t) /\ task[t].b \in ReqBlocks(t)
    BY <1>0 DEF Carries, ClientControl
  <1>2. PICK b \in Blocks : b = task[t].b
    BY <1>1, BioBlocks
  <1>3. b \in Held(t) /\ ~Fills(t)
    BY <1>0, <1>2 DEF Held, Fills
  <1>4. ASSUME NEW s \in Part(t) PROVE Visible(s) >= task[t].need[s] \/ Visible(s) \in late
    <2>1. s \in Sectors /\ s \in Sect(b)
      BY <1>1, <1>2, BioBlocks DEF Part
    <2>2. BlockOf(s) = b
      BY <2>1, SectOfBlock
    <2>3. Visible(s) = latest[s] \/ Visible(s) \in late
      BY <1>0, <1>3, <2>1, <2>2, HeldGood DEF Good
    <2>4. task[t].need[s] \in Nat /\ latest[s] \in Nat /\ task[t].need[s] <= latest[s]
      BY <1>0, <2>1, TaskFields DEF Types, DataTypes, Stamps
    <2> QED
      BY <2>3, <2>4
  <1> QED
    BY <1>4, CopyFromTask

\* No step makes a read stale.
LEMMA FreshReadsStep ==
  ASSUME Types, Control, Locks, Rings, Contents, Stamps, FreshReads, NEW t \in Tasks, Acts(t), Types', Steps(t)
  PROVE  FreshReads'
  <1>0. Clients \subseteq Tasks /\ Clients \cap Buffers = {}
    BY Consts
  <1>1. ASSUME NEW u \in Clients, u # t PROVE task'[u].ok
    BY <1>0, <1>1 DEF Steps, FreshReads
  <1>2. ASSUME t \in Clients PROVE task'[t].ok
    <2>0. task[t].ok
      BY <1>2 DEF FreshReads
    <2>1. CASE \E r \in Requests[t] : Submit(t, r)
      BY <1>2, <2>1, SubmitTask
    <2>2. CASE Gate(t) \/ Alloc(t) \/ FuaWrite(t) \/ TakeBarrier(t) \/ SyncCaches(t) \/ ReleaseBarrier(t)
      BY <1>2, <2>0, <2>2, GateMoves, AllocMoves, FuaWriteMoves, TakeBarrierMoves, SyncCachesMoves,
         ReleaseBarrierMoves DEF Moves, SameCopy
    <2>3. CASE Enter(t)
      BY <1>2, <2>0, <2>3, EnterMoves DEF Moves, SameCopy
    <2>4. CASE End(t)
      <3>1. task'[t] = Idle
        BY <2>4, IdleTask DEF End
      <3> QED
        BY <3>1 DEF Idle
    <2>5. CASE LockBlock(t) \/ CopyTo(t) \/ AllocFull(t) \/ Drain(t)
      BY <1>2, <2>0, <2>5, LockBlockTask, CopyToTask, AllocFullTask, DrainTask DEF SameCopy
    <2>6. CASE CopyFrom(t)
      BY <1>2, <2>0, <2>6, CopyFromReads
    <2>7. CASE FuaLock(t)
      <3>1. task[t].pc = "fua_lock" /\ ClientControl(t)
        BY <1>2, <2>7 DEF FuaLock, Control, ControlOf
      <3>2. Carries(t)
        BY <3>1 DEF ClientControl, Carries
      <3>3. task'[t].ok = task[t].ok
        BY <1>2, <2>7, <3>2, FuaLockTask, BioBlocks, Consts
      <3> QED
        BY <2>0, <3>3
    <2>8. CASE Flushing(t)
      BY <1>2, <2>0, <2>8, ClientFlushes DEF SameCopy
    <2> QED
      BY <1>0, <1>2, <2>1, <2>2, <2>3, <2>4, <2>5, <2>6, <2>7, <2>8 DEF Acts, Bio
  <1> QED
    BY <1>1, <1>2 DEF FreshReads

\* Every step keeps the invariant,
LEMMA InvStep ==
  ASSUME Inv, Next
  PROVE  Inv'
  <1>1. PICK t \in Tasks : Acts(t)
    BY NextActs
  <1>2. /\ Types /\ Stamps /\ Control /\ Locks /\ Counted /\ Rings
        /\ Contents /\ FuaStamps /\ Pages /\ Barriers /\ FreshReads
    BY DEF Inv
  <1>3. Types' /\ Steps(t)
    BY <1>1, <1>2, TypesStep
  <1>4. Control'
    BY <1>1, <1>2, <1>3, ControlStep
  <1>5. Locks' /\ Counted' /\ Rings'
    BY <1>1, <1>2, <1>3, LocksStep, CountedStep, RingsStep
  <1>6. Contents' /\ Stamps' /\ FuaStamps'
    BY <1>1, <1>2, <1>3, <1>4, ContentsStep, StampsStep, FuaStampsStep
  <1>7. Pages' /\ Barriers' /\ FreshReads'
    BY <1>1, <1>2, <1>3, PagesStep, BarriersStep, FreshReadsStep
  <1> QED
    BY <1>3, <1>4, <1>5, <1>6, <1>7 DEF Inv

\* and so does a stuttering one.
LEMMA InvStutter ==
  ASSUME Inv, UNCHANGED vars
  PROVE  Inv'
  <1>1. Types' /\ Stamps' /\ Control' /\ Locks' /\ Counted'
    <2>1. Types'
      BY DEF Inv, vars, Types, DataTypes, LockTypes
    <2>2. Stamps'
      BY DEF Inv, vars, Stamps
    <2>3. Control'
      BY DEF Inv, vars, Control, ControlOf, ClientControl, SyncerControl, Synced, NextBlock, Range1, Contiguous,
             Seeking, Carries, ReqBlocks, LastBlock, BlockOf, BufferOf
    <2>4. Locks'
      BY DEF Inv, vars, Locks, Held, Flushes, Barring, Seeking, Synced, NextBlock, ReqBlocks, LastBlock, BlockOf
    <2>5. Counted'
      BY DEF Inv, vars, Counted, Flying
    <2> QED
      BY <2>1, <2>2, <2>3, <2>4, <2>5
  <1>2. Rings'
    <2>1. ASSUME NEW f \in Buffers PROVE Ring(f)'
      <3>1. Ring(f)
        BY DEF Inv, Rings
      <3>2. UNCHANGED <<ring, slot, bbn, task, flush_lock>>
        BY DEF vars
      <3> QED
        BY <3>1, <3>2 DEF Ring, At, Flushes, Taken, Synced, NextBlock, IsBuffered, BufferOf
    <2>2. ASSUME NEW u \in Tasks PROVE Flushed(u)'
      BY DEF Inv, vars, Rings, Flushed, At, Taken, IsBuffered, BufferOf
    <2>3. ASSUME NEW u \in Clients PROVE Placed(u)'
      BY DEF Inv, vars, Rings, Placed, Seeking, IsBuffered
    <2> QED
      BY <2>1, <2>2, <2>3 DEF Rings
  <1>3. Contents'
    <2>1. \A b : Filling(b)' <=> Filling(b)
      BY DEF vars, Filling, Fills
    <2>2. ASSUME NEW s \in Sectors PROVE GoodAt(s)'
      BY <2>1 DEF Inv, vars, Contents, GoodAt, Good, Visible, IsBuffered, BlockOf, BufferOf
    <2>3. ASSUME NEW u \in Tasks, NEW s \in Sectors PROVE CopiedAt(u, s)'
      BY DEF Inv, vars, Contents, CopiedAt, Visible, IsBuffered, BlockOf, BufferOf, Synced, NextBlock
    <2> QED
      BY <2>2, <2>3 DEF Contents
  <1>4. FuaStamps' /\ Pages' /\ FreshReads'
    BY DEF Inv, vars, FuaStamps, FuaStampsOf, Pages, Range1, Contiguous, FreshReads, BlockOf
  <1>5. Barriers'
    <2>1. ASSUME NEW u \in Clients PROVE BarriersOf(u)'
      BY DEF Inv, vars, Barriers, BarriersOf, Safe, Stored, Synced, NextBlock, BlockOf, BufferOf
    <2> QED
      BY <2>1 DEF Barriers
  <1> QED
    BY <1>1, <1>2, <1>3, <1>4, <1>5 DEF Inv

\* It holds initially.
LEMMA InvInit ==
  ASSUME Init
  PROVE  Inv
  <1>0. /\ Tasks = Clients \cup Buffers /\ Clients \cap Buffers = {} /\ Zeros \in [Sectors -> Nat]
        /\ 0 \in Positions /\ NumBlocks \in Nat \ {0} /\ Idle \in TaskType /\ 0 \in Buffers
    BY Consts, IdleType DEF Tasks
  <1>t. \A t \in Tasks : /\ task[t].pc = "idle" /\ task[t].req = NoRequest /\ task[t].todo = {} /\ ~task[t].fresh
                         /\ task[t].need = Zeros /\ task[t].stamps = Zeros /\ task[t].ok
                         /\ task[t].buf \in Buffers /\ (t \in Buffers => task[t].buf = t)
                         /\ task[t] \in TaskType
    <2>1. ASSUME NEW t \in Buffers PROVE [Idle EXCEPT !.buf = t] \in TaskType
      BY <1>0 DEF TaskType
    <2>2. ASSUME NEW t \in Tasks PROVE task[t] = IF t \in Buffers THEN [Idle EXCEPT !.buf = t] ELSE Idle
      BY DEF Init
    <2>3. ASSUME NEW t \in Tasks, t \in Buffers
          PROVE  /\ task[t].pc = "idle" /\ task[t].req = NoRequest /\ task[t].todo = {} /\ ~task[t].fresh
                 /\ task[t].need = Zeros /\ task[t].stamps = Zeros /\ task[t].ok
                 /\ task[t].buf = t /\ task[t] \in TaskType
      BY <2>1, <2>2, <2>3 DEF Idle
    <2>4. ASSUME NEW t \in Tasks, t \notin Buffers
          PROVE  /\ task[t].pc = "idle" /\ task[t].req = NoRequest /\ task[t].todo = {} /\ ~task[t].fresh
                 /\ task[t].need = Zeros /\ task[t].stamps = Zeros /\ task[t].ok
                 /\ task[t].buf = 0 /\ task[t] \in TaskType
      <3>1. task[t] = Idle
        BY <2>2, <2>4
      <3>2. task[t] \in TaskType
        BY <1>0, <3>1
      <3> QED
        BY <3>1, <3>2 DEF Idle
    <2> QED
      BY <2>3, <2>4, <1>0
  <1>1. Types
    <2>1. task \in [Tasks -> TaskType]
      <3>1. task = [t \in Tasks |-> IF t \in Buffers THEN [Idle EXCEPT !.buf = t] ELSE Idle]
        BY DEF Init
      <3> QED
        BY <3>1, <1>t
    <2>2. LockTypes
      BY DEF Init, LockTypes
    <2>3. slot \in [Buffers -> [Positions -> SlotType]]
      <3>1. [pbn |-> NoBlock, dirty |-> FALSE, data |-> [k \in 0 .. SPB - 1 |-> 0]] \in SlotType
        BY DEF SlotType
      <3> QED
        BY <3>1 DEF Init, Positions
    <2>4. ring \in [Buffers -> RingType]
      BY <1>0 DEF Init, RingType
    <2>5. /\ pm \in [Sectors -> Nat] /\ nvm \in [Sectors -> Nat] /\ latest \in [Sectors -> Nat] /\ done \in [Sectors -> Nat]
          /\ bbn \in [Blocks -> Positions \cup {Unbuffered}]
          /\ writable \subseteq Blocks /\ faults \subseteq Blocks
          /\ clock \in Nat /\ fua \subseteq 1 .. clock /\ requests \in 0 .. MaxRequests
      BY <1>0, Consts DEF Init
    <2> QED
      BY <2>1, <2>2, <2>3, <2>4, <2>5 DEF Types, DataTypes
  <1>2. Stamps
    <2>1. \A s \in Sectors : Zeros[s] = 0
      BY DEF Zeros
    <2>2. pm = Zeros /\ nvm = Zeros /\ latest = Zeros /\ done = Zeros /\ clock = 0
      BY DEF Init
    <2>3. ASSUME NEW f \in Buffers, NEW i \in Positions, NEW k \in 0 .. SPB - 1 PROVE slot[f][i].data[k] = 0
      BY DEF Init, Positions
    <2> QED
      BY <2>1, <2>2, <2>3, <1>t DEF Stamps
  <1>3. Control
    BY <1>t, <1>0 DEF Control, ControlOf, ClientControl, SyncerControl, Seeking, Carries, NoRequest, FlushPcs
  <1>4. Locks
    <2>1. ASSUME NEW t \in Tasks PROVE Held(t) = {} /\ ~Barring(t) /\ \A f : ~Flushes(t, f)
      BY <1>t DEF Held, Barring, Flushes, Seeking, NoRequest
    <2> QED
      BY <2>1, Consts DEF Init, Locks
  <1>5. Counted
    <2>1. {t \in Clients : Flying(t)} = {}
      BY <1>t, <1>0 DEF Flying, FlushPcs
    <2> QED
      BY <2>1, FS_EmptySet DEF Init, Counted
  <1>6. Rings
    <2>1. \A b \in Blocks : ~IsBuffered(b)
      BY Consts DEF Init, IsBuffered
    <2>2. ASSUME NEW f \in Buffers PROVE Ring(f)
      <3>1. ring[f].pos_dirty = 0 /\ ring[f].pos_clean = 0 /\ ring[f].num_dirty = 0
        BY DEF Init
      <3>2. At(f, 0) = 0
        BY <1>0, <3>1 DEF At
      <3> QED
        BY <2>1, <3>1, <3>2 DEF Ring
    <2>3. ASSUME NEW u \in Tasks PROVE Flushed(u)
      BY <1>t DEF Flushed
    <2>4. ASSUME NEW u \in Clients PROVE Placed(u)
      BY <1>0, <1>t DEF Placed, Seeking, FlushPcs
    <2> QED
      BY <2>2, <2>3, <2>4 DEF Rings
  <1>7. Contents
    <2>1. ASSUME NEW s \in Sectors PROVE GoodAt(s)
      <3>1. ~IsBuffered(BlockOf(s)) /\ pm[s] = 0 /\ latest[s] = 0
        BY SectorOfBlock, Consts DEF Init, IsBuffered, Zeros
      <3> QED
        BY <3>1 DEF GoodAt, Good, Visible
    <2>2. ASSUME NEW u \in Tasks, NEW s \in Sectors PROVE CopiedAt(u, s)
      BY <1>t DEF CopiedAt
    <2> QED
      BY <2>1, <2>2 DEF Contents
  <1>8. FuaStamps /\ Pages /\ Barriers /\ FreshReads
    <2>1. FuaStamps
      <3>1. late \subseteq fua
        BY DEF Init
      <3>2. \A t \in Clients : FuaStampsOf(t)
        BY <1>0, <1>t DEF FuaStampsOf, NoRequest
      <3> QED
        BY <3>1, <3>2 DEF FuaStamps
    <2>2. Pages
      BY <1>t DEF Pages, Init
    <2>3. Barriers
      BY <1>0, <1>t DEF Barriers, BarriersOf
    <2>4. FreshReads
      BY <1>0, <1>t DEF FreshReads
    <2> QED
      BY <2>1, <2>2, <2>3, <2>4
  <1> QED
    BY <1>1, <1>2, <1>3, <1>4, <1>5, <1>6, <1>7, <1>8 DEF Inv

-----------------------------------------------------------------------------
(***************************************************************************)
(* The theorems.                                                           *)
(***************************************************************************)
\* The inductive invariant.
THEOREM InvIsInvariant == Spec => []Inv
  <1>1. Inv /\ [Next]_vars => Inv'
    BY InvStep, InvStutter
  <1> QED
    BY InvInit, <1>1, PTL DEF Spec

\* Every variable keeps its type, the control info of a buffer stays in the ring, and no more
\* bios are in flight than there are contexts (pmbd.c:3677, 3746).
THEOREM TypesHold == Spec => []TypeOK
  <1>1. Inv => TypeOK
    <2> SUFFICES ASSUME Inv PROVE TypeOK
      OBVIOUS
    <2>0. Types /\ Stamps /\ Counted /\ FuaStamps
      BY DEF Inv
    <2>1. /\ pm \in [Sectors -> 0 .. clock] /\ nvm \in [Sectors -> 0 .. clock]
          /\ latest \in [Sectors -> 0 .. clock] /\ done \in [Sectors -> 0 .. clock]
      <3>1. \A s \in Sectors : /\ pm[s] \in 0 .. clock /\ nvm[s] \in 0 .. clock
                               /\ latest[s] \in 0 .. clock /\ done[s] \in 0 .. clock
        BY <2>0 DEF Types, DataTypes, Stamps
      <3> QED
        BY <2>0, <3>1 DEF Types, DataTypes
    <2>2. /\ bbn \in [Blocks -> 0 .. NumBlocks - 1 \cup {Unbuffered}]
          /\ writable \subseteq Blocks /\ fua \subseteq 1 .. clock /\ late \subseteq fua
          /\ requests \in 0 .. MaxRequests
      BY <2>0 DEF Types, DataTypes, Positions, FuaStamps
    <2>3. ASSUME NEW f \in Buffers
          PROVE  /\ ring[f].num_dirty \in 0 .. NumBlocks
                 /\ ring[f].pos_dirty \in 0 .. NumBlocks - 1
                 /\ ring[f].pos_clean \in 0 .. NumBlocks - 1
                 /\ \A i \in 0 .. NumBlocks - 1 : slot[f][i].pbn \in Blocks \cup {NoBlock}
      <3>1. ring[f] \in RingType
        BY <2>0 DEF Types, DataTypes
      <3>2. \A i \in Positions : slot[f][i].pbn \in Blocks \cup {NoBlock}
        BY <2>0, SlotFacts
      <3> QED
        BY <3>1, <3>2 DEF RingType, Positions
    <2>4. num_flying_wr \in 0 .. Cardinality(Clients)
      <3>1. /\ Cardinality({t \in Clients : Flying(t)}) \in Nat /\ Cardinality(Clients) \in Nat
            /\ Cardinality({t \in Clients : Flying(t)}) <= Cardinality(Clients)
        BY Consts, FS_Subset, FS_CardinalityType
      <3> QED
        BY <2>0, <3>1 DEF Counted
    <2>5. \A t \in Tasks : task[t].pc \in TaskPcs
      BY <2>0, TaskFields
    <2>6. /\ pbi_lock \in [Blocks -> Tasks \cup {Null}] /\ flush_lock \in [Buffers -> Tasks \cup {Null}]
          /\ wr_barrier_lock \in Clients \cup {Null}
      BY <2>0 DEF Types, LockTypes
    <2> QED
      BY <2>1, <2>2, <2>3, <2>4, <2>5, <2>6 DEF TypeOK
  <1> QED
    BY InvIsInvariant, <1>1, PTL

\* The panics of the scan and of the flush are unreachable (pmbd.c:1616-1622, 1780-1784), and
\* without FUA writes no copy goes to a write-protected page (1623).
THEOREM PanicsNever == Spec => []NoPanic
  <1>1. Inv => NoPanic
    BY DEF Inv, Control, ControlOf, Pages, NoPanic
  <1> QED
    BY InvIsInvariant, <1>1, PTL

\* When no one flushes, the dirty positions of a ring are those that blocks link to, each by
\* one (pmbd.c:1843-1850, 1959-1983).
THEOREM RingsAreLinked == Spec => []RingIsLinked
  <1>1. Inv => RingIsLinked
    <2> SUFFICES ASSUME Inv PROVE RingIsLinked
      OBVIOUS
    <2>0. Types /\ Locks /\ Rings
      BY DEF Inv
    <2>1. ASSUME NEW f \in Buffers, flush_lock[f] = Null
          PROVE  LET dirty == {(ring[f].pos_dirty + k) % NumBlocks : k \in 0 .. ring[f].num_dirty - 1} IN
                 /\ ring[f].pos_clean = (ring[f].pos_dirty + ring[f].num_dirty) % NumBlocks
                 /\ dirty = {bbn[b] : b \in {c \in Blocks : BufferOf(c) = f /\ IsBuffered(c)}}
                 /\ \A b \in Blocks : BufferOf(b) = f /\ IsBuffered(b) => slot[f][bbn[b]].pbn = b
      <3>1. \A t \in Tasks : ~Flushes(t, f)
        BY <2>0, <2>1, HeldApart
      <3>2. Ring(f)
        BY <2>0 DEF Rings
      <3>3. ASSUME NEW k \in 0 .. ring[f].num_dirty - 1
            PROVE  \E b \in Blocks : BufferOf(b) = f /\ IsBuffered(b) /\ bbn[b] = At(f, k)
        <4>1. PICK b \in Blocks : BufferOf(b) = f /\ bbn[b] = At(f, k)
          BY <3>1, <3>2 DEF Ring
        <4>2. At(f, k) \in Positions /\ NumBlocks \in Nat
          BY <2>0, RingPositions
        <4>3. IsBuffered(b)
          BY <4>1, <4>2 DEF IsBuffered, Positions
        <4> QED
          BY <4>1, <4>3
      <3>4. ASSUME NEW b \in Blocks, BufferOf(b) = f, IsBuffered(b)
            PROVE  slot[f][bbn[b]].pbn = b /\ \E k \in 0 .. ring[f].num_dirty - 1 : bbn[b] = At(f, k)
        BY <3>2, <3>4 DEF Ring
      <3>5. ring[f].pos_clean = At(f, ring[f].num_dirty)
        BY <3>2 DEF Ring
      <3>6. {At(f, k) : k \in 0 .. ring[f].num_dirty - 1} =
              {bbn[b] : b \in {c \in Blocks : BufferOf(c) = f /\ IsBuffered(c)}}
        BY <3>3, <3>4
      <3> QED
        BY <3>4, <3>5, <3>6 DEF At
    <2> QED
      BY <2>1 DEF RingIsLinked
  <1> QED
    BY InvIsInvariant, <1>1, PTL

\* Who locks a block finds the last write to each of its sectors, wherever it is, or the second
\* copy of a FUA write that had been replaced before it (pmbd.c:2126-2155, 1609-1693, 3438-3456).
THEOREM WritesAreKept == Spec => []NoLostWrite
  <1>1. Inv => NoLostWrite
    <2> SUFFICES ASSUME Inv, NEW s \in Sectors, pbi_lock[BlockOf(s)] = Null
                 PROVE  Visible(s) = latest[s] \/ Visible(s) \in late
      BY DEF NoLostWrite
    <2>1. 0 \in Tasks /\ ~Fills(0)
      BY Consts DEF Fills
    <2>2. Good(Visible(s), s)
      BY <2>1, HeldGood DEF Inv
    <2> QED
      BY <2>2 DEF Good
  <1> QED
    BY InvIsInvariant, <1>1, PTL

\* No read misses a write that had ended when the read was submitted, unless it finds the late
\* second copy of a FUA write (pmbd.c:2160-2217).
THEOREM ReadsAreFresh == Spec => []FreshReads
  <1>1. Inv => FreshReads
    BY DEF Inv
  <1> QED
    BY InvIsInvariant, <1>1, PTL

\* What had ended before a barrier survives a power failure behind it, whatever was written and
\* flushed meanwhile, and so does a FUA write that ends, unless the late second copy of a FUA
\* write has taken its place (pmbd.c:3548-3595, 3373-3408).
THEOREM BarriersAreDurable == Spec => []Durable
  <1>1. Inv => Durable
    BY DEF Inv, Barriers, BarriersOf, Durable, Safe, Stored
  <1> QED
    BY InvIsInvariant, <1>1, PTL

-----------------------------------------------------------------------------
(***************************************************************************)
(* The order of the spinlocks.                                             *)
(***************************************************************************)
\* A task that is not in the middle of locking the blocks of a FUA write.
Straight(t) == ~(task[t].pc = "fua_lock" /\ CrossesBorder(t))

\* A task waits only for one that is further down.
Rank(t) ==
  CASE task[t].pc \in {"gate", "barrier"} -> 4
    [] task[t].pc \in {"block", "fua_lock"} -> 3
    [] task[t].pc = "flush" -> 2
    [] task[t].pc = "range" -> 1
    [] OTHER -> 0

\* Who holds a block.
LEMMA HoldersOfBlocks ==
  ASSUME Types, Control, Locks, NEW u \in Tasks, Straight(u), NEW b \in Held(u)
  PROVE  \/ task[u].pc \in {"copy", "fua_write"}
         \/ Seeking(u) /\ b = task[u].b
         \/ task[u].pc = "range" /\ b \in Synced(u)
  <1> SUFFICES ASSUME task[u].pc = "fua_lock", b \in BlockOf(task[u].req.first) .. task[u].b - 1
               PROVE  FALSE
    BY DEF Held
  <1>1. u \in Clients
    BY DEF Control, ControlOf, SyncerControl, FlushPcs, Tasks
  <1>2. /\ Carries(u) /\ task[u].req.fua /\ task[u].b \in ReqBlocks(u)
    BY <1>1 DEF Control, ControlOf, ClientControl, Carries
  <1>3. BlockOf(task[u].req.first) = LastBlock(u) /\ LastBlock(u) \in Nat
    <2>1. BlockOf(task[u].req.first) <= LastBlock(u)
      BY <1>1, <1>2, BioBlocks, BlockOfMonotone DEF Control, ControlOf, ClientControl, LastBlock
    <2>2. ~(BlockOf(task[u].req.first) < LastBlock(u))
      BY <1>2 DEF Straight, CrossesBorder
    <2>3. LastBlock(u) \in Blocks /\ BlockOf(task[u].req.first) \in Blocks
      BY <1>1, <1>2, BioBlocks DEF LastBlock
    <2>4. LastBlock(u) \in Nat /\ BlockOf(task[u].req.first) \in Nat
      BY <2>3, BlockNumbers
    <2> QED
      BY <2>1, <2>2, <2>4
  <1>4. task[u].b \in LastBlock(u) .. LastBlock(u)
    BY <1>1, <1>2, <1>3, BioBlocks
  <1> QED
    BY <1>3, <1>4

\* Who waits for a spinlock waits for someone further down.
LEMMA WaitsGoDown ==
  ASSUME Types, Control, Locks, Rings, NEW t \in Tasks, Holder(t) \in Tasks, Straight(Holder(t))
  PROVE  Rank(Holder(t)) < Rank(t)
  <1>0. PICK u \in Tasks : u = Holder(t)
    OBVIOUS
  <1>n. Null \notin Tasks /\ task[t].b \in Nat /\ task[t].buf \in Buffers
    BY Consts, TaskFields
  <1>r. Rank(u) \in 0 .. 4
    BY DEF Rank
  <1>1. CASE task[t].pc \in {"block", "fua_lock"}
    <2>1. pbi_lock[task[t].b] = u
      BY <1>0, <1>1 DEF Holder
    <2>2. task[t].b \in Blocks
      <3>1. t \in Clients
        BY <1>1 DEF Control, ControlOf, SyncerControl, FlushPcs, Tasks
      <3>2. Carries(t) /\ task[t].b \in ReqBlocks(t)
        BY <1>1, <3>1 DEF Control, ControlOf, ClientControl, Carries
      <3> QED
        BY <3>1, <3>2, BioBlocks
    <2>3. task[t].b \in Held(u)
      BY <2>1, <2>2 DEF Locks
    <2>4. task[u].pc \in {"copy", "fua_write", "alloc", "range"} \cup FlushPcs
      BY <1>0, <2>3, HoldersOfBlocks DEF Seeking
    <2>5. Rank(u) <= 2
      BY <2>4 DEF Rank, FlushPcs
    <2>6. Rank(t) = 3
      BY <1>1 DEF Rank
    <2> QED
      BY <1>0, <1>r, <2>5, <2>6
  <1>2. CASE task[t].pc = "range"
    <2>1. NextBlock(t) \in Range1(t) /\ pbi_lock[NextBlock(t)] = u
      BY <1>0, <1>2, <1>n DEF Holder
    <2>2. PICK b \in Blocks : b = NextBlock(t)
      BY <1>2, <2>1, SequenceNext, SequenceFacts
    <2>3. b \in task[t].todo /\ b \notin Synced(t)
      BY <1>2, <2>1, <2>2, SequenceNext, SequenceFacts
    <2>4. IsBuffered(b) /\ BufferOf(b) = task[t].buf
      BY <1>2, <2>3 DEF Rings, Flushed
    <2>5. b \in Held(u)
      BY <2>1, <2>2 DEF Locks
    <2>6. ASSUME Seeking(u), b = task[u].b PROVE FALSE
      BY <2>4, <2>6 DEF Seeking, Rings, Placed
    <2>7. ASSUME task[u].pc = "range", b \in Synced(u) PROVE FALSE
      <3>1. Flushes(u, BufferOf(b)) /\ Flushes(t, BufferOf(b))
        BY <1>2, <2>4, <2>7, SyncedFlushes DEF Flushes
      <3>2. u = t
        BY <3>1, BufferOfBlock, HeldApart
      <3> QED
        BY <2>3, <2>7, <3>2
    <2>8. task[u].pc \in {"copy", "fua_write"}
      BY <1>0, <2>5, <2>6, <2>7, HoldersOfBlocks
    <2>9. Rank(u) = 0 /\ Rank(t) = 1
      BY <1>2, <2>8 DEF Rank
    <2> QED
      BY <1>0, <2>9
  <1>3. CASE task[t].pc = "flush"
    <2>1. flush_lock[task[t].buf] = u
      BY <1>0, <1>3 DEF Holder
    <2>2. task[u].pc \in {"range", "cleaned"}
      BY <1>n, <2>1 DEF Locks, Flushes
    <2>3. Rank(u) <= 1 /\ Rank(t) = 2
      BY <1>3, <2>2 DEF Rank
    <2> QED
      BY <1>0, <1>r, <2>3
  <1>4. CASE task[t].pc \in {"gate", "barrier"}
    <2>1. wr_barrier_lock = u
      BY <1>0, <1>4 DEF Holder
    <2>2. u \in Clients
      BY <1>n, <2>1 DEF Types, LockTypes
    <2>3. task[u].pc \in {"drain", "flush", "range", "cleaned", "sync", "synced"}
      BY <2>1, <2>2 DEF Locks, Barring
    <2>4. Rank(u) <= 2 /\ Rank(t) = 4
      BY <1>4, <2>3 DEF Rank
    <2> QED
      BY <1>0, <1>r, <2>4
  <1>5. CASE task[t].pc \notin {"block", "fua_lock", "range", "flush", "gate", "barrier"}
    BY <1>5, <1>n DEF Holder
  <1> QED
    BY <1>1, <1>2, <1>3, <1>4, <1>5

\* There is an order in which the spinlocks are waited for (pmbd.c:1636): barrier, blocks, flush
\* lock, blocks of a flush in progress.  Only a FUA write that crosses the border of a block
\* leaves it, by waiting for a block while it holds one (3347): it is in every circle.
THEOREM SpinlocksAreOrdered == Spec => []NoCircularWait
  <1>1. Inv => NoCircularWait
    <2> SUFFICES ASSUME Inv, NEW S \in SUBSET Tasks, Circle(S), \A t \in S : Straight(t) PROVE FALSE
      BY DEF NoCircularWait, ClosedByFua, Straight
    <2>1. {Rank(t) : t \in S} \subseteq Nat /\ {Rank(t) : t \in S} # {}
      BY DEF Rank, Circle
    <2>2. PICK t \in S : \A u \in S : Rank(t) <= Rank(u)
      <3>1. /\ Min({Rank(t) : t \in S}) \in {Rank(t) : t \in S}
            /\ \A x \in {Rank(t) : t \in S} : Min({Rank(t) : t \in S}) <= x
        BY <2>1, LeastOf
      <3> QED
        BY <3>1
    <2>3. Holder(t) \in S /\ Holder(t) \in Tasks
      BY DEF Circle
    <2>4. Rank(Holder(t)) < Rank(t)
      BY <2>3, WaitsGoDown DEF Inv
    <2>5. Rank(t) <= Rank(Holder(t)) /\ Rank(t) \in Nat /\ Rank(Holder(t)) \in Nat
      BY <2>1, <2>2, <2>3
    <2> QED
      BY <2>4, <2>5
  <1> QED
    BY InvIsInvariant, <1>1, PTL
=============================================================================
