-------------------------------- MODULE Pmbd --------------------------------
(***************************************************************************)
(* The persistent memory block driver, code/nvm-ref/pmbd/pmbd.c, with its  *)
(* DRAM buffers: writes go to a buffer, a ring of blocks of which the      *)
(* dirty ones are contiguous; the syncer of a buffer, a writer that finds  *)
(* it full and a write barrier flush it to the PM.                         *)
(*                                                                         *)
(* A spinlock that is held across several steps is a variable (the lock of *)
(* a PM block, flush_lock, wr_barrier_lock).  What runs under buffer_lock  *)
(* never waits and is one step.  The copies of a block are one step: they  *)
(* run under the lock of the block.                                        *)
(***************************************************************************)
EXTENDS Integers, FiniteSetsExt

CONSTANTS
  Clients,      \* contexts that submit bios
  Blocks,       \* 0 .. n - 1, the blocks of the PM
  SPB,          \* sectors of a block
  NumBuffers,   \* buffers of the device
  Stride,       \* consecutive blocks that share a buffer
  NumBlocks,    \* blocks of a buffer
  BatchSize,    \* blocks a syncer or a writer flushes at a time
  Requests,     \* client -> bios: [op : {"read", "write", "flush"}, first, last, fua]; sectors
  MaxRequests,  \* bound: bios ever submitted
  FlushEach,    \* non-temporal stores or clflush: the PM is written at once
  Null

Buffers == 0 .. NumBuffers - 1
Tasks == Clients \cup Buffers            \* the syncer of buffer i is task i
Sectors == 0 .. SPB * Cardinality(Blocks) - 1
Unbuffered == Cardinality(Blocks) + 3    \* PMBD_SET_BLOCK_UNBUFFERED
NoBlock == Cardinality(Blocks) + 2       \* PMBD_SET_BBI_UNBUFFERED

ASSUME PmbdAssumption ==
  /\ IsFiniteSet(Blocks) /\ Blocks # {} /\ Blocks = 0 .. Cardinality(Blocks) - 1
  /\ IsFiniteSet(Clients) /\ Clients \cap Buffers = {} /\ Null \notin Tasks
  /\ {SPB, NumBuffers, Stride} \subseteq Nat \ {0} /\ {BatchSize, MaxRequests} \subseteq Nat
  /\ NumBlocks \in 1 .. Cardinality(Blocks) + 3     \* else Unbuffered names a buffer block
  /\ FlushEach \in BOOLEAN

\* A bio has its type; one that carries data lies in the device, and only writes have FUA.
ASSUME RequestsAssumption ==
  \A t \in Clients : \A r \in Requests[t] :
    /\ r \in [op : {"read", "write", "flush"}, first : Nat, last : Int, fua : BOOLEAN]
    /\ r.op # "flush" => {r.first, r.last} \subseteq Sectors /\ r.first <= r.last
    /\ r.fua => r.op = "write"

VARIABLES
  pm,        \* PM as the CPUs see it: sector -> stamp of the copy that wrote it
  nvm,       \* what a power failure leaves of it
  slot,      \* buffer, bbn -> [pbn, dirty, data]
  ring,      \* buffer -> [num_dirty, pos_dirty, pos_clean]
  bbn,       \* PM block -> its buffer block or Unbuffered
  pbi_lock, flush_lock, wr_barrier_lock,   \* holders
  num_flying_wr,
  writable,  \* PM pages that are not write-protected
  task,      \* what each task does
  clock,     \* stamps given out
  latest,    \* sector -> stamp of the last write copied for the readers to see
  done,      \* sector -> newest stamp of the writes that have ended
  fua,       \* stamps of FUA writes
  late,      \* those whose second copy came after another write to the sector
  faults,    \* blocks copied to while write-protected
  requests   \* bios submitted

vars == <<pm, nvm, slot, ring, bbn, pbi_lock, flush_lock, wr_barrier_lock, num_flying_wr,
          writable, task, clock, latest, done, fua, late, faults, requests>>
device == <<pm, nvm, slot, ring, bbn, writable, faults>>
history == <<clock, latest, done, fua, late, requests>>

Zeros == [s \in Sectors |-> 0]
NoRequest == [op |-> "none", first |-> 0, last |-> -1, fua |-> FALSE]
Idle == [pc |-> "idle", req |-> NoRequest, b |-> 0, fresh |-> FALSE, buf |-> 0, todo |-> {},
         synced |-> 0, cleaned |-> 0, need |-> Zeros, stamps |-> Zeros, ok |-> TRUE]

BufferOf(b) == (b \div Stride) % NumBuffers       \* PBN_TO_PMBD_BUFFER_ID
BlockOf(s) == s \div SPB
Sect(b) == b * SPB .. b * SPB + SPB - 1
IsBuffered(b) == bbn[b] < NumBlocks               \* PMBD_BLOCK_IS_BUFFERED
NextPos(i) == IF i = NumBlocks - 1 THEN 0 ELSE i + 1
IsFull(f) == ring[f].num_dirty >= NumBlocks
IsEmpty(f) == ring[f].num_dirty = 0
AboveHW(f) == 10 * ring[f].num_dirty >= 7 * NumBlocks
AboveLW(f) == 10 * ring[f].num_dirty >= NumBlocks

\* The sectors of block b that the request of t covers.
Part(t) == Sect(task[t].b) \cap (task[t].req.first .. task[t].req.last)
LastBlock(t) == BlockOf(task[t].req.last)
ReqBlocks(t) == BlockOf(task[t].req.first) .. LastBlock(t)

\* The first sequence of contiguous blocks, by number, of a set of blocks.
Contiguous(todo) == {b \in todo : \A c \in todo : c .. b \subseteq todo}
Range1(t) == Contiguous(task[t].todo)

\* The block of the sequence that the flush locks next.
NextBlock(t) == Min(task[t].todo) + task[t].synced

Goto(t, pc) == task' = [task EXCEPT ![t].pc = pc]

Init ==
  /\ pm = Zeros /\ nvm = Zeros
  /\ slot = [f \in Buffers |-> [i \in 0 .. NumBlocks - 1 |->
               [pbn |-> NoBlock, dirty |-> FALSE, data |-> [k \in 0 .. SPB - 1 |-> 0]]]]
  /\ ring = [f \in Buffers |-> [num_dirty |-> 0, pos_dirty |-> 0, pos_clean |-> 0]]
  /\ bbn = [b \in Blocks |-> Unbuffered]
  /\ pbi_lock = [b \in Blocks |-> Null] /\ flush_lock = [f \in Buffers |-> Null]
  /\ wr_barrier_lock = Null /\ num_flying_wr = 0
  /\ writable = {} /\ faults = {}
  /\ task = [t \in Tasks |-> IF t \in Buffers THEN [Idle EXCEPT !.buf = t] ELSE Idle]
  /\ clock = 0 /\ latest = Zeros /\ done = Zeros /\ fua = {} /\ late = {} /\ requests = 0

-----------------------------------------------------------------------------
(***************************************************************************)
(* pmbd_make_request.  A flush bio that carries data as well (3645) is not *)
(* modelled.                                                               *)
(***************************************************************************)
Submit(t, r) ==
  /\ task[t].pc = "idle" /\ requests < MaxRequests
  /\ requests' = requests + 1
  /\ task' = [task EXCEPT ![t] = [Idle EXCEPT
       !.pc = CASE r.op = "flush" -> "barrier" [] r.op = "write" -> "gate" [] OTHER -> "enter",
       !.req = r, !.b = BlockOf(r.first), !.need = done]]
  /\ UNCHANGED <<device, pbi_lock, flush_lock, wr_barrier_lock, num_flying_wr,
                 clock, latest, done, fua, late>>

\* A write waits for the barrier in progress; the lock is released again at once.
Gate(t) ==
  /\ task[t].pc = "gate" /\ wr_barrier_lock = Null
  /\ Goto(t, "enter")
  /\ UNCHANGED <<device, pbi_lock, flush_lock, wr_barrier_lock, num_flying_wr, history>>

\* Reads count as well; a bio without sectors is done.
Enter(t) ==
  /\ task[t].pc = "enter"
  /\ num_flying_wr' = num_flying_wr + 1
  /\ Goto(t, IF task[t].req.op = "flush" THEN "end" ELSE "block")
  /\ UNCHANGED <<device, pbi_lock, flush_lock, wr_barrier_lock, history>>

\* bio_endio.
End(t) ==
  /\ task[t].pc = "end"
  /\ num_flying_wr' = num_flying_wr - 1
  /\ done' = [s \in Sectors |-> Max({done[s], task[t].stamps[s]})]
  /\ task' = [task EXCEPT ![t] = Idle]
  /\ UNCHANGED <<device, pbi_lock, flush_lock, wr_barrier_lock, clock, latest, fua, late,
                 requests>>

-----------------------------------------------------------------------------
(***************************************************************************)
(* copy_to_pmbd_buffered, copy_from_pmbd_buffered.                         *)
(***************************************************************************)
\* The lock of the block, and _pmbd_buffer_lookup under it.
LockBlock(t) ==
  LET b == task[t].b
      new == task[t].req.op = "write" /\ ~IsBuffered(b) IN
  /\ task[t].pc = "block" /\ pbi_lock[b] = Null
  /\ pbi_lock' = [pbi_lock EXCEPT ![b] = t]
  /\ task' = [task EXCEPT ![t].pc = IF new THEN "alloc" ELSE "copy", ![t].fresh = new]
  /\ UNCHANGED <<device, flush_lock, wr_barrier_lock, num_flying_wr, history>>

\* pmbd_buffer_alloc_block, with a free buffer block: it is marked dirty and linked
\* before it holds data.
LinkedClean(f, pos, b) == [slot EXCEPT ![f][pos].pbn = b]
Linked(f, pos, b) == [slot EXCEPT ![f][pos].pbn = b, ![f][pos].dirty = TRUE]

Alloc(t) ==
  LET b == task[t].b
      f == BufferOf(b)
      pos == ring[f].pos_clean IN
  /\ task[t].pc = "alloc" /\ ~IsFull(f)
  /\ ring' = [ring EXCEPT ![f].pos_clean = NextPos(pos),
                          ![f].num_dirty = ring[f].num_dirty + 1]
  /\ slot' = Linked(f, pos, b)
  /\ bbn' = [bbn EXCEPT ![b] = pos]
  /\ Goto(t, "copy")
  /\ UNCHANGED <<pm, nvm, writable, faults, pbi_lock, flush_lock, wr_barrier_lock,
                 num_flying_wr, history>>

\* Without one the writer flushes a batch itself, still holding the block.
AllocFull(t) ==
  /\ task[t].pc = "alloc" /\ IsFull(BufferOf(task[t].b))
  /\ task' = [task EXCEPT ![t].pc = "check", ![t].buf = BufferOf(task[t].b)]
  /\ UNCHANGED <<device, pbi_lock, flush_lock, wr_barrier_lock, num_flying_wr, history>>

\* What follows a block: the next one, the second copy of a FUA write, the end.  A bio is
\* one range of sectors: that one of several segments does both copies of a FUA write
\* segment by segment (3725) is left out.
After(t) ==
  IF task[t].b < LastBlock(t) THEN [task[t] EXCEPT !.pc = "block", !.b = @ + 1]
  ELSE IF task[t].req.fua
    THEN [task[t] EXCEPT !.pc = "fua_lock", !.b = BlockOf(task[t].req.first)]
  ELSE [task[t] EXCEPT !.pc = "end"]

\* What is in the buffer block: a new one of which only a part is written gets the
\* PM block first.
OldNotRead(t) == slot[BufferOf(task[t].b)][bbn[task[t].b]].data
Old(t) ==
  LET b == task[t].b IN
  IF task[t].fresh /\ Part(t) # Sect(b) THEN [k \in 0 .. SPB - 1 |-> pm[b * SPB + k]]
  ELSE slot[BufferOf(b)][bbn[b]].data

UnlockAtEnd(t) ==
  IF task[t].b < LastBlock(t) THEN pbi_lock
  ELSE [b \in Blocks |-> IF pbi_lock[b] = t THEN Null ELSE pbi_lock[b]]
Unlock(t) == [pbi_lock EXCEPT ![task[t].b] = Null]

\* The copy into the buffer block.
CopyTo(t) ==
  LET b == task[t].b
      f == BufferOf(b) IN
  /\ task[t].pc = "copy" /\ task[t].req.op = "write"
  /\ clock' = clock + 1
  /\ slot' = [slot EXCEPT ![f][bbn[b]].dirty = TRUE,
                          ![f][bbn[b]].data = [k \in 0 .. SPB - 1 |->
                             IF b * SPB + k \in Part(t) THEN clock' ELSE Old(t)[k]]]
  /\ latest' = [s \in Sectors |-> IF s \in Part(t) THEN clock' ELSE latest[s]]
  /\ fua' = IF task[t].req.fua THEN fua \cup {clock'} ELSE fua
  /\ pbi_lock' = Unlock(t)
  /\ task' = [task EXCEPT ![t] = [After(t) EXCEPT
       !.stamps = [s \in Sectors |-> IF s \in Part(t) THEN clock' ELSE @[s]]]]
  /\ UNCHANGED <<pm, nvm, ring, bbn, writable, faults, flush_lock, wr_barrier_lock,
                 num_flying_wr, done, late, requests>>

\* What a reader finds in sector s.
VisibleInPm(s) == pm[s]
Visible(s) ==
  LET b == BlockOf(s) IN
  IF IsBuffered(b) THEN slot[BufferOf(b)][bbn[b]].data[s - b * SPB] ELSE pm[s]

CopyFrom(t) ==
  /\ task[t].pc = "copy" /\ task[t].req.op = "read"
  /\ pbi_lock' = Unlock(t)
  /\ task' = [task EXCEPT ![t] = [After(t) EXCEPT
       !.ok = @ /\ \A s \in Part(t) : Visible(s) >= task[t].need[s] \/ Visible(s) \in late]]
  /\ UNCHANGED <<device, flush_lock, wr_barrier_lock, num_flying_wr, history>>

-----------------------------------------------------------------------------
(***************************************************************************)
(* copy_to_pmbd_unbuffered, the second copy of a FUA write.                *)
(***************************************************************************)
\* pmbd_lock_on_access: the locks of all blocks, one after the other; then the
\* pages are made writable.
FuaLock(t) ==
  LET b == task[t].b IN
  /\ task[t].pc = "fua_lock" /\ pbi_lock[b] = Null
  /\ pbi_lock' = [pbi_lock EXCEPT ![b] = t]
  /\ writable' = IF b = LastBlock(t) THEN writable \cup ReqBlocks(t) ELSE writable
  /\ task' = [task EXCEPT ![t].pc = IF b = LastBlock(t) THEN "fua_write" ELSE @,
                          ![t].b = IF b = LastBlock(t) THEN b ELSE b + 1]
  /\ UNCHANGED <<pm, nvm, slot, ring, bbn, faults, flush_lock, wr_barrier_lock,
                 num_flying_wr, history>>

\* The stamps of a FUA write that other writes have replaced before its second copy.
Replaced(t) ==
  {task[t].stamps[s] : s \in {x \in task[t].req.first .. task[t].req.last : task[t].stamps[x] # latest[x]}}

\* memcpy_to_pmbd with do_fua reaches the PM; the pages become read-only again.
FuaWrite(t) ==
  LET S == task[t].req.first .. task[t].req.last IN
  /\ task[t].pc = "fua_write"
  /\ pm' = [s \in Sectors |-> IF s \in S THEN task[t].stamps[s] ELSE pm[s]]
  /\ nvm' = [s \in Sectors |-> IF s \in S THEN task[t].stamps[s] ELSE nvm[s]]
  /\ faults' = faults \cup (ReqBlocks(t) \ writable)
  /\ writable' = writable \ ReqBlocks(t)
  /\ pbi_lock' = [b \in Blocks |-> IF b \in ReqBlocks(t) THEN Null ELSE pbi_lock[b]]
  /\ late' = late \cup Replaced(t)
  /\ Goto(t, "end")
  /\ UNCHANGED <<slot, ring, bbn, flush_lock, wr_barrier_lock, num_flying_wr, clock, latest, done,
                 fua, requests>>

-----------------------------------------------------------------------------
(***************************************************************************)
(* pmbd_buffer_check_and_flush, pmbd_buffer_flush.                         *)
(***************************************************************************)
\* Where the caller goes on: the syncer repeats above the low watermark, the writer
\* tries again, the barrier takes the next buffer.
Return(t, dirty) ==
  IF t \in Buffers
  THEN [Idle EXCEPT !.buf = t, !.pc = IF 10 * dirty >= NumBlocks THEN "check" ELSE "idle"]
  ELSE IF task[t].req.op = "write" THEN [task[t] EXCEPT !.pc = "alloc"]
  ELSE IF task[t].buf < NumBuffers - 1 THEN [task[t] EXCEPT !.pc = "flush", !.buf = @ + 1]
  ELSE [task[t] EXCEPT !.pc = "sync"]

\* The writer finds that a block has become free, the syncer that the buffer is
\* empty; the barrier does not check.
Check(t) ==
  LET f == task[t].buf
      useless == IF t \in Buffers THEN IsEmpty(f) ELSE ~IsFull(f) IN
  /\ task[t].pc = "check"
  /\ task' = [task EXCEPT ![t] = IF useless THEN Return(t, ring[f].num_dirty)
                                 ELSE [@ EXCEPT !.pc = "flush"]]
  /\ UNCHANGED <<device, pbi_lock, flush_lock, wr_barrier_lock, num_flying_wr, history>>

\* The dirty blocks from pos_dirty on, at most num of them.  They are taken by block number:
\* the code sorts them where it protects pages by their PTEs (PMBD_DEV_USE_WPMODE_PTE), the
\* one mode modelled.
Scanned(f, num) == IF num > ring[f].num_dirty THEN ring[f].num_dirty ELSE num
Scan(f, num) ==
  {slot[f][(ring[f].pos_dirty + k) % NumBlocks].pbn : k \in 0 .. Scanned(f, num) - 1}

\* The barrier cleans the whole buffer, the others a batch.
NumToCleanButOne(t) ==
  IF t \in Clients /\ task[t].req.op = "flush" THEN NumBlocks - 1 ELSE BatchSize
NumToClean(t) == IF t \in Clients /\ task[t].req.op = "flush" THEN NumBlocks ELSE BatchSize

\* The panic of the scan.
FoundClean(f, num) ==
  \E k \in 0 .. Scanned(f, num) - 1 :
    ~slot[f][(ring[f].pos_dirty + k) % NumBlocks].dirty

\* flush_lock, and the scan under buffer_lock; the first sequence is made writable.
Flush(t) ==
  LET f == task[t].buf
      num == NumToClean(t)
      todo == Scan(f, num) IN
  /\ task[t].pc = "flush" /\ flush_lock[f] = Null
  /\ IF IsEmpty(f) \/ num = 0
     THEN /\ task' = [task EXCEPT ![t] = Return(t, ring[f].num_dirty)]
          /\ UNCHANGED <<flush_lock, writable>>
     ELSE IF FoundClean(f, num) THEN Goto(t, "panic") /\ UNCHANGED <<flush_lock, writable>>
     ELSE /\ flush_lock' = [flush_lock EXCEPT ![f] = t]
          /\ writable' = writable \cup Contiguous(todo)
          /\ task' = [task EXCEPT ![t].pc = "range", ![t].todo = todo, ![t].synced = 0,
                                  ![t].cleaned = 0]
  /\ UNCHANGED <<pm, nvm, slot, ring, bbn, faults, pbi_lock, wr_barrier_lock, num_flying_wr, history>>

\* _pmbd_buffer_flush_range: each block of the sequence is locked and copied.
SyncBlock(t) ==
  LET f == task[t].buf
      b == NextBlock(t)
      i == bbn[b]
      S == IF IsBuffered(b) /\ slot[f][i].dirty THEN Sect(b) ELSE {} IN
  /\ task[t].pc = "range" /\ b \in Range1(t) /\ pbi_lock[b] = Null
  /\ pbi_lock' = [pbi_lock EXCEPT ![b] = t]
  /\ pm' = [s \in Sectors |-> IF s \in S THEN slot[f][i].data[s - b * SPB] ELSE pm[s]]
  /\ nvm' = IF FlushEach THEN [s \in Sectors |-> IF s \in S THEN pm'[s] ELSE nvm[s]] ELSE nvm
  /\ slot' = IF IsBuffered(b) THEN [slot EXCEPT ![f][i].dirty = FALSE] ELSE slot
  /\ faults' = IF S = {} THEN faults ELSE faults \cup ({b} \ writable)
  /\ task' = [task EXCEPT ![t].synced = @ + 1, ![t].pc = IF IsBuffered(b) THEN @ ELSE "panic"]
  /\ UNCHANGED <<ring, bbn, writable, flush_lock, wr_barrier_lock, num_flying_wr, history>>

\* Behind the last one the pages become read-only, and the blocks are unlinked and
\* unlocked.  The next sequence, if any, is made writable.
UnlinkRange(t) ==
  LET f == task[t].buf
      blocks == Range1(t)
      rest == task[t].todo \ blocks IN
  /\ task[t].pc = "range" /\ NextBlock(t) \notin blocks
  /\ slot' = [slot EXCEPT ![f] = [i \in DOMAIN @ |->
       IF \E b \in blocks : bbn[b] = i THEN [@[i] EXCEPT !.pbn = NoBlock] ELSE @[i]]]
  /\ bbn' = [b \in Blocks |-> IF b \in blocks THEN Unbuffered ELSE bbn[b]]
  /\ pbi_lock' = [b \in Blocks |-> IF b \in blocks THEN Null ELSE pbi_lock[b]]
  /\ writable' = (writable \ blocks) \cup Contiguous(rest)
  /\ task' = [task EXCEPT ![t].todo = rest, ![t].synced = 0,
                          ![t].cleaned = @ + Cardinality(blocks),
                          ![t].pc = IF rest = {} THEN "cleaned" ELSE @]
  /\ UNCHANGED <<pm, nvm, ring, faults, flush_lock, wr_barrier_lock, num_flying_wr, history>>

\* pos_dirty behind the blocks that have been cleaned.
PosDirtyNoWrap(f, n) == ring[f].pos_dirty + n
PosDirtyAll(f, n) == ring[f].pos_clean
PosDirty(f, n) == (ring[f].pos_dirty + n) % NumBlocks

\* The control info of the buffer is brought up to date.
Cleaned(t) ==
  LET f == task[t].buf
      n == task[t].cleaned IN
  /\ task[t].pc = "cleaned"
  /\ ring' = [ring EXCEPT ![f].pos_dirty = PosDirty(f, n),
                          ![f].num_dirty = ring[f].num_dirty - n]
  /\ flush_lock' = [flush_lock EXCEPT ![f] = Null]
  /\ task' = [task EXCEPT ![t] = Return(t, ring[f].num_dirty - n)]
  /\ UNCHANGED <<pm, nvm, slot, bbn, writable, faults, pbi_lock, wr_barrier_lock,
                 num_flying_wr, history>>

-----------------------------------------------------------------------------
(***************************************************************************)
(* pmbd_write_barrier.                                                     *)
(***************************************************************************)
TakeBarrier(t) ==
  /\ task[t].pc = "barrier" /\ wr_barrier_lock = Null
  /\ wr_barrier_lock' = t
  /\ Goto(t, "drain")
  /\ UNCHANGED <<device, pbi_lock, flush_lock, num_flying_wr, history>>

Drain(t) ==
  /\ task[t].pc = "drain" /\ num_flying_wr = 0
  /\ task' = [task EXCEPT ![t].pc = "flush", ![t].buf = 0]
  /\ UNCHANGED <<device, pbi_lock, flush_lock, wr_barrier_lock, num_flying_wr, history>>

\* pmbd_clflush_all, where the stores are not flushed one by one.
SyncCaches(t) ==
  /\ task[t].pc = "sync"
  /\ nvm' = pm
  /\ Goto(t, "synced")
  /\ UNCHANGED <<pm, slot, ring, bbn, writable, faults, pbi_lock, flush_lock, wr_barrier_lock,
                 num_flying_wr, history>>

ReleaseBarrierNot(t) ==
  /\ task[t].pc = "synced"
  /\ Goto(t, "gate")
  /\ UNCHANGED <<device, pbi_lock, flush_lock, wr_barrier_lock, num_flying_wr, history>>
ReleaseBarrier(t) ==
  /\ task[t].pc = "synced"
  /\ wr_barrier_lock' = Null
  /\ Goto(t, "gate")
  /\ UNCHANGED <<device, pbi_lock, flush_lock, num_flying_wr, history>>

-----------------------------------------------------------------------------
(***************************************************************************)
(* pmbd_syncer_worker: above the high watermark, or above the low one if   *)
(* the device has been idle.                                               *)
(***************************************************************************)
StartSync(f) ==
  /\ task[f].pc = "idle" /\ AboveHW(f)
  /\ Goto(f, "check")
  /\ UNCHANGED <<device, pbi_lock, flush_lock, wr_barrier_lock, num_flying_wr, history>>

StartIdleSync(f) ==
  /\ task[f].pc = "idle" /\ AboveLW(f)
  /\ Goto(f, "check")
  /\ UNCHANGED <<device, pbi_lock, flush_lock, wr_barrier_lock, num_flying_wr, history>>

-----------------------------------------------------------------------------
Bio(t) ==
  \/ Gate(t) \/ Enter(t) \/ End(t)
  \/ LockBlock(t) \/ Alloc(t) \/ AllocFull(t) \/ CopyTo(t) \/ CopyFrom(t)
  \/ FuaLock(t) \/ FuaWrite(t)
  \/ TakeBarrier(t) \/ Drain(t) \/ SyncCaches(t) \/ ReleaseBarrier(t)

Flushing(t) == Check(t) \/ Flush(t) \/ SyncBlock(t) \/ UnlinkRange(t) \/ Cleaned(t)

Next ==
  \/ \E t \in Clients : Bio(t) \/ \E r \in Requests[t] : Submit(t, r)
  \/ \E t \in Tasks : Flushing(t)
  \/ \E f \in Buffers : StartSync(f) \/ StartIdleSync(f)

\* Every context keeps running, and the syncer wakes up.
Fairness ==
  /\ \A t \in Clients : WF_vars(Bio(t))
  /\ \A t \in Tasks : WF_vars(Flushing(t))
  /\ \A f \in Buffers : WF_vars(StartSync(f))

Spec == Init /\ [][Next]_vars /\ Fairness
-----------------------------------------------------------------------------
(***************************************************************************)
(* Properties.                                                             *)
(***************************************************************************)
TaskPcs == {"idle", "barrier", "gate", "enter", "block", "alloc", "copy", "fua_lock", "fua_write",
            "check", "flush", "range", "cleaned", "drain", "sync", "synced", "end", "panic"}

\* Every variable has its type; the control info of a buffer stays in the ring.
TypeOK ==
  /\ pm \in [Sectors -> 0 .. clock] /\ nvm \in [Sectors -> 0 .. clock]
  /\ latest \in [Sectors -> 0 .. clock] /\ done \in [Sectors -> 0 .. clock]
  /\ bbn \in [Blocks -> 0 .. NumBlocks - 1 \cup {Unbuffered}]
  /\ \A f \in Buffers : /\ ring[f].num_dirty \in 0 .. NumBlocks
                         /\ ring[f].pos_dirty \in 0 .. NumBlocks - 1
                         /\ ring[f].pos_clean \in 0 .. NumBlocks - 1
                         /\ \A i \in 0 .. NumBlocks - 1 : slot[f][i].pbn \in Blocks \cup {NoBlock}
  /\ pbi_lock \in [Blocks -> Tasks \cup {Null}] /\ flush_lock \in [Buffers -> Tasks \cup {Null}]
  /\ wr_barrier_lock \in Clients \cup {Null} /\ num_flying_wr \in 0 .. Cardinality(Clients)
  /\ writable \subseteq Blocks /\ fua \subseteq 1 .. clock /\ late \subseteq fua
  /\ requests \in 0 .. MaxRequests
  /\ \A t \in Tasks : task[t].pc \in TaskPcs

\* The flusher never meets a clean block among the dirty ones, nor a block that is
\* no longer buffered: the panics of pmbd_buffer_flush and _pmbd_buffer_flush_range.  Nor
\* does a copy fault at write-protected pages: a flusher makes them writable before it has
\* their locks, so a FUA write, and nothing else, may have protected them again.
NoPanic ==
  /\ \A t \in Tasks : task[t].pc # "panic"
  /\ fua = {} => faults = {}

\* The ring and the links agree whenever no one is flushing: the blocks from
\* pos_dirty to pos_clean are those that PM blocks link to, each by one.
RingIsLinked ==
  \A f \in Buffers : flush_lock[f] = Null =>
    LET dirty == {(ring[f].pos_dirty + k) % NumBlocks : k \in 0 .. ring[f].num_dirty - 1} IN
    /\ ring[f].pos_clean = (ring[f].pos_dirty + ring[f].num_dirty) % NumBlocks
    /\ dirty = {bbn[b] : b \in {c \in Blocks : BufferOf(c) = f /\ IsBuffered(c)}}
    /\ \A b \in Blocks : BufferOf(b) = f /\ IsBuffered(b) => slot[f][bbn[b]].pbn = b

\* No write is lost between buffer and PM: who takes the lock of a block finds what
\* was copied to it last, or the second copy of a FUA write that another write had
\* replaced before it (copy_to_pmbd), and nothing older than that.
NoLostWrite ==
  \A s \in Sectors : pbi_lock[BlockOf(s)] = Null => Visible(s) = latest[s] \/ Visible(s) \in late

\* A read never misses a write that had ended before the read was submitted, unless it
\* finds a late second copy of a FUA write.
FreshReads == \A t \in Clients : task[t].ok

\* Behind a write barrier the writes that had ended before it are in the PM, whoever
\* was flushing when it began; so is a FUA write when it ends.  What is newer may be there
\* instead, or a late second copy of a FUA write.
Durable ==
  \A t \in Clients, s \in Sectors :
    /\ task[t].pc = "synced" => nvm[s] >= task[t].need[s] \/ nvm[s] \in late
    /\ task[t].pc = "end" /\ task[t].req.fua => nvm[s] >= task[t].stamps[s] \/ nvm[s] \in late

\* Who holds what a task waits for.
Holder(t) ==
  CASE task[t].pc \in {"block", "fua_lock"} -> pbi_lock[task[t].b]
    [] task[t].pc = "range" /\ NextBlock(t) \in Range1(t) -> pbi_lock[NextBlock(t)]
    [] task[t].pc = "flush" -> flush_lock[task[t].buf]
    [] task[t].pc \in {"gate", "barrier"} -> wr_barrier_lock
    [] OTHER -> Null

\* Tasks that wait for each other, and for nobody else.
Circle(S) == S # {} /\ \A t \in S : Holder(t) \in S

\* A FUA write whose sectors lie in more than one block.
CrossesBorder(t) == task[t].req.fua /\ BlockOf(task[t].req.first) < LastBlock(t)
ClosedByFua(S) == \E t \in S : task[t].pc = "fua_lock" /\ CrossesBorder(t)

\* The spinlocks close no circle but one: a FUA write that crosses the border of a block
\* holds one block (pmbd_lock_on_access, pmbd.c:3347) and waits for the next, whose writer
\* holds it in pmbd_buffer_alloc_block and waits for a flush of the first.  Against that
\* circle the code has only the note "This would not cause a deadlock, because the block
\* here are already buffered, and these blocks would not call pmbd_buffer_alloc_block()"
\* (pmbd.c:1636), which the FUA write escapes; the tasks in it spin for ever.
NoCircularWait == \A S \in SUBSET Tasks : Circle(S) => ClosedByFua(S)

\* Every bio ends, unless such a circle has closed: writers find room, barriers end,
\* flushers return.
RequestsEnd ==
  \A t \in Clients : task[t].pc # "idle" ~>
    task[t].pc = "idle" \/ \E S \in SUBSET Tasks : Circle(S) /\ ClosedByFua(S)
=============================================================================
