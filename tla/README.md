# TLA+ models of the driver studies

The repository is a collection of Linux kernel drivers, most of them a loadable
module of a few hundred lines, with user-space test programs beside some of
them, and a persistent-memory file system. This directory keeps formal models of
them: TLA+ modules translated from the C source, configurations that check
small instances of them with TLC, and theorems proved with TLAPS.

Paths below are relative to `src/`; `file:n` is a line of it.

- [1. Inventory](#1-inventory)
- [2. Modules](#2-modules)
- [3. How the models correspond to the code](#3-how-the-models-correspond-to-the-code)
- [4. Runs](#4-runs)
- [5. Fairness](#5-fairness)
- [6. Proofs](#6-proofs)
- [7. What the code gets wrong](#7-what-the-code-gets-wrong)
- [8. What is not modelled](#8-what-is-not-modelled)

## 1. Inventory

### Character drivers

| Component | Source | State | Operations | What is hard |
|---|---|---|---|---|
| Blocking FIFO | `code/tdlcd/tdlcd_fifo.c` | `mem[SIZE]`, `current_len`, a mutex, two wait queues, the list of `fasync` files, `f_pos` | `open`, `release`, `fasync`, `read`, `write`, `ioctl(CTRL_CLC)`, `poll`, `llseek`, module init and exit | sleeping calls that drop and retake the mutex, wake-ups, signals, `O_NONBLOCK`, bad user buffers, `select`, overlapping `memcpy` |
| globalfifo | `code/globalfifo/ch8`, `ch9`, `ch12` | as the FIFO; in `ch12` allocated in `probe` | the same; `probe`, `remove` | a wait-queue entry that is removed under the lock of the other queue |
| Memory devices | `code/ch6/tdlcd.c`, `code/ch6/globalmem.c`, `code/ch6/multi_globalmem.c`, `code/ch7/globalmem.c` | `mem[SIZE]`, a mutex (not in the globalmems of ch6), `f_pos` per open file | `open`, `read`, `write` at `*ppos`, `llseek`, `ioctl(CLEAR)`, init and exit | torn reads and writes, early returns that keep or give up a mutex, 64-bit offsets kept in 32 bits |
| Timer device | `code/second/second.c` | `counter`, one `timer_list` shared by all openers | `open`, `release`, `read`, the timer's handler, init and exit | the handler runs beside every call and re-arms itself; two openers share the timer; the device is freed at exit |
| scull memory devices | `code/examples/scull`, `scullc`, `scullp`, `scullv`, `sculld` | a list of items with arrays of quanta, `size`, `vmas`, a semaphore; the module's parameters | `open`, `release`, `read`, `write`, `ioctl`, `llseek`, asynchronous calls, `mmap` and its faults, trim | what is sampled before the semaphore is taken; parameters that change under open devices; allocations that fail half way; holes |
| scull pipe, access control | `code/examples/scull/pipe.c`, `access.c` | a circular buffer, two wait queues, counts of openers; an owner, a count, a list of clones | `open`, `release`, `read`, `write`, `poll`, `fasync` | each open resets the buffer that others sleep on; opens that trim without the lock |

### Block drivers

| Component | Source | State | Operations | What is hard |
|---|---|---|---|---|
| NVM RAM disk | `code/NVMSIM/ramdevice.c`, `mem.c`, `bit_map.c` | a list of devices, each with a piece of high memory mapped at load time, `gendisk` and queue | `nvm_make_request`, `nvm_do_bvec`, transfer, `open`, `release`, `ioctl`, `getgeo`, init and exit with every failure path | requests of several segments that run concurrently without the lock that is declared for them, requests beyond the end, what is undone when an allocation fails half way |
| Memory disks | `code/tdlbd/tdlbd.c`, `code/vmem_disk/vmem_disk.c` | one vmalloc'ed array, `gendisk`, queue | `transfer` per segment, request-queue mode and make-request mode, `getgeo`, init and exit | the same, and the two modes' locking |
| PMBD | `code/nvm-ref/pmbd/pmbd.c` | PM blocks with a lock each, DRAM buffers in front of them (a ring of blocks of which the dirty ones are contiguous), counters of writes in flight, write protection of pages | bios to read, write, write with FUA, barrier; the syncer thread of a buffer; creation and destruction of devices | lock order between block, buffer and flush; a block looked up before it is locked; durability of what is acknowledged; barriers beside writes |
| pcmsim | `code/nvm-ref/google-pcmsim` | a RAM disk and a model of a cache in front of it | requests, loading and unloading | what loading leaves behind |

### The PMFS file system (`code/nvm-ref/pmfs`)

| Part | Source | State | Operations | What is hard |
|---|---|---|---|---|
| Journal | `journal.c` | a circular log in PM, its header, the transaction of each task, the cleaner | new transaction, add entries, commit, abort, clean, recover, unmount | order of flushes; wrapping; a power failure between any two stores |
| Block tree | `inode.c`, `xip.c` | per inode a radix tree of meta blocks | find, allocate, truncate, free, `llseek` over holes | truncation of partly missing trees, heights |
| Block allocator | `balloc.c`, `bbuild.c` | the sorted list of intervals in use | allocate, free, save at unmount, rebuild from a scan | merging at both neighbours, intervals across the blocks of the saved list |
| Namespace and volume | `namei.c`, `dir.c`, `inode.c`, `super.c` | directory entries, inodes, the truncate list, the hint of free inodes | `create`, `link`, `unlink`, `mkdir`, `rmdir`, `rename`, `open`, `release`, `write`, `truncate`, mount, unmount, recovery | several transactions in one call; lists in PM and in DRAM that must agree; recovery in the order of the mount |

### Left aside

`code/NVMSIM/test/bandwidth-1.9.3` is a third-party user-space benchmark.
`code/param`, `code/export`, `code/asm-arm` are exercises without state. Of the
remaining examples of *Linux Device Drivers* (`code/examples`), which need
hardware or a subsystem of their own, loading and unloading is modelled.

### How the parts interact

The drivers do not call each other. Each interacts with the tasks that call
it (concurrently, in any number), with the kernel services it uses (mutexes,
wait queues, timers, the block layer, VFS) and, through them, with itself: one call
wakes another, a timer's handler or a syncer runs beside a call, a signal ends a
call. PMFS is the exception with parts of its own: every change of the namespace,
of an inode's tree and of the truncate list is a transaction of the journal; the
tree takes its blocks from the allocator, and a mount recovers the journal, then
the truncate list, then rebuilds the allocator's list from the trees.

### What makes each part correct

- **Blocking FIFO.** Callers see one bounded queue of bytes: no byte is lost,
  repeated or mixed with another write's. Handlers exclude each other; no wait
  entry, sleeping state or held mutex survives a call, on whichever path it
  ends; nobody sleeps on what is already there; every call returns or waits for
  data or room.
- **Timer device.** What an opener reads is the number of seconds since its
  open; the timer is armed only while the device is open, so that unloading can
  free it.
- **Memory devices, scull.** A copy stays in the device, a read returns what the
  device held at one moment, writes do not mix, and a call gives the mutex back.
  Each scull device is a file: what was written is what is read at that place.
- **Block drivers.** A bio's data goes to its sectors, also over several
  segments and next to other bios; what a finished write has replaced does not
  come back; the driver stays in its store and in the pages of the bio; a queued
  bio is in one request and every bio ends. PMBD: what a barrier or a FUA write
  has acknowledged survives a power failure, and a read finds it.
- **PMFS.** After a failure and the recovery every transaction has happened
  completely or not at all; names, link counts, blocks in use and the truncate
  list agree; a tree stands for a map from file blocks to data blocks; nothing
  that has lost its last name is left behind by a mount.
- **Loading and unloading** (every driver). What a failed `init` or an
  `exit` leaves is what there was before, and no call reaches a half-made device.

## 2. Modules

| Module | What it is |
|---|---|
| `ByteFifo` | what a FIFO device promises: one bounded queue with atomic reads and writes |
| `TdlcdFifo` | the blocking FIFO driver, with the refinement mapping to `ByteFifo` |
| `TdlcdFifoProofs` | its inductive invariant is one, the safety theorems that follow, and that `TdlcdFifo` implements `ByteFifo` |
| `GlobalFifo` | the wait queues of the globalfifo drivers as lists with a lock each |
| `SecondTimer` | the timer device, the kernel's timer wheel and the clock |
| `SecondTimerProofs` | its inductive invariant and the theorems that follow |
| `MemFile` | what the memory devices share: file positions, `llseek`, `ioctl`, the mutex, the properties |
| `MemDevice` | extends `MemFile` by `read` and `write` of `code/ch6/tdlcd.c`; its inductive invariant |
| `MemDeviceProofs` | the proof of that invariant, and the theorems that follow |
| `GlobalMem` | extends `MemFile` by `read` and `write` of `code/ch7/globalmem.c` |
| `BlockDisk` | what the block drivers share: the store, bios, their submission and their end, the properties |
| `NvmDisk` | extends `BlockDisk` by `nvm_make_request` of `code/NVMSIM` |
| `NvmDiskProofs` | sums over the segments of a bio; its inductive invariant, and the safety theorems that follow |
| `Tdlbd` | extends `BlockDisk` by both request modes of `code/tdlbd/tdlbd.c` and the block layer's queue |
| `TdlbdProofs` | the same lemmas about segments; its inductive invariant, and the safety theorems that follow |
| `Pmbd` | the buffered PM block driver: bios, buffers, syncers, barriers |
| `PmbdProofs` | its inductive invariant, the proof that it is one, and the safety theorems that follow |
| `PmfsJournal` | the undo journal over a cache that may write back at any time, with power failures and recovery |
| `PmfsJournalProofs` | the proof of its two inductive invariants, and the theorems that follow |
| `PmfsTree` | the block tree of an inode, as operators |
| `PmfsAlloc` | the list of blocks in use, as operators |
| `PmfsVolume` | the namespace, the inodes and the truncate list of a volume, with power failures and mounts |
| `PmfsVolumeProofs` | its inductive invariant, the proof that it is one, and the safety theorems that follow |
| `ScullStore`, `ScullDrivers` | the memory devices of scull as functions of the device, and which of them each of the five drivers uses |
| `ScullPipe`, `ScullAccess` | scull's pipe, and its devices with access control, as steps of several tasks |
| `Lifecycle` | what a module acquires and releases, step by step, with every failure |
| `DriverLifecycles`, `ExampleLifecycles`, `NvmLifecycles` | the modules of `code/`, of `code/examples` and of `code/nvm-ref` in its terms |
| `MC...` | small instances for TLC |

Every module that models a driver has a section *Faults*: variants of its
definitions with a plausible mistake in them. They are used in no specification.
`PROJECT.json` pairs each with a property that the variant violates in the
property's own run, which shows that the property has a grip on that code.

Modules of two kinds. Where tasks share state, a module is a specification with
actions, checked by a run. Where a call is a function of the device, or what can
go wrong takes two calls in a row, a module is a set of operators, and the MC module
that goes with it states facts about them as named `ASSUME`s, each for every input
in a range: an operator agrees with a reference definition, or differs from it
exactly in the cases the fact names. TLC evaluates these before a run whose module
extends the MC module: `MCLifecycles` with `mem`; `MCScull`, `MCScullTasks` and
`MCGlobalFifo` with `second_turns`; `MCPmfsTree` and `MCPmfsAlloc` with
`pmfs_volume` and `pmfs_mount`. A fact that fails stops the run.

## 3. How the models correspond to the code

`PROJECT.json` maps every definition to its lines. The principles:

**Steps.** A step is the stretch of a handler between two points at which another
task, or the interrupt, can see or change what the handler uses. Under a mutex a
step goes as far as to the next release, sleep or user copy. Where nothing is
locked (positions of files, the stores of the disks, the timer) every access is a
step of its own.

**`TdlcdFifo`.** Per task, `pc` says how far its call is: `r_lock` waits at
`mutex_lock`, `r_check` is in the `while` loop with the mutex held, `r_sched`
between `mutex_unlock` and the return of `schedule()`, `r_relock` at the second
`mutex_lock`, `r_consume` behind a good `copy_to_user`, `r_out2` at label `out2`;
`w_...`, `c_...` and `p_...` are the same for `write`, `ioctl` and `poll`.
`state` and `signal` are `current->state` and `signal_pending(current)`; `r_wait`
and `w_wait` hold the tasks whose `DECLARE_WAITQUEUE` entry is on the queue;
`WakeUpInterruptible` makes every one of them runnable. The sleep is two steps,
set the state and release the mutex, then `schedule()`, so that a wake-up can
come between. A copy to or from a bad buffer stops after any number of bytes.
`memcpy` between overlapping ranges (`tdlcd_fifo.c:130`) is undefined; the
constant `MemcpyOrders` says in which directions the build's `memcpy` may go.

**`GlobalFifo`.** `next` and `prev` are the links of `wait_queue_head_t` and of
the entries on the stacks of the calls; adding and removing read the neighbours in
one step and write them in another, under the lock the code names, which for the
`remove_wait_queue` of `read` is the wrong one (`ch9/globalfifo.c:143`). The code of
`ch8`, `ch9` and `ch12` is the same but for signals; the map names `ch9`.

**`SecondTimer`.** `links` is the set of places in the timer wheel that lead to
the timer and `home` the one the timer itself knows of, so that `init_timer` on an
armed timer leaves a link behind as the kernel does. `open` is three steps
(`init_timer` and `expires`, `add_timer`, the reset of the counter), the handler
two (`mod_timer`, the increment). `off` records, at each read, by how many jiffies
the count read differs from the time since the reader's `open`. `SMP` says
whether tasks run beside the handler. The driver excludes neither a second opener nor
a close beside the handler; both happen in the model, and the history `races` records
them (`"open"`, `"close"`). The properties say what holds while it is empty.

**`MemDevice`, `GlobalMem`.** Bytes are stamped with the write that wrote them.
A copy moves byte after byte. The kernel's part is in `Enter` and `Return`: a
plain `read` takes the file's position before the handler and writes it back
after it, `pread` and `pwrite` bring their own. Offsets are `loff_t` that wrap at
`LoffMax` and are cut to `UintRange` values where the code casts to `unsigned
int`. `shadow` is what the device would hold if every write and clear were one
step; `moments` collects, for each read under way, the answers that would be
right.

**`NvmDisk`, `Tdlbd`.** A bio is a direction, a first sector and the lengths of
its segments, each segment in a page of its own. A word carries the write it
comes from and the sector it was meant for. `cur` is the driver's own idea of
where it is. `stale` collects, by sector, the writes that finished writes have
since replaced. The capacity of the NVM disk is computed in `UintRange` values,
so that a disk of capacity 0, for which the block layer checks nothing, is
among the instances. In the mode QUEUE of tdlbd the block layer may merge
contiguous bios of one direction in front or behind, the elevator may choose any
request, and `running` is the time the queue's lock `dev->lock` is held.

**`Pmbd`.** A task is a context that submits bios or the syncer of a buffer. The
lock of a PM block (`pbi_lock`), `flush_lock` and `wr_barrier_lock` are held across
steps and so are variables; what runs under `buffer_lock` is one step. `slot`
and `ring` are a buffer's `bbi_space` and its counters, `bbn` the PM block's way
to its buffer block. A word of data is the stamp of the copy that wrote it, `pm`
what the CPUs see of the PM and `nvm` what a power failure would leave; `latest`,
`done`, `fua` and `late` are history: what a reader must see, what must survive, and
which FUA writes have stored their second copy over a write that had replaced the first.

**`PmfsJournal`.** Every line of PM has two values, what the CPUs see (`hdr`,
`log`, `mem`) and what a failure leaves (`nhdr`, `nlog`, `nmem`). A flush writes a
line back and so does an eviction at any time. The flush of the
header takes effect at once, before whatever the CPU stores later, as `clflush` does on
x86; that of an entry or of data with the next barrier at the latest. `trans` is the transaction of each
task, `cleaner` the log cleaner between its steps, `walk` how far recovery has
come. A failure may come between any two stores, in recovery too. `past` is
history: what the committed transactions have promised.

**`PmfsTree`, `PmfsAlloc`.** A tree of height 0 is a data block, a meta block has
`Fan` pointers to lower trees; each operator returns the tree that the C function
leaves. `MCPmfsTree` compares it with the map from file blocks to data blocks the
tree stands for, over every file of up to 8 blocks with holes anywhere (two
pointers a block, height 3 at most). The allocator's list is a sequence of
intervals, compared with the set of blocks in use for every set of 9 blocks.

**`PmfsVolume`.** A transaction is one step, at its commit, which `PmfsJournal`
justifies; what a call does between two transactions is a step of its own
(`task`), so that a power failure or another call can come between. Directories
map names to inodes, the tree of an inode is the set of its blocks. VFS's
`i_mutex` is `locks`, with a pseudo-inode -1 for the rename mutex. `listed` is
the DRAM list `s_truncate`, `head` and `next` the one in PM, and `Chain(i)` what
follows inode `i` in the latter, as the least set that is closed under `next`. The
phases `down`, `recovering` and `mounted` are the mount in the order of
`pmfs_fill_super`; `dead` is a `BUG_ON`. Three histories name what the properties
must leave out: `lost` the listed inodes that a mount has given up, `leaked` the
directories that were replaced while their link count was too high, and `races` the two
races that ruin the volume, `"reuse"` and `"truncate"` (section 7). The code excludes
neither and so the actions do not; the properties hold while `races` is empty.

**`Scull...`.** A read or a write of a scull device looks at the quantum and the
array length before it takes the semaphore, so these are arguments of the
operator and may be out of date: `MCScull` puts any other call between the two.
`ScullPipe` and `ScullAccess` give every step of a task as a set of successor
states; `MCScullTasks` explores all of them from the start.

**`Lifecycle`.** A driver is the sequence of its init steps, each with what it
gets, what its failure releases and how many steps it skips, and the releases
of its exit. Every step that can fail fails or not, independently. `Report` is
what any of these runs leaks (`leaks`), releases without holding (`bad`), makes
public before what its handlers use is there (`early`), and takes away while it is
public (`late`).

## 4. Runs

| Run | Instance | What it shows |
|---|---|---|
| `fifo_io` | 3 tasks: a reader, a non-blocking reader and writer, a writer that clears and polls; 2 bytes; signals, SIGIO, bad buffers, writes longer than the device | the driver implements `ByteFifo` (`IsFifo`); its handlers leave no entry behind (`NoDanglingWaiter`); no reader sleeps beside data (`NoLostReadWakeup`); only a clear strands a writer (`OnlyClearStrandsWriters`) |
| `fifo_live` | a reader, a writer, a poller, nobody clears; a bad buffer, a signal | calls return or wait for what is not there (`CallsReturnOrWait`); a writer is served if reading goes on (`WriterServed`); so is a poller for room (`WritablePollReturns`) |
| `second_turns` | 2 tasks beside the handler on other CPUs, HZ = 2, 6 jiffies (no more than one second after a race) | until a second opener or a close beside the handler: the timer is never armed when the device is closed or freed (`DeviceOutlivesTimer`), the count is right to a second (`SecondsAfterOpen`) and goes on (`CountGoesOn`); before it, the facts about scull and globalfifo |
| `mem` | 2 tasks with one open file, 1 with its own; 2 bytes; offsets that overflow both tests of `llseek` | writes do not mix (`WritesDoNotMix`); positions stay in the device (`PositionInDevice`) but through the race of tasks that share one; only a write behind the end keeps the mutex (`OnlyFarWritesKeepMutex`); else calls return (`CallsReturn`); before it, the facts about loading and unloading |
| `globalmem_unlock` | a reader, 2 writers | *violation* of `WritesDoNotMix`: the reader unlocks the mutex under a writer and two writes mix |
| `nvm` | 2 tasks that read and write; a disk of 3 sectors or, after an overflow, of none; bios of one segment and of two with different lengths | data goes where it was meant to go (`InPlace`), replaced data does not come back (`NoStaleData`) |
| `tdlbd` | 2 tasks in both modes, 4 sectors, bios of one and two segments, with even and uneven lengths, commands | data goes where it was meant to go as long as lengths are even (`EvenInPlace`); whole reads in the mode QUEUE (`QueueReadsAreWhole`); the driver stays in its store always (`StaysInBounds`); every bio ends (`RequestsEnd`) |
| `tdlbd_lost` | 1 task, bios with uneven segments | *violation* of `InPlace`: data does not get to its place |
| `pmbd` | one context that writes with FUA across the border of two blocks, one with two writes, a read and a barrier to choose from; 3 bios in all, one of them with FUA; a buffer of 2 blocks in front of 3 PM blocks of 2 sectors, its syncer (486,000 states, 2 minutes) | no `BUG()`, and no write to protected pages before the first FUA write (`NoPanic`); the ring of dirty blocks stays linked with the PM blocks (`RingIsLinked`); no write is lost between buffer and PM (`NoLostWrite`), reads are fresh (`FreshReads`), what is acknowledged by a barrier or FUA survives (`Durable`), each but for a late second copy of the FUA write; the spinlocks close no circle but that of a FUA write across a border (`NoCircularWait`); unless it has closed, every bio ends (`RequestsEnd`). The run reaches the circle and the late copies |
| `pmfs_journal` | 2 tasks, 2 objects, a journal of 5 entries, 3 generations, 3 transactions, 2 failures (4.5 million states, two and a half minutes) | after recovery every transaction is there or not (`RecoveryIsAtomic`), changed by nobody else (`OnlyOwnChanges`), save those that the cleaner has overtaken; reservations never overlap (`ReservationsApart`); the log of a running transaction stays between head and tail (`LiveEntriesKept`) |
| `pmfs_volume` | 2 clients, 2 names, 3 inodes, 4 blocks, 8 calls, an unmount or a failure | until one of the two races of section 7 (`races`): names and link counts agree (`NamespaceSound`), each block in use has one owner (`BlocksOwned`), the truncate lists in PM and DRAM agree (`ListsAgree`), nothing without a name is left after a mount (`NoOrphans`); before it, the facts about the tree and the allocator |
| `pmfs_mount` | the same with one inode more in the table at first | *violation* of `MountSucceeds`: recovery meets the `BUG_ON` of the block allocator, whose list is not built yet |

**Facts that TLC evaluates before a run** (named `ASSUME`s of the MC modules):

- `MCLifecycles`: what loading and unloading of each driver leaves behind
  (`NothingWrong`, `CharacterDrivers`, `DeletedTwice`, `Scull`, `BlockDrivers`,
  `Pmbd`, `PmfsMounts`, `ProbeMakes`, `Snull`, `Ports`, `Others`).
- `MCScull`: every history of two calls makes the file it should (`Files`), and
  the ways it does not: `Holes`, `LaterItems`, `CacheObjects`, `ZeroQuantum`,
  `Exchanges`, `OldParameters`, `OutOfMemory`, `Mappings`, `Positions`, `Walks`.
- `MCScullTasks`: all states of a reader and two writers of the pipe, and of
  three tasks at each kind of open: `PipeIsFifo`, `ReopenStopsAll`, `NoEndOfPipe`,
  `NewSize`, `OpensAndCloses`, `SingleOpens`, `UserOpens`, `OwnerIsGone`, `WaitOpens`,
  `Clones`.
- `MCGlobalFifo`: `WrongLock` (sound with the right lock, not with the one the
  code takes), `ClearWakesNobody`, `WaysOut`.
- `MCPmfsTree`: `Lookups`, `Allocates`, `Truncates`, `ChainIsFound`, `Frees`,
  `Regions`. `MCPmfsAlloc`: `Builds`, `Allocations`, `Releases`, `Saves`.

**Bounds, and why they are enough.** Two bytes (`SIZE`) make a device empty,
partly full and full, a transfer that is cut and one that is not. Three tasks are
the least for a rival at each wake-up: one waits, one is woken with it, one makes
the room. Two words a sector are the least that tear. HZ = 2 puts a jiffy between
two seconds; 6 jiffies are an open, a close and another open with a second in each.
`MaxWrites` bounds the number of writes of a behaviour, two where two writes have
to meet. `LoffMax = 7` and `UintRange = 4` are the least with `SIZE < UintRange`
and `2 * UintRange = LoffMax + 1`, so that cutting and wrapping are different
things. The proofs (section 6) have none of these bounds.

A buffer of two blocks is full after two writes, so that writers flush for
themselves beside the syncer, and three PM blocks make them take blocks from each
other; with a batch of two a flush has a block behind it and one to come. The bios cover
part of a block, a whole one, and the border between two. The FUA write covers the
second and the third of them in part: it takes a block, waits for the next, and the
other context can hold that one, flush both, and replace or read what it stores. The
constraint `OneFua` stops only submissions (a second FUA write; the write that only makes
room, as the last bio), so whatever has been submitted runs to its end. Five journal entries are two transactions of the smallest size and
the one that is never used: they fill, wrap and are cleaned within three
transactions. With `MaxGen = 3` there is a generation before the last but one, whose
recoveries are judged with the tail anywhere (in the last but one, a tail in mid-journal
sets `past.broken`, section 7), then the last one, in which the cleaner and recovery
invalidate entries, and the generations come round; a failure may come between any two steps, the second during the recovery from the first
or after it. In `pmfs_volume`
a file has one block at most and a directory one or three, so that both grow and
shrink; three inodes are the root, and one to be replaced by another; eight calls
create a directory, fill it, and lose it. The constraint `UntilRace` follows no
behaviour beyond the step that records a race, and `RacesEarly` none for more than a
second: the properties claim nothing of what comes later. `MCScull` takes pages of 2 bytes and a quantum of 4, which is the least with
a place before, at and after each border; `MCGlobalFifo` follows two readers and a
writer for 14 steps as the code is, and for 20 with its lock repaired.

`CHECK_DEADLOCK FALSE` is set where the system may really stop: for the timer,
whose bounded clock ends; for `mem`, where every task may wait for the mutex a write
behind the end has kept; for `pmbd`, `pmfs_journal` and `pmfs_volume`, whose
requests, transactions and calls are bounded in number; and for `pmfs_mount`, which
also ends in a `BUG_ON`.

## 5. Fairness

Nothing is assumed of calls, signals and timeouts; a task may stay in user space
for ever.

- *FIFO.* Weak fairness per task on its handler's steps: the scheduler runs every
  runnable task. Strong fairness on taking the mutex: the kernel's mutexes hand
  over to their oldest waiter. `WriterServed` has its further premise, that
  somebody keeps reading, in the property.
- *Timer.* Weak fairness of the clock and of the timer interrupt.
- *Memory devices.* As for the FIFO.
- *tdlbd.* Weak fairness of the running of a queue that is not empty and of the
  request function, and of the direct mode's steps; strong fairness of putting a
  bio on the queue, for which its lock must be had (a queued spinlock, fair to
  its waiters).
- *PMBD.* Weak fairness of the steps of a bio that has been submitted and of a flush
  under way, and of the syncer's wake-up (a thread with a timeout), as a premise of
  `RequestsEnd`, with requests that are bounded in number.
- *NVM, PMFS.* None: their runs check safety.

## 6. Proofs

TLAPS checks all of the following for any constants that satisfy the modules'
assumptions.

**The FIFO driver keeps its invariants** (`TdlcdFifoProofs`). None of the safety
properties is inductive alone: that a copy stays in the device speaks of a handler in
the middle of a transfer and needs to know that nobody else is in one, and
`NoLostReadWakeup` needs to know that a sleeper is on the queue that is woken.
`IInv` adds the two missing facts: `WaitersAreQueued`, at which places a task has
an entry on which queue, and `TransferAgrees`, what the locals of a transfer under
way say about `current_len` and `mem`. One lemma per part shows that every action
preserves it, then `Invariance` puts them together, and `TypeCorrect`,
`HandlersExclude`, `TransfersStayInBounds`, `NoEntryOutlivesItsCall`,
`OnlyWaitersSleep`, `ReadersAreWoken`, `TransfersAreNotEmpty` follow. The action
property `OnlyClearStrands` and its corollary `WritersAreWoken` (no writer sleeps
beside room where nobody clears) have proofs of their own from the invariant.

**The FIFO driver is a FIFO** (also in `TdlcdFifoProofs`). `DriverIsFifo`: if `memcpy`
goes up, `Spec` implements `ByteFifo` under the mapping in `TdlcdFifo`. The queue
is the bytes of `mem` below `current_len` without those a reader has copied out
and not yet removed, so a read takes effect at its `copy_to_user` and a write at
the growth of `current_len`. Each action is shown to be a stutter, the beginning
or the return of a call, a failure, a clear, or the effect of a read or a write.

**The timer device** (`SecondTimerProofs`), for any tasks, with and without `SMP`. No
theorem assumes that the races stay away: `Next` has them, and the properties, as
`IInv`, say what is so while `races = {}` (section 7 says what happens afterwards).
`Calm` relates the timer to the tasks (`TimerOff`, `TimerOn`) and the due
time to the count (`CountInStep`), from which `CountsSeconds` follows: the count
is never more than a second off, however long the device stays open. The work is in the
steps that may begin a race: an open that finds the device closed finds the timer
unlinked, and a close that finds no handler running takes away its only link.
`LinkedOnce` and `OpensSurvive` are proved and not run: they hold in every instance that
`second_turns` explores as a part of the same invariant.

**The memory device of ch6** (`MemDeviceProofs`), for any number of tasks and open
files, shared or not, and any size, offset and width. That writes do not mix is
not inductive: it compares `mem` with `shadow` and says nothing of a write that has
moved half of its bytes. `IInv` adds, for each place in a handler, what its locals
promise: `Holding` (who is at a place behind `mutex_lock` is the owner, so that two
are never there), `Cut` (the length has been cut to what fits), `DataAgrees` (below
the byte a write has come to, `mem` is what `shadow` will be, above it what it was),
`ReadAgrees` (what a reader has copied out agrees with one of its `moments`), and
`PositionsAgree` (a position is in the device, unless files are shared). From
it follow `CopiesStayInDevice`, `ReadsAreWhole`, `WritesAreWhole`,
`PositionsStayInDevice`, for files that are not shared, and `MutexComesBack`, the
action property `OnlyFarWritesKeepMutex`: whatever ends a call but a write behind the
end gives the mutex back.

**The journal of PMFS** (`PmfsJournalProofs`), for a journal of any size, any
tasks and objects and any number of power failures. That reservations do not meet
(`ReservationsApart`) is not inductive: whether a new one is free depends on where
the head is, the head comes from the cleaner, and what a wrap finds was read before it.
`IInv` adds `Stages` (transactions and the cleaner belong to a mounted volume),
`EntriesFit` (a transaction has room for its last entry), and, as long as no full
journal has been overrun, `WrapInHand` (between the two parts of a wrap the tail is 0
and the head has not come back), `CleanerOnWay` (going round from the head one meets
the cleaner, then the tail as it has read it, then the tail) and `LiveInFront` (a
running transaction lies between the head, or the cleaner, and the tail, in the header
the CPUs see as in the one a failure leaves, and no two share an entry). The types
need facts of their own: that the `CHOOSE` of undo, of the cleaner and of recovery find
an entry (`LeastOf`, `GreatestOf`, `PassedIsRun`, `BackwardIsRun`). The preservation of
the three last parts goes by kinds of steps: those in which nothing moves (`CalmKeeps`), a
reservation (`ReservationKeeps`), a turn of the cleaner, the store of the head. From
`IInv` follow `TypeCorrect`, `ReservationsDisjoint` and `LiveEntriesStay`.

`OnlyOwnChanges` needs more: what an abort restores depends on what the log says at that
moment. `OwnInv` adds, for every transaction, `LogTells` (the first entry of each object
it has logged holds what was settled before, and its entries are of its generation) and
`Owned` (what it has not logged is as it was settled; at its end all is done, or undone),
and, for each two, `OneWriter` (no object and no entry in common, overtaken or not). A
step of one transaction leaves the entries and the objects of the others alone
(`OwnStep`), and `QuietKeeps` covers the steps in which nothing is stored; `UndoneOwn`
is what an abort computes. That a new reservation meets no entry in use comes from
`LiveInFront` for those in front of the cleaner and from the history for those it has
overtaken, so the step uses `IInv` before and after it. From `OwnInv` follows
`ChangesAreOwn`. TLC confirms `IInv` and `OwnInv` on the instance of `pmfs_journal`.

`JournalRecovers` is the journal's purpose: `RecoveryIsAtomic`, for every behaviour whose
generations do not come to the last one. The hypothesis is `[](hdr.gen # MaxGen)`, which
the code satisfies for 65534 laps and recoveries; in the last generation, where entries
are invalidated and generations come twice, the property is model-checked (`pmfs_journal`
has `MaxGen = 3` and comes round). The property says nothing of a volume in use, nor of the log.
`Recoverable` does, in two parts that hand over to each other at a failure and at the mount:

- *The volume in use* (`AwayInv`). The generation of an entry tells its lap (`Lap`): none is
  younger, and what a line that is not written back hides is older (`Ages`), so that
  everything that is `Valid` in a header, and whichever version of a line a failure leaves,
  was written in that lap. Each valid entry is that of a running transaction, or belongs to a
  run of entries closed by an end (`Accounted`). An object is not changed, by the CPUs or in
  PM, before its first entry and the start of its transaction are persistent (`Kept`);
  the data is persistent before the end of its transaction can be, and as long as that end
  may be lost all the other entries are there (`Ended`, `Complete`). Both headers, and
  every one that the next steps can leave (`Onward`), satisfy this.
- *The recovery* (`RecInv`). There is a state `T` of all the objects, one that the
  transactions have promised, such that undoing what `log` leaves open makes it, from the
  memory and the header of the CPUs as from those a failure would leave (`Good`). `T` is
  fixed by the failure (`Settles`): a transaction that was committing is in it if its last
  entry has survived. So a failure of the recovery leaves the same `T`, and a turn of its
  walk moves an object to `T` and the end of the walk to the next transaction (`Walked`,
  `TurnKeeps`, `GoodBefore`).

The centre is the failure (`CrashKeeps`): what recovery then finds open is the running
transactions whose start has survived and those whose end has not (`OpenIsOwned`), and
going on from such a start it meets the transaction's own entries and otherwise
only those of a transaction whose start is lost, which has changed nothing yet
(`ReachIs`); the first entry of an object among them holds what it had before
(`PutsBack`), and an object that has changed is among them (`IsPutBack`). The steps of the
volume in use are shown one by one (`AwayKeeps`), most of it by one lemma on what a step of
one leaves of the others (`ApartKeeps`).

**PMBD** (`PmbdProofs`), for any number of contexts, blocks, sectors to a block and
buffers, any bios and any batch, and both ways to store to the PM. None of its safety
properties is inductive: what a reader finds, or a barrier leaves behind, depends on
every flush under way. `Inv` is the conjunction of

- `Types`, `Stamps` (no stamp is from the future), `Control` (what a task carries at
  each of its places) and `Locks` (each lock is held by the task whose place says
  so: the blocks `Held` by a writer, a flusher, a FUA write), `Counted` (the bios in
  flight);
- `Rings`: the dirty positions of a buffer's ring are the blocks linked there, but for
  those that the flusher in progress has unlinked; what a flusher carries is buffered,
  in its buffer, and among the blocks it has taken (`Flushed`), and a writer that looks
  for room has a block that is not (`Placed`);
- `Contents`: the last write to a sector, or a stamp in `late`, is where a reader looks
  for it, unless its buffer block is about to be filled, when it is in the PM; a block
  that a flusher has copied is the same in both;
- `FuaStamps`, `Pages`, `Barriers`: what a FUA write is to store, which pages are
  writable, and what a barrier has seen to, buffer by buffer and block by block.

The proof goes part by part. Most actions move neither data nor links (`CalmStep`,
`StillStep`) and are dealt with by a frame lemma each; `Alloc`, `CopyTo`, `FuaWrite`,
`SyncBlock`, `UnlinkRange` and `Cleaned` have lemmas of their own. From `Inv` follow all
safety properties of the run `pmbd`: `TypesHold`, `PanicsNever`, `RingsAreLinked`,
`WritesAreKept`, `ReadsAreFresh`, `BarriersAreDurable`. What they except is not any FUA
write but those in `late`, whose second copy has come after another write: `FuaWrite`
has to be shown to replace nothing newer otherwise. `SpinlocksAreOrdered` proves
`NoCircularWait`, with no assumption on the bios, from a rank of the places at which a
task spins: the barrier's lock, then the blocks, then `flush_lock`, then the blocks of a
flush in progress; who holds what one waits for is always further down, but for a FUA
write that holds one block and waits for the next. So each circle has such a write in
it, and the code does close that one (section 7). TLC confirms each part of `Inv` on the
instance of `pmbd`.

**Sums without an induction** (at the head of `NvmDiskProofs` and of `TdlbdProofs`). Where a segment begins is the sum
of the lengths before it, a fold, and a fact about every prefix asks for an induction,
whose theorem takes an operator that the provers cannot instantiate. The proofs go by
the least counterexample instead: `LeastNumber`, from the well-foundedness of `<` on the
naturals, gives the first prefix on which a fact fails, and the equation of the fold at
that prefix refutes it. `SumsExist` shows in this way that the recursive function behind
the fold exists, `SumOfSegments` what it does with one segment more, and
`SegmentsInOrder` that segments lie in the bio in their order and do not meet.

**The NVM disk** (`NvmDiskProofs`), for any tasks, lists of segments, words to a sector
and numbers of writes, and whatever the capacity has wrapped to. Nothing is locked, so
each word may be moved between any two steps of the others. `Inv` adds to the properties
`Pages` and `OnDisk` (a bio has its memory, and lies on a disk that has sectors),
`Cursors` (the driver's sector is where the segment it is in begins, the line that the
source marks "MAY BUG"), `ReadsInPlace` (the words moved so far, `Done`, hold what belongs
there), `Stamps` (writes on their way have stamps of their own, none from the future)
and `Overwrites` (where a write has moved a word, nothing is left that had ended when it
was submitted; what another write has put there since is as new). From it follow `TypesHold`,
`DataIsInPlace`, `OldDataStaysAway` (a read may be torn but is never stale) and
`CopiesStayInBounds`.

**tdlbd** (`TdlbdProofs`), for any tasks and segments, in both modes. The loop over a
bio counts every segment like the first (section 7), so `CursorOf` says where the
cursor is, not where it should be: a multiple of that one length, perhaps beyond the bio.
`Requests` says who is in which request of the queue and that nobody is in two.
`EvenSoFar` holds as long as every bio has had segments of one length: then the cursor
is where the segment begins, and words go to their place. `OneAtATime` is about the
mode with a queue: only the first of the request in progress is in the middle of a
transfer, so that at most one sector of the disk, or of one reader's memory, is torn. From
`Inv` follow `TypesHold`, `EvenDataIsInPlace`, `ReadsOfTheQueueAreWhole` and
`DriverStaysInBounds`.

**The PMFS volume** (`PmfsVolumeProofs`), for any numbers of inodes and blocks, any
finite set of names, any clients, calls and power failures. None of the properties is inductive.
That every name leads to an inode in use depends on who may free one, so on the calls
under way; that nothing is lost depends on both forms of the truncate list; and who
owns a block depends on which truncations a mount has still to finish. `Inv` has a part
for each of them:

- *Names.* `NamesRight`, `LinksRight`, `DirsNamed` and `NamesAlive` relate the entries, the
  link counts and the inodes in both directions. `Hangs` says that every set that has a
  directory in it, and with every inode the directories that name it, has the root in it. That a
  rename keeps this rests on `CommitRight`: somewhere above the target the moved
  directory is missing, which VFS's test has found and the locks have kept.
- *Calls.* `LocksApart` and `CommitRight` say what a removal has found and holds until its
  commit, `GoneRight` that an inode on its way out has no name, is not open, and belongs
  to one call only, `OpenRight` and `SizeRight` what an open file and a truncation keep.
- *The truncate list.* `ListsAgree` and `ListedRight`: the two lists are one, of different inodes
  with a reason to be there. `OrphansListed`: an inode without a name is on it while the
  volume is mounted, on the chain from the head when it is down, and on the rest of the chain
  while a mount works it off.
- *Blocks.* `BlocksApart`: trees do not meet, and their blocks are in use. After a failure in
  the middle of a truncation this is only true of the inodes that are not `Doomed`, for
  what is being freed may have been given to others before the failure.

The steps of `Next` fall into a few kinds, with one frame lemma for each: steps that leave
the names alone, that make one, that take one away and that move one for `Space`; steps of
one client, which disturb no other's call (`Local`, `LocalStep`); the steps down and up
(`DownStep`). `VolumeInvariant` puts them together, and `VolumeTypes`, `VolumeNamespace`,
`VolumeBlocks`, `VolumeListsAgree` and `VolumeNoOrphans` are the five invariants of the run
`pmfs_volume`. No race is assumed away: both are steps of `Next`, and the last four say
what is so while `races = {}`, as `VolumeInvariant` does with `Inv`; afterwards they are
false (section 7). The proof came upon a
third defect, the leaked directories of section 7, which takes four inodes and five calls where
the run has three inodes. TLC confirms each part of `Inv` on the instances of both runs.

**Only model-checked.** Liveness, which is out of the prover's reach. Of the journal,
`RecoveryIsAtomic` once the generations have come to the last one. What the operators of `Scull...`, `PmfsTree`, `PmfsAlloc` and
`Lifecycle` compute is compared over the inputs named above and no further: most are
recursive, and what they compute for every input asks for an induction over data.

**Next.** `RecoveryIsAtomic` in the last generation and after it, where `Lap` has to go round
with the generations and an invariant has to follow the cleaner's and the recovery's
half-written invalidations.

## 7. What the code gets wrong

Shown by runs that end in a violation (listed as findings):

- `globalmem_read` unlocks a mutex it has not locked (`code/ch7/globalmem.c:84`).
- `vmem_disk_xfer_bio` takes the length of a bio's first segment for all of them
  (`code/tdlbd/tdlbd.c:89`).
- A mount of PMFS recovers the truncate list before it has built the list of blocks
  in use (`code/nvm-ref/pmfs/super.c:776`, `:780`): the first block it frees meets
  the `BUG_ON` of `balloc.c:70`.

Shown by the facts, or in the models without a run of its own:

*The FIFO.* `CTRL_CLC` empties the device and wakes nobody
(`code/tdlcd/tdlcd_fifo.c:75`): writers, and pollers for room, sleep beside an empty
device; `OnlyClearStrandsWriters` says that nothing else does. The `memcpy` between
overlapping ranges (`:130`) repeats and loses bytes if it goes down
(`MemcpyOrders`). In globalfifo a reader removes itself under the lock of the wrong
queue (`code/globalfifo/ch9/globalfifo.c:143`): its entry, on a stack that is gone,
can stay behind, or a sleeper be lost.

*The timer.* `release` calls `del_timer` where only `del_timer_sync` waits for a
handler on another CPU (`code/second/second.c:45`); two openers share one counter,
which each open resets, and one timer, which the second initialises while it is
armed (`:32`, `:38`). Both are steps of `SecondTimer`, which `races` records; without
that condition the properties of `second_turns` fail at once.

*Memory devices.* A `write` behind the end of the ch6 device returns with the mutex
locked (`code/ch6/tdlcd.c:115`). The ch7 device's `read` copies without the mutex.

*Block drivers.* The NVM disk ends a bio beyond its end without an error
(`code/NVMSIM/ramdevice.c:279`), and takes no lock around its copies although
`nvmdev_lock` is declared for that (`ramdevice.h:80`); neither does tdlbd in the mode
NOQUEUE. Reads beside writes are torn there. tdlbd's geometry is 512 times too large
(`code/tdlbd/tdlbd.c:145`), its disk's operations have no owner (`:158`).

*PMBD.* A FUA write that is not aligned to a block flushes while it holds the lock of
its block (`code/nvm-ref/pmbd/pmbd.c:3347`), for which the flush waits, against the
order of the comment at `:1636`, and the tasks spin for ever: the run `pmbd` comes to this
circle, which `NoCircularWait` and `RequestsEnd` name as the one they except. The second
copy of a FUA write (`:3451`) does not look whether another write has replaced the
first: what that one has stored, and ended, is lost to readers, and a barrier leaves the
older data behind (`late`, which the run also reaches). `PMBD_SET_BLOCK_UNBUFFERED` (`pmbd.h:341`) is the number of a
buffer block if a buffer has more blocks than the device plus three. A write passes
the barrier's gate before it is counted (`pmbd.c:3672`, `:3677`), which the comment at
`:3496` excludes. The second copy of a FUA write sets write protection (`:3394`)
under which a later flush faults. The checksum of a block is written after its lock is
released (`:1689`), from a buffer all tasks share (`:3241`).

*PMFS, journal.* The cleaner moves the head past transactions that have reserved
entries and not written them yet: they are not undone (`skipped` marks them; the
properties exempt them). The other defects need the last generation, `MAX_GEN_ID`, which
the code reaches after 65534 laps and the model with `MaxGen = 3` after one. The attempt to
prove `RecoveryIsAtomic` came upon them, and the run that follows the last generation
shows them if `past.broken`, which marks them, is left out:

- a transaction overtaken in the last generation leaves its commit entry behind the head,
  where the cleaner invalidates nothing (`journal.c:260`). When the generations have come
  round, the entry can be taken for the end of a transaction that runs there; the cleaner
  then invalidates what this one has written, and its abort undoes nothing
  (`SkipsInLast`). Or the half-written invalidation of a transaction meets what the
  overtaken one has left, and recovery takes the one for the end of the other;
- a second failure, during a recovery that has come to the last generation: of the
  entries it has invalidated some are still there, and are taken for those of another
  transaction; and `invalidate_remaining_journal` (731), which comes before the barrier
  behind the undone data, may have taken away what that data would be undone from
  (`LostInLast`);
- the generation that recovery moves on to (762) is the last one with the tail in
  mid-journal: the entries of the lap before lie behind the tail and are not invalidated,
  and those in front of it, of the last generation now, are those of two laps
  (`LastBegunLate`).

`past.broken` also marks entries reused while their transaction runs. A
request passes the test for room when nothing is available and cleaning fails, as the
sum is unsigned. The redo paths are never taken. The properties need flushes in the
order of the stores.

*PMFS, volume.* An inode whose number is given up can be taken by another call
before its free transaction has ended; if that fails, its abort restores the old one
(blocks with two owners, a list that points at itself). Truncating an open file
without a name takes it off the truncate list (it is lost by a failure). These are the
races `"reuse"` and `"truncate"`; without the condition `races = {}` and the constraint
`UntilRace` TLC shows both in seconds. A failure between the freeing of an inode and its removal from
the list makes the next mount give up the rest of the list (`lost`). Device nodes are
never freed; `pmfs_create` and `pmfs_mknod` return 0 when there is no inode; `..` of a
moved directory stays. A directory that is renamed over another one leaves the count
of the directory it comes from too high, as `namei.c:744-749` corrects it only where
nothing is replaced. If that directory is itself replaced later, its count does not reach
zero: it keeps a link and no name, is not on the truncate list, and is never freed
(`leaked`, which `NamespaceSound` exempts, as the crawl at a mount takes it to be in use).
The proof of `NamespaceSound` came upon this. The tree: `SEEK_DATA` overshoots in a missing subtree, `SEEK_HOLE` in a hole at
the end returns the size, a tree of height 0 never has a hole (`Regions`).

*scull.* `access.c:122`, `:190` and `:293` trim without the semaphore that
`main.c:57` asks for (`UserOpens`, `WaitOpens`, `Clones`). Quantum and array length are
read before it (`OldParameters`). Items behind the first keep order 0 (`LaterItems`).
scullc's objects keep their first size (`CacheObjects`). An `ioctl` whose argument
cannot be read sets the parameter to 0 (`ZeroQuantum`), one whose answer cannot be
written has taken place (`Exchanges`). A hole reads as the end of the file (`Holes`).
Missing memory is not noticed but in scull (`OutOfMemory`). `sculld`'s fault handler has
lost the statement that finds the page, `scullv` gives the wrong one (`Mappings`). Each
open of a pipe resets it under its sleepers (`ReopenStopsAll`), the last writer's close
wakes nobody (`NoEndOfPipe`), a new size applies to old memory (`NewSize`).

*Loading and unloading* (the facts of `MCLifecycles`): `cdev_add` before the mutex
and the wait queues are initialised (`tdlcd_fifo.c:336`, `ch6/tdlcd.c:232`,
`ch7/globalmem.c:193`) and its errors only printed; `cdev_del` twice for device 0
(`tdlcd_fifo.c:354`, `ch6/tdlcd.c:248`); stores freed twice (`tdlbd.c:213`, `:258`,
`vmem_disk`); high memory that `nvm_init` and `nvm_exit` leave mapped, and `vfree`
of its address (`ramdevice.c:378`, `:423`); everything that `pmbd_create` has got when
it fails, its running syncer among it; PMFS's log cleaner on freed memory after a
failed mount; scull's cleanup of what was never registered; and more in the
examples.

*Not modelled, seen on the way.* pcmsim's copies do not advance
(`ramdisk.c`, the loops of `copy_to_pcmsim` and `copy_from_pcmsim`). `ilog2` returns 2
(`code/NVMSIM/bit_map.c:63`), a macro lacks its last parenthesis (`bit_map.h:40`).

## 8. What is not modelled

- *Third-party and stateless code*: the bandwidth benchmark, the exercises, the
  user-space clients beyond what the models let tasks do, headers.
- *NVMSIM's bitmap*: pure functions on words, used by no driver; the header does not
  compile where its macro is used.
- *pcmsim's timing model*: arithmetic over measured cycles, and `memory.c`, which is
  assembly. What would be modelled of its requests is a copy.
- *PMFS*: `xip.c` and `mmap` beyond how they ask the tree for a block, `ioctl`,
  options, statistics, `/proc`, write protection, `symlink` and `mknod` (which are
  `create` with other modes), directories of more than two data blocks.
- *PMBD*: checksums and their verification, emulated latencies, statistics, private
  mappings, `/proc`, option parsing, the destruction of a device beside its users (only
  its order, as a lifecycle). Of the write protections only
  `PMBD_DEV_USE_WPMODE_PTE`, in which a flush sorts its blocks (`pmbd.c:1809`); the others
  flush in the order of the ring. A bio is one range: one of several segments
  (`:3725-3732`) does both copies of a FUA write segment by segment, where the model has
  all first copies before the second. A flush bio that carries data (`:3645-3656`).
- *The handlers of the remaining LDD3 examples*: they are written for hardware or
  for a subsystem (tty, USB, network) of which they are the smaller half.
- `vmem_disk` (tdlbd for an older kernel) and the ch6 globalmems (the ch7 device without
  locks) but for loading and unloading.

Two reads are taken together or not at all: `llseek` of the ch6 device looks at
`f_pos` twice (`tdlcd.c:155`, `:159`), which `SeekCur` does in one step, so that a
position shared between tasks may change in between in the code and not in the model;
and the walk of recovery may look one entry beyond the journal (`journal.c:291` does not
wrap), where `Finished` stops at its end.

Abstracted everywhere: several minors of one driver (they share nothing but their
code and, in scull, the parameters); the order in which a wait queue wakes its
sleepers (all are woken); kernel preemption inside a step; messages and formatting.
The composition of `PmfsVolume` with `PmfsJournal` is by assumption: a transaction
of the one is a step at its commit because `RecoveryIsAtomic` holds in the other,
and where that has exceptions the volume does not inherit them.
