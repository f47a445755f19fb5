---------------------------- MODULE PmfsJournal -----------------------------
(***************************************************************************)
(* The undo journal of PMFS, code/nvm-ref/pmfs/journal.c, over persistent  *)
(* memory behind a CPU cache: transactions of several tasks, the log       *)
(* cleaner thread, a power failure between any two steps (recovery and     *)
(* unmounting included) and the recovery at the next mount.                *)
(*                                                                         *)
(* Every line of persistent memory has two values: what the CPUs see (log, *)
(* mem, hdr) and what a power failure leaves (nlog, nmem, nhdr).  A line   *)
(* may have been evicted at any time.  A flush writes it back, in the      *)
(* order of the CPU's stores, as clflush does on x86.                      *)
(***************************************************************************)
EXTENDS Integers, FiniteSets

CONSTANTS
  Tasks,        \* the tasks that run transactions
  Objs,         \* the pieces of meta-data; each fits one log entry
  JSize,        \* entries of the journal
  MaxGen,       \* the last generation, MAX_GEN_ID
  MaxEntries,   \* bound: entries a task asks for
  MaxTrans,     \* bound: transactions of a behaviour
  MaxCrashes,   \* bound: power failures
  None          \* no object

ASSUME JournalAssumption ==
  /\ JSize \in Nat \ {0, 1} /\ MaxGen \in Nat \ {0, 1}
  /\ MaxEntries \in Nat \ {0} /\ MaxTrans \in Nat /\ MaxCrashes \in Nat
  /\ None \notin Objs /\ IsFiniteSet(Objs)

VARIABLES
  phase,      \* of the mount: see Phases
  hdr, nhdr,  \* journal->head, tail and gen_id
  log, nlog,  \* the entries
  mem, nmem,  \* the meta-data: the transaction that wrote it last
  trans,      \* the transaction of a task
  cleaner,    \* the log cleaner
  walk,       \* how far recovery has come
  tids,       \* transactions begun
  crashes,
  past        \* no part of the code: what the transactions have promised

journal == <<hdr, nhdr, log, nlog>>
data == <<mem, nmem>>
vars == <<phase, journal, data, trans, cleaner, walk, tids, crashes, past>>

Idx == 0 .. JSize - 1
Tids == 0 .. MaxTrans
Kinds == SUBSET {"start", "commit", "abort"}
Entries == [gen : 0 .. MaxGen, kind : Kinds, obj : Objs \cup {None}, old : Tids]
Blank == [gen |-> 0, kind |-> {}, obj |-> None, old |-> 0]
Phases == {"mounted", "stopping", "unmounted", "crashed", "recovering",
           "invalidated", "forwarding", "forwarded", "recovered"}

NextEntry(i) == IF i + 1 >= JSize THEN 0 ELSE i + 1
PrevEntry(i) == IF i = 0 THEN JSize - 1 ELSE i - 1
NextGen(g) == IF g = MaxGen THEN 1 ELSE g + 1
PrevGen(g) == IF g = 1 THEN MaxGen ELSE g - 1

NoTrans == [pc |-> "idle", tid |-> 0, objs |-> {}, size |-> 0, start |-> 0,
            used |-> 0, gen |-> 0, head |-> 0, logged |-> {},
            kind |-> "none", skipped |-> FALSE]
Asleep == [pc |-> "asleep", head |-> 0, tail |-> 0, gen |-> 0, last |-> FALSE]

NoWalk == [tail |-> 0, gen |-> 1]

Init ==
  /\ phase = "mounted"
  /\ hdr = [head |-> 0, tail |-> 0, gen |-> 1] /\ nhdr = hdr
  /\ log = [i \in Idx |-> Blank] /\ nlog = log
  /\ mem = [o \in Objs |-> 0] /\ nmem = mem
  /\ trans = [t \in Tasks |-> NoTrans]
  /\ cleaner = Asleep
  /\ walk = NoWalk
  /\ tids = 0 /\ crashes = 0
  /\ past = [settled |-> mem, doubt |-> {}, excused |-> {}, broken |-> FALSE]

Running(t) == phase = "mounted" /\ trans[t].pc = "run"
\* t still has entries to write.
Active(t) == trans[t].pc \in {"run", "log"}
\* ... and the cleaner has left those it has alone.
Live(t) == Active(t) /\ ~trans[t].skipped
Busy == UNION {trans[t].objs : t \in Tasks}
Reserved(t) == trans[t].start .. trans[t].start + trans[t].size - 1
\* The entries it has written.
Written(t) == {i \in Reserved(t) : i < trans[t].start + trans[t].used}

-----------------------------------------------------------------------------
(***************************************************************************)
(* Faults.  No part of the code: ways in which a step below could be wrong, *)
(* each of which breaks a property.                                        *)
(***************************************************************************)
\* One entry is not kept free, so that a full journal looks empty.
AvailNoGap(head, tail) == IF tail >= head THEN JSize - (tail - head) ELSE head - tail

\* The entries are not flushed before the data is written.
LogFlushedNot(t) == nlog

\* The new tail is not flushed.
TailFlushedNot(h) == nhdr

\* Undo takes the entries in the order in which they were logged.
UndoneForward(lines, g) ==
  [o \in Objs |->
     LET E == {i \in lines : log[i].gen = g /\ log[i].obj = o} IN
     IF E = {} THEN mem[o]
     ELSE log[CHOOSE i \in E : \A j \in E : j <= i].old]

-----------------------------------------------------------------------------
(***************************************************************************)
(* The cache.  pmfs_flush_buffer and PERSISTENT_BARRIER (sfence).          *)
(***************************************************************************)
MayCrash == phase # "crashed" /\ crashes < MaxCrashes

\* The line of the header is evicted, between two of its changes perhaps.
WriteBackHeader ==
  /\ nhdr # hdr /\ MayCrash
  /\ nhdr' = hdr
  /\ UNCHANGED <<phase, hdr, log, nlog, data, trans, cleaner, walk, tids, crashes, past>>

-----------------------------------------------------------------------------
(***************************************************************************)
(* pmfs_new_transaction.                                                   *)
(***************************************************************************)
\* The header after the flush of its line.
TailFlushed(h) == h

\* Entries that are free; one is never used.
Avail(head, tail) == (IF tail >= head THEN JSize - (tail - head) ELSE head - tail) - 1

\* avail_size + freed_size is unsigned and freed_size is -ENOMEM: with nothing
\* available the sum is large enough for any request.
Fits(avail, size) == avail >= size \/ avail = 0

\* The journal mutex is held between the two parts of a wrap.
MutexFree == \A t \in Tasks : trans[t].pc # "wrapped"

\* No part of the code: the reservation takes entries of a transaction that the
\* cleaner has overtaken.
Reuses(size) ==
  /\ hdr.tail + size < JSize
  /\ \E u \in Tasks : Active(u) /\ trans[u].skipped
                     /\ Reserved(u) \cap (hdr.tail .. hdr.tail + size - 1) # {}

\* The label again, entered with the head that the task has read: journal_full,
\* a wrap that starts a lap and tries again, or the reservation.
Reserve(t, r) ==
  LET avail == Avail(r.head, hdr.tail) IN
  IF ~Fits(avail, r.size)
  THEN /\ trans' = [trans EXCEPT ![t] = NoTrans]
       /\ UNCHANGED <<hdr, nhdr, cleaner, past>>
  ELSE /\ past' = [past EXCEPT !.broken = @ \/ avail < r.size \/ Reuses(r.size)]
       /\ IF hdr.tail + r.size >= JSize
          THEN /\ hdr' = [hdr EXCEPT !.tail = 0, !.gen = NextGen(@)]
               /\ trans' = [trans EXCEPT ![t] = [r EXCEPT !.pc = "wrapped"]]
               /\ UNCHANGED <<nhdr, cleaner>>
          ELSE /\ hdr' = [hdr EXCEPT !.tail = @ + r.size]
               /\ nhdr' = TailFlushed(hdr')
               /\ trans' = [trans EXCEPT ![t] =
                    [r EXCEPT !.pc = "run", !.start = hdr.tail, !.gen = hdr.gen]]
               /\ cleaner' = IF cleaner.pc = "asleep"
                                /\ 8 * (JSize - (avail - r.size)) > JSize
                             THEN [cleaner EXCEPT !.pc = "woken"] ELSE cleaner

\* Bound: after the last failure nothing new begins.
NewTransaction(t) ==
  /\ phase = "mounted" /\ trans[t].pc = "idle" /\ MutexFree
  /\ tids < MaxTrans /\ crashes < MaxCrashes
  /\ tids' = tids + 1
  /\ \E objs \in SUBSET (Objs \ Busy) \ {{}}, spare \in 0 .. 1 :
       /\ Cardinality(objs) + spare <= MaxEntries
       /\ Reserve(t, [NoTrans EXCEPT !.tid = tids + 1, !.objs = objs, !.head = hdr.head,
                                     !.size = Cardinality(objs) + spare + 1])
  /\ UNCHANGED <<phase, log, nlog, data, walk, crashes>>

Again(t) ==
  /\ phase = "mounted" /\ trans[t].pc = "wrapped"
  /\ Reserve(t, trans[t])
  /\ UNCHANGED <<phase, log, nlog, data, walk, tids, crashes>>

-----------------------------------------------------------------------------
(***************************************************************************)
(* pmfs_add_logentry, and the changes it is called for.                    *)
(***************************************************************************)
EntryAt(t) == trans[t].start + trans[t].used

\* What the entry at position i + k of the transaction says besides its object.
EntryOf(t, k, kind, o) ==
  [gen |-> trans[t].gen, obj |-> o, old |-> IF o = None THEN 0 ELSE mem[o],
   kind |-> kind \cup (IF k = 0 THEN {"start"} ELSE {})]

\* One call logs a set of objects (fields of one structure), in any order; what
\* is logged already may be logged once more, while there is room.
AddLogEntry(t) ==
  /\ Running(t)
  /\ \E objs \in SUBSET trans[t].objs \ {{}} :
     \E ord \in [0 .. Cardinality(objs) - 1 -> objs] :
       /\ trans[t].used + Cardinality(objs) < trans[t].size
       /\ \A o \in objs : \E k \in DOMAIN ord : ord[k] = o
       /\ log' = [i \in Idx |->
            IF i - EntryAt(t) \in DOMAIN ord
            THEN EntryOf(t, i - trans[t].start, {}, ord[i - EntryAt(t)]) ELSE log[i]]
       /\ trans' = [trans EXCEPT ![t].pc = "log", ![t].logged = @ \cup objs,
                                 ![t].used = @ + Cardinality(objs)]
  /\ UNCHANGED <<phase, hdr, nhdr, nlog, data, cleaner, walk, tids, crashes, past>>

\* The entries of t are flushed, and fenced.
LogFlushed(t) == [i \in Idx |-> IF i \in Written(t) THEN log[i] ELSE nlog[i]]

LogFence(t) ==
  /\ phase = "mounted" /\ trans[t].pc = "log"
  /\ nlog' = LogFlushed(t)
  /\ trans' = [trans EXCEPT ![t].pc = "run"]
  /\ UNCHANGED <<phase, hdr, nhdr, log, data, cleaner, walk, tids, crashes, past>>

\* The caller changes all that it has logged.
Store(t) ==
  /\ Running(t)
  /\ mem' = [o \in Objs |-> IF o \in trans[t].logged THEN trans[t].tid ELSE mem[o]]
  /\ UNCHANGED <<phase, journal, nmem, trans, cleaner, walk, tids, crashes, past>>

-----------------------------------------------------------------------------
(***************************************************************************)
(* pmfs_commit_transaction and pmfs_abort_transaction.                     *)
(***************************************************************************)
\* The entry that ends the transaction.
LastEntry(t, kind) ==
  /\ log' = [log EXCEPT ![EntryAt(t)] = EntryOf(t, trans[t].used, {kind}, None)]
  /\ trans' = [trans EXCEPT ![t].pc = "end", ![t].used = @ + 1, ![t].kind = kind]

\* pmfs_flush_transaction and the barrier behind it.
CommittedData(t) == [o \in Objs |-> IF o \in trans[t].logged THEN mem[o] ELSE nmem[o]]

Commit(t) ==
  /\ Running(t) /\ trans[t].logged = trans[t].objs
  /\ \A o \in trans[t].objs : mem[o] = trans[t].tid
  /\ nmem' = CommittedData(t)
  /\ LastEntry(t, "commit")
  /\ UNCHANGED <<phase, hdr, nhdr, nlog, mem, cleaner, walk, tids, crashes, past>>

\* pmfs_undo_transaction: the first entry of an object is the last one undone.
Undone(lines, g) ==
  [o \in Objs |->
     LET E == {i \in lines : log[i].gen = g /\ log[i].obj = o} IN
     IF E = {} THEN mem[o]
     ELSE log[CHOOSE i \in E : \A j \in E : i <= j].old]

Abort(t) ==
  /\ Running(t)
  /\ mem' = Undone(Written(t), trans[t].gen)
  /\ nmem' = [o \in Objs |-> IF o \in trans[t].logged THEN mem'[o] ELSE nmem[o]]
  /\ LastEntry(t, "abort")
  /\ UNCHANGED <<phase, hdr, nhdr, nlog, cleaner, walk, tids, crashes, past>>

LastFence(t) ==
  /\ phase = "mounted" /\ trans[t].pc = "end"
  /\ nlog' = LogFlushed(t)
  /\ past' = [past EXCEPT !.settled =
       [o \in Objs |-> IF trans[t].kind = "commit" /\ o \in trans[t].objs
                       THEN trans[t].tid ELSE @[o]]]
  /\ trans' = [trans EXCEPT ![t] = NoTrans]
  /\ UNCHANGED <<phase, hdr, nhdr, log, data, cleaner, walk, tids, crashes>>

-----------------------------------------------------------------------------
(***************************************************************************)
(* pmfs_clean_journal, run by pmfs_log_cleaner.                            *)
(***************************************************************************)
\* The generation at the head: the one before, when the tail has wrapped.
LapOfCleaner(h) == IF h.tail < h.head THEN PrevGen(h.gen) ELSE h.gen

CleanStart ==
  /\ phase \in {"mounted", "stopping"} /\ cleaner.pc = "woken"
  /\ cleaner' = [cleaner EXCEPT !.pc = "scan", !.head = hdr.head, !.tail = hdr.tail,
                                !.gen = LapOfCleaner(hdr)]
  /\ UNCHANGED <<phase, journal, data, trans, walk, tids, crashes, past>>

Ends(i, g) == log[i].gen = g /\ log[i].kind \cap {"commit", "abort"} # {}
Starts(i, g) == log[i].gen = g /\ "start" \in log[i].kind

\* pmfs_process_transaction: the lines of the transaction that starts at head,
\* none if the end or the next transaction comes before its last entry.  A lap ends
\* with the journal: that le (291) runs on behind its last entry instead of
\* wrapping is left out.
Finished(head, tail, g) ==
  LET lines == head .. IF tail > head THEN tail - 1 ELSE JSize - 1
      ends == {i \in lines : Ends(i, g) /\ \A j \in head + 1 .. i : ~Starts(j, g)} IN
  IF ends = {} THEN {} ELSE head .. CHOOSE i \in ends : \A j \in ends : i <= j

\* invalidate_gen_id, only before the generations start again.
Invalidated(lines, g) ==
  [i \in Idx |-> IF i \in lines /\ g = MaxGen THEN [log[i] EXCEPT !.gen = 0] ELSE log[i]]

Lowest(lines) == CHOOSE i \in lines : \A j \in lines : i <= j

\* pmfs_invalidate_logentries has the first entry of a transaction, and all it has
\* invalidated before, persistent before it goes on.
FirstFenced(lines, g) ==
  [j \in Idx |->
     IF /\ g = MaxGen /\ Invalidated(lines, g)[j].gen = 0
        /\ \E i \in lines : log[i].kind = {"start"} /\ (j \in lines => j <= i)
     THEN Invalidated(lines, g)[j] ELSE nlog[j]]

\* The entries that the cleaner leaves behind in one turn of its loop.
Passed ==
  LET h == cleaner.head IN
  IF ~Starts(h, cleaner.gen) THEN {h} ELSE Finished(h, cleaner.tail, cleaner.gen)

\* No part of the code: the cleaner overtakes t, and does so in the last generation.
Skips(t) == Active(t) /\ Reserved(t) \cap Passed # {}
SkipsInLast == cleaner.gen = MaxGen /\ \E t \in Tasks : Skips(t)

CleanStep ==
  /\ phase \in {"mounted", "stopping"} /\ cleaner.pc = "scan"
  /\ IF cleaner.head = cleaner.tail \/ Passed = {}
     THEN cleaner' = [cleaner EXCEPT !.pc = "store"] /\ UNCHANGED <<log, nlog, trans, past>>
     ELSE LET new == NextEntry(CHOOSE i \in Passed : \A j \in Passed : j <= i) IN
          /\ cleaner' = [cleaner EXCEPT !.head = new,
                                        !.gen = IF new = 0 THEN NextGen(@) ELSE @]
          /\ IF log[cleaner.head].gen = cleaner.gen /\ ~Starts(cleaner.head, cleaner.gen)
             THEN UNCHANGED <<log, nlog>>
             ELSE /\ log' = Invalidated(Passed, cleaner.gen)
                  /\ nlog' = IF Starts(cleaner.head, cleaner.gen)
                             THEN FirstFenced(Passed, cleaner.gen) ELSE nlog
          /\ trans' = [t \in Tasks |->
               [trans[t] EXCEPT !.skipped = @ \/ Skips(t)]]
          /\ past' = [past EXCEPT !.broken = @ \/ SkipsInLast]
  /\ UNCHANGED <<phase, hdr, nhdr, data, walk, tids, crashes>>

\* The barrier, and the new head.
CleanHead ==
  /\ phase \in {"mounted", "stopping"} /\ cleaner.pc = "store"
  /\ nlog' = [i \in Idx |-> IF log[i].gen = 0 THEN log[i] ELSE nlog[i]]
  /\ hdr' = [hdr EXCEPT !.head = cleaner.head]
  /\ cleaner' = [cleaner EXCEPT !.pc = "fence"]
  /\ UNCHANGED <<phase, nhdr, log, data, trans, walk, tids, crashes, past>>

\* The fence.  A wake-up that came meanwhile has found nobody asleep.
CleanEnd ==
  /\ phase \in {"mounted", "stopping"} /\ cleaner.pc = "fence"
  /\ nhdr' = hdr
  /\ cleaner' = Asleep
  /\ phase' = IF cleaner.last THEN "unmounted" ELSE phase
  /\ UNCHANGED <<hdr, log, nlog, data, trans, walk, tids, crashes, past>>

\* pmfs_journal_uninit: kthread_stop wakes the cleaner only if it sleeps.
Unmount ==
  /\ phase = "mounted" /\ \A t \in Tasks : trans[t].pc = "idle"
  /\ phase' = "stopping"
  /\ cleaner' = IF cleaner.pc = "asleep" THEN [cleaner EXCEPT !.pc = "woken", !.last = TRUE]
                ELSE cleaner
  /\ UNCHANGED <<journal, data, trans, walk, tids, crashes, past>>

-----------------------------------------------------------------------------
(***************************************************************************)
(* A power failure, and pmfs_recover_journal at the next mount.            *)
(***************************************************************************)
\* No part of the code: a failure of a recovery that has come to the last generation,
\* and does not leave all that it has invalidated, or all that it has undone before.
LostInLast ==
  \/ phase \in {"recovering", "invalidated"} /\ nlog' # log
  \/ phase = "invalidated" /\ hdr.gen = MaxGen /\ nmem' # mem

\* Any of the lines that are not written back may have been evicted.
Crash ==
  /\ MayCrash
  /\ phase' = "crashed" /\ crashes' = crashes + 1
  /\ hdr' = nhdr /\ walk' = NoWalk
  /\ \E I \in SUBSET {i \in Idx : nlog[i] # log[i]} :
       nlog' = [i \in Idx |-> IF i \in I THEN log[i] ELSE nlog[i]]
  /\ \E O \in SUBSET {o \in Objs : nmem[o] # mem[o]} :
       nmem' = [o \in Objs |-> IF o \in O THEN mem[o] ELSE nmem[o]]
  /\ log' = nlog' /\ mem' = nmem'
  /\ trans' = [t \in Tasks |-> NoTrans] /\ cleaner' = Asleep
  /\ past' = [past EXCEPT
       !.doubt = @ \cup {[tid |-> trans[t].tid, objs |-> trans[t].objs] :
                           t \in {u \in Tasks : trans[u].pc = "end" /\ trans[u].kind = "commit"}},
       !.excused = @ \cup UNION {trans[t].objs : t \in {u \in Tasks : trans[u].skipped}},
       !.broken = @ \/ LostInLast]
  /\ UNCHANGED <<nhdr, tids>>

\* An empty journal is not recovered, and so keeps its generation.
Mount ==
  /\ phase \in {"crashed", "unmounted"}
  /\ phase' = IF hdr.head = hdr.tail THEN "recovered" ELSE "recovering"
  /\ walk' = [tail |-> hdr.tail, gen |-> hdr.gen]
  /\ UNCHANGED <<journal, data, trans, cleaner, tids, crashes, past>>

\* pmfs_recover_transaction: the lines of the transaction whose last valid entry
\* is at i, back to its start or to the end of the one before.
Backward(i, g) ==
  LET low == IF hdr.head <= i THEN hdr.head ELSE 0 IN
  (CHOOSE b \in low .. i :
     /\ Starts(b, g) \/ b = low \/ Ends(b - 1, g)
     /\ \A j \in b + 1 .. i : ~Starts(j, g) /\ ~Ends(j - 1, g)) .. i

Unfinished(lines, g) == Starts(Lowest(lines), g) /\ \A i \in lines : ~Ends(i, g)

\* One turn of the loop of pmfs_recover_undo_journal.
RecoverStep ==
  /\ phase = "recovering" /\ walk.tail # hdr.head
  /\ LET g == IF walk.tail = 0 THEN PrevGen(walk.gen) ELSE walk.gen
         i == PrevEntry(walk.tail)
         lines == IF log[i].gen = g THEN Backward(i, g) ELSE {i}
         undo == log[i].gen = g /\ Unfinished(lines, g) IN
     /\ walk' = [tail |-> Lowest(lines), gen |-> g]
     /\ mem' = IF undo THEN Undone(lines, g) ELSE mem
     /\ log' = Invalidated(lines, g)
     /\ nlog' = IF log[i].gen = g THEN FirstFenced(lines, g) ELSE nlog
     /\ nmem' = IF g = MaxGen /\ undo THEN mem' ELSE nmem
  /\ UNCHANGED <<phase, hdr, nhdr, trans, cleaner, tids, crashes, past>>

\* pmfs_forward_journal: a new generation, so that no entry beyond the tail is
\* ever taken for one of the laps to come.
ForwardInvalidate ==
  /\ phase = "recovering" /\ walk.tail = hdr.head
  /\ log' = Invalidated(hdr.tail .. JSize - 1, hdr.gen)
  /\ phase' = "invalidated"
  /\ UNCHANGED <<hdr, nhdr, nlog, data, trans, cleaner, walk, tids, crashes, past>>

\* No part of the code: the lap of the last generation begins in mid-journal.
LastBegunLate == NextGen(hdr.gen) = MaxGen /\ hdr.tail # 0

ForwardGen ==
  /\ phase = "invalidated"
  /\ nlog' = log /\ nmem' = mem
  /\ hdr' = [hdr EXCEPT !.gen = NextGen(@)]
  /\ past' = [past EXCEPT !.broken = @ \/ LastBegunLate]
  /\ phase' = "forwarding"
  /\ UNCHANGED <<nhdr, log, mem, trans, cleaner, walk, tids, crashes>>

ForwardHead ==
  /\ phase = "forwarding"
  /\ hdr' = [hdr EXCEPT !.head = hdr.tail]
  /\ phase' = "forwarded"
  /\ UNCHANGED <<nhdr, log, nlog, data, trans, cleaner, walk, tids, crashes, past>>

ForwardFence ==
  /\ phase = "forwarded"
  /\ nhdr' = hdr
  /\ phase' = "recovered"
  /\ UNCHANGED <<hdr, log, nlog, data, trans, cleaner, walk, tids, crashes, past>>

\* The mount goes on; what has been in doubt is settled by what is found.
Mounted ==
  /\ phase = "recovered"
  /\ phase' = "mounted"
  /\ walk' = NoWalk
  /\ past' = [past EXCEPT !.settled = mem, !.doubt = {}, !.excused = {}]
  /\ UNCHANGED <<journal, data, trans, cleaner, tids, crashes>>

-----------------------------------------------------------------------------
TaskStep(t) ==
  \/ NewTransaction(t) \/ Again(t) \/ AddLogEntry(t) \/ LogFence(t) \/ Store(t)
  \/ Commit(t) \/ Abort(t) \/ LastFence(t)

Cleaning == CleanStart \/ CleanStep \/ CleanHead \/ CleanEnd
Recovery == Mount \/ RecoverStep \/ ForwardInvalidate \/ ForwardGen \/ ForwardHead
            \/ ForwardFence \/ Mounted

Next ==
  \/ \E t \in Tasks : TaskStep(t)
  \/ Cleaning \/ Unmount \/ Recovery \/ Crash
  \/ WriteBackHeader

Spec == Init /\ [][Next]_vars

-----------------------------------------------------------------------------
TransType ==
  [pc : {"idle", "wrapped", "run", "log", "end"}, tid : Tids, objs : SUBSET Objs,
   size : 0 .. MaxEntries + 1, start : Idx, used : 0 .. MaxEntries + 1, gen : 0 .. MaxGen,
   head : Idx, logged : SUBSET Objs, kind : {"none", "commit", "abort"},
   skipped : BOOLEAN]

\* The types; the tail and the head, and whoever walks over the log, stay inside it.
HeaderType == {hdr, nhdr} \subseteq [head : Idx, tail : Idx, gen : 1 .. MaxGen]
LogType == {log, nlog} \subseteq [Idx -> Entries]
DataType == {mem, nmem} \subseteq [Objs -> Tids]
CleanerType ==
  cleaner \in [pc : {"asleep", "woken", "scan", "store", "fence"}, head : Idx, tail : Idx,
               gen : 0 .. MaxGen, last : BOOLEAN]
PastType ==
  past \in [settled : [Objs -> Tids], doubt : SUBSET [tid : Tids, objs : SUBSET Objs],
            excused : SUBSET Objs, broken : BOOLEAN]

TypeOK ==
  /\ phase \in Phases
  /\ HeaderType /\ LogType /\ DataType
  /\ trans \in [Tasks -> TransType]
  /\ CleanerType
  /\ walk \in [tail : Idx, gen : 1 .. MaxGen]
  /\ tids \in Tids /\ crashes \in 0 .. MaxCrashes
  /\ PastType

\* After recovery each object holds what the last committed transaction wrote,
\* and a transaction that was committing has happened as a whole or not at all.
Consistent(excused) ==
  \A o \in Objs \ excused :
    \/ mem[o] = past.settled[o]
    \/ \E d \in past.doubt : o \in d.objs /\ \A p \in d.objs \ excused : mem[p] = d.tid

\* What the code keeps of "consistent meta-data updates" (journal.c:3): transactions
\* that the cleaner has overtaken before their first entry are lost, and nothing is
\* sure once the entries of a running one have been reused or invalidated or a full
\* journal has been overrun; no other transaction is torn by any failure.  A recovery that
\* begins the lap of the last generation in mid-journal (LastBegunLate) sets past.broken
\* as well: neither it nor what follows it is judged.
RecoveryIsAtomic == phase = "recovered" /\ ~past.broken => Consistent(past.excused)

\* pmfs_abort_transaction takes back what the transaction has changed, and a
\* committed change stays, also while others use, wrap and clean the journal.
OnlyOwnChanges ==
  phase = "mounted" /\ ~past.broken =>
    \A o \in Objs : (\A t \in Tasks : o \notin trans[t].objs) => mem[o] = past.settled[o]

\* No two transactions share an entry, however the journal wraps, but for those
\* that the cleaner has overtaken.
ReservationsApart ==
  phase = "mounted" /\ ~past.broken =>
    \A t, u \in Tasks :
      t # u /\ Live(t) /\ Live(u) => Reserved(t) \cap Reserved(u) = {}

\* The entries of a transaction that the cleaner has not overtaken lie between
\* the head and the tail of any header a power failure can leave, once the
\* transaction may have changed something.
Between(h) == IF h.head <= h.tail THEN h.head .. h.tail - 1
              ELSE (h.head .. JSize - 1) \cup 0 .. h.tail - 1
LiveEntriesKept ==
  phase = "mounted" /\ ~past.broken =>
    \A t \in Tasks : trans[t].pc = "run" /\ trans[t].used > 0 /\ ~trans[t].skipped
      => Reserved(t) \subseteq Between(hdr) \cap Between(nhdr)

-----------------------------------------------------------------------------
(***************************************************************************)
(* What the proofs add to the properties to make them inductive.           *)
(***************************************************************************)
\* How far the journal has been cleaned.
Front == IF cleaner.pc \in {"scan", "store"} THEN cleaner.head ELSE hdr.head

\* Who goes round the journal from a meets b before c, or with it.
InOrder(a, b, c) == IF a <= c THEN a <= b /\ b <= c ELSE a <= b \/ b <= c

\* Transactions and the cleaner belong to a mounted volume.
Stages ==
  /\ phase # "mounted" => \A t \in Tasks : trans[t].pc = "idle"
  /\ phase \notin {"mounted", "stopping"} => cleaner.pc = "asleep"
  /\ cleaner.last => phase = "stopping"

\* The entries of a transaction are entries of the journal; the last is kept for its end.
EntriesFit ==
  \A t \in Tasks :
    /\ trans[t].pc # "idle" => trans[t].size > 0 /\ trans[t].used <= trans[t].size
    /\ trans[t].pc \in {"wrapped", "run", "log"} => trans[t].used < trans[t].size
    /\ trans[t].pc \in {"run", "log", "end"} => trans[t].start + trans[t].size < JSize

\* Between the two parts of a wrap the tail is 0, and the head that has been read is not.
WrapInHand ==
  \A t \in Tasks : trans[t].pc = "wrapped" =>
    /\ \A u \in Tasks : trans[u].pc = "wrapped" => u = t
    /\ hdr.tail = 0 /\ trans[t].head > 0
    /\ hdr.head = 0 \/ trans[t].head <= hdr.head

\* The cleaner is on its way from the head to the tail, as it has read them.
CleanerOnWay ==
  cleaner.pc \in {"scan", "store"} =>
    /\ InOrder(hdr.head, cleaner.head, cleaner.tail)
    /\ InOrder(hdr.head, cleaner.tail, hdr.tail)

\* The entries of r are entries between head and tail.
Inside(r, head, tail) ==
  IF head <= tail THEN head <= r.start /\ r.start + r.size <= tail
  ELSE head <= r.start \/ r.start + r.size <= tail

\* Live transactions lie in front of the cleaner, and no two in one place.
LiveInFront ==
  \A t \in Tasks : Live(t) =>
    /\ Inside(trans[t], hdr.head, hdr.tail) /\ Inside(trans[t], nhdr.head, nhdr.tail)
    /\ Inside(trans[t], Front, hdr.tail)
    /\ \A u \in Tasks : Live(u) /\ u # t =>
         \/ trans[t].start + trans[t].size <= trans[u].start
         \/ trans[u].start + trans[u].size <= trans[t].start

\* What a transaction carries at each of its places.
Carried(t) ==
  /\ trans[t].logged \subseteq trans[t].objs
  /\ trans[t].pc = "idle" => trans[t].objs = {}
  /\ trans[t].pc = "wrapped" => trans[t].logged = {} /\ trans[t].used = 0 /\ ~trans[t].skipped
  /\ trans[t].pc = "end" => trans[t].kind \in {"commit", "abort"}

\* No two transactions have an object in common, nor, overtaken or not, an entry.
OneWriter ==
  \A t, u \in Tasks : t # u =>
    /\ trans[t].objs \cap trans[u].objs = {}
    /\ Active(t) /\ Active(u) => Reserved(t) \cap Reserved(u) = {}

\* The first entry of each logged object has what was there before the transaction.
LogTells(t) ==
  Active(t) =>
    /\ \A i \in Written(t) : log[i].gen = trans[t].gen /\ log[i].obj \in trans[t].logged
    /\ \A o \in trans[t].logged :
         \E i \in Written(t) :
           /\ log[i].obj = o /\ log[i].old = past.settled[o]
           /\ \A j \in Written(t) : log[j].obj = o => i <= j

\* What a transaction has not logged is as it was; when it ends all is done, or undone.
Owned(t) ==
  /\ trans[t].pc \in {"wrapped", "run", "log"} =>
       \A o \in trans[t].objs \ trans[t].logged : mem[o] = past.settled[o]
  /\ trans[t].pc = "end" =>
       \A o \in trans[t].objs :
         mem[o] = IF trans[t].kind = "commit" THEN trans[t].tid ELSE past.settled[o]

IInv ==
  /\ TypeOK /\ Stages /\ EntriesFit
  /\ ~past.broken => WrapInHand /\ CleanerOnWay /\ LiveInFront

\* The same for the changes.
OwnInv ==
  /\ \A t \in Tasks : Carried(t)
  /\ phase = "mounted" /\ ~past.broken =>
       OneWriter /\ OnlyOwnChanges /\ \A t \in Tasks : LogTells(t) /\ Owned(t)
=============================================================================
