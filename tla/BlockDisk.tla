----------------------------- MODULE BlockDisk ------------------------------
(***************************************************************************)
(* What the RAM disks of this repository have in common: a data store of   *)
(* sectors, the bios that tasks submit to it, and what they may expect of  *)
(* it.  NvmDisk and Tdlbd extend it by their drivers.                      *)
(*                                                                         *)
(* A bio is a list of segments, each some sectors long and in a page of    *)
(* its own.  Copying is not atomic: it moves one word after the other, and *)
(* a sector has several.  What a word holds is abstracted to where it      *)
(* comes from: the write that wrote it, and the sector it was meant for.   *)
(***************************************************************************)
EXTENDS Integers, Sequences, Functions

CONSTANTS
  Task,        \* the tasks that submit bios, one at a time each
  Readers, Writers,    \* those that read, and those that write
  Words,       \* words of a sector
  Segments,    \* per task, the lists of segments of its bios, lengths in sectors
  MaxSector,   \* the highest sector a bio may start at
  MaxWrites    \* the bound on the number of writes

ASSUME BlockAssumption ==
  /\ Readers \cup Writers \subseteq Task
  /\ Words \in Nat \ {0}
  /\ Segments \in [Task -> SUBSET (Seq(Nat \ {0}) \ {<<>>})]
  /\ MaxSector \in Nat /\ MaxWrites \in Nat

VARIABLES
  capacity,    \* get_capacity(disk), in sectors
  data,        \* the data store, by sector and word
  pc,          \* per task, where its bio is
  bio,         \* per task, its bio
  page,        \* per task, the memory a read fills, by sector of the bio and word
  cur,         \* per bio, the driver's sector, segment and word of it
  status,      \* per task, how its last bio has ended
  written,     \* how many writes there were
  ended,       \* the writes that have ended
  older,       \* per task, the writes that had ended when it submitted its bio
  stale        \* by sector, the writes that ended ones have since written over

disk == <<capacity, data>>
ghosts == <<written, ended, older, stale>>
blockVars == <<disk, pc, bio, page, cur, status, ghosts>>

-----------------------------------------------------------------------------
\* The stamps of writes; 0 is that of what the memory held before the first one.
Stamp == 0 .. MaxWrites
Nowhere == -1

Word(stamp, place) == [stamp |-> stamp, place |-> place]
Junk == Word(0, Nowhere)

\* How many sectors of a bio lie before its segment i, i - 1 segments in.
Before(segs, i) ==
  LET sum[j \in 0 .. Len(segs)] == IF j = 0 THEN 0 ELSE sum[j - 1] + segs[j]
  IN  sum[i - 1]

Size(segs) == Before(segs, Len(segs) + 1)
Sectors(b) == b.sector .. b.sector + Size(b.segs) - 1

NoBio == [write |-> FALSE, sector |-> 0, segs |-> <<1>>, stamp |-> 0]
Start(sector) == [sector |-> sector, seg |-> 1, word |-> 0]

\* Word w, from 0, of segment i of the bio of t: where it is, and what it holds.
Place(t, i, w) == Before(bio[t].segs, i) + w \div Words
Content(t, i, w) == Word(bio[t].stamp, bio[t].sector + Place(t, i, w))

BlockInit(sectors) ==
  /\ data = [s \in 0 .. sectors - 1 |-> [k \in 0 .. Words - 1 |-> Word(0, s)]]
  /\ pc = [t \in Task |-> "idle"]
  /\ bio = [t \in Task |-> NoBio]
  /\ page = [t \in Task |-> <<>>]
  /\ cur = [t \in Task |-> Start(0)]
  /\ status = [t \in Task |-> "none"]
  /\ written = 0 /\ ended = {0}
  /\ older = [t \in Task |-> {}]
  /\ stale = [s \in 0 .. sectors - 1 |-> {}]

-----------------------------------------------------------------------------
(***************************************************************************)
(* The block layer.  It hands out no bio that reaches beyond the disk, but *)
(* does not look at the bios of a disk with capacity 0.                    *)
(***************************************************************************)
\* A task comes with bio b, of n sectors, and its pages.
Enter(t, b, n) ==
  /\ bio' = [bio EXCEPT ![t] = b]
  /\ page' = [page EXCEPT ![t] = [i \in 0 .. n - 1 |-> [k \in 0 .. Words - 1 |-> Junk]]]
  /\ cur' = [cur EXCEPT ![t] = Start(b.sector)]
  /\ older' = [older EXCEPT ![t] = ended]

Submit(t) ==
  /\ pc[t] = "idle"
  /\ \E sector \in 0 .. MaxSector, segs \in Segments[t], write \in BOOLEAN :
       /\ capacity # 0 => sector + Size(segs) <= capacity
       /\ IF write THEN t \in Writers /\ written < MaxWrites ELSE t \in Readers
       /\ written' = IF write THEN written + 1 ELSE written
       /\ Enter(t, [write |-> write, sector |-> sector, segs |-> segs,
                    stamp |-> IF write THEN written + 1 ELSE 0], Size(segs))
  /\ pc' = [pc EXCEPT ![t] = "submitted"]
  /\ UNCHANGED <<disk, status, ended, stale>>

\* bio_endio of the bios of the tasks in S, whose data has been moved: what was
\* on their sectors before is not to be seen again.
EndBios(S) ==
  LET writes == {t \in S : bio[t].write} IN
  /\ pc' = [t \in Task |-> IF t \in S THEN "ended" ELSE pc[t]]
  /\ status' = [t \in Task |-> IF t \in S THEN "ok" ELSE status[t]]
  /\ ended' = ended \cup {bio[t].stamp : t \in writes}
  /\ stale' = [s \in DOMAIN stale |->
                 stale[s] \cup UNION {older[t] : t \in {u \in writes : s \in Sectors(bio[u])}}]
  /\ UNCHANGED <<written, older>>

\* The submitter looks at what it has got.
Reap(t) ==
  /\ pc[t] = "ended"
  /\ pc' = [pc EXCEPT ![t] = "idle"]
  /\ bio' = [bio EXCEPT ![t] = NoBio]
  /\ page' = [page EXCEPT ![t] = <<>>]
  /\ cur' = [cur EXCEPT ![t] = Start(0)]
  /\ status' = [status EXCEPT ![t] = "none"]
  /\ older' = [older EXCEPT ![t] = {}]
  /\ UNCHANGED <<disk, written, ended, stale>>

\* Word w of segment i of t goes from page to sector s of the disk, or back.
CopyWord(t, i, w, s) ==
  LET p == Place(t, i, w)  k == w % Words IN
  IF bio[t].write
  THEN data' = [data EXCEPT ![s][k] = Content(t, i, w)] /\ UNCHANGED page
  ELSE page' = [page EXCEPT ![t][p][k] = data[s][k]] /\ UNCHANGED data

-----------------------------------------------------------------------------
Value == [stamp : Stamp, place : Nat \cup {Nowhere}]

BlockTypeOK ==
  /\ capacity \in Nat
  /\ \A s \in DOMAIN data : data[s] \in [0 .. Words - 1 -> Value]
  /\ DOMAIN pc = Task
  /\ bio \in [Task -> [write : BOOLEAN, sector : Nat, segs : (UNION Range(Segments)) \cup {<<1>>}, stamp : Stamp]]
  /\ \A t \in Task : \A i \in DOMAIN page[t] : page[t][i] \in [0 .. Words - 1 -> Value]
  /\ cur \in [Task -> [sector : Nat, seg : Nat \ {0}, word : Nat]]
  /\ status \in [Task -> {"none", "ok", "error"}]
  /\ written \in Stamp /\ ended \subseteq Stamp
  /\ older \in [Task -> SUBSET Stamp]
  /\ stale \in [DOMAIN data -> SUBSET Stamp]

\* The read of t has ended well, with bytes of the disk to show.
HasRead(t) == pc[t] = "ended" /\ status[t] = "ok" /\ ~bio[t].write /\ capacity # 0

\* What is on a sector was meant for it, and what a read of it returns too.
InPlace ==
  /\ \A s \in DOMAIN data : \A k \in DOMAIN data[s] : data[s][k].place = s
  /\ \A t \in Task : HasRead(t) =>
       \A i \in DOMAIN page[t] : \A k \in DOMAIN page[t][i] :
         page[t][i][k].place = bio[t].sector + i

\* What an ended write has written over does not come back: no sector holds a
\* word that had been there when a write of all of it was submitted that has ended.
NoStaleData ==
  \A s \in DOMAIN data : \A k \in DOMAIN data[s] : data[s][k].stamp \notin stale[s]

\* A read that ends returns whole sectors, each of one write.
ReadsAreWhole ==
  \A t \in Task : HasRead(t) =>
    \A i \in DOMAIN page[t] : \A k, l \in DOMAIN page[t][i] :
      page[t][i][k].stamp = page[t][i][l].stamp
=============================================================================
