--------------------------- MODULE NvmDiskProofs ----------------------------
(***************************************************************************)
(* Proofs about NvmDisk, for any tasks, lists of segments, sizes of the    *)
(* disk (0, too) and numbers of writes, though nothing is locked.          *)
(*                                                                         *)
(* The inductive invariant Inv says how the driver's sector follows the    *)
(* segments of the bio (Cursors), and so which words of it have been moved *)
(* (Done): those of a read hold what is meant for them (ReadsInPlace), and *)
(* those of a write have taken the place of all that had ended when it was *)
(* submitted (Overwrites).  The writes on their way have stamps of their   *)
(* own (Stamps).  One lemma per action keeps it.                           *)
(***************************************************************************)
EXTENDS NvmDisk, WellFoundedInduction, TLAPS

-----------------------------------------------------------------------------
(***************************************************************************)
(* Segments, sectors and words: lemmas about BlockDisk, for any tasks,     *)
(* lists of segments, words of a sector and numbers of writes;             *)
(* TdlbdProofs has the same lemmas of the other driver.                    *)
(*                                                                         *)
(* The sum of the lengths is a recursive function of the number of         *)
(* segments.  What it is follows without induction: the numbers at which   *)
(* it failed would have a least one, and would fail one before it, too.    *)
(***************************************************************************)
\* Of some natural numbers one is the least.
LEMMA LeastNumber ==
  ASSUME NEW S, S \subseteq Nat, S # {}
  PROVE  \E n \in S : \A m \in S : n <= m
  <1>1. PICK n \in S : \A m \in S : ~(<<m, n>> \in OpToRel(<, Nat))
    BY NatLessThanWellFounded, WFMin, Zenon
  <1>2. ASSUME NEW m \in S, m < n PROVE FALSE
    <2>1. <<m, n>> \in OpToRel(<, Nat)
      BY <1>2, Zenon DEF OpToRel
    <2> QED
      BY <1>1, <2>1
  <1> QED
    BY <1>2

\* The lists of segments of a bio.
SegLists == Seq(Nat \ {0}) \ {<<>>}

\* f adds up the first m lengths of segs.
Adds(f, segs, m) ==
  /\ f \in [0 .. m -> Nat] /\ f[0] = 0
  /\ \A j \in 1 .. m : f[j] = f[j - 1] + segs[j]

\* There is a function that adds up the lengths, so Before is not a choice from nothing.
LEMMA SumsExist ==
  ASSUME NEW segs \in SegLists
  PROVE  \E f : Adds(f, segs, Len(segs))
  <1> DEFINE Bad == {m \in 0 .. Len(segs) : ~\E f : Adds(f, segs, m)}
  <1>0. Len(segs) \in Nat /\ Len(segs) \in 0 .. Len(segs)
    BY DEF SegLists
  <1>1. CASE Bad # {}
    <2>0. Bad \subseteq Nat
      OBVIOUS
    <2>1. \E m \in Bad : \A k \in Bad : m <= k
      <3> HIDE DEF Bad
      <3> QED
        BY <1>1, <2>0, LeastNumber
    <2>1a. PICK m \in Bad : \A k \in Bad : m <= k
      BY <2>1
    <2>2. m # 0
      <3>1. Adds([j \in 0 .. 0 |-> 0], segs, 0)
        BY DEF Adds
      <3> QED
        BY <3>1
    <2>3. m - 1 \in 0 .. Len(segs) /\ m - 1 \notin Bad /\ m \in 1 .. Len(segs)
      BY <2>1a, <2>2
    <2>4. PICK f : Adds(f, segs, m - 1)
      BY <2>3
    <2> DEFINE g == [j \in 0 .. m |-> IF j = m THEN f[m - 1] + segs[m] ELSE f[j]]
    <2>5. segs[m] \in Nat
      BY <2>3 DEF SegLists
    <2>6. Adds(g, segs, m)
      BY <2>3, <2>4, <2>5 DEF Adds
    <2> QED
      BY <2>1a, <2>6
  <1> QED
    BY <1>0, <1>1

\* Before starts with 0 and grows by the length of each segment, which is a positive number.
LEMMA SumOfSegments ==
  ASSUME NEW segs \in SegLists
  PROVE  /\ Before(segs, 1) = 0 /\ Len(segs) \in Nat \ {0}
         /\ \A i \in 1 .. Len(segs) + 1 : Before(segs, i) \in Nat
         /\ \A i \in 1 .. Len(segs) : /\ segs[i] \in Nat \ {0}
                                      /\ Before(segs, i + 1) = Before(segs, i) + segs[i]
  <1> DEFINE sum == CHOOSE f : f = [j \in 0 .. Len(segs) |-> IF j = 0 THEN 0 ELSE f[j - 1] + segs[j]]
  <1>1. sum = [j \in 0 .. Len(segs) |-> IF j = 0 THEN 0 ELSE sum[j - 1] + segs[j]]
    <2>1. PICK f : Adds(f, segs, Len(segs))
      BY SumsExist
    <2>2. f = [j \in 0 .. Len(segs) |-> IF j = 0 THEN 0 ELSE f[j - 1] + segs[j]]
      BY <2>1 DEF Adds, SegLists
    <2> QED
      BY <2>2
  <1>2. \A i : Before(segs, i) = sum[i - 1]
    BY DEF Before
  <1> HIDE DEF sum
  <1>3. Len(segs) \in Nat \ {0} /\ \A i \in 1 .. Len(segs) : segs[i] \in Nat \ {0}
    BY DEF SegLists
  <1>4. sum[0] = 0 /\ \A j \in 1 .. Len(segs) : sum[j] = sum[j - 1] + segs[j]
    BY <1>1, <1>3
  <1> DEFINE Bad == {j \in 0 .. Len(segs) : sum[j] \notin Nat}
  <1>5. Bad = {}
    <2> SUFFICES ASSUME Bad # {} PROVE FALSE
      OBVIOUS
    <2>1. Bad \subseteq Nat
      BY <1>3
    <2>2. \E m \in Bad : \A k \in Bad : m <= k
      <3> HIDE DEF Bad
      <3> QED
        BY <2>1, LeastNumber
    <2>3. PICK m \in Bad : \A k \in Bad : m <= k
      BY <2>2
    <2>4. m # 0
      BY <1>4
    <2>5. m - 1 \in 0 .. Len(segs) /\ m - 1 \notin Bad /\ m \in 1 .. Len(segs)
      BY <1>3, <2>3, <2>4
    <2> QED
      BY <1>3, <1>4, <2>3, <2>5
  <1>6. \A i \in 1 .. Len(segs) + 1 : Before(segs, i) \in Nat
    <2> SUFFICES ASSUME NEW i \in 1 .. Len(segs) + 1 PROVE sum[i - 1] \in Nat
      BY <1>2
    <2>1. i - 1 \in 0 .. Len(segs)
      BY <1>3
    <2> QED
      BY <1>5, <2>1
  <1>7. \A i \in 1 .. Len(segs) : Before(segs, i + 1) = Before(segs, i) + segs[i]
    <2> SUFFICES ASSUME NEW i \in 1 .. Len(segs)
                 PROVE  Before(segs, i + 1) = Before(segs, i) + segs[i]
      OBVIOUS
    <2>1. i + 1 - 1 = i /\ sum[i] = sum[i - 1] + segs[i]
      BY <1>3, <1>4
    <2> QED
      BY <1>2, <2>1
  <1>8. Before(segs, 1) = 0
    BY <1>2, <1>4
  <1> QED
    BY <1>3, <1>6, <1>7, <1>8

\* Segments lie one behind the other, and all of them in the bio.
LEMMA SegmentsInOrder ==
  ASSUME NEW segs \in SegLists, NEW i \in 1 .. Len(segs) + 1
  PROVE  Before(segs, i) <= Size(segs) /\ Size(segs) \in Nat \ {0}
  <1> DEFINE B(j) == Before(segs, j)
             Bad == {j \in 0 .. Len(segs) : j + 1 >= i /\ B(i) > B(j + 1)}
  <1>1. /\ Len(segs) \in Nat \ {0} /\ B(1) = 0
        /\ \A j \in 1 .. Len(segs) + 1 : B(j) \in Nat
        /\ \A j \in 1 .. Len(segs) : segs[j] \in Nat \ {0} /\ B(j + 1) = B(j) + segs[j]
    BY SumOfSegments
  <1> HIDE DEF B
  <1>2. Bad = {}
    <2> SUFFICES ASSUME Bad # {} PROVE FALSE
      OBVIOUS
    <2>1. Bad \subseteq Nat
      BY <1>1
    <2>2. \E m \in Bad : \A k \in Bad : m <= k
      <3> HIDE DEF Bad
      <3> QED
        BY <2>1, LeastNumber
    <2>3. PICK m \in Bad : \A k \in Bad : m <= k
      BY <2>2
    <2>4. m \in 0 .. Len(segs) /\ m + 1 >= i /\ B(i) > B(m + 1) /\ B(i) \in Nat
      BY <1>1, <2>3
    <2>5. m + 1 # i
      <3> SUFFICES ASSUME m + 1 = i PROVE FALSE
        OBVIOUS
      <3>1. B(m + 1) = B(i)
        OBVIOUS
      <3> QED
        BY <2>4, <3>1
    <2>6. m \in 1 .. Len(segs) /\ m - 1 \in 0 .. Len(segs) /\ m >= i /\ (m - 1) + 1 = m
      BY <1>1, <2>4, <2>5
    <2>7. m - 1 \notin Bad
      <3> SUFFICES ASSUME m - 1 \in Bad PROVE FALSE
        OBVIOUS
      <3>1. m <= m - 1
        BY <2>3
      <3> QED
        BY <2>6, <3>1
    <2>8. ~(B(i) > B(m))
      BY <2>6, <2>7
    <2>9. B(m) \in Nat /\ segs[m] \in Nat /\ B(m + 1) = B(m) + segs[m]
      BY <1>1, <2>6
    <2> QED
      BY <2>4, <2>8, <2>9
  <1>3. B(i) <= B(Len(segs) + 1)
    <2>1. Len(segs) \in 0 .. Len(segs) /\ Len(segs) + 1 >= i /\ Len(segs) + 1 \in 1 .. Len(segs) + 1
      BY <1>1
    <2>2. B(i) \in Nat /\ B(Len(segs) + 1) \in Nat
      BY <1>1, <2>1
    <2>3. ~(B(i) > B(Len(segs) + 1))
      BY <1>2, <2>1
    <2> QED
      BY <2>2, <2>3
  <1>4. B(Len(segs)) \in Nat /\ B(Len(segs) + 1) \in Nat \ {0}
    BY <1>1
  <1> QED
    BY <1>3, <1>4 DEF B, Size

\* The types of bios and sectors.
Segs == (UNION Range(Segments)) \cup {<<1>>}
SectorType == [0 .. Words - 1 -> Value]

\* The types of the variables; where a bio can be is the driver's business.
BlockTypes ==
  /\ capacity \in Nat
  /\ data \in [0 .. capacity - 1 -> SectorType]
  /\ stale \in [0 .. capacity - 1 -> SUBSET Stamp]
  /\ bio \in [Task -> [write : BOOLEAN, sector : Nat, segs : Segs, stamp : Stamp]]
  /\ cur \in [Task -> [sector : Nat, seg : Nat \ {0}, word : Nat]]
  /\ status \in [Task -> {"none", "ok", "error"}]
  /\ written \in Stamp /\ ended \subseteq Stamp
  /\ older \in [Task -> SUBSET Stamp]
  /\ page = [t \in Task |-> page[t]]

\* The constants, as the proofs use them.
Consts == /\ Words \in Nat \ {0} /\ MaxSector \in Nat /\ MaxWrites \in Nat
          /\ Segments \in [Task -> SUBSET SegLists]

\* The assumption on the constants says so.
LEMMA ConstsHold == Consts
  BY BlockAssumption DEF Consts, SegLists

\* Every bio, the one that is none included, has segments.
LEMMA SegsAreLists == Segs \subseteq SegLists
  <1>1. <<1>> \in SegLists
    BY DEF SegLists
  <1>2. UNION Range(Segments) \subseteq SegLists
    BY ConstsHold DEF Consts, Range
  <1> DEFINE all == UNION Range(Segments)
  <1> HIDE DEF all
  <1>3. all \cup {<<1>>} \subseteq SegLists
    BY <1>1, <1>2 DEF all
  <1> QED
    BY <1>3 DEF Segs, all

\* Words counted through, n to a sector: the next one is in the same sector or starts the next one.
LEMMA WordPlaces ==
  ASSUME NEW n \in Nat \ {0}, NEW w \in Nat
  PROVE  /\ w \div n \in Nat /\ w % n \in 0 .. n - 1
         /\ w % n # n - 1 => (w + 1) \div n = w \div n /\ (w + 1) % n = (w % n) + 1
         /\ w % n = n - 1 => (w + 1) \div n = (w \div n) + 1 /\ (w + 1) % n = 0
  BY SMT

\* The words of a segment of len sectors, and its last one.
LEMMA WordsOfSegment ==
  ASSUME NEW n \in Nat \ {0}, NEW w \in Nat, NEW len \in Nat
  PROVE  /\ w < len * n => w \div n < len
         /\ w + 1 = len * n => w % n = n - 1 /\ (w \div n) + 1 = len
  <1>1. ASSUME w < len * n PROVE w \div n < len
    BY <1>1, SMT
  <1>2. ASSUME w + 1 = len * n PROVE w % n = n - 1 /\ (w \div n) + 1 = len
    <2>1. (w + 1) \div n = len /\ (w + 1) % n = 0
      BY <1>2, SMT
    <2>2. /\ w % n \in 0 .. n - 1
          /\ w % n # n - 1 => (w + 1) % n = (w % n) + 1
          /\ w % n = n - 1 => (w + 1) \div n = (w \div n) + 1
      BY WordPlaces
    <2>3. w % n = n - 1
      <3> SUFFICES ASSUME w % n # n - 1 PROVE FALSE
        OBVIOUS
      <3>1. (w % n) + 1 = 0 /\ w % n \in 0 .. n - 1
        BY <2>1, <2>2
      <3> DEFINE r == w % n
      <3> HIDE DEF r
      <3>2. r + 1 = 0 /\ r \in 0 .. n - 1
        BY <3>1 DEF r
      <3> QED
        BY <3>2
    <2>4. (w \div n) + 1 = len
      BY <2>1, <2>2, <2>3
    <2> QED
      BY <2>3, <2>4
  <1> QED
    BY <1>1, <1>2

\* The types of what a task has.
LEMMA TaskTypes ==
  ASSUME BlockTypes, NEW t \in Task
  PROVE  /\ bio[t].write \in BOOLEAN /\ bio[t].sector \in Nat /\ bio[t].segs \in SegLists /\ bio[t].stamp \in Stamp
         /\ cur[t].sector \in Nat /\ cur[t].seg \in Nat \ {0} /\ cur[t].word \in Nat
         /\ Size(bio[t].segs) \in Nat \ {0} /\ older[t] \subseteq Stamp /\ status[t] \in {"none", "ok", "error"}
  <1>1. /\ bio[t] \in [write : BOOLEAN, sector : Nat, segs : Segs, stamp : Stamp]
        /\ cur[t] \in [sector : Nat, seg : Nat \ {0}, word : Nat]
        /\ older[t] \subseteq Stamp /\ status[t] \in {"none", "ok", "error"}
    BY DEF BlockTypes
  <1>2. bio[t].segs \in SegLists
    BY <1>1, SegsAreLists
  <1>3. 1 \in 1 .. Len(bio[t].segs) + 1
    BY <1>2 DEF SegLists
  <1>4. Size(bio[t].segs) \in Nat \ {0}
    BY <1>2, <1>3, SegmentsInOrder
  <1> QED
    BY <1>1, <1>2, <1>4

\* One word of some sectors changes.
Replaced(f, i, k, v) == [f EXCEPT ![i] = [f[i] EXCEPT ![k] = v]]

\* The sectors keep their type and all their other words.
LEMMA WordReplaced ==
  ASSUME NEW S, NEW f \in [S -> SectorType], NEW i \in S, NEW k \in 0 .. Words - 1, NEW v \in Value
  PROVE  /\ Replaced(f, i, k, v) \in [S -> SectorType] /\ Replaced(f, i, k, v)[i][k] = v
         /\ \A j \in S, l \in 0 .. Words - 1 : ~(j = i /\ l = k) => Replaced(f, i, k, v)[j][l] = f[j][l]
  <1> DEFINE K == 0 .. Words - 1
  <1>1. SectorType = [K -> Value] /\ k \in K
    BY DEF SectorType
  <1> HIDE DEF K
  <1>2. f[i] \in [K -> Value]
    BY <1>1
  <1> DEFINE h == [f[i] EXCEPT ![k] = v]
  <1>3. h \in [K -> Value] /\ h[k] = v /\ \A l \in K \ {k} : h[l] = f[i][l]
    BY <1>1, <1>2
  <1> DEFINE g == [f EXCEPT ![i] = h]
  <1>4. Replaced(f, i, k, v) = g
    BY DEF Replaced
  <1> HIDE DEF h
  <1>5. g \in [S -> SectorType] /\ g[i] = h /\ \A j \in S \ {i} : g[j] = f[j]
    BY <1>1, <1>3
  <1> HIDE DEF g
  <1> QED
    BY <1>3, <1>4, <1>5 DEF K

-----------------------------------------------------------------------------
\* The types of the variables.
Pcs == {"idle", "submitted", "moving", "moved", "ended"}

Types == BlockTypes /\ pc \in [Task -> Pcs]

\* The memory of a bio, and where the bio lies on a disk that has sectors.
Pages ==
  \A t \in Task :
    IF pc[t] = "idle" THEN page[t] = <<>>
    ELSE page[t] \in [0 .. Size(bio[t].segs) - 1 -> SectorType]
OnDisk ==
  \A t \in Task : pc[t] # "idle" /\ capacity # 0 =>
    bio[t].sector + Size(bio[t].segs) <= capacity

\* While a bio is moved, the driver's sector is that of the segment it is in.
Cursors ==
  \A t \in Task :
    /\ pc[t] = "submitted" => cur[t] = Start(bio[t].sector)
    /\ pc[t] = "moving" =>
         /\ capacity # 0 /\ cur[t].seg \in 1 .. Len(bio[t].segs)
         /\ cur[t].sector = bio[t].sector + Before(bio[t].segs, cur[t].seg)
         /\ cur[t].word < bio[t].segs[cur[t].seg] * Words

\* Word k of sector i of the bio of t has been moved.
Done(t, i, k) ==
  LET p == Place(t, cur[t].seg, cur[t].word) IN
  \/ pc[t] \in {"moved", "ended"}
  \/ pc[t] = "moving" /\ (i < p \/ (i = p /\ k < cur[t].word % Words))

\* The words of the bio of t.
WordsOf(t) == (0 .. Size(bio[t].segs) - 1) \X (0 .. Words - 1)

\* What is where it is meant to be, on the disk and of what reads have moved.
DataInPlace == \A s \in 0 .. capacity - 1, k \in 0 .. Words - 1 : data[s][k].place = s
ReadsInPlace ==
  \A t \in Task : pc[t] # "idle" /\ ~bio[t].write /\ capacity # 0 =>
    \A w \in WordsOf(t) : Done(t, w[1], w[2]) => page[t][w[1]][w[2]].place = bio[t].sector + w[1]

\* A write on its way has a stamp of its own, which no write that has ended has.
Writing(t) == bio[t].write /\ pc[t] \in {"submitted", "moving", "moved"}
Stamps ==
  /\ ended \subseteq 0 .. written
  /\ \A t \in Task : older[t] \subseteq ended
  /\ \A s \in 0 .. capacity - 1 : stale[s] \subseteq ended
  /\ \A t \in Task : Writing(t) => bio[t].stamp \in 1 .. written /\ bio[t].stamp \notin ended
  /\ \A t, u \in Task : Writing(t) /\ Writing(u) /\ t # u => bio[t].stamp # bio[u].stamp

\* What a write has moved has taken the place of what had been there when it came.
Overwrites ==
  \A t \in Task : Writing(t) /\ capacity # 0 =>
    \A w \in WordsOf(t) : Done(t, w[1], w[2]) => data[bio[t].sector + w[1]][w[2]].stamp \notin older[t]
\* No sector holds what an ended write has written over.
NothingStale ==
  \A s \in 0 .. capacity - 1, k \in 0 .. Words - 1 : data[s][k].stamp \notin stale[s]

\* The inductive invariant.
Inv ==
  /\ Types /\ Pages /\ OnDisk /\ Cursors
  /\ DataInPlace /\ ReadsInPlace
  /\ Stamps /\ Overwrites /\ NothingStale

-----------------------------------------------------------------------------
\* The word that is moved next lies in the bio and on the disk.
LEMMA NextWord ==
  ASSUME Inv, NEW t \in Task, pc[t] = "moving"
  PROVE  LET p == Place(t, cur[t].seg, cur[t].word) IN
         /\ p \in 0 .. Size(bio[t].segs) - 1
         /\ cur[t].sector + cur[t].word \div Words = bio[t].sector + p
         /\ bio[t].sector + p \in 0 .. capacity - 1
         /\ cur[t].word % Words \in 0 .. Words - 1
  <1> DEFINE segs == bio[t].segs
             i == cur[t].seg
             q == cur[t].word \div Words
  <1>1. /\ segs \in SegLists /\ i \in 1 .. Len(segs) /\ cur[t].word \in Nat /\ bio[t].sector \in Nat
        /\ capacity # 0 /\ cur[t].sector = bio[t].sector + Before(segs, i) /\ cur[t].word < segs[i] * Words
    BY TaskTypes DEF Inv, Types, Cursors
  <1>2. /\ Len(segs) \in Nat /\ Before(segs, i) \in Nat /\ Before(segs, i + 1) = Before(segs, i) + segs[i] /\ segs[i] \in Nat
    <2>1. i \in 1 .. Len(segs) + 1
      BY <1>1 DEF SegLists
    <2> HIDE DEF segs, i
    <2> QED
      BY <1>1, <2>1, SumOfSegments
  <1>3. i + 1 \in 1 .. Len(segs) + 1 /\ Before(segs, i + 1) <= Size(segs) /\ Size(segs) \in Nat
    <2>1. i + 1 \in 1 .. Len(segs) + 1
      BY <1>1, <1>2
    <2> HIDE DEF segs, i
    <2> QED
      BY <1>1, <2>1, SegmentsInOrder
  <1>4. q \in Nat /\ q < segs[i] /\ cur[t].word % Words \in 0 .. Words - 1
    <2>1. Words \in Nat \ {0}
      BY ConstsHold DEF Consts
    <2> QED
      BY <1>1, <1>2, <2>1, WordPlaces, WordsOfSegment
  <1>5. bio[t].sector + Size(segs) <= capacity /\ capacity \in Nat
    BY <1>1 DEF Inv, OnDisk, Types, BlockTypes
  <1>6. Place(t, i, cur[t].word) = Before(segs, i) + q
    BY DEF Place
  <1>7. /\ Before(segs, i) + q \in 0 .. Size(segs) - 1
        /\ cur[t].sector + q = bio[t].sector + (Before(segs, i) + q)
        /\ bio[t].sector + (Before(segs, i) + q) \in 0 .. capacity - 1
    <2> DEFINE before == Before(segs, i)  size == Size(segs)  len == segs[i]
    <2>1. /\ before \in Nat /\ size \in Nat /\ len \in Nat /\ before + len <= size /\ q \in Nat /\ q < len
          /\ bio[t].sector + size <= capacity /\ capacity \in Nat /\ bio[t].sector \in Nat
          /\ cur[t].sector = bio[t].sector + before
      BY <1>1, <1>2, <1>3, <1>4, <1>5
    <2> HIDE DEF q, before, size, len
    <2>2. /\ before + q \in 0 .. size - 1 /\ cur[t].sector + q = bio[t].sector + (before + q)
          /\ bio[t].sector + (before + q) \in 0 .. capacity - 1
      BY <2>1
    <2> QED
      BY <2>2 DEF before, size
  <1> QED
    BY <1>4, <1>6, <1>7

\* Moving it makes it the one word more that has been moved.
LEMMA OneMoreDone ==
  ASSUME Inv, NEW t \in Task, DoBvec(t)
  PROVE  LET p == Place(t, cur[t].seg, cur[t].word) IN
         /\ \A w \in WordsOf(t) : Done(t, w[1], w[2])' =>
              Done(t, w[1], w[2]) \/ (w[1] = p /\ w[2] = cur[t].word % Words)
         /\ Cursors'
  <1> DEFINE segs == bio[t].segs
             i == cur[t].seg
             word == cur[t].word
             len == segs[i]
             before == Before(segs, i)
             q == word \div Words
             r == word % Words
             size == Size(segs)
  <1>1. /\ segs \in SegLists /\ i \in 1 .. Len(segs) /\ word \in Nat /\ bio[t].sector \in Nat
        /\ capacity # 0 /\ cur[t].sector = bio[t].sector + before /\ word < len * Words
        /\ pc[t] = "moving" /\ bio' = bio /\ capacity' = capacity /\ t \in DOMAIN cur /\ t \in DOMAIN pc
        /\ cur[t] \in [sector : Nat, seg : Nat \ {0}, word : Nat]
    BY TaskTypes DEF Inv, Types, BlockTypes, Cursors, DoBvec
  <1>2. /\ Len(segs) \in Nat /\ before \in Nat /\ Before(segs, i + 1) = before + len /\ len \in Nat \ {0}
        /\ i + 1 \in 1 .. Len(segs) + 1 /\ (i = Len(segs) => Before(segs, i + 1) = size)
    <2>1. i \in 1 .. Len(segs) + 1 /\ i + 1 \in 1 .. Len(segs) + 1
      BY <1>1 DEF SegLists
    <2>2. i = Len(segs) => Before(segs, i + 1) = size
      BY DEF Size
    <2> HIDE DEF segs, i, size
    <2> QED
      BY <1>1, <2>1, <2>2, SumOfSegments
  <1>3. /\ q \in Nat /\ r \in 0 .. Words - 1 /\ Words \in Nat \ {0} /\ Place(t, i, word) = before + q
        /\ r # Words - 1 => (word + 1) \div Words = q /\ (word + 1) % Words = r + 1
        /\ r = Words - 1 => (word + 1) \div Words = q + 1 /\ (word + 1) % Words = 0
        /\ word + 1 = len * Words => r = Words - 1 /\ q + 1 = len
        /\ len * Words \in Nat
    <2>1. Words \in Nat \ {0}
      BY ConstsHold DEF Consts
    <2>2. len * Words \in Nat
      BY <1>2, <2>1
    <2>3. word \in Nat /\ len \in Nat /\ word < len * Words
      BY <1>1, <1>2
    <2>4. Place(t, i, word) = before + q
      BY DEF Place
    <2> HIDE DEF word, len, before
    <2>5. /\ q \in Nat /\ r \in 0 .. Words - 1
          /\ r # Words - 1 => (word + 1) \div Words = q /\ (word + 1) % Words = r + 1
          /\ r = Words - 1 => (word + 1) \div Words = q + 1 /\ (word + 1) % Words = 0
      BY <2>1, <2>3, WordPlaces
    <2>6. word + 1 = len * Words => r = Words - 1 /\ q + 1 = len
      BY <2>1, <2>3, WordsOfSegment
    <2> QED
      BY <2>1, <2>2, <2>4, <2>5, <2>6
  <1>4. \A u \in Task \ {t} : pc'[u] = pc[u] /\ cur'[u] = cur[u]
    BY <1>1 DEF DoBvec, Advance, Inv, Types, BlockTypes
  <1>6. ASSUME NEW k \in Nat, NEW l \in 0 .. Words - 1
        PROVE  Done(t, k, l) <=> k < before + q \/ (k = before + q /\ l < r)
    BY <1>1, <1>3 DEF Done
  <1>7. CASE word + 1 < len * Words
    <2>1. pc'[t] = "moving" /\ cur'[t] = [cur[t] EXCEPT !.word = word + 1]
      BY <1>1, <1>3, <1>7 DEF DoBvec, Advance
    <2>2. cur'[t].seg = i /\ cur'[t].sector = cur[t].sector /\ cur'[t].word = word + 1
      BY <1>1, <2>1
    <2>3. Place(t, cur[t].seg, cur[t].word)' = before + (word + 1) \div Words
      BY <1>1, <2>2 DEF Place
    <2>4. \A w \in WordsOf(t) : Done(t, w[1], w[2])' =>
            w[1] < before + (word + 1) \div Words \/ (w[1] = before + (word + 1) \div Words /\ w[2] < (word + 1) % Words)
      BY <2>1, <2>2, <2>3 DEF Done
    <2>5. \A w \in WordsOf(t) : w[1] \in Nat /\ w[2] \in 0 .. Words - 1
      BY DEF WordsOf
    <2>6. ASSUME NEW w \in WordsOf(t), Done(t, w[1], w[2])'
          PROVE  Done(t, w[1], w[2]) \/ (w[1] = before + q /\ w[2] = r)
      <3> DEFINE q1 == (word + 1) \div Words
                 r1 == (word + 1) % Words
                 k == w[1]
                 l == w[2]
      <3>1. k < before + q1 \/ (k = before + q1 /\ l < r1)
        BY <2>4, <2>6
      <3>2. k \in Nat /\ l \in 0 .. Words - 1 /\ (Done(t, k, l) <=> k < before + q \/ (k = before + q /\ l < r))
        BY <2>5, <1>6
      <3>3. (r # Words - 1 => q1 = q /\ r1 = r + 1) /\ (r = Words - 1 => q1 = q + 1 /\ r1 = 0)
        BY <1>3
      <3>4. before \in Nat /\ q \in Nat /\ r \in 0 .. Words - 1 /\ Words \in Nat
        BY <1>2, <1>3
      <3> HIDE DEF before, q, r, q1, r1, k, l
      <3>5. Done(t, k, l) \/ (k = before + q /\ l = r)
        BY <3>1, <3>2, <3>3, <3>4
      <3> QED
        BY <3>5 DEF k, l
    <2>7. Cursors'
      <3>1. Before(bio[t].segs, cur[t].seg)' = before
        BY <1>1, <2>2 DEF Before
      <3>2. ASSUME NEW u \in Task, u # t
            PROVE  /\ pc'[u] = "submitted" => cur'[u] = Start(bio'[u].sector)
                   /\ pc'[u] = "moving" =>
                        /\ capacity' # 0 /\ cur'[u].seg \in 1 .. Len(bio'[u].segs)
                        /\ cur'[u].sector = bio'[u].sector + Before(bio[u].segs, cur[u].seg)'
                        /\ cur'[u].word < bio'[u].segs[cur'[u].seg] * Words
        <4>1. Before(bio[u].segs, cur[u].seg)' = Before(bio[u].segs, cur[u].seg)
          BY <1>1, <1>4, <3>2 DEF Before
        <4> QED
          BY <1>1, <1>4, <3>2, <4>1 DEF Inv, Cursors
      <3> QED
        BY <1>1, <1>7, <2>1, <2>2, <3>1, <3>2 DEF Cursors
    <2> QED
      BY <1>3, <2>6, <2>7
  <1>8. CASE ~(word + 1 < len * Words)
    <2>1. word + 1 = len * Words /\ r = Words - 1 /\ q + 1 = len
      <3>1. word \in Nat /\ word < len * Words /\ len * Words \in Nat /\ ~(word + 1 < len * Words)
        BY <1>1, <1>3, <1>8
      <3> DEFINE all == len * Words
      <3> HIDE DEF word, all
      <3>2. word + 1 = all
        BY <3>1 DEF all
      <3> QED
        BY <1>3, <3>2 DEF all
    <2>2. /\ pc'[t] = IF i = Len(segs) THEN "moved" ELSE "moving"
          /\ cur'[t] = [sector |-> cur[t].sector + len, seg |-> i + 1, word |-> 0]
      BY <1>1, <1>8, <2>1 DEF DoBvec, Advance
    <2>3. cur'[t].seg = i + 1 /\ cur'[t].sector = cur[t].sector + len /\ cur'[t].word = 0
      BY <2>2
    <2>4. Before(bio[t].segs, cur[t].seg)' = before + len
      <3>1. bio'[t] = bio[t]
        BY <1>1
      <3>2. Before(bio[t].segs, cur[t].seg)' = Before(segs, i + 1)
        BY <2>3, <3>1 DEF Before
      <3> QED
        BY <1>2, <3>2
    <2>5. Place(t, cur[t].seg, cur[t].word)' = before + len
      <3>1. 0 \div Words = 0
        BY <1>3
      <3>2. Place(t, cur[t].seg, cur[t].word)' = Before(bio[t].segs, cur[t].seg)' + 0 \div Words
        BY <2>3 DEF Place
      <3> QED
        BY <1>2, <2>4, <3>1, <3>2
    <2>6. ASSUME NEW w \in WordsOf(t), Done(t, w[1], w[2])'
          PROVE  Done(t, w[1], w[2]) \/ (w[1] = before + q /\ w[2] = r)
      <3> DEFINE k == w[1]
                 l == w[2]
      <3>1. k \in 0 .. size - 1 /\ l \in 0 .. Words - 1
        BY DEF WordsOf
      <3>2. 0 % Words = 0
        BY <1>3
      <3>3. k < before + len
        <4>1. CASE i = Len(segs)
          <5>1. size = before + len
            BY <1>2, <4>1
          <5> HIDE DEF size, before, len, k
          <5> QED
            BY <3>1, <5>1, <1>2
        <4>2. CASE i # Len(segs)
          <5>1. pc'[t] = "moving"
            BY <2>2, <4>2
          <5>2. ~(l < 0 % Words)
            BY <3>1, <3>2
          <5> QED
            BY <2>3, <2>5, <2>6, <5>1, <5>2 DEF Done
        <4> QED
          BY <4>1, <4>2
      <3>4. Done(t, k, l) <=> k < before + q \/ (k = before + q /\ l < r)
        <4>1. k \in Nat /\ l \in 0 .. Words - 1
          BY <3>1
        <4> HIDE DEF before, q, r, k, l
        <4> QED
          BY <1>6, <4>1
      <3>5. before \in Nat /\ q \in Nat /\ r = Words - 1 /\ Words \in Nat /\ q + 1 = len
        BY <1>2, <1>3, <2>1
      <3>6. k \in Nat /\ l \in 0 .. Words - 1
        BY <3>1
      <3> HIDE DEF before, q, r, k, l, len
      <3>7. Done(t, k, l) \/ (k = before + q /\ l = r)
        BY <3>3, <3>4, <3>5, <3>6
      <3> QED
        BY <3>7 DEF k, l
    <2>7. Cursors'
      <3>1. i # Len(segs) => i + 1 \in 1 .. Len(segs) /\ 0 < segs[i + 1] * Words
        <4> SUFFICES ASSUME i # Len(segs) PROVE i + 1 \in 1 .. Len(segs) /\ 0 < segs[i + 1] * Words
          OBVIOUS
        <4>1. i + 1 \in 1 .. Len(segs)
          BY <1>1, <1>2
        <4>2. segs[i + 1] \in Nat \ {0}
          BY <1>1, <4>1, SumOfSegments
        <4> DEFINE n == segs[i + 1]
        <4> HIDE DEF n
        <4>3. n \in Nat \ {0} /\ Words \in Nat \ {0}
          BY <1>3, <4>2 DEF n
        <4>4. 0 < n * Words
          BY <4>3, SMT
        <4> QED
          BY <4>1, <4>4 DEF n
      <3>2. ASSUME NEW u \in Task, u # t
            PROVE  /\ pc'[u] = "submitted" => cur'[u] = Start(bio'[u].sector)
                   /\ pc'[u] = "moving" =>
                        /\ capacity' # 0 /\ cur'[u].seg \in 1 .. Len(bio'[u].segs)
                        /\ cur'[u].sector = bio'[u].sector + Before(bio[u].segs, cur[u].seg)'
                        /\ cur'[u].word < bio'[u].segs[cur'[u].seg] * Words
        <4>1. Before(bio[u].segs, cur[u].seg)' = Before(bio[u].segs, cur[u].seg)
          BY <1>1, <1>4, <3>2 DEF Before
        <4> QED
          BY <1>1, <1>4, <3>2, <4>1 DEF Inv, Cursors
      <3>3. cur[t].sector + len = bio[t].sector + (before + len)
        BY <1>1, <1>2
      <3>4. /\ pc'[t] # "submitted"
            /\ pc'[t] = "moving" =>
                 /\ capacity' # 0 /\ cur'[t].seg \in 1 .. Len(bio'[t].segs)
                 /\ cur'[t].sector = bio'[t].sector + Before(bio[t].segs, cur[t].seg)'
                 /\ cur'[t].word < bio'[t].segs[cur'[t].seg] * Words
        BY <1>1, <2>2, <2>3, <2>4, <3>1, <3>3
      <3> QED
        BY <3>2, <3>4 DEF Cursors
    <2> QED
      BY <1>3, <2>6, <2>7
  <1> QED
    BY <1>7, <1>8

-----------------------------------------------------------------------------
\* A task that a step does not touch.
Untouched(u) ==
  /\ pc'[u] = pc[u] /\ bio'[u] = bio[u] /\ cur'[u] = cur[u] /\ page'[u] = page[u]
  /\ older'[u] = older[u]

\* What follows for it.
LEMMA UntouchedFrame ==
  ASSUME NEW u \in Task, Untouched(u)
  PROVE  /\ Size(bio[u].segs)' = Size(bio[u].segs) /\ WordsOf(u)' = WordsOf(u)
         /\ \A k, l : Done(u, k, l)' <=> Done(u, k, l)
         /\ Before(bio[u].segs, cur[u].seg)' = Before(bio[u].segs, cur[u].seg)
         /\ Writing(u)' <=> Writing(u)
  <1>1. Size(bio[u].segs)' = Size(bio[u].segs)
    BY DEF Untouched, Size, Before
  <1>2. Before(bio[u].segs, cur[u].seg)' = Before(bio[u].segs, cur[u].seg)
    BY DEF Untouched, Before
  <1>3. Place(u, cur[u].seg, cur[u].word)' = Place(u, cur[u].seg, cur[u].word)
    BY <1>2 DEF Untouched, Place
  <1> QED
    BY <1>1, <1>2, <1>3 DEF Untouched, WordsOf, Done, Writing

\* The parts of the invariant that speak of one task.
PageOf(t) ==
  IF pc[t] = "idle" THEN page[t] = <<>>
  ELSE page[t] \in [0 .. Size(bio[t].segs) - 1 -> SectorType]
CursorOf(t) ==
  /\ pc[t] = "submitted" => cur[t] = Start(bio[t].sector)
  /\ pc[t] = "moving" =>
       /\ capacity # 0 /\ cur[t].seg \in 1 .. Len(bio[t].segs)
       /\ cur[t].sector = bio[t].sector + Before(bio[t].segs, cur[t].seg)
       /\ cur[t].word < bio[t].segs[cur[t].seg] * Words
OnDiskOf(t) ==
  pc[t] # "idle" /\ capacity # 0 => bio[t].sector + Size(bio[t].segs) <= capacity
ReadOf(t) ==
  pc[t] # "idle" /\ ~bio[t].write /\ capacity # 0 =>
    \A w \in WordsOf(t) : Done(t, w[1], w[2]) => page[t][w[1]][w[2]].place = bio[t].sector + w[1]
WriteOf(t) ==
  Writing(t) /\ capacity # 0 =>
    \A w \in WordsOf(t) : Done(t, w[1], w[2]) => data[bio[t].sector + w[1]][w[2]].stamp \notin older[t]

\* The invariant speaks of every task.
LEMMA PartsOf ==
  /\ Pages <=> \A t \in Task : PageOf(t)
  /\ Cursors <=> \A t \in Task : CursorOf(t)
  /\ OnDisk <=> \A t \in Task : OnDiskOf(t)
  /\ ReadsInPlace <=> \A t \in Task : ReadOf(t)
  /\ Overwrites <=> \A t \in Task : WriteOf(t)
  /\ (\A t \in Task : PageOf(t)' /\ CursorOf(t)' /\ OnDiskOf(t)' /\ ReadOf(t)' /\ WriteOf(t)')
       => Pages' /\ Cursors' /\ OnDisk' /\ ReadsInPlace' /\ Overwrites'
  BY DEF Pages, PageOf, Cursors, CursorOf, OnDisk, OnDiskOf, ReadsInPlace, ReadOf, Overwrites, WriteOf

\* Its parts stay true of a task that a step does not touch.
LEMMA OthersKept ==
  ASSUME Inv, NEW u \in Task, Untouched(u), capacity' = capacity
  PROVE  PageOf(u)' /\ CursorOf(u)' /\ OnDiskOf(u)' /\ ReadOf(u)' /\ (data' = data => WriteOf(u)')
  <1>1. PageOf(u) /\ CursorOf(u) /\ OnDiskOf(u) /\ ReadOf(u) /\ WriteOf(u)
    BY PartsOf DEF Inv
  <1>2. PageOf(u)' /\ CursorOf(u)' /\ OnDiskOf(u)'
    BY <1>1, UntouchedFrame DEF Untouched, PageOf, CursorOf, OnDiskOf
  <1>3. ReadOf(u)'
    BY <1>1, UntouchedFrame DEF Untouched, ReadOf
  <1>4. data' = data => WriteOf(u)'
    BY <1>1, UntouchedFrame DEF Untouched, WriteOf
  <1> QED
    BY <1>2, <1>3, <1>4

\* A new bio is on the disk, nothing of it is moved, and a write gets the next stamp.
LEMMA SubmitKeeps ==
  ASSUME Inv, NEW t \in Task, Submit(t)
  PROVE  Inv'
  <1>1. PICK sector \in 0 .. MaxSector, segs \in Segments[t], write \in BOOLEAN :
          /\ capacity # 0 => sector + Size(segs) <= capacity
          /\ write => written < MaxWrites
          /\ written' = IF write THEN written + 1 ELSE written
          /\ Enter(t, [write |-> write, sector |-> sector, segs |-> segs,
                       stamp |-> IF write THEN written + 1 ELSE 0], Size(segs))
    BY DEF Submit
  <1> DEFINE new == [write |-> write, sector |-> sector, segs |-> segs,
                     stamp |-> IF write THEN written + 1 ELSE 0]
  <1>2. /\ segs \in SegLists /\ segs \in Segs /\ sector \in Nat /\ Size(segs) \in Nat \ {0}
    <2>1. segs \in SegLists /\ segs \in Segs
      <3>1. segs \in UNION Range(Segments) /\ segs \in SegLists
        BY ConstsHold DEF Consts, Range
      <3> QED
        BY <3>1, Zenon DEF Segs
    <2>2. 1 \in 1 .. Len(segs) + 1
      BY <2>1 DEF SegLists
    <2> QED
      BY <2>1, <2>2, SegmentsInOrder, ConstsHold DEF Consts
  <1>3. /\ pc[t] = "idle" /\ pc' = [pc EXCEPT ![t] = "submitted"] /\ capacity' = capacity /\ data' = data
        /\ status' = status /\ ended' = ended /\ stale' = stale
        /\ bio' = [bio EXCEPT ![t] = new] /\ cur' = [cur EXCEPT ![t] = Start(sector)]
        /\ page' = [page EXCEPT ![t] = [i \in 0 .. Size(segs) - 1 |-> [k \in 0 .. Words - 1 |-> Junk]]]
        /\ older' = [older EXCEPT ![t] = ended]
    BY <1>1 DEF Submit, Enter, disk
  <1>4. MaxWrites \in Nat /\ written \in Nat /\ written <= MaxWrites /\ written' \in 0 .. MaxWrites
        /\ new.stamp \in Stamp /\ (write => new.stamp = written' /\ written' = written + 1)
    BY <1>1, ConstsHold DEF Inv, Types, BlockTypes, Stamp, Consts
  <1>5. \A u \in Task \ {t} : Untouched(u)
    BY <1>3 DEF Untouched, Inv, Types, BlockTypes
  <1>6. /\ pc'[t] = "submitted" /\ bio'[t] = new /\ cur'[t] = Start(sector) /\ older'[t] = ended
        /\ page'[t] = [i \in 0 .. Size(segs) - 1 |-> [k \in 0 .. Words - 1 |-> Junk]]
    BY <1>3 DEF Inv, Types, BlockTypes
  <1>7. Size(bio[t].segs)' = Size(segs)
    BY <1>6 DEF Size, Before
  <1>8. Types'
    <2>1. new \in [write : BOOLEAN, sector : Nat, segs : Segs, stamp : Stamp]
      BY <1>2, <1>4
    <2>2. Start(sector) \in [sector : Nat, seg : Nat \ {0}, word : Nat]
      BY <1>2 DEF Start
    <2> QED
      BY <1>3, <1>4, <2>1, <2>2 DEF Inv, Types, BlockTypes, Pcs, Stamp
  <1>9. PageOf(t)' /\ CursorOf(t)' /\ OnDiskOf(t)' /\ ReadOf(t)' /\ WriteOf(t)'
    <2>1. Junk \in Value
      BY ConstsHold DEF Junk, Word, Value, Nowhere, Stamp, Consts
    <2>2. PageOf(t)'
      BY <1>6, <1>7, <2>1 DEF PageOf, SectorType
    <2>3. CursorOf(t)' /\ OnDiskOf(t)'
      BY <1>1, <1>3, <1>6, <1>7 DEF CursorOf, OnDiskOf
    <2>4. \A k, l : ~Done(t, k, l)'
      BY <1>6 DEF Done
    <2> QED
      BY <2>2, <2>3, <2>4 DEF ReadOf, WriteOf
  <1>10. Pages' /\ Cursors' /\ OnDisk' /\ ReadsInPlace' /\ Overwrites'
    <2>1. \A u \in Task : PageOf(u)' /\ CursorOf(u)' /\ OnDiskOf(u)' /\ ReadOf(u)' /\ WriteOf(u)'
      BY <1>3, <1>5, <1>9, OthersKept
    <2> QED
      BY <2>1, PartsOf
  <1>11. Stamps'
    <2>1. \A u \in Task \ {t} : (Writing(u)' <=> Writing(u)) /\ bio'[u] = bio[u] /\ older'[u] = older[u]
      BY <1>5, UntouchedFrame DEF Untouched
    <2>2. /\ Writing(t)' <=> write
          /\ write => bio'[t].stamp = written + 1 /\ written' = written + 1
          /\ written' >= written /\ written \in Nat /\ written' \in Nat
      BY <1>1, <1>4, <1>6 DEF Writing
    <2>3. Stamps
      BY DEF Inv
    <2>4. ended' \subseteq 0 .. written'
      BY <1>3, <2>2, <2>3 DEF Stamps
    <2>5. (\A u \in Task : older'[u] \subseteq ended') /\ \A s \in 0 .. capacity - 1 : stale'[s] \subseteq ended'
      BY <1>3, <1>6, <2>1, <2>3 DEF Stamps
    <2>6. \A u \in Task : Writing(u)' => bio'[u].stamp \in 1 .. written' /\ bio'[u].stamp \notin ended'
      BY <1>3, <2>1, <2>2, <2>3 DEF Stamps
    <2>7. \A u \in Task \ {t} : Writing(u) => bio[u].stamp \in 1 .. written
      BY <2>3 DEF Stamps
    <2>8. \A u, v \in Task : Writing(u)' /\ Writing(v)' /\ u # v => bio'[u].stamp # bio'[v].stamp
      BY <2>1, <2>2, <2>3, <2>7 DEF Stamps
    <2> QED
      BY <1>3, <2>4, <2>5, <2>6, <2>8 DEF Stamps
  <1>12. DataInPlace' /\ NothingStale'
    BY <1>3 DEF Inv, DataInPlace, NothingStale
  <1> QED
    BY <1>8, <1>10, <1>11, <1>12 DEF Inv

\* The driver turns to the first segment of a bio, or to none on a disk without sectors.
LEMMA MakeRequestKeeps ==
  ASSUME Inv, NEW t \in Task, MakeRequest(t)
  PROVE  Inv'
  <1>1. /\ pc[t] = "submitted" /\ pc' = [pc EXCEPT ![t] = IF BeyondEnd(t) THEN "moved" ELSE "moving"]
        /\ UNCHANGED <<capacity, data, bio, page, cur, status, written, ended, older, stale>>
    BY DEF MakeRequest, disk, ghosts
  <1>2. \A u \in Task \ {t} : Untouched(u)
    BY <1>1 DEF Untouched, Inv, Types, BlockTypes
  <1>3. pc'[t] = (IF BeyondEnd(t) THEN "moved" ELSE "moving") /\ pc'[t] \in {"moved", "moving"}
    BY <1>1 DEF Inv, Types, BlockTypes
  <1>4. Types'
    BY <1>1 DEF Inv, Types, BlockTypes, Pcs
  <1>5. /\ cur[t] = Start(bio[t].sector) /\ bio[t].sector \in Nat /\ bio[t].segs \in SegLists
        /\ Size(bio[t].segs) \in Nat \ {0} /\ capacity \in Nat /\ OnDiskOf(t) /\ PageOf(t)
        /\ cur[t].sector = bio[t].sector /\ cur[t].seg = 1 /\ cur[t].word = 0
    BY <1>1, TaskTypes, PartsOf DEF Inv, Types, BlockTypes, Cursors, Start
  <1>6. capacity # 0 <=> pc'[t] = "moving"
    BY <1>1, <1>3, <1>5 DEF BeyondEnd, OnDiskOf
  <1>7. Size(bio[t].segs)' = Size(bio[t].segs) /\ WordsOf(t)' = WordsOf(t)
    BY <1>1 DEF Size, Before, WordsOf
  <1>8. /\ Before(bio[t].segs, 1) = 0 /\ Len(bio[t].segs) \in Nat \ {0} /\ bio[t].segs[1] \in Nat \ {0}
        /\ 0 < bio[t].segs[1] * Words /\ 0 \div Words = 0 /\ 0 % Words = 0
    <2>1. /\ Before(bio[t].segs, 1) = 0 /\ Len(bio[t].segs) \in Nat \ {0} /\ bio[t].segs[1] \in Nat \ {0}
      BY <1>5, SumOfSegments
    <2> DEFINE n == bio[t].segs[1]
    <2>2. n \in Nat \ {0} /\ Words \in Nat \ {0}
      BY <2>1, ConstsHold DEF Consts
    <2> HIDE DEF n
    <2>3. 0 < n * Words /\ 0 \div Words = 0 /\ 0 % Words = 0
      BY <2>2, SMT
    <2> QED
      BY <2>1, <2>3 DEF n
  <1>9. /\ Before(bio[t].segs, cur[t].seg)' = 0 /\ Place(t, cur[t].seg, cur[t].word)' = 0
    <2>1. Before(bio[t].segs, cur[t].seg)' = 0
      BY <1>1, <1>5, <1>8 DEF Before
    <2>2. Place(t, cur[t].seg, cur[t].word)' = Before(bio[t].segs, cur[t].seg)' + 0 \div Words
      BY <1>1, <1>5 DEF Place
    <2> QED
      BY <1>8, <2>1, <2>2
  <1>10. capacity # 0 => \A w \in WordsOf(t) : ~Done(t, w[1], w[2])'
    <2> SUFFICES ASSUME capacity # 0, NEW w \in WordsOf(t) PROVE ~Done(t, w[1], w[2])'
      OBVIOUS
    <2>1. w[1] \in Nat /\ w[2] \in 0 .. Words - 1
      BY DEF WordsOf
    <2>2. ~(w[2] < 0 % Words) /\ ~(w[1] < 0)
      BY <1>8, <2>1
    <2> QED
      BY <1>1, <1>5, <1>6, <1>9, <2>2 DEF Done
  <1>11. PageOf(t)' /\ CursorOf(t)' /\ OnDiskOf(t)' /\ ReadOf(t)' /\ WriteOf(t)'
    <2>1. PageOf(t)' /\ OnDiskOf(t)'
      BY <1>1, <1>3, <1>5, <1>7 DEF PageOf, OnDiskOf
    <2>2. CursorOf(t)'
      BY <1>1, <1>3, <1>5, <1>6, <1>8, <1>9 DEF CursorOf
    <2> QED
      BY <1>1, <1>7, <1>10, <2>1, <2>2 DEF ReadOf, WriteOf
  <1>12. Pages' /\ Cursors' /\ OnDisk' /\ ReadsInPlace' /\ Overwrites'
    <2>1. \A u \in Task : PageOf(u)' /\ CursorOf(u)' /\ OnDiskOf(u)' /\ ReadOf(u)' /\ WriteOf(u)'
      BY <1>1, <1>2, <1>11, OthersKept
    <2> QED
      BY <2>1, PartsOf
  <1>13. Stamps'
    <2>1. \A u \in Task : Writing(u)' <=> Writing(u)
      BY <1>1, <1>3, <1>2, UntouchedFrame DEF Writing
    <2> QED
      BY <1>1, <2>1 DEF Inv, Stamps
  <1>14. DataInPlace' /\ NothingStale'
    BY <1>1 DEF Inv, DataInPlace, NothingStale
  <1> QED
    BY <1>4, <1>12, <1>13, <1>14 DEF Inv

\* What one word more changes: on the disk, or in the memory of the reader.
LEMMA CopiedWord ==
  ASSUME Inv, NEW t \in Task, DoBvec(t)
  PROVE  LET p == Place(t, cur[t].seg, cur[t].word)
             k == cur[t].word % Words
             s == bio[t].sector + p IN
         /\ bio[t].write => /\ data' = Replaced(data, s, k, Word(bio[t].stamp, s))
                            /\ page' = page
         /\ ~bio[t].write => /\ page' = [page EXCEPT ![t] = Replaced(page[t], p, k, data[s][k])]
                             /\ data' = data
  <1>1. pc[t] = "moving" /\ cur[t].sector + cur[t].word \div Words = bio[t].sector + Place(t, cur[t].seg, cur[t].word)
    BY NextWord DEF DoBvec
  <1> QED
    BY <1>1 DEF DoBvec, CopyWord, Content, Replaced

\* A word moved is in its place, and a write's takes the place of older ones.
LEMMA DoBvecKeeps ==
  ASSUME Inv, NEW t \in Task, DoBvec(t)
  PROVE  Inv'
  <1> DEFINE p == Place(t, cur[t].seg, cur[t].word)
             k == cur[t].word % Words
             s == bio[t].sector + p
  <1>1. /\ pc[t] = "moving" /\ UNCHANGED <<capacity, bio, status, written, ended, older, stale>>
        /\ pc' = [pc EXCEPT ![t] = pc'[t]] /\ pc'[t] \in {"moving", "moved"}
        /\ cur' = [cur EXCEPT ![t] = cur'[t]] /\ capacity # 0
    BY DEF DoBvec, Advance, ghosts, Inv, Types, BlockTypes, Cursors
  <1>2. p \in 0 .. Size(bio[t].segs) - 1 /\ s \in 0 .. capacity - 1 /\ k \in 0 .. Words - 1 /\ bio[t].sector \in Nat
    BY <1>1, NextWord, TaskTypes DEF Inv, Types
  <1>3. /\ bio[t].write => data' = Replaced(data, s, k, Word(bio[t].stamp, s)) /\ page' = page
        /\ ~bio[t].write =>
             page' = [page EXCEPT ![t] = Replaced(page[t], p, k, data[s][k])] /\ data' = data
    BY CopiedWord
  <1>4. Cursors' /\ \A w \in WordsOf(t) : Done(t, w[1], w[2])' => Done(t, w[1], w[2]) \/ (w[1] = p /\ w[2] = k)
    BY OneMoreDone
  <1>5. /\ Types /\ PageOf(t) /\ page[t] \in [0 .. Size(bio[t].segs) - 1 -> SectorType]
        /\ data \in [0 .. capacity - 1 -> SectorType]
    BY <1>1, PartsOf DEF Inv, Types, BlockTypes, PageOf
  <1> HIDE DEF p, k, s
  <1>6. cur'[t] \in [sector : Nat, seg : Nat \ {0}, word : Nat]
    <2>1. /\ cur[t] \in [sector : Nat, seg : Nat \ {0}, word : Nat] /\ bio[t].segs \in SegLists
          /\ cur[t].seg \in 1 .. Len(bio[t].segs)
      BY <1>1, TaskTypes DEF Inv, Types, BlockTypes, Cursors
    <2>2. bio[t].segs[cur[t].seg] \in Nat
      BY <2>1, SumOfSegments
    <2>3. \/ cur'[t] = [cur[t] EXCEPT !.word = cur[t].word + 1]
          \/ cur'[t] = [sector |-> cur[t].sector + bio[t].segs[cur[t].seg], seg |-> cur[t].seg + 1, word |-> 0]
      BY <1>5 DEF DoBvec, Advance, Types, BlockTypes
    <2>4. [cur[t] EXCEPT !.word = cur[t].word + 1] \in [sector : Nat, seg : Nat \ {0}, word : Nat]
      BY <2>1
    <2>5. /\ cur[t].sector + bio[t].segs[cur[t].seg] \in Nat /\ cur[t].seg + 1 \in Nat \ {0}
      <3>1. cur[t].sector \in Nat /\ cur[t].seg \in Nat \ {0}
        BY <2>1
      <3> QED
        BY <2>2, <3>1
    <2>6. [sector |-> cur[t].sector + bio[t].segs[cur[t].seg], seg |-> cur[t].seg + 1, word |-> 0]
            \in [sector : Nat, seg : Nat \ {0}, word : Nat]
      BY <2>5
    <2> QED
      BY <2>3, <2>4, <2>6
  <1>7a. Word(bio[t].stamp, s) \in Value /\ Word(bio[t].stamp, s).place = s /\ Word(bio[t].stamp, s).stamp = bio[t].stamp
    BY <1>2, <1>5, TaskTypes DEF Word, Value, Types, BlockTypes
  <1>7b. ASSUME bio[t].write
         PROVE  /\ data' \in [0 .. capacity - 1 -> SectorType] /\ data'[s][k] = Word(bio[t].stamp, s)
                /\ \A z \in 0 .. capacity - 1, l \in 0 .. Words - 1 : ~(z = s /\ l = k) => data'[z][l] = data[z][l]
                /\ page' = page
    <2> DEFINE S == 0 .. capacity - 1
               v == Word(bio[t].stamp, s)
    <2>1. data \in [S -> SectorType] /\ s \in S /\ k \in 0 .. Words - 1 /\ v \in Value
      BY <1>2, <1>5, <1>7a
    <2>2. data' = Replaced(data, s, k, v) /\ page' = page
      BY <1>3, <1>7b
    <2> HIDE DEF S, v
    <2>3. /\ data' \in [S -> SectorType] /\ data'[s][k] = v
          /\ \A z \in S, l \in 0 .. Words - 1 : ~(z = s /\ l = k) => data'[z][l] = data[z][l]
      BY <2>1, <2>2, WordReplaced
    <2> QED
      BY <2>2, <2>3 DEF S, v
  <1>7c. ASSUME ~bio[t].write
         PROVE  /\ page'[t] \in [0 .. Size(bio[t].segs) - 1 -> SectorType] /\ page'[t][p][k] = data[s][k]
                /\ \A z \in 0 .. Size(bio[t].segs) - 1, l \in 0 .. Words - 1 :
                     ~(z = p /\ l = k) => page'[t][z][l] = page[t][z][l]
                /\ data' = data /\ page' = [page EXCEPT ![t] = page'[t]] /\ page' = [u \in Task |-> page'[u]]
    <2>1. data[s][k] \in Value
      BY <1>2, <1>5 DEF SectorType
    <2>2. /\ page' = [page EXCEPT ![t] = Replaced(page[t], p, k, data[s][k])]
          /\ page = [u \in Task |-> page[u]]
      BY <1>3, <1>5, <1>7c DEF Types, BlockTypes
    <2>3. page'[t] = Replaced(page[t], p, k, data[s][k])
      BY <2>2
    <2>4. page' = [page EXCEPT ![t] = page'[t]] /\ page' = [u \in Task |-> page'[u]]
      BY <2>2, <2>3
    <2> DEFINE S == 0 .. Size(bio[t].segs) - 1
               v == data[s][k]
    <2>5. page[t] \in [S -> SectorType] /\ p \in S /\ k \in 0 .. Words - 1 /\ v \in Value
      BY <1>2, <1>5, <2>1
    <2>6. page'[t] = Replaced(page[t], p, k, v) /\ data' = data
      BY <1>3, <1>7c, <2>3
    <2> HIDE DEF S, v
    <2>7. /\ page'[t] \in [S -> SectorType] /\ page'[t][p][k] = v
          /\ \A z \in S, l \in 0 .. Words - 1 : ~(z = p /\ l = k) => page'[t][z][l] = page[t][z][l]
      BY <2>5, <2>6, WordReplaced
    <2> QED
      BY <2>4, <2>6, <2>7 DEF S, v
  <1>7. Types' /\ page' = [page EXCEPT ![t] = page'[t]]
    <2>2. data' \in [0 .. capacity - 1 -> SectorType]
      BY <1>5, <1>7b, <1>7c
    <2>3. page' = [u \in Task |-> page'[u]] /\ page' = [page EXCEPT ![t] = page'[t]]
      <3>1. page = [page EXCEPT ![t] = page[t]] /\ page = [u \in Task |-> page[u]]
        BY <1>5 DEF Types, BlockTypes
      <3> QED
        BY <1>7b, <1>7c, <3>1
    <2>4. pc' \in [Task -> Pcs] /\ cur' \in [Task -> [sector : Nat, seg : Nat \ {0}, word : Nat]]
      <3>1. pc'[t] \in Pcs /\ pc \in [Task -> Pcs]
            /\ cur \in [Task -> [sector : Nat, seg : Nat \ {0}, word : Nat]]
        BY <1>1, <1>5 DEF Types, BlockTypes, Pcs
      <3>2. pc' \in [Task -> Pcs]
        BY <1>1, <3>1
      <3>3. cur' \in [Task -> [sector : Nat, seg : Nat \ {0}, word : Nat]]
        BY <1>1, <1>6, <3>1
      <3> QED
        BY <3>2, <3>3
    <2> QED
      BY <1>1, <1>5, <2>2, <2>3, <2>4 DEF Types, BlockTypes
  <1>8. Size(bio[t].segs)' = Size(bio[t].segs) /\ WordsOf(t)' = WordsOf(t)
    BY <1>1 DEF Size, Before, WordsOf
  <1>9. PageOf(t)' /\ OnDiskOf(t)' /\ DataInPlace' /\ NothingStale'
    <2>1. PageOf(t)'
      <3>1. page'[t] \in [0 .. Size(bio[t].segs) - 1 -> SectorType]
        BY <1>5, <1>7b, <1>7c
      <3> QED
        BY <1>1, <1>5, <1>8, <3>1 DEF PageOf, Types, BlockTypes
    <2>2. OnDiskOf(t)'
      BY <1>1, <1>5, <1>8, PartsOf DEF Inv, OnDiskOf, Types, BlockTypes
    <2>3. DataInPlace'
      BY <1>1, <1>7a, <1>7b, <1>7c DEF Inv, DataInPlace
    <2>4. NothingStale'
      <3>1. bio[t].write => \A z \in 0 .. capacity - 1 : bio[t].stamp \notin stale[z]
        BY <1>1 DEF Inv, Stamps, Writing
      <3> QED
        BY <1>1, <1>2, <1>7a, <1>7b, <1>7c, <3>1 DEF Inv, NothingStale
    <2> QED
      BY <2>1, <2>2, <2>3, <2>4
  <1>10. ReadOf(t)'
    <2> SUFFICES ASSUME ~bio[t].write, NEW w \in WordsOf(t), Done(t, w[1], w[2])'
                 PROVE  page'[t][w[1]][w[2]].place = bio[t].sector + w[1]
      BY <1>1, <1>8 DEF ReadOf
    <2>1. w[1] \in 0 .. Size(bio[t].segs) - 1 /\ w[2] \in 0 .. Words - 1
      BY DEF WordsOf
    <2>2. data[s][k].place = s
      BY <1>2 DEF Inv, DataInPlace
    <2>3. CASE w[1] = p /\ w[2] = k
      <3>1. page'[t][w[1]][w[2]] = data[s][k]
        BY <1>7c, <2>3
      <3> QED
        BY <2>2, <2>3, <3>1 DEF s
    <2>4. CASE ~(w[1] = p /\ w[2] = k)
      <3>1. page'[t][w[1]][w[2]] = page[t][w[1]][w[2]]
        BY <1>7c, <2>1, <2>4
      <3>2. Done(t, w[1], w[2]) /\ ReadOf(t) /\ pc[t] # "idle" /\ capacity # 0
        BY <1>1, <1>4, <2>4, PartsOf DEF Inv
      <3> QED
        BY <3>1, <3>2 DEF ReadOf
    <2> QED
      BY <2>3, <2>4
  <1>11. \A u \in Task \ {t} : pc'[u] = pc[u] /\ bio'[u] = bio[u] /\ cur'[u] = cur[u] /\ page'[u] = page[u]
           /\ older'[u] = older[u] /\ Untouched(u)
    BY <1>1, <1>5, <1>7 DEF Types, BlockTypes, Untouched
  <1>12. WriteOf(t)'
    <2> SUFFICES ASSUME bio[t].write, NEW w \in WordsOf(t), Done(t, w[1], w[2])'
                 PROVE  data'[bio[t].sector + w[1]][w[2]].stamp \notin older[t]
      BY <1>1, <1>8 DEF WriteOf, Writing
    <2>1. w[1] \in 0 .. Size(bio[t].segs) - 1 /\ w[2] \in 0 .. Words - 1
      BY DEF WordsOf
    <2>2. bio[t].sector + w[1] \in 0 .. capacity - 1
      <3>1. bio[t].sector + Size(bio[t].segs) <= capacity /\ capacity \in Nat /\ Size(bio[t].segs) \in Nat
        BY <1>1, TaskTypes DEF Inv, OnDisk, Types, BlockTypes
      <3> QED
        BY <1>2, <2>1, <3>1
    <2>4. CASE w[1] = p /\ w[2] = k
      <3>1. data'[bio[t].sector + w[1]][w[2]] = Word(bio[t].stamp, s)
        BY <1>7b, <2>4 DEF s
      <3>2. bio[t].stamp \notin older[t]
        BY <1>1 DEF Inv, Stamps, Writing
      <3> QED
        BY <1>7a, <3>1, <3>2
    <2>5. CASE ~(w[1] = p /\ w[2] = k)
      <3>1. bio[t].sector + w[1] = s => w[1] = p
        BY <1>2, <2>1 DEF s
      <3>2. data'[bio[t].sector + w[1]][w[2]] = data[bio[t].sector + w[1]][w[2]]
        BY <1>7b, <2>1, <2>2, <2>5, <3>1
      <3>3. Done(t, w[1], w[2]) /\ WriteOf(t) /\ Writing(t) /\ capacity # 0
        BY <1>1, <1>4, <2>5, PartsOf DEF Inv, Writing
      <3> QED
        BY <3>2, <3>3 DEF WriteOf
    <2> QED
      BY <2>4, <2>5
  <1>13. ASSUME NEW u \in Task \ {t} PROVE WriteOf(u)'
    <2>1. /\ WordsOf(u)' = WordsOf(u) /\ (Writing(u)' <=> Writing(u))
          /\ \A a, b : Done(u, a, b)' <=> Done(u, a, b)
      BY <1>11, UntouchedFrame
    <2>2. WriteOf(u) /\ bio'[u] = bio[u] /\ older'[u] = older[u]
      BY <1>11, PartsOf DEF Inv
    <2> SUFFICES ASSUME Writing(u), NEW w \in WordsOf(u), Done(u, w[1], w[2])
                 PROVE  data'[bio[u].sector + w[1]][w[2]].stamp \notin older[u]
      BY <1>1, <2>1, <2>2 DEF WriteOf
    <2>3. w[1] \in 0 .. Size(bio[u].segs) - 1 /\ w[2] \in 0 .. Words - 1
      BY DEF WordsOf
    <2>4. bio[u].sector + w[1] \in 0 .. capacity - 1
      <3>1. /\ bio[u].sector + Size(bio[u].segs) <= capacity /\ capacity \in Nat /\ Size(bio[u].segs) \in Nat
            /\ bio[u].sector \in Nat
        BY <1>1, TaskTypes DEF Inv, OnDisk, Types, BlockTypes, Writing
      <3> QED
        BY <2>3, <3>1
    <2>5. data[bio[u].sector + w[1]][w[2]].stamp \notin older[u]
      BY <1>1, <2>2 DEF WriteOf
    <2>6. bio[t].write => bio[t].stamp \notin older[u]
      BY <1>1 DEF Inv, Stamps, Writing
    <2> QED
      BY <1>7a, <1>7b, <1>7c, <2>3, <2>4, <2>5, <2>6
  <1>14. Pages' /\ Cursors' /\ OnDisk' /\ ReadsInPlace' /\ Overwrites'
    <2>1. \A u \in Task \ {t} : PageOf(u)' /\ OnDiskOf(u)' /\ ReadOf(u)'
      BY <1>1, <1>11, OthersKept
    <2>2. \A u \in Task : CursorOf(u)'
      BY <1>4 DEF Cursors, CursorOf
    <2>3. \A u \in Task : PageOf(u)' /\ CursorOf(u)' /\ OnDiskOf(u)' /\ ReadOf(u)' /\ WriteOf(u)'
      BY <1>9, <1>10, <1>12, <1>13, <2>1, <2>2
    <2> QED
      BY <2>3, PartsOf
  <1>15. Stamps'
    <2>1. \A u \in Task : Writing(u)' => Writing(u)
      BY <1>1, <1>11 DEF Writing
    <2> QED
      BY <1>1, <2>1 DEF Inv, Stamps
  <1> QED
    BY <1>7, <1>9, <1>14, <1>15 DEF Inv

\* A bio ends when all is moved, so what it has made stale is on none of its sectors.
LEMMA EndIoKeeps ==
  ASSUME Inv, NEW t \in Task, EndIo(t)
  PROVE  Inv'
  <1>1. /\ pc[t] = "moved" /\ UNCHANGED <<capacity, data, bio, page, cur, written, older>>
        /\ pc' = [u \in Task |-> IF u = t THEN "ended" ELSE pc[u]]
        /\ status' = [u \in Task |-> IF u = t THEN "ok" ELSE status[u]]
        /\ ended' = IF bio[t].write THEN ended \cup {bio[t].stamp} ELSE ended
        /\ stale' = [s \in DOMAIN stale |->
             IF bio[t].write /\ s \in Sectors(bio[t]) THEN stale[s] \cup older[t] ELSE stale[s]]
    <2>1. {bio[u].stamp : u \in {u \in {t} : bio[u].write}} = IF bio[t].write THEN {bio[t].stamp} ELSE {}
      OBVIOUS
    <2>2. \A s : UNION {older[u] : u \in {v \in {u \in {t} : bio[u].write} : s \in Sectors(bio[v])}}
                   = IF bio[t].write /\ s \in Sectors(bio[t]) THEN older[t] ELSE {}
      OBVIOUS
    <2>3. /\ pc[t] = "moved" /\ UNCHANGED <<capacity, data, bio, page, cur, written, older>>
          /\ pc' = [u \in Task |-> IF u = t THEN "ended" ELSE pc[u]]
          /\ status' = [u \in Task |-> IF u = t THEN "ok" ELSE status[u]]
          /\ ended' = ended \cup {bio[u].stamp : u \in {u \in {t} : bio[u].write}}
      BY DEF EndIo, EndBios, disk
    <2>4. stale' = [s \in DOMAIN stale |->
            stale[s] \cup UNION {older[u] : u \in {v \in {u \in {t} : bio[u].write} : s \in Sectors(bio[v])}}]
      BY DEF EndIo, EndBios
    <2>5. ended' = IF bio[t].write THEN ended \cup {bio[t].stamp} ELSE ended
      BY <2>1, <2>3
    <2>6. stale' = [s \in DOMAIN stale |->
             IF bio[t].write /\ s \in Sectors(bio[t]) THEN stale[s] \cup older[t] ELSE stale[s]]
      BY <2>2, <2>4
    <2> QED
      BY <2>3, <2>5, <2>6
  <1>2. \A u \in Task \ {t} : Untouched(u)
    BY <1>1 DEF Untouched
  <1>3. /\ Types /\ Stamps /\ bio[t].stamp \in Stamp /\ older[t] \subseteq Stamp /\ DOMAIN stale = 0 .. capacity - 1
        /\ pc'[t] = "ended" /\ bio[t].write \in BOOLEAN
    BY <1>1, TaskTypes DEF Inv, Types, BlockTypes
  <1>4. Types'
    <2>1. ended' \subseteq Stamp
      BY <1>1, <1>3 DEF Types, BlockTypes
    <2>2. stale' \in [0 .. capacity - 1 -> SUBSET Stamp]
      BY <1>1, <1>3 DEF Types, BlockTypes
    <2>3. pc' \in [Task -> Pcs] /\ status' \in [Task -> {"none", "ok", "error"}]
      BY <1>1, <1>3 DEF Types, BlockTypes, Pcs
    <2> QED
      BY <1>1, <1>3, <2>1, <2>2, <2>3 DEF Types, BlockTypes
  <1>5. Size(bio[t].segs)' = Size(bio[t].segs) /\ WordsOf(t)' = WordsOf(t)
    BY <1>1 DEF Size, Before, WordsOf
  <1>6. PageOf(t)' /\ CursorOf(t)' /\ OnDiskOf(t)' /\ ReadOf(t)' /\ WriteOf(t)'
    <2>1. PageOf(t) /\ OnDiskOf(t) /\ ReadOf(t)
      BY PartsOf DEF Inv
    <2>2. PageOf(t)' /\ OnDiskOf(t)'
      BY <1>1, <1>3, <1>5, <2>1 DEF PageOf, OnDiskOf
    <2>3. CursorOf(t)' /\ WriteOf(t)'
      BY <1>3 DEF CursorOf, WriteOf, Writing
    <2>4. \A w \in WordsOf(t) : Done(t, w[1], w[2])
      BY <1>1 DEF Done
    <2>5. ReadOf(t)'
      BY <1>1, <1>5, <2>1, <2>4 DEF ReadOf
    <2> QED
      BY <2>2, <2>3, <2>5
  <1>7. Pages' /\ Cursors' /\ OnDisk' /\ ReadsInPlace' /\ Overwrites'
    <2>1. \A u \in Task : PageOf(u)' /\ CursorOf(u)' /\ OnDiskOf(u)' /\ ReadOf(u)' /\ WriteOf(u)'
      BY <1>1, <1>2, <1>6, OthersKept
    <2> QED
      BY <2>1, PartsOf
  <1>8. Stamps'
    <2>1. \A u \in Task : Writing(u)' => Writing(u) /\ u # t
      BY <1>1, <1>3 DEF Writing
    <2>2. bio[t].write => Writing(t)
      BY <1>1 DEF Writing
    <2>3. ended' \subseteq 0 .. written' /\ ended \subseteq ended'
      BY <1>1, <1>3, <2>2 DEF Stamps, Types, BlockTypes, Stamp
    <2>4. \A s \in 0 .. capacity' - 1 : stale'[s] \subseteq ended'
      BY <1>1, <1>3, <2>3 DEF Stamps
    <2>5. \A u \in Task : older'[u] \subseteq ended'
      BY <1>1, <1>3, <2>3 DEF Stamps
    <2>6. \A u \in Task : Writing(u)' => bio'[u].stamp \in 1 .. written' /\ bio'[u].stamp \notin ended'
      BY <1>1, <1>3, <2>1, <2>2 DEF Stamps
    <2>7. \A u, v \in Task : Writing(u)' /\ Writing(v)' /\ u # v => bio'[u].stamp # bio'[v].stamp
      BY <1>1, <1>3, <2>1 DEF Stamps
    <2> QED
      BY <2>3, <2>4, <2>5, <2>6, <2>7 DEF Stamps
  <1>9. DataInPlace'
    BY <1>1 DEF Inv, DataInPlace
  <1>10. NothingStale'
    <2> SUFFICES ASSUME NEW s \in 0 .. capacity - 1, NEW k \in 0 .. Words - 1
                 PROVE  data[s][k].stamp \notin stale'[s]
      BY <1>1 DEF NothingStale
    <2>1. data[s][k].stamp \notin stale[s]
      BY DEF Inv, NothingStale
    <2>2. CASE bio[t].write /\ s \in Sectors(bio[t])
      <3>1. /\ bio[t].sector \in Nat /\ Size(bio[t].segs) \in Nat /\ s \in bio[t].sector .. bio[t].sector + Size(bio[t].segs) - 1
        BY <2>2, TaskTypes DEF Inv, Types, Sectors
      <3> DEFINE w == <<s - bio[t].sector, k>>
      <3>2. s - bio[t].sector \in 0 .. Size(bio[t].segs) - 1 /\ bio[t].sector + (s - bio[t].sector) = s
        BY <3>1
      <3>3. w \in WordsOf(t) /\ w[1] = s - bio[t].sector /\ w[2] = k
        BY <3>2 DEF WordsOf
      <3>4. Done(t, w[1], w[2]) /\ Writing(t) /\ capacity # 0
        BY <1>1, <1>3, <2>2 DEF Done, Writing, Types, BlockTypes
      <3>5. data[bio[t].sector + w[1]][w[2]].stamp \notin older[t]
        BY <3>3, <3>4 DEF Inv, Overwrites
      <3>6. data[s][k].stamp \notin older[t]
        BY <3>2, <3>3, <3>5
      <3> QED
        BY <1>1, <1>3, <2>1, <2>2, <3>6
    <2> QED
      BY <1>1, <1>3, <2>1, <2>2
  <1> QED
    BY <1>4, <1>7, <1>8, <1>9, <1>10 DEF Inv

\* A task without a bio has nothing to keep.
LEMMA ReapKeeps ==
  ASSUME Inv, NEW t \in Task, Reap(t)
  PROVE  Inv'
  <1>1. /\ pc[t] = "ended" /\ UNCHANGED <<capacity, data, written, ended, stale>>
        /\ pc' = [pc EXCEPT ![t] = "idle"] /\ bio' = [bio EXCEPT ![t] = NoBio]
        /\ page' = [page EXCEPT ![t] = <<>>] /\ cur' = [cur EXCEPT ![t] = Start(0)]
        /\ status' = [status EXCEPT ![t] = "none"] /\ older' = [older EXCEPT ![t] = {}]
    BY DEF Reap, disk
  <1>2. Types
    BY DEF Inv
  <1>3. /\ pc'[t] = "idle" /\ page'[t] = <<>> /\ older'[t] = {}
    BY <1>1, <1>2 DEF Types, BlockTypes
  <1>4. \A u \in Task \ {t} : Untouched(u)
    BY <1>1, <1>2 DEF Untouched, Types, BlockTypes
  <1>5. Types'
    <2>1. NoBio \in [write : BOOLEAN, sector : Nat, segs : Segs, stamp : Stamp]
      BY ConstsHold DEF NoBio, Segs, Stamp, Consts
    <2>2. Start(0) \in [sector : Nat, seg : Nat \ {0}, word : Nat]
      BY DEF Start
    <2> QED
      BY <1>1, <1>2, <2>1, <2>2 DEF Types, BlockTypes, Pcs
  <1>6. Pages' /\ Cursors' /\ OnDisk' /\ ReadsInPlace' /\ Overwrites'
    <2>1. PageOf(t)' /\ CursorOf(t)' /\ OnDiskOf(t)' /\ ReadOf(t)' /\ WriteOf(t)'
      BY <1>3 DEF PageOf, CursorOf, OnDiskOf, ReadOf, WriteOf, Writing
    <2>2. \A u \in Task : PageOf(u)' /\ CursorOf(u)' /\ OnDiskOf(u)' /\ ReadOf(u)' /\ WriteOf(u)'
      BY <1>1, <1>4, <2>1, OthersKept
    <2> QED
      BY <2>2, PartsOf
  <1>7. Stamps'
    <2>1. \A u \in Task : Writing(u)' => Writing(u) /\ bio'[u] = bio[u]
      BY <1>3, <1>4 DEF Writing, Untouched
    <2>2. \A u \in Task : older'[u] \subseteq older[u]
      BY <1>3, <1>4 DEF Untouched
    <2> QED
      BY <1>1, <2>1, <2>2 DEF Inv, Stamps
  <1>8. DataInPlace' /\ NothingStale'
    BY <1>1 DEF Inv, DataInPlace, NothingStale
  <1> QED
    BY <1>5, <1>6, <1>7, <1>8 DEF Inv

\* The invariant holds at first.
LEMMA InvInit == Init => Inv
  <1> SUFFICES ASSUME Init PROVE Inv
    OBVIOUS
  <1>1. PICK mb \in CapacityMb : capacity = SectorsOf(mb) /\ BlockInit(SectorsOf(mb))
    BY DEF Init
  <1>2. capacity \in Nat
    <2>1. mb \in Nat /\ MbSectors \in Nat /\ UintRange \in Nat \ {0}
      BY <1>1, NvmAssumption
    <2>2. mb * MbSectors \in Nat
      BY <2>1, SMT
    <2> DEFINE n == mb * MbSectors
    <2> HIDE DEF n
    <2>3. n % UintRange \in Nat
      BY <2>1, <2>2, WordPlaces DEF n
    <2> QED
      BY <1>1, <2>3 DEF SectorsOf, n
  <1>3. /\ data = [s \in 0 .. capacity - 1 |-> [k \in 0 .. Words - 1 |-> Word(0, s)]]
        /\ pc = [t \in Task |-> "idle"] /\ bio = [t \in Task |-> NoBio] /\ page = [t \in Task |-> <<>>]
        /\ cur = [t \in Task |-> Start(0)] /\ status = [t \in Task |-> "none"]
        /\ written = 0 /\ ended = {0} /\ older = [t \in Task |-> {}]
        /\ stale = [s \in 0 .. capacity - 1 |-> {}]
    BY <1>1 DEF BlockInit
  <1>4. \A s \in 0 .. capacity - 1 : Word(0, s) \in Value /\ Word(0, s).place = s
    BY <1>2, ConstsHold DEF Word, Value, Stamp, Consts
  <1>5. Types
    <2>1. NoBio \in [write : BOOLEAN, sector : Nat, segs : Segs, stamp : Stamp]
      BY ConstsHold DEF NoBio, Segs, Stamp, Consts
    <2>2. Start(0) \in [sector : Nat, seg : Nat \ {0}, word : Nat]
      BY DEF Start
    <2>3. written \in Stamp /\ ended \subseteq Stamp
      BY <1>3, ConstsHold DEF Stamp, Consts
    <2>4. data \in [0 .. capacity - 1 -> SectorType]
      BY <1>3, <1>4 DEF SectorType
    <2> QED
      BY <1>2, <1>3, <2>1, <2>2, <2>3, <2>4 DEF Types, BlockTypes, Pcs
  <1>6. \A t \in Task : pc[t] = "idle" /\ page[t] = <<>> /\ older[t] = {} /\ ~Writing(t)
    BY <1>3 DEF Writing
  <1>7. Pages /\ Cursors /\ OnDisk /\ ReadsInPlace /\ Overwrites
    BY <1>6 DEF Pages, Cursors, OnDisk, ReadsInPlace, Overwrites
  <1>8. Stamps
    BY <1>3, <1>6 DEF Stamps
  <1>9. DataInPlace /\ NothingStale
    BY <1>3, <1>4 DEF DataInPlace, NothingStale
  <1> QED
    BY <1>5, <1>7, <1>8, <1>9 DEF Inv

\* The cursors, the stamps and what they say of the words moved hold throughout.
THEOREM InvIsInvariant == Spec => []Inv
  <1>1. Inv /\ [Next]_blockVars => Inv'
    <2> SUFFICES ASSUME Inv, [Next]_blockVars PROVE Inv'
      OBVIOUS
    <2>1. CASE \E t \in Task : Submit(t) \/ Move(t) \/ Reap(t)
      BY <2>1, SubmitKeeps, MakeRequestKeeps, DoBvecKeeps, EndIoKeeps, ReapKeeps DEF Move
    <2>2. CASE UNCHANGED blockVars
      <3>1. UNCHANGED <<capacity, data, pc, bio, page, cur, status, written, ended, older, stale>>
        BY <2>2 DEF blockVars, disk, ghosts
      <3>2. Pages' /\ Cursors' /\ OnDisk' /\ ReadsInPlace' /\ Overwrites'
        <4>1. \A u \in Task : Untouched(u)
          BY <3>1 DEF Untouched
        <4>2. \A u \in Task : PageOf(u)' /\ CursorOf(u)' /\ OnDiskOf(u)' /\ ReadOf(u)' /\ WriteOf(u)'
          BY <3>1, <4>1, OthersKept
        <4> QED
          BY <4>2, PartsOf
      <3>3. Types' /\ Stamps' /\ DataInPlace' /\ NothingStale'
        BY <3>1 DEF Inv, Types, BlockTypes, Stamps, DataInPlace, NothingStale, Writing
      <3> QED
        BY <3>2, <3>3 DEF Inv
    <2> QED
      BY <2>1, <2>2 DEF Next
  <1> QED
    BY <1>1, InvInit, PTL DEF Spec

\* Every variable keeps its type, whatever capacity wraps to (ramdevice.c, line 188).
THEOREM TypesHold == Spec => []TypeOK
  <1>1. Inv => TypeOK
    <2> SUFFICES ASSUME Inv PROVE TypeOK
      OBVIOUS
    <2>1. \A t \in Task : \A i \in DOMAIN page[t] : page[t][i] \in SectorType
      <3> SUFFICES ASSUME NEW t \in Task, NEW i \in DOMAIN page[t] PROVE page[t][i] \in SectorType
        OBVIOUS
      <3>1. CASE pc[t] = "idle"
        <4>1. page[t] = <<>>
          BY <3>1 DEF Inv, Pages
        <4> QED
          BY <4>1
      <3>2. CASE pc[t] # "idle"
        BY <3>2 DEF Inv, Pages
      <3> QED
        BY <3>1, <3>2
    <2> QED
      BY <2>1 DEF Inv, Types, BlockTypes, TypeOK, BlockTypeOK, SectorType, Segs, Pcs
  <1> QED
    BY <1>1, InvIsInvariant, PTL

\* Concurrent bios move each word to the sector it was meant for, and reads get it from there
\* (ramdevice.c, lines 229-304), on a disk whose size has wrapped, too.
THEOREM DataIsInPlace == Spec => []InPlace
  <1>1. Inv => InPlace
    <2> SUFFICES ASSUME Inv PROVE InPlace
      OBVIOUS
    <2>1. DOMAIN data = 0 .. capacity - 1 /\ \A s \in 0 .. capacity - 1 : DOMAIN data[s] = 0 .. Words - 1
      BY DEF Inv, Types, BlockTypes, SectorType
    <2>2. ASSUME NEW t \in Task, HasRead(t), NEW i \in DOMAIN page[t], NEW k \in DOMAIN page[t][i]
          PROVE  page[t][i][k].place = bio[t].sector + i
      <3>1. pc[t] = "ended" /\ ~bio[t].write /\ capacity # 0
        BY <2>2 DEF HasRead
      <3>2. page[t] \in [0 .. Size(bio[t].segs) - 1 -> SectorType]
        BY <3>1 DEF Inv, Pages
      <3>3. i \in 0 .. Size(bio[t].segs) - 1 /\ k \in 0 .. Words - 1
        BY <2>2, <3>2 DEF SectorType
      <3>4. <<i, k>> \in WordsOf(t)
        BY <3>3 DEF WordsOf
      <3>5. Done(t, <<i, k>>[1], <<i, k>>[2])
        BY <3>1 DEF Done
      <3>6. page[t][<<i, k>>[1]][<<i, k>>[2]].place = bio[t].sector + <<i, k>>[1]
        BY <3>1, <3>4, <3>5 DEF Inv, ReadsInPlace
      <3> QED
        BY <3>6
    <2> QED
      BY <2>1, <2>2 DEF Inv, DataInPlace, InPlace
  <1> QED
    BY <1>1, InvIsInvariant, PTL

\* Without a lock a write that has ended is never undone: what was on its sectors when it was
\* submitted does not come back (ramdevice.c, lines 229-304).
THEOREM OldDataStaysAway == Spec => []NoStaleData
  <1>1. Inv => NoStaleData
    BY DEF Inv, Types, BlockTypes, SectorType, NothingStale, NoStaleData
  <1> QED
    BY <1>1, InvIsInvariant, PTL

\* The memcpy of a segment stays in the mapped memory and in the page of the bio, because
\* the block layer hands out no bio beyond the disk (ramdevice.c, lines 309-325).
THEOREM CopiesStayInBounds == Spec => []CopyInBounds
  <1>1. Inv => CopyInBounds
    <2> SUFFICES ASSUME Inv, NEW t \in Task, pc[t] = "moving"
                 PROVE  /\ cur[t].sector + cur[t].word \div Words \in DOMAIN data
                        /\ Place(t, cur[t].seg, cur[t].word) \in DOMAIN page[t]
      BY DEF CopyInBounds
    <2>1. DOMAIN data = 0 .. capacity - 1 /\ DOMAIN page[t] = 0 .. Size(bio[t].segs) - 1
      BY DEF Inv, Types, BlockTypes, Pages
    <2> QED
      BY <2>1, NextWord
  <1> QED
    BY <1>1, InvIsInvariant, PTL
=============================================================================
