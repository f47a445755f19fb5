---------------------------- MODULE TdlbdProofs -----------------------------
(***************************************************************************)
(* Proofs about Tdlbd, for any tasks, lists of segments, capacity and      *)
(* numbers of writes, in both modes.                                       *)
(*                                                                         *)
(* The inductive invariant Inv has the way of a bio from the queue to its  *)
(* end (Requests), where the driver is in it, which counts every segment   *)
(* like the first one (CursorOf), what that means while all segments of a  *)
(* bio are equally long (EvenSoFar), and what the lock of the queue does   *)
(* for whole sectors, even for bios that are moved to a wrong place        *)
(* (OneAtATime): one bio is moved at a time, so at most one sector of the  *)
(* disk and one of a reader's memory hold words of two writes, those the   *)
(* cursor of that bio is in.  One lemma per action keeps it.               *)
(***************************************************************************)
EXTENDS Tdlbd, WellFoundedInduction, TLAPS

-----------------------------------------------------------------------------
(***************************************************************************)
(* Segments, sectors and words: lemmas about BlockDisk, for any tasks,     *)
(* lists of segments, words of a sector and numbers of writes;             *)
(* NvmDiskProofs has the same lemmas of the other driver.                  *)
(*                                                                         *)
(* The sum of the lengths is a recursive function of the number of         *)
(* segments.  What it is follows without induction: the numbers at which   *)
(* it failed would have a least one, and would fail one before it, too.    *)
(***************************************************************************)
\* Of some natural numbers one is the least.
LEMMA LeastNumber ==
  ASSUME NEW S, S \subseteq Nat, S # {}
  PROVE  \E n \in S : \A m \in S : n <= m
  <1>1. PICK n \in S : \A m \in S : ~(<<m, n>> \in OpToRel(<, Nat))
    BY NatLessThanWellFounded, WFMin, Zenon
  <1>2. ASSUME NEW m \in S, m < n PROVE FALSE
    <2>1. <<m, n>> \in OpToRel(<, Nat)
      BY <1>2, Zenon DEF OpToRel
    <2> QED
      BY <1>1, <2>1
  <1> QED
    BY <1>2

\* The lists of segments of a bio.
SegLists == Seq(Nat \ {0}) \ {<<>>}

\* f adds up the first m lengths of segs.
Adds(f, segs, m) ==
  /\ f \in [0 .. m -> Nat] /\ f[0] = 0
  /\ \A j \in 1 .. m : f[j] = f[j - 1] + segs[j]

\* There is a function that adds up the lengths, so Before is not a choice from nothing.
LEMMA SumsExist ==
  ASSUME NEW segs \in SegLists
  PROVE  \E f : Adds(f, segs, Len(segs))
  <1> DEFINE Bad == {m \in 0 .. Len(segs) : ~\E f : Adds(f, segs, m)}
  <1>0. Len(segs) \in Nat /\ Len(segs) \in 0 .. Len(segs)
    BY DEF SegLists
  <1>1. CASE Bad # {}
    <2>0. Bad \subseteq Nat
      OBVIOUS
    <2>1. \E m \in Bad : \A k \in Bad : m <= k
      <3> HIDE DEF Bad
      <3> QED
        BY <1>1, <2>0, LeastNumber
    <2>1a. PICK m \in Bad : \A k \in Bad : m <= k
      BY <2>1
    <2>2. m # 0
      <3>1. Adds([j \in 0 .. 0 |-> 0], segs, 0)
        BY DEF Adds
      <3> QED
        BY <3>1
    <2>3. m - 1 \in 0 .. Len(segs) /\ m - 1 \notin Bad /\ m \in 1 .. Len(segs)
      BY <2>1a, <2>2
    <2>4. PICK f : Adds(f, segs, m - 1)
      BY <2>3
    <2> DEFINE g == [j \in 0 .. m |-> IF j = m THEN f[m - 1] + segs[m] ELSE f[j]]
    <2>5. segs[m] \in Nat
      BY <2>3 DEF SegLists
    <2>6. Adds(g, segs, m)
      BY <2>3, <2>4, <2>5 DEF Adds
    <2> QED
      BY <2>1a, <2>6
  <1> QED
    BY <1>0, <1>1

\* Before starts with 0 and grows by the length of each segment, which is a positive number.
LEMMA SumOfSegments ==
  ASSUME NEW segs \in SegLists
  PROVE  /\ Before(segs, 1) = 0 /\ Len(segs) \in Nat \ {0}
         /\ \A i \in 1 .. Len(segs) + 1 : Before(segs, i) \in Nat
         /\ \A i \in 1 .. Len(segs) : /\ segs[i] \in Nat \ {0}
                                      /\ Before(segs, i + 1) = Before(segs, i) + segs[i]
  <1> DEFINE sum == CHOOSE f : f = [j \in 0 .. Len(segs) |-> IF j = 0 THEN 0 ELSE f[j - 1] + segs[j]]
  <1>1. sum = [j \in 0 .. Len(segs) |-> IF j = 0 THEN 0 ELSE sum[j - 1] + segs[j]]
    <2>1. PICK f : Adds(f, segs, Len(segs))
      BY SumsExist
    <2>2. f = [j \in 0 .. Len(segs) |-> IF j = 0 THEN 0 ELSE f[j - 1] + segs[j]]
      BY <2>1 DEF Adds, SegLists
    <2> QED
      BY <2>2
  <1>2. \A i : Before(segs, i) = sum[i - 1]
    BY DEF Before
  <1> HIDE DEF sum
  <1>3. Len(segs) \in Nat \ {0} /\ \A i \in 1 .. Len(segs) : segs[i] \in Nat \ {0}
    BY DEF SegLists
  <1>4. sum[0] = 0 /\ \A j \in 1 .. Len(segs) : sum[j] = sum[j - 1] + segs[j]
    BY <1>1, <1>3
  <1> DEFINE Bad == {j \in 0 .. Len(segs) : sum[j] \notin Nat}
  <1>5. Bad = {}
    <2> SUFFICES ASSUME Bad # {} PROVE FALSE
      OBVIOUS
    <2>1. Bad \subseteq Nat
      BY <1>3
    <2>2. \E m \in Bad : \A k \in Bad : m <= k
      <3> HIDE DEF Bad
      <3> QED
        BY <2>1, LeastNumber
    <2>3. PICK m \in Bad : \A k \in Bad : m <= k
      BY <2>2
    <2>4. m # 0
      BY <1>4
    <2>5. m - 1 \in 0 .. Len(segs) /\ m - 1 \notin Bad /\ m \in 1 .. Len(segs)
      BY <1>3, <2>3, <2>4
    <2> QED
      BY <1>3, <1>4, <2>3, <2>5
  <1>6. \A i \in 1 .. Len(segs) + 1 : Before(segs, i) \in Nat
    <2> SUFFICES ASSUME NEW i \in 1 .. Len(segs) + 1 PROVE sum[i - 1] \in Nat
      BY <1>2
    <2>1. i - 1 \in 0 .. Len(segs)
      BY <1>3
    <2> QED
      BY <1>5, <2>1
  <1>7. \A i \in 1 .. Len(segs) : Before(segs, i + 1) = Before(segs, i) + segs[i]
    <2> SUFFICES ASSUME NEW i \in 1 .. Len(segs)
                 PROVE  Before(segs, i + 1) = Before(segs, i) + segs[i]
      OBVIOUS
    <2>1. i + 1 - 1 = i /\ sum[i] = sum[i - 1] + segs[i]
      BY <1>3, <1>4
    <2> QED
      BY <1>2, <2>1
  <1>8. Before(segs, 1) = 0
    BY <1>2, <1>4
  <1> QED
    BY <1>3, <1>6, <1>7, <1>8

\* Segments lie one behind the other, and all of them in the bio.
LEMMA SegmentsInOrder ==
  ASSUME NEW segs \in SegLists, NEW i \in 1 .. Len(segs) + 1
  PROVE  Before(segs, i) <= Size(segs) /\ Size(segs) \in Nat \ {0}
  <1> DEFINE B(j) == Before(segs, j)
             Bad == {j \in 0 .. Len(segs) : j + 1 >= i /\ B(i) > B(j + 1)}
  <1>1. /\ Len(segs) \in Nat \ {0} /\ B(1) = 0
        /\ \A j \in 1 .. Len(segs) + 1 : B(j) \in Nat
        /\ \A j \in 1 .. Len(segs) : segs[j] \in Nat \ {0} /\ B(j + 1) = B(j) + segs[j]
    BY SumOfSegments
  <1> HIDE DEF B
  <1>2. Bad = {}
    <2> SUFFICES ASSUME Bad # {} PROVE FALSE
      OBVIOUS
    <2>1. Bad \subseteq Nat
      BY <1>1
    <2>2. \E m \in Bad : \A k \in Bad : m <= k
      <3> HIDE DEF Bad
      <3> QED
        BY <2>1, LeastNumber
    <2>3. PICK m \in Bad : \A k \in Bad : m <= k
      BY <2>2
    <2>4. m \in 0 .. Len(segs) /\ m + 1 >= i /\ B(i) > B(m + 1) /\ B(i) \in Nat
      BY <1>1, <2>3
    <2>5. m + 1 # i
      <3> SUFFICES ASSUME m + 1 = i PROVE FALSE
        OBVIOUS
      <3>1. B(m + 1) = B(i)
        OBVIOUS
      <3> QED
        BY <2>4, <3>1
    <2>6. m \in 1 .. Len(segs) /\ m - 1 \in 0 .. Len(segs) /\ m >= i /\ (m - 1) + 1 = m
      BY <1>1, <2>4, <2>5
    <2>7. m - 1 \notin Bad
      <3> SUFFICES ASSUME m - 1 \in Bad PROVE FALSE
        OBVIOUS
      <3>1. m <= m - 1
        BY <2>3
      <3> QED
        BY <2>6, <3>1
    <2>8. ~(B(i) > B(m))
      BY <2>6, <2>7
    <2>9. B(m) \in Nat /\ segs[m] \in Nat /\ B(m + 1) = B(m) + segs[m]
      BY <1>1, <2>6
    <2> QED
      BY <2>4, <2>8, <2>9
  <1>3. B(i) <= B(Len(segs) + 1)
    <2>1. Len(segs) \in 0 .. Len(segs) /\ Len(segs) + 1 >= i /\ Len(segs) + 1 \in 1 .. Len(segs) + 1
      BY <1>1
    <2>2. B(i) \in Nat /\ B(Len(segs) + 1) \in Nat
      BY <1>1, <2>1
    <2>3. ~(B(i) > B(Len(segs) + 1))
      BY <1>2, <2>1
    <2> QED
      BY <2>2, <2>3
  <1>4. B(Len(segs)) \in Nat /\ B(Len(segs) + 1) \in Nat \ {0}
    BY <1>1
  <1> QED
    BY <1>3, <1>4 DEF B, Size

\* The types of bios and sectors.
Segs == (UNION Range(Segments)) \cup {<<1>>}
SectorType == [0 .. Words - 1 -> Value]

\* The types of the variables; where a bio can be is the driver's business.
BlockTypes ==
  /\ capacity \in Nat
  /\ data \in [0 .. capacity - 1 -> SectorType]
  /\ stale \in [0 .. capacity - 1 -> SUBSET Stamp]
  /\ bio \in [Task -> [write : BOOLEAN, sector : Nat, segs : Segs, stamp : Stamp]]
  /\ cur \in [Task -> [sector : Nat, seg : Nat \ {0}, word : Nat]]
  /\ status \in [Task -> {"none", "ok", "error"}]
  /\ written \in Stamp /\ ended \subseteq Stamp
  /\ older \in [Task -> SUBSET Stamp]
  /\ page = [t \in Task |-> page[t]]

\* The constants, as the proofs use them.
Consts == /\ Words \in Nat \ {0} /\ MaxSector \in Nat /\ MaxWrites \in Nat
          /\ Segments \in [Task -> SUBSET SegLists]

\* The assumption on the constants says so.
LEMMA ConstsHold == Consts
  BY BlockAssumption DEF Consts, SegLists

\* Every bio, the one that is none included, has segments.
LEMMA SegsAreLists == Segs \subseteq SegLists
  <1>1. <<1>> \in SegLists
    BY DEF SegLists
  <1>2. UNION Range(Segments) \subseteq SegLists
    BY ConstsHold DEF Consts, Range
  <1> DEFINE all == UNION Range(Segments)
  <1> HIDE DEF all
  <1>3. all \cup {<<1>>} \subseteq SegLists
    BY <1>1, <1>2 DEF all
  <1> QED
    BY <1>3 DEF Segs, all

\* Words counted through, n to a sector: the next one is in the same sector or starts the next one.
LEMMA WordPlaces ==
  ASSUME NEW n \in Nat \ {0}, NEW w \in Nat
  PROVE  /\ w \div n \in Nat /\ w % n \in 0 .. n - 1
         /\ w % n # n - 1 => (w + 1) \div n = w \div n /\ (w + 1) % n = (w % n) + 1
         /\ w % n = n - 1 => (w + 1) \div n = (w \div n) + 1 /\ (w + 1) % n = 0
  BY SMT

\* The words of a segment of len sectors, and its last one.
LEMMA WordsOfSegment ==
  ASSUME NEW n \in Nat \ {0}, NEW w \in Nat, NEW len \in Nat
  PROVE  /\ w < len * n => w \div n < len
         /\ w + 1 = len * n => w % n = n - 1 /\ (w \div n) + 1 = len
  <1>1. ASSUME w < len * n PROVE w \div n < len
    BY <1>1, SMT
  <1>2. ASSUME w + 1 = len * n PROVE w % n = n - 1 /\ (w \div n) + 1 = len
    <2>1. (w + 1) \div n = len /\ (w + 1) % n = 0
      BY <1>2, SMT
    <2>2. /\ w % n \in 0 .. n - 1
          /\ w % n # n - 1 => (w + 1) % n = (w % n) + 1
          /\ w % n = n - 1 => (w + 1) \div n = (w \div n) + 1
      BY WordPlaces
    <2>3. w % n = n - 1
      <3> SUFFICES ASSUME w % n # n - 1 PROVE FALSE
        OBVIOUS
      <3>1. (w % n) + 1 = 0 /\ w % n \in 0 .. n - 1
        BY <2>1, <2>2
      <3> DEFINE r == w % n
      <3> HIDE DEF r
      <3>2. r + 1 = 0 /\ r \in 0 .. n - 1
        BY <3>1 DEF r
      <3> QED
        BY <3>2
    <2>4. (w \div n) + 1 = len
      BY <2>1, <2>2, <2>3
    <2> QED
      BY <2>3, <2>4
  <1> QED
    BY <1>1, <1>2

\* The types of what a task has.
LEMMA TaskTypes ==
  ASSUME BlockTypes, NEW t \in Task
  PROVE  /\ bio[t].write \in BOOLEAN /\ bio[t].sector \in Nat /\ bio[t].segs \in SegLists /\ bio[t].stamp \in Stamp
         /\ cur[t].sector \in Nat /\ cur[t].seg \in Nat \ {0} /\ cur[t].word \in Nat
         /\ Size(bio[t].segs) \in Nat \ {0} /\ older[t] \subseteq Stamp /\ status[t] \in {"none", "ok", "error"}
  <1>1. /\ bio[t] \in [write : BOOLEAN, sector : Nat, segs : Segs, stamp : Stamp]
        /\ cur[t] \in [sector : Nat, seg : Nat \ {0}, word : Nat]
        /\ older[t] \subseteq Stamp /\ status[t] \in {"none", "ok", "error"}
    BY DEF BlockTypes
  <1>2. bio[t].segs \in SegLists
    BY <1>1, SegsAreLists
  <1>3. 1 \in 1 .. Len(bio[t].segs) + 1
    BY <1>2 DEF SegLists
  <1>4. Size(bio[t].segs) \in Nat \ {0}
    BY <1>2, <1>3, SegmentsInOrder
  <1> QED
    BY <1>1, <1>2, <1>4

\* One word of some sectors changes.
Replaced(f, i, k, v) == [f EXCEPT ![i] = [f[i] EXCEPT ![k] = v]]

\* The sectors keep their type and all their other words.
LEMMA WordReplaced ==
  ASSUME NEW S, NEW f \in [S -> SectorType], NEW i \in S, NEW k \in 0 .. Words - 1, NEW v \in Value
  PROVE  /\ Replaced(f, i, k, v) \in [S -> SectorType] /\ Replaced(f, i, k, v)[i][k] = v
         /\ \A j \in S, l \in 0 .. Words - 1 : ~(j = i /\ l = k) => Replaced(f, i, k, v)[j][l] = f[j][l]
  <1> DEFINE K == 0 .. Words - 1
  <1>1. SectorType = [K -> Value] /\ k \in K
    BY DEF SectorType
  <1> HIDE DEF K
  <1>2. f[i] \in [K -> Value]
    BY <1>1
  <1> DEFINE h == [f[i] EXCEPT ![k] = v]
  <1>3. h \in [K -> Value] /\ h[k] = v /\ \A l \in K \ {k} : h[l] = f[i][l]
    BY <1>1, <1>2
  <1> DEFINE g == [f EXCEPT ![i] = h]
  <1>4. Replaced(f, i, k, v) = g
    BY DEF Replaced
  <1> HIDE DEF h
  <1>5. g \in [S -> SectorType] /\ g[i] = h /\ \A j \in S \ {i} : g[j] = f[j]
    BY <1>1, <1>3
  <1> HIDE DEF g
  <1> QED
    BY <1>3, <1>4, <1>5 DEF K

-----------------------------------------------------------------------------
\* The types of the variables.
Pcs == {"idle", "submitted", "moving", "queued", "command", "ended"}
Busy == {"submitted", "moving", "queued"}
\* The tasks of a request.
Members(r) == {r[i] : i \in DOMAIN r}

Types ==
  /\ BlockTypes /\ pc \in [Task -> Pcs]
  /\ capacity = Capacity /\ mode \in Modes
  /\ queue \subseteq Seq(Task) \ {<<>>}
  /\ running \in BOOLEAN /\ req \in Seq(Task) /\ merged \in Seq(Task)
  /\ stray \subseteq {"page", "store"} /\ even \in BOOLEAN

\* The memory of a bio, and where the bio lies.
PageOf(t) ==
  /\ page[t] = <<>> \/ page[t] \in [0 .. Size(bio[t].segs) - 1 -> SectorType]
  /\ pc[t] \in Busy => /\ page[t] \in [0 .. Size(bio[t].segs) - 1 -> SectorType]
                       /\ bio[t].sector + Size(bio[t].segs) <= capacity
  /\ pc[t] = "command" => page[t] = <<>>
  /\ pc[t] = "idle" => page[t] = <<>>

\* How far the bio has been moved: the driver counts every segment like the first.
Length(t) == Len(bio[t].segs)
CursorOf(t) ==
  /\ cur[t].seg \in 1 .. Length(t) + 1
  /\ cur[t].sector = bio[t].sector + (cur[t].seg - 1) * CurSectors(t)
  /\ cur[t].word < CurSectors(t) * Words
  /\ ~InLoop(t) => cur[t].word = 0
  /\ cur[t].word # 0 => ~BeyondEnd(t)
  /\ pc[t] = "ended" /\ status[t] = "ok" => ~InLoop(t)

\* Of a request, every bio waits; a command is alone.
Requests ==
  /\ \A r \in queue : \/ \A t \in Members(r) : pc[t] = "queued"
                      \/ \E t \in Task : r = <<t>> /\ pc[t] = "command"
  /\ \A r, s \in queue : r # s => Members(r) \cap Members(s) = {}
  /\ \A t \in Members(merged) : pc[t] = "queued" /\ \A r \in queue : t \notin Members(r)
  /\ Members(req) \subseteq Members(merged)
  /\ \A t \in Members(merged) \ Members(req) : ~InLoop(t)

\* Bios whose segments have one length.
Regular(t) == \A i \in 1 .. Length(t) : bio[t].segs[i] = CurSectors(t)
\* Where the next word lies in the bio, and whether word k of its sector i has been moved before it.
Position(t) == Place(t, cur[t].seg, cur[t].word)
Done(t, i, k) == i < Position(t) \/ (i = Position(t) /\ k < cur[t].word % Words)
\* What is in its place, as long as all bios were even.
DataInPlace == \A s \in 0 .. capacity - 1, k \in 0 .. Words - 1 : data[s][k].place = s
ReadOf(t) ==
  ~bio[t].write => \A i \in DOMAIN page[t] : \A k \in 0 .. Words - 1 :
    Done(t, i, k) => page[t][i][k].place = bio[t].sector + i
EvenSoFar ==
  even => /\ \A t \in Task : Regular(t) /\ ReadOf(t)
          /\ DataInPlace
          /\ "page" \notin stray

\* In the mode QUEUE one bio at a time is moved, and one sector at a time is torn.
Offset(t) == cur[t].word % Words
SectorNow(t) == cur[t].sector + cur[t].word \div Words
InSegment(t) == cur[t].seg \in 1 .. Length(t) /\ cur[t].word < bio[t].segs[cur[t].seg] * Words
Ink(t) == IF InSegment(t) THEN bio[t].stamp ELSE 0
\* A sector of one write; the one of the disk that a write is in, the one of the memory that a read is in.
WholeSector(c) == \A k, l \in 0 .. Words - 1 : c[k].stamp = c[l].stamp
Tears(t, s) == bio[t].write /\ Offset(t) # 0 /\ s = SectorNow(t)
Fills(t, i) == ~bio[t].write /\ Offset(t) # 0 /\ i = Position(t) /\ InSegment(t)
\* What the lock of the queue keeps.
OneAtATime ==
  mode = "QUEUE" =>
    /\ \A t \in Task : pc[t] # "moving"
    /\ \A t \in Task : cur[t].word # 0 => req # <<>> /\ t = req[1]
    /\ \A s \in 0 .. capacity - 1 : WholeSector(data[s]) \/ \E t \in Task : Tears(t, s)
    /\ \A t \in Task, s \in 0 .. capacity - 1 : Tears(t, s) =>
         /\ \A k \in 0 .. Offset(t) - 1 : data[s][k].stamp = Ink(t)
         /\ \A k, l \in Offset(t) .. Words - 1 : data[s][k].stamp = data[s][l].stamp
    /\ \A t \in Task : \A i \in DOMAIN page[t] : WholeSector(page[t][i]) \/ Fills(t, i)
    /\ \A t \in Task : \A i \in DOMAIN page[t] : Fills(t, i) =>
         \A k \in 0 .. Offset(t) - 1 : page[t][i][k].stamp = data[SectorNow(t)][k].stamp

\* The inductive invariant.
Inv ==
  /\ Types /\ \A t \in Task : PageOf(t) /\ CursorOf(t)
  /\ "store" \notin stray
  /\ Requests /\ EvenSoFar /\ OneAtATime

-----------------------------------------------------------------------------
\* A product with the next number.
LEMMA Products ==
  ASSUME NEW c \in Nat \ {0}, NEW i \in Nat \ {0}
  PROVE  /\ (i - 1) * c \in Nat /\ i * c \in Nat /\ ((i + 1) - 1) * c = (i - 1) * c + c
         /\ (i - 1) * c + c = i * c
  BY SMT

\* With segments of one length, the sectors before a segment are a product.
LEMMA RegularSums ==
  ASSUME NEW segs \in SegLists, \A i \in 1 .. Len(segs) : segs[i] = segs[1]
  PROVE  \A i \in 1 .. Len(segs) + 1 : Before(segs, i) = (i - 1) * segs[1]
  <1> DEFINE B(j) == Before(segs, j)
             c == segs[1]
             Bad == {j \in 1 .. Len(segs) + 1 : B(j) # (j - 1) * c}
  <1>1. /\ Len(segs) \in Nat \ {0} /\ B(1) = 0 /\ c \in Nat \ {0}
        /\ \A j \in 1 .. Len(segs) : B(j + 1) = B(j) + c
    BY SumOfSegments
  <1> HIDE DEF B, c
  <1>2. Bad = {}
    <2> SUFFICES ASSUME Bad # {} PROVE FALSE
      OBVIOUS
    <2>1. Bad \subseteq Nat
      BY <1>1
    <2>2. \E m \in Bad : \A k \in Bad : m <= k
      <3> HIDE DEF Bad
      <3> QED
        BY <2>1, LeastNumber
    <2>3. PICK m \in Bad : \A k \in Bad : m <= k
      BY <2>2
    <2>4. m \in 1 .. Len(segs) + 1 /\ B(m) # (m - 1) * c
      BY <2>3
    <2>5. m # 1
      <3>1. (1 - 1) * c = 0
        BY <1>1, SMT
      <3> QED
        BY <1>1, <2>4, <3>1
    <2>6. m - 1 \in 1 .. Len(segs) /\ m - 1 \in 1 .. Len(segs) + 1 /\ m - 1 \in Nat \ {0} /\ m = (m - 1) + 1
      BY <1>1, <2>4, <2>5
    <2>7. m - 1 \notin Bad
      <3> SUFFICES ASSUME m - 1 \in Bad PROVE FALSE
        OBVIOUS
      <3>1. m <= m - 1
        BY <2>3
      <3> QED
        BY <2>4, <2>6, <3>1
    <2> DEFINE k == m - 1
    <2>8. B(k) = (k - 1) * c
      BY <2>6, <2>7
    <2>9. B(k + 1) = B(k) + c /\ k \in Nat \ {0} /\ m = k + 1
      BY <1>1, <2>6
    <2> HIDE DEF k
    <2>10. ((k + 1) - 1) * c = (k - 1) * c + c
      BY <1>1, <2>9, Products
    <2> QED
      BY <2>4, <2>8, <2>9, <2>10
  <1> QED
    BY <1>2 DEF B, c

\* A step that leaves the bio of t alone.
LEMMA SameBio ==
  ASSUME NEW t \in Task, bio'[t] = bio[t]
  PROVE  /\ \A i : Before(bio[t].segs, i)' = Before(bio[t].segs, i)
         /\ Size(bio[t].segs)' = Size(bio[t].segs) /\ Length(t)' = Length(t) /\ CurSectors(t)' = CurSectors(t)
         /\ Regular(t)' <=> Regular(t)
  BY DEF Before, Size, Length, CurSectors, Regular

\* What the invariant says of the bio of one task.
LEMMA BioFacts ==
  ASSUME Inv, NEW t \in Task
  PROVE  /\ Length(t) \in Nat \ {0} /\ CurSectors(t) \in Nat \ {0} /\ bio[t].segs \in SegLists
         /\ bio[t].sector \in Nat /\ cur[t].sector \in Nat /\ cur[t].word \in Nat /\ Words \in Nat \ {0}
         /\ Size(bio[t].segs) \in Nat /\ capacity \in Nat \ {0} /\ PageOf(t) /\ CursorOf(t)
         /\ cur[t].seg \in 1 .. Length(t) + 1 /\ (InLoop(t) <=> cur[t].seg \in 1 .. Length(t))
         /\ bio[t].write \in BOOLEAN /\ bio[t].stamp \in Stamp
  <1>1. /\ bio[t].segs \in SegLists /\ bio[t].sector \in Nat /\ cur[t].sector \in Nat /\ cur[t].word \in Nat
        /\ Size(bio[t].segs) \in Nat /\ bio[t].write \in BOOLEAN /\ bio[t].stamp \in Stamp
    BY TaskTypes DEF Inv, Types
  <1>2. Length(t) \in Nat \ {0} /\ CurSectors(t) \in Nat \ {0}
    <2>1. Len(bio[t].segs) \in Nat \ {0} /\ 1 \in 1 .. Len(bio[t].segs)
      BY <1>1, SumOfSegments
    <2> QED
      BY <1>1, <2>1, SumOfSegments DEF Length, CurSectors
  <1>3. PageOf(t) /\ CursorOf(t) /\ cur[t].seg \in 1 .. Length(t) + 1
    BY DEF Inv, CursorOf
  <1>4. InLoop(t) <=> cur[t].seg \in 1 .. Length(t)
    BY <1>2, <1>3 DEF InLoop, Length
  <1>5. capacity \in Nat \ {0} /\ Words \in Nat \ {0}
    BY TdlbdAssumption, BlockAssumption DEF Inv, Types
  <1> QED
    BY <1>1, <1>2, <1>3, <1>4, <1>5

\* Where the next word of a bio goes: to the disk, and to the bio if it is in the segment.
LEMMA NextWord ==
  ASSUME Inv, NEW t \in Task, InLoop(t)
  PROVE  /\ Offset(t) \in 0 .. Words - 1 /\ SectorNow(t) \in Nat /\ Position(t) \in Nat
         /\ ~BeyondEnd(t) => SectorNow(t) \in 0 .. capacity - 1
         /\ InSegment(t) => Position(t) \in 0 .. Size(bio[t].segs) - 1
         /\ InSegment(t) <=> cur[t].word \div Words < bio[t].segs[cur[t].seg]
         /\ bio[t].segs[cur[t].seg] \in Nat \ {0}
  <1> DEFINE segs == bio[t].segs
             i == cur[t].seg
             q == cur[t].word \div Words
             len == segs[i]
             before == Before(segs, i)
             size == Size(segs)
  <1>1. /\ segs \in SegLists /\ i \in 1 .. Len(segs) /\ cur[t].word \in Nat /\ Words \in Nat \ {0}
        /\ cur[t].sector \in Nat /\ capacity \in Nat /\ CurSectors(t) \in Nat \ {0}
    BY BioFacts DEF Length
  <1>0. cur[t].word < CurSectors(t) * Words
    BY BioFacts DEF CursorOf
  <1>2. /\ before \in Nat /\ Before(segs, i + 1) = before + len /\ len \in Nat \ {0} /\ before + len <= size /\ size \in Nat
    <2>1. i \in 1 .. Len(segs) + 1 /\ i + 1 \in 1 .. Len(segs) + 1
      <3>1. Len(segs) \in Nat /\ i \in 1 .. Len(segs)
        BY <1>1 DEF SegLists
      <3> HIDE DEF segs, i
      <3> QED
        BY <3>1
    <2> HIDE DEF segs, i
    <2>2. before \in Nat /\ Before(segs, i + 1) = before + len /\ len \in Nat \ {0}
      BY <1>1, <2>1, SumOfSegments
    <2>3. Before(segs, i + 1) <= size /\ size \in Nat
      BY <1>1, <2>1, SegmentsInOrder
    <2> QED
      BY <2>2, <2>3
  <1>3. q \in Nat /\ Offset(t) \in 0 .. Words - 1
    BY <1>1, WordPlaces DEF Offset
  <1>4. q < CurSectors(t) /\ (cur[t].word < len * Words <=> q < len)
    <2> DEFINE w == cur[t].word
               c == CurSectors(t)
    <2>1. w \in Nat /\ c \in Nat \ {0} /\ len \in Nat \ {0} /\ w < c * Words
      BY <1>0, <1>1, <1>2
    <2> HIDE DEF w, c, len
    <2>2. w \div Words < c /\ (w < len * Words => w \div Words < len)
      BY <1>1, <2>1, WordsOfSegment
    <2>3. w \div Words < len => w < len * Words
      BY <1>1, <2>1, SMT
    <2> QED
      BY <2>2, <2>3 DEF w, c
  <1>5. Position(t) = before + q /\ SectorNow(t) = cur[t].sector + q
    BY DEF Position, Place, SectorNow
  <1>6. InSegment(t) <=> q < len
    BY <1>1, <1>4 DEF InSegment, Length
  <1>7. ~BeyondEnd(t) => SectorNow(t) \in 0 .. capacity - 1
    <2>1. ~BeyondEnd(t) => cur[t].sector + CurSectors(t) <= capacity
      BY <1>1 DEF BeyondEnd
    <2> HIDE DEF q
    <2> QED
      <3>1. /\ q \in Nat /\ cur[t].sector \in Nat /\ capacity \in Nat /\ CurSectors(t) \in Nat
            /\ q < CurSectors(t) /\ SectorNow(t) = cur[t].sector + q
        BY <1>1, <1>3, <1>4, <1>5
      <3> QED
        BY <2>1, <3>1
  <1>8. InSegment(t) => Position(t) \in 0 .. size - 1
    <2> HIDE DEF q, before, len, size
    <2> QED
      BY <1>2, <1>3, <1>5, <1>6
  <1>9. SectorNow(t) \in Nat /\ Position(t) \in Nat
    <2> HIDE DEF q, before
    <2> QED
      <3>1. /\ q \in Nat /\ before \in Nat /\ cur[t].sector \in Nat
            /\ Position(t) = before + q /\ SectorNow(t) = cur[t].sector + q
        BY <1>1, <1>2, <1>3, <1>5
      <3> QED
        BY <3>1
  <1> QED
    BY <1>2, <1>3, <1>6, <1>7, <1>8, <1>9

\* Even bios are moved to where they belong, and wholly so.
LEMMA RegularWord ==
  ASSUME Inv, NEW t \in Task, Regular(t)
  PROVE  /\ cur[t].sector = bio[t].sector + Before(bio[t].segs, cur[t].seg)
         /\ SectorNow(t) = bio[t].sector + Position(t)
         /\ InLoop(t) => InSegment(t)
         /\ InLoop(t) /\ pc[t] \in Busy => ~BeyondEnd(t)
  <1> DEFINE segs == bio[t].segs
             i == cur[t].seg
             c == CurSectors(t)
             q == cur[t].word \div Words
             b == (i - 1) * c
  <1>1. /\ segs \in SegLists /\ i \in 1 .. Len(segs) + 1 /\ c \in Nat \ {0} /\ bio[t].sector \in Nat
        /\ cur[t].word \in Nat /\ Words \in Nat \ {0} /\ Len(segs) \in Nat \ {0}
        /\ cur[t].sector = bio[t].sector + b /\ cur[t].word < c * Words
        /\ (InLoop(t) <=> i \in 1 .. Len(segs)) /\ capacity \in Nat /\ cur[t].sector \in Nat
    BY BioFacts DEF CursorOf, Length
  <1>2. \A j \in 1 .. Len(segs) + 1 : Before(segs, j) = (j - 1) * c
    BY <1>1, RegularSums DEF Regular, Length, CurSectors
  <1>3. q \in Nat
    BY <1>1, WordPlaces
  <1>4. b \in Nat /\ Before(segs, i) = b /\ ((i + 1) - 1) * c = b + c
    <2>1. i \in Nat \ {0} /\ c \in Nat \ {0}
      BY <1>1
    <2>2. Before(segs, i) = b
      BY <1>1, <1>2
    <2> HIDE DEF i, c, segs
    <2>3. b \in Nat /\ ((i + 1) - 1) * c = b + c
      BY <2>1, Products
    <2> QED
      BY <2>2, <2>3
  <1>5. Position(t) = b + q /\ SectorNow(t) = cur[t].sector + q
    BY <1>4 DEF Position, Place, SectorNow
  <1>6. SectorNow(t) = bio[t].sector + Position(t)
    <2> HIDE DEF b, q
    <2> QED
      BY <1>1, <1>3, <1>4, <1>5
  <1>7. InLoop(t) => InSegment(t)
    BY <1>1 DEF InSegment, Regular, Length
  <1>8. ASSUME InLoop(t), pc[t] \in Busy PROVE ~BeyondEnd(t)
    <2>1. bio[t].sector + Size(segs) <= capacity /\ Size(segs) \in Nat
      BY <1>8, BioFacts DEF PageOf
    <2>2. i + 1 \in 1 .. Len(segs) + 1
      <3>1. i \in 1 .. Len(segs)
        BY <1>1, <1>8
      <3> HIDE DEF i
      <3> QED
        BY <1>1, <3>1
    <2>3. Before(segs, i + 1) <= Size(segs)
      <3> HIDE DEF segs, i
      <3> QED
        BY <1>1, <2>2, SegmentsInOrder
    <2>4. Before(segs, i + 1) = b + c
      <3> HIDE DEF segs, i, c
      <3> QED
        BY <1>2, <1>4, <2>2
    <2>5. b + c <= Size(segs)
      BY <2>3, <2>4
    <2>6. cur[t].sector + c <= capacity
      <3> DEFINE size == Size(segs)
      <3>1. size \in Nat /\ bio[t].sector + size <= capacity /\ b + c <= size
        BY <2>1, <2>5
      <3> HIDE DEF b, c, size
      <3> QED
        <4>1. /\ cur[t].sector = bio[t].sector + b /\ bio[t].sector \in Nat /\ c \in Nat /\ b \in Nat
              /\ capacity \in Nat
          BY <1>1, <1>4
        <4> QED
          BY <3>1, <4>1
    <2> QED
      BY <1>1, <2>6 DEF BeyondEnd
  <1> QED
    BY <1>1, <1>4, <1>6, <1>7, <1>8

\* What the memcpy leaves at its place: on the disk, or in the memory of the bio.
NewWord(t) == IF InSegment(t) THEN Content(t, cur[t].seg, cur[t].word) ELSE Junk

\* It is a word, of the write that is moved where the segment has it.
LEMMA NewWordFacts ==
  ASSUME Inv, NEW t \in Task, InLoop(t)
  PROVE  /\ NewWord(t) \in Value /\ NewWord(t).stamp = Ink(t)
         /\ InSegment(t) => NewWord(t).place = bio[t].sector + Position(t)
  <1>1. bio[t].stamp \in Stamp /\ bio[t].sector + Position(t) \in Nat /\ 0 \in Stamp
    <2>1. Position(t) \in Nat /\ bio[t].sector \in Nat
      BY NextWord, BioFacts
    <2> QED
      BY <2>1, BioFacts, ConstsHold DEF Consts, Stamp
  <1>2. InSegment(t) => NewWord(t) = Word(bio[t].stamp, bio[t].sector + Position(t))
    BY DEF NewWord, Content, Position
  <1>3. ~InSegment(t) => NewWord(t) = Word(0, Nowhere)
    BY DEF NewWord, Junk
  <1> QED
    BY <1>1, <1>2, <1>3 DEF Word, Value, Ink

\* One step of vmem_disk_transfer: a segment given up, or a word.
LEMMA WordMoved ==
  ASSUME Inv, NEW t \in Task, InLoop(t), Xfer(t)
  PROVE  /\ BeyondEnd(t) => data' = data /\ page' = page /\ stray' = stray /\ cur[t].word = 0
         /\ ~BeyondEnd(t) =>
              /\ bio[t].write => data' = Replaced(data, SectorNow(t), Offset(t), NewWord(t)) /\ page' = page
              /\ ~bio[t].write => data' = data
              /\ ~bio[t].write /\ InSegment(t) => page' =
                   [page EXCEPT ![t] = Replaced(page[t], Position(t), Offset(t), data[SectorNow(t)][Offset(t)])]
              /\ ~bio[t].write /\ ~InSegment(t) => page' = page
              /\ stray' = IF InSegment(t) THEN stray ELSE stray \cup {"page"}
  <1>1. ASSUME BeyondEnd(t) PROVE data' = data /\ page' = page /\ stray' = stray /\ cur[t].word = 0
    <2>1. cur[t].word = 0
      BY <1>1, BioFacts DEF CursorOf
    <2> QED
      BY <1>1, <2>1 DEF Xfer, GiveUp, MoveWord
  <1>2. ASSUME ~BeyondEnd(t)
        PROVE  /\ bio[t].write => data' = Replaced(data, SectorNow(t), Offset(t), NewWord(t)) /\ page' = page
               /\ ~bio[t].write => data' = data
               /\ ~bio[t].write /\ InSegment(t) => page' =
                    [page EXCEPT ![t] = Replaced(page[t], Position(t), Offset(t), data[SectorNow(t)][Offset(t)])]
               /\ ~bio[t].write /\ ~InSegment(t) => page' = page
               /\ stray' = IF InSegment(t) THEN stray ELSE stray \cup {"page"}
    <2>1. SectorNow(t) \in DOMAIN data
      BY <1>2, NextWord DEF Inv, Types, BlockTypes
    <2>2. InSegment(t) <=> cur[t].word < bio[t].segs[cur[t].seg] * Words
      BY BioFacts DEF InSegment
    <2>3. MoveWord(t)
      BY <1>2 DEF Xfer, GiveUp
    <2>4. CASE InSegment(t)
      <3>1. CopyWord(t, cur[t].seg, cur[t].word, SectorNow(t)) /\ stray' = stray
        BY <2>1, <2>2, <2>3, <2>4 DEF MoveWord, SectorNow
      <3> QED
        BY <2>4, <3>1 DEF CopyWord, NewWord, Replaced, Position, Offset
    <2>5. CASE ~InSegment(t)
      <3>1. /\ stray' = stray \cup {"page"}
            /\ data' = IF bio[t].write THEN [data EXCEPT ![SectorNow(t)][Offset(t)] = Junk] ELSE data
            /\ page' = page
        BY <2>1, <2>2, <2>3, <2>5 DEF MoveWord, SectorNow, Offset
      <3> QED
        BY <2>5, <3>1 DEF NewWord, Replaced
    <2> QED
      BY <2>4, <2>5
  <1> QED
    BY <1>1, <1>2

\* What a step of the driver that moves data does not change.
Frame == UNCHANGED <<capacity, pc, bio, status, ghosts, queueVars, even>>

\* The cursor, a word or a segment further.
LEMMA CursorMoves ==
  ASSUME Inv, NEW t \in Task, InLoop(t), Xfer(t), Frame, pc[t] \in Busy
  PROVE  /\ CursorOf(t)' /\ cur' = [cur EXCEPT ![t] = cur'[t]]
         /\ cur'[t] \in [sector : Nat, seg : Nat \ {0}, word : Nat]
         /\ BeyondEnd(t) => Offset(t)' = 0 /\ cur'[t].word = 0
         /\ ~BeyondEnd(t) /\ Offset(t) # Words - 1 =>
              /\ Offset(t)' = Offset(t) + 1 /\ SectorNow(t)' = SectorNow(t) /\ Position(t)' = Position(t)
              /\ (InSegment(t)' <=> InSegment(t)) /\ Ink(t)' = Ink(t)
         /\ ~BeyondEnd(t) /\ Offset(t) = Words - 1 =>
              Offset(t)' = 0 /\ (Regular(t) => Position(t)' = Position(t) + 1)
  <1> DEFINE w == cur[t].word
             c == CurSectors(t)
             i == cur[t].seg
             Stay == cur' = [cur EXCEPT ![t] = [cur[t] EXCEPT !.word = w + 1]] /\ w + 1 < c * Words /\ ~BeyondEnd(t)
             Turn == NextSegment(t) /\ (BeyondEnd(t) => w = 0) /\ (~BeyondEnd(t) => ~(w + 1 < c * Words))
  <1>1. /\ w \in Nat /\ c \in Nat \ {0} /\ i \in 1 .. Length(t) /\ Length(t) \in Nat \ {0} /\ Words \in Nat \ {0}
        /\ cur[t].sector \in Nat /\ bio[t].sector \in Nat /\ w < c * Words /\ c * Words \in Nat
        /\ cur[t].sector = bio[t].sector + (i - 1) * c /\ CursorOf(t) /\ bio[t].segs \in SegLists
        /\ cur[t] \in [sector : Nat, seg : Nat \ {0}, word : Nat] /\ t \in DOMAIN cur
        /\ BeyondEnd(t) => w = 0
    <2>1. /\ w \in Nat /\ c \in Nat \ {0} /\ i \in 1 .. Length(t) /\ Length(t) \in Nat \ {0} /\ Words \in Nat \ {0}
          /\ cur[t].sector \in Nat /\ bio[t].sector \in Nat /\ CursorOf(t) /\ bio[t].segs \in SegLists
      BY BioFacts
    <2>2. w < c * Words /\ cur[t].sector = bio[t].sector + (i - 1) * c /\ (BeyondEnd(t) => w = 0)
      BY <2>1 DEF CursorOf
    <2>3. cur[t] \in [sector : Nat, seg : Nat \ {0}, word : Nat] /\ t \in DOMAIN cur
      BY DEF Inv, Types, BlockTypes
    <2>4. c * Words \in Nat
      <3> HIDE DEF c
      <3> QED
        BY <2>1, SMT
    <2> QED
      BY <2>1, <2>2, <2>3, <2>4
  <1>2. Stay \/ Turn
    BY <1>1 DEF Xfer, GiveUp, MoveWord
  <1>3. /\ bio' = bio /\ pc' = pc /\ status' = status /\ capacity' = capacity
        /\ Length(t)' = Length(t) /\ CurSectors(t)' = c
    BY DEF Frame, Length, CurSectors
  <1>4. /\ w % Words \in 0 .. Words - 1 /\ w \div Words \in Nat
        /\ w % Words # Words - 1 => (w + 1) \div Words = w \div Words /\ (w + 1) % Words = (w % Words) + 1
        /\ w % Words = Words - 1 => (w + 1) \div Words = (w \div Words) + 1 /\ (w + 1) % Words = 0
        /\ w + 1 = c * Words => w % Words = Words - 1 /\ (w \div Words) + 1 = c
        /\ 0 % Words = 0 /\ 0 \div Words = 0
    <2>1. w \in Nat /\ c \in Nat /\ Words \in Nat \ {0} /\ w < c * Words
      BY <1>1
    <2> HIDE DEF w, c
    <2>2. 0 % Words = 0 /\ 0 \div Words = 0
      BY <2>1, SMT
    <2> QED
      BY <2>1, <2>2, WordPlaces, WordsOfSegment
  <1>5. CASE Stay
    <2>1. /\ cur'[t] = [cur[t] EXCEPT !.word = w + 1] /\ cur'[t].seg = i /\ cur'[t].sector = cur[t].sector
          /\ cur'[t].word = w + 1 /\ cur' = [cur EXCEPT ![t] = cur'[t]]
      BY <1>1, <1>5
    <2>2. cur'[t] \in [sector : Nat, seg : Nat \ {0}, word : Nat]
      BY <1>1, <2>1
    <2>3. /\ Offset(t) = w % Words /\ Offset(t)' = (w + 1) % Words
          /\ SectorNow(t) = cur[t].sector + w \div Words /\ SectorNow(t)' = cur[t].sector + (w + 1) \div Words
          /\ Position(t) = Before(bio[t].segs, i) + w \div Words
          /\ Position(t)' = Before(bio[t].segs, i) + (w + 1) \div Words
      BY <1>3, <2>1 DEF Offset, SectorNow, Position, Place, Before
    <2>4. CursorOf(t)'
      <3>1. (cur'[t].seg - 1) * CurSectors(t)' = (i - 1) * c
        BY <1>3, <2>1
      <3>2. (InLoop(t)' <=> InLoop(t)) /\ (BeyondEnd(t)' <=> BeyondEnd(t))
        BY <1>3, <2>1 DEF InLoop, BeyondEnd, CurSectors
      <3> QED
        BY <1>1, <1>3, <1>5, <2>1, <3>1, <3>2 DEF CursorOf, Busy
    <2>5. ASSUME Offset(t) # Words - 1 PROVE (InSegment(t)' <=> InSegment(t)) /\ Ink(t)' = Ink(t)
      <3> DEFINE len == bio[t].segs[i]
      <3>1. len \in Nat \ {0}
        BY <1>1, SumOfSegments DEF Length
      <3>2. (InSegment(t) <=> w < len * Words) /\ (InSegment(t)' <=> w + 1 < len * Words)
        BY <1>1, <1>3, <2>1 DEF InSegment
      <3>3. w + 1 = len * Words => w % Words = Words - 1
        <4> HIDE DEF w, len
        <4> QED
          BY <1>1, <3>1, WordsOfSegment
      <3>4. w + 1 < len * Words <=> w < len * Words
        <4>1. len * Words \in Nat
          <5> HIDE DEF len
          <5> QED
            BY <1>1, <3>1, SMT
        <4>2. w + 1 # len * Words
          BY <2>3, <2>5, <3>3
        <4> DEFINE all == len * Words
        <4>3. all \in Nat /\ w + 1 # all
          BY <4>1, <4>2
        <4> HIDE DEF w, all
        <4>4. w + 1 < all <=> w < all
          BY <1>1, <4>3
        <4> QED
          BY <4>4 DEF all
      <3>5. InSegment(t)' <=> InSegment(t)
        BY <3>2, <3>4
      <3> QED
        BY <1>3, <3>5 DEF Ink
    <2>6. Before(bio[t].segs, i) \in Nat
      <3>1. i \in 1 .. Len(bio[t].segs) + 1
        BY <1>1 DEF Length
      <3> QED
        BY <1>1, <3>1, SumOfSegments
    <2>7. Offset(t) # Words - 1 =>
            Offset(t)' = Offset(t) + 1 /\ SectorNow(t)' = SectorNow(t) /\ Position(t)' = Position(t)
      BY <1>4, <2>3
    <2>8. Offset(t) = Words - 1 => Offset(t)' = 0 /\ Position(t)' = Position(t) + 1
      <3> DEFINE b == Before(bio[t].segs, i)
                 q == w \div Words
      <3>1. Offset(t) = Words - 1 => Offset(t)' = 0 /\ Position(t)' = b + (q + 1) /\ Position(t) = b + q
        BY <1>4, <2>3
      <3>2. b \in Nat /\ q \in Nat
        BY <1>4, <2>6
      <3> HIDE DEF b, q
      <3> QED
        BY <3>1, <3>2
    <2> QED
      BY <1>5, <2>1, <2>2, <2>4, <2>5, <2>7, <2>8
  <1>6. CASE Turn
    <2>1. /\ cur'[t] = [sector |-> cur[t].sector + c, seg |-> i + 1, word |-> 0] /\ cur'[t].seg = i + 1
          /\ cur'[t].sector = cur[t].sector + c /\ cur'[t].word = 0 /\ cur' = [cur EXCEPT ![t] = cur'[t]]
      BY <1>1, <1>6 DEF NextSegment
    <2>2. cur'[t] \in [sector : Nat, seg : Nat \ {0}, word : Nat]
      BY <1>1, <2>1
    <2>3. Offset(t)' = 0
      BY <1>4, <2>1 DEF Offset
    <2>4. CursorOf(t)'
      <3>1. (cur'[t].seg - 1) * CurSectors(t)' = (i - 1) * c + c /\ (i - 1) * c \in Nat
        <4>1. i \in Nat \ {0} /\ c \in Nat \ {0}
          BY <1>1
        <4> HIDE DEF i, c
        <4> QED
          BY <1>3, <2>1, <4>1, Products
      <3>2. cur'[t].sector = bio[t].sector + (cur'[t].seg - 1) * CurSectors(t)'
        <4> DEFINE b == (i - 1) * c
        <4>1. (cur'[t].seg - 1) * CurSectors(t)' = b + c /\ cur'[t].sector = (bio[t].sector + b) + c /\ b \in Nat
          BY <1>1, <2>1, <3>1
        <4>2. c \in Nat /\ bio[t].sector \in Nat
          BY <1>1
        <4> HIDE DEF b, c
        <4>3. (bio[t].sector + b) + c = bio[t].sector + (b + c)
          BY <4>1, <4>2
        <4> QED
          BY <4>1, <4>3
      <3>3. 0 < c * Words
        <4> HIDE DEF c
        <4> QED
          BY <1>1, SMT
      <3>4. cur'[t].seg \in 1 .. Length(t)' + 1
        BY <1>1, <1>3, <2>1
      <3> QED
        BY <1>3, <2>1, <3>2, <3>3, <3>4 DEF CursorOf, Busy
    <2>5. ASSUME ~BeyondEnd(t) PROVE w + 1 = c * Words /\ Offset(t) = Words - 1
      <3> DEFINE all == c * Words
      <3>1. all \in Nat /\ ~(w + 1 < all) /\ w < all /\ w \in Nat
        BY <1>1, <1>6, <2>5
      <3> HIDE DEF w, all
      <3>2. w + 1 = all
        BY <3>1
      <3> QED
        BY <1>4, <3>2 DEF all, w, Offset
    <2>6. ASSUME ~BeyondEnd(t), Regular(t) PROVE Position(t)' = Position(t) + 1
      <3> DEFINE q == w \div Words
                 b == Before(bio[t].segs, i)
      <3>1. i \in 1 .. Len(bio[t].segs) /\ i \in 1 .. Len(bio[t].segs) + 1
        BY <1>1 DEF Length
      <3>2. /\ b \in Nat /\ Before(bio[t].segs, i + 1) = b + bio[t].segs[i] /\ bio[t].segs[i] = c
        <4>1. bio[t].segs[i] = c
          BY <2>6, <3>1 DEF Regular, Length
        <4> HIDE DEF i
        <4> QED
          BY <1>1, <3>1, <4>1, SumOfSegments
      <3>3. Position(t) = b + q /\ Position(t)' = Before(bio[t].segs, i + 1) + 0 \div Words
        BY <1>3, <2>1 DEF Position, Place, Before
      <3>4. q + 1 = c /\ q \in Nat
        BY <1>4, <2>5, <2>6
      <3>5. Position(t)' = b + c
        <4>1. Position(t)' = (b + c) + 0
          BY <1>4, <3>2, <3>3
        <4> HIDE DEF b, c
        <4> QED
          BY <1>1, <3>2, <4>1 DEF c
      <3> HIDE DEF b, q, c
      <3> QED
        BY <3>2, <3>3, <3>4, <3>5
    <2> QED
      BY <2>1, <2>2, <2>3, <2>4, <2>5, <2>6
  <1> QED
    BY <1>2, <1>5, <1>6

\* The bytes of the disk and of the bio after such a step, word by word.
LEMMA BytesMoved ==
  ASSUME Inv, NEW t \in Task, InLoop(t), Xfer(t), Frame, pc[t] \in Busy
  PROVE  /\ data' \in [0 .. capacity - 1 -> SectorType]
         /\ page' = [u \in Task |-> page'[u]] /\ \A u \in Task \ {t} : page'[u] = page[u]
         /\ page'[t] \in [0 .. Size(bio[t].segs) - 1 -> SectorType]
         /\ \A s \in 0 .. capacity - 1, k \in 0 .. Words - 1 :
              data'[s][k] = IF bio[t].write /\ ~BeyondEnd(t) /\ s = SectorNow(t) /\ k = Offset(t)
                            THEN NewWord(t) ELSE data[s][k]
         /\ \A i \in 0 .. Size(bio[t].segs) - 1, k \in 0 .. Words - 1 :
              page'[t][i][k] = IF ~bio[t].write /\ ~BeyondEnd(t) /\ InSegment(t) /\ i = Position(t) /\ k = Offset(t)
                               THEN data[SectorNow(t)][k] ELSE page[t][i][k]
  <1> DEFINE S == 0 .. capacity - 1
             P == 0 .. Size(bio[t].segs) - 1
             K == 0 .. Words - 1
             s == SectorNow(t)
             p == Position(t)
             o == Offset(t)
             v == NewWord(t)
  <1>1. /\ data \in [S -> SectorType] /\ page[t] \in [P -> SectorType] /\ page = [u \in Task |-> page[u]]
        /\ o \in K /\ v \in Value
    <2>1. PageOf(t)
      BY BioFacts
    <2> QED
      BY <2>1, NextWord, NewWordFacts DEF Inv, Types, BlockTypes, PageOf
  <1>2. ~BeyondEnd(t) => s \in S
    BY NextWord
  <1>3. InSegment(t) => p \in P
    BY NextWord
  <1>4. /\ BeyondEnd(t) => data' = data /\ page' = page
        /\ ~BeyondEnd(t) =>
             /\ bio[t].write => data' = Replaced(data, s, o, v) /\ page' = page
             /\ ~bio[t].write => data' = data
             /\ ~bio[t].write /\ InSegment(t) => page' = [page EXCEPT ![t] = Replaced(page[t], p, o, data[s][o])]
             /\ ~bio[t].write /\ ~InSegment(t) => page' = page
    BY WordMoved
  <1>5. CASE BeyondEnd(t) \/ (~bio[t].write /\ ~InSegment(t))
    <2>1. data' = data /\ page' = page
      BY <1>4, <1>5
    <2> QED
      BY <1>1, <1>5, <2>1
  <1>6. CASE ~BeyondEnd(t) /\ bio[t].write
    <2>1. data' = Replaced(data, s, o, v) /\ page' = page /\ s \in S
      BY <1>2, <1>4, <1>6
    <2>2. /\ data' \in [S -> SectorType] /\ data'[s][o] = v
          /\ \A j \in S, l \in K : ~(j = s /\ l = o) => data'[j][l] = data[j][l]
      <3> HIDE DEF S, s, o, v
      <3>1. /\ Replaced(data, s, o, v) \in [S -> SectorType] /\ Replaced(data, s, o, v)[s][o] = v
            /\ \A j \in S, l \in 0 .. Words - 1 : ~(j = s /\ l = o) => Replaced(data, s, o, v)[j][l] = data[j][l]
        BY <1>1, <2>1, WordReplaced
      <3> QED
        BY <2>1, <3>1
    <2> QED
      BY <1>1, <1>6, <2>1, <2>2
  <1>7. CASE ~BeyondEnd(t) /\ ~bio[t].write /\ InSegment(t)
    <2> DEFINE x == data[s][o]
    <2>1. /\ page' = [page EXCEPT ![t] = Replaced(page[t], p, o, x)] /\ data' = data /\ p \in P /\ s \in S
      BY <1>2, <1>3, <1>4, <1>7
    <2>2. x \in Value
      BY <1>1, <2>1 DEF SectorType
    <2>3. /\ page'[t] = Replaced(page[t], p, o, x) /\ page' = [u \in Task |-> page'[u]]
          /\ \A u \in Task \ {t} : page'[u] = page[u]
      BY <1>1, <2>1
    <2>4. /\ page'[t] \in [P -> SectorType] /\ page'[t][p][o] = x
          /\ \A j \in P, l \in K : ~(j = p /\ l = o) => page'[t][j][l] = page[t][j][l]
      <3> DEFINE f == page[t]
      <3>0. /\ f \in [P -> SectorType] /\ page'[t] = Replaced(f, p, o, x)
            /\ p \in P /\ o \in 0 .. Words - 1 /\ x \in Value
        BY <1>1, <2>1, <2>2, <2>3
      <3> HIDE DEF P, p, o, x, f
      <3>1. /\ Replaced(f, p, o, x) \in [P -> SectorType] /\ Replaced(f, p, o, x)[p][o] = x
            /\ \A j \in P, l \in 0 .. Words - 1 : ~(j = p /\ l = o) => Replaced(f, p, o, x)[j][l] = f[j][l]
        BY <3>0, WordReplaced
      <3> QED
        BY <3>0, <3>1 DEF f
    <2> HIDE DEF s, p, o
    <2>5. \A j \in P, l \in K : page'[t][j][l] = IF j = p /\ l = o THEN data[s][l] ELSE page[t][j][l]
      BY <2>4
    <2> QED
      BY <1>1, <1>7, <2>1, <2>3, <2>4, <2>5 DEF s, p, o
  <1> QED
    BY <1>5, <1>6, <1>7

\* The bios of other tasks stay where they are.
LEMMA OthersStay ==
  ASSUME Inv, NEW t \in Task, InLoop(t), Xfer(t), Frame, pc[t] \in Busy, NEW u \in Task, u # t
  PROVE  /\ cur'[u] = cur[u] /\ page'[u] = page[u] /\ bio'[u] = bio[u] /\ pc'[u] = pc[u] /\ status'[u] = status[u]
         /\ Size(bio[u].segs)' = Size(bio[u].segs) /\ (InLoop(u)' <=> InLoop(u))
         /\ (Regular(u)' <=> Regular(u)) /\ PageOf(u)' /\ CursorOf(u)'
         /\ Position(u)' = Position(u) /\ Offset(u)' = Offset(u) /\ (ReadOf(u)' <=> ReadOf(u))
  <1>1. cur' = [cur EXCEPT ![t] = cur'[t]] /\ page'[u] = page[u]
    BY BytesMoved, CursorMoves
  <1>2. cur'[u] = cur[u] /\ bio' = bio /\ pc' = pc /\ status' = status /\ capacity' = capacity
    BY <1>1 DEF Inv, Types, BlockTypes, Frame
  <1>3. /\ Size(bio[u].segs)' = Size(bio[u].segs) /\ (InLoop(u)' <=> InLoop(u)) /\ (Regular(u)' <=> Regular(u))
        /\ Position(u)' = Position(u) /\ Offset(u)' = Offset(u) /\ (BeyondEnd(u)' <=> BeyondEnd(u))
        /\ Length(u)' = Length(u) /\ CurSectors(u)' = CurSectors(u)
    BY <1>2 DEF Size, Before, InLoop, Regular, Length, CurSectors, Position, Place, Offset, BeyondEnd
  <1>4. PageOf(u) /\ CursorOf(u)
    BY BioFacts
  <1>5. PageOf(u)' /\ CursorOf(u)'
    BY <1>1, <1>2, <1>3, <1>4 DEF PageOf, CursorOf
  <1>6. ReadOf(u)' <=> ReadOf(u)
    BY <1>1, <1>2, <1>3 DEF ReadOf, Done, Offset
  <1> QED
    BY <1>1, <1>2, <1>3, <1>5, <1>6

\* Moving even bios keeps everything in its place.
LEMMA XferEven ==
  ASSUME Inv, NEW t \in Task, InLoop(t), Xfer(t), Frame, pc[t] \in Busy
  PROVE  EvenSoFar'
  <1> SUFFICES ASSUME even PROVE EvenSoFar'
    BY DEF Frame, EvenSoFar
  <1>1. (\A u \in Task : Regular(u) /\ ReadOf(u)) /\ DataInPlace /\ "page" \notin stray
    BY DEF Inv, EvenSoFar
  <1>2. /\ SectorNow(t) = bio[t].sector + Position(t) /\ InSegment(t) /\ ~BeyondEnd(t)
        /\ SectorNow(t) \in 0 .. capacity - 1 /\ Offset(t) \in 0 .. Words - 1 /\ Position(t) \in Nat
        /\ capacity' = capacity /\ bio' = bio
    BY <1>1, RegularWord, NextWord DEF Frame
  <1>3. "page" \notin stray'
    BY <1>1, <1>2, WordMoved
  <1>4. DataInPlace'
    <2>1. \A s \in 0 .. capacity - 1, k \in 0 .. Words - 1 : data'[s][k].place = s
      <3> SUFFICES ASSUME NEW s \in 0 .. capacity - 1, NEW k \in 0 .. Words - 1 PROVE data'[s][k].place = s
        OBVIOUS
      <3>1. data[s][k].place = s
        BY <1>1 DEF DataInPlace
      <3>2. data'[s][k] = IF bio[t].write /\ ~BeyondEnd(t) /\ s = SectorNow(t) /\ k = Offset(t)
                          THEN NewWord(t) ELSE data[s][k]
        BY BytesMoved
      <3>3. NewWord(t).place = SectorNow(t)
        BY <1>2, NewWordFacts
      <3> QED
        BY <3>1, <3>2, <3>3
    <2> QED
      BY <1>2, <2>1 DEF DataInPlace
  <1>5. Regular(t)'
    BY <1>1, <1>2 DEF Regular, Length, CurSectors
  <1>6. ASSUME NEW i \in Nat, NEW k \in 0 .. Words - 1, Done(t, i, k)'
        PROVE  Done(t, i, k) \/ (i = Position(t) /\ k = Offset(t))
    <2> DEFINE p == Position(t)
               q == Position(t)'
               o == Offset(t)
               n == Offset(t)'
    <2>1. i < q \/ (i = q /\ k < n)
      BY <1>6 DEF Done, Offset
    <2>2. Done(t, i, k) <=> i < p \/ (i = p /\ k < o)
      BY DEF Done, Offset
    <2>3. (o # Words - 1 => n = o + 1 /\ q = p) /\ (o = Words - 1 => n = 0 /\ q = p + 1)
      BY <1>1, <1>2, CursorMoves
    <2>4. o \in 0 .. Words - 1 /\ p \in Nat /\ Words \in Nat
      BY <1>2, BlockAssumption
    <2> HIDE DEF p, q, o, n
    <2>5. Done(t, i, k) \/ (i = p /\ k = o)
      BY <2>1, <2>2, <2>3, <2>4
    <2> QED
      BY <2>5 DEF p, o
  <1>7. ReadOf(t)'
    <2>1. DOMAIN page'[t] = 0 .. Size(bio[t].segs) - 1 /\ Size(bio[t].segs) \in Nat
      BY BytesMoved, BioFacts
    <2>2. page[t] \in [0 .. Size(bio[t].segs) - 1 -> SectorType]
      BY BioFacts DEF PageOf
    <2> SUFFICES ASSUME ~bio[t].write, NEW i \in 0 .. Size(bio[t].segs) - 1, NEW k \in 0 .. Words - 1,
                        Done(t, i, k)'
                 PROVE  page'[t][i][k].place = bio[t].sector + i
      BY <1>2, <2>1 DEF ReadOf
    <2>3. page'[t][i][k] = IF i = Position(t) /\ k = Offset(t) THEN data[SectorNow(t)][k] ELSE page[t][i][k]
      BY <1>2, BytesMoved
    <2>4. CASE i = Position(t) /\ k = Offset(t)
      BY <1>1, <1>2, <2>3, <2>4 DEF DataInPlace
    <2>5. CASE ~(i = Position(t) /\ k = Offset(t))
      <3>1. Done(t, i, k)
        BY <1>6, <2>5
      <3> QED
        BY <1>1, <2>2, <2>3, <2>5, <3>1 DEF ReadOf
    <2> QED
      BY <2>4, <2>5
  <1>8. \A u \in Task : Regular(u)' /\ ReadOf(u)'
    <2>1. ASSUME NEW u \in Task, u # t PROVE Regular(u)' /\ ReadOf(u)'
      BY <1>1, <2>1, OthersStay
    <2> QED
      BY <1>5, <1>7, <2>1
  <1> QED
    BY <1>3, <1>4, <1>8 DEF EvenSoFar

\* Under the lock of the queue, a step of the one that is moved tears its sector only.
LEMMA XferOneAtATime ==
  ASSUME Inv, NEW t \in Task, InLoop(t), Xfer(t), Frame, pc[t] \in Busy,
         mode = "QUEUE" => req # <<>> /\ t = req[1]
  PROVE  OneAtATime'
  <1> SUFFICES ASSUME mode = "QUEUE" PROVE OneAtATime'
    BY DEF Frame, OneAtATime, queueVars
  <1> DEFINE S == 0 .. capacity - 1
             K == 0 .. Words - 1
             P == 0 .. Size(bio[t].segs) - 1
             s0 == SectorNow(t)
             p == Position(t)
             o == Offset(t)
  <1>1. /\ capacity' = capacity /\ bio' = bio /\ pc' = pc /\ req' = req /\ mode' = mode
        /\ Words \in Nat \ {0} /\ o \in K /\ req # <<>> /\ t = req[1]
    BY NextWord, BlockAssumption DEF Frame, queueVars
  <1>2. /\ \A u \in Task : pc[u] # "moving"
        /\ \A u \in Task : cur[u].word # 0 => u = t
        /\ \A s \in S : WholeSector(data[s]) \/ \E u \in Task : Tears(u, s)
        /\ \A u \in Task, s \in S : Tears(u, s) =>
             /\ \A k \in 0 .. Offset(u) - 1 : data[s][k].stamp = Ink(u)
             /\ \A k, l \in Offset(u) .. Words - 1 : data[s][k].stamp = data[s][l].stamp
        /\ \A u \in Task : \A i \in DOMAIN page[u] : WholeSector(page[u][i]) \/ Fills(u, i)
        /\ \A u \in Task : \A i \in DOMAIN page[u] : Fills(u, i) =>
             \A k \in 0 .. Offset(u) - 1 : page[u][i][k].stamp = data[SectorNow(u)][k].stamp
    BY <1>1 DEF Inv, OneAtATime
  <1>3. \A u \in Task \ {t} : /\ cur[u].word = 0 /\ cur'[u].word = 0 /\ page'[u] = page[u]
                              /\ Offset(u) = 0 /\ Offset(u)' = 0
    <2> SUFFICES ASSUME NEW u \in Task, u # t
                 PROVE  /\ cur[u].word = 0 /\ cur'[u].word = 0 /\ page'[u] = page[u]
                        /\ Offset(u) = 0 /\ Offset(u)' = 0
      OBVIOUS
    <2>1. cur[u].word = 0 /\ cur'[u] = cur[u] /\ page'[u] = page[u] /\ Offset(u)' = Offset(u)
      BY <1>2, OthersStay
    <2>2. 0 % Words = 0
      BY <1>1, SMT
    <2> QED
      BY <2>1, <2>2 DEF Offset
  <1>4. \A u \in Task \ {t} : (\A s : ~Tears(u, s) /\ ~Tears(u, s)') /\ \A i : ~Fills(u, i) /\ ~Fills(u, i)'
    BY <1>3 DEF Tears, Fills
  <1>5. /\ \A u \in Task : pc'[u] # "moving"
        /\ \A u \in Task : cur'[u].word # 0 => req' # <<>> /\ u = req'[1]
    BY <1>1, <1>2, <1>3
  <1>6. DOMAIN page'[t] = P /\ DOMAIN page[t] = P
    BY BytesMoved, BioFacts DEF PageOf
  <1>7. CASE BeyondEnd(t)
    <2>1. data' = data /\ page' = page /\ cur[t].word = 0 /\ Offset(t)' = 0 /\ cur'[t].word = 0
      BY <1>7, WordMoved, CursorMoves
    <2>2. o = 0
      <3>1. 0 % Words = 0
        BY <1>1, SMT
      <3> QED
        BY <2>1, <3>1 DEF Offset
    <2>3. \A u \in Task : (\A s : ~Tears(u, s) /\ ~Tears(u, s)') /\ \A i : ~Fills(u, i) /\ ~Fills(u, i)'
      BY <1>4, <2>1, <2>2 DEF Tears, Fills
    <2> QED
      BY <1>1, <1>2, <1>5, <2>1, <2>3 DEF OneAtATime
  <1>8. CASE ~BeyondEnd(t)
    <2>1. /\ o # Words - 1 => /\ Offset(t)' = o + 1 /\ SectorNow(t)' = s0 /\ Position(t)' = p
                              /\ (InSegment(t)' <=> InSegment(t)) /\ Ink(t)' = Ink(t)
          /\ o = Words - 1 => Offset(t)' = 0
          /\ s0 \in S
      BY <1>8, CursorMoves, NextWord
    <2>2. \A s \in S, k \in K : data'[s][k] =
            IF bio[t].write /\ s = s0 /\ k = o THEN NewWord(t) ELSE data[s][k]
      BY <1>8, BytesMoved
    <2>3. \A i \in P, k \in K : page'[t][i][k] =
            IF ~bio[t].write /\ InSegment(t) /\ i = p /\ k = o THEN data[s0][k] ELSE page[t][i][k]
      BY <1>8, BytesMoved
    <2>4. NewWord(t).stamp = Ink(t)
      BY NewWordFacts
    <2>5. \A s \in S : Tears(t, s) <=> bio[t].write /\ o # 0 /\ s = s0
      BY DEF Tears
    <2>6. \A s \in S : Tears(t, s)' <=> bio[t].write /\ o # Words - 1 /\ s = s0
      BY <1>1, <2>1 DEF Tears
    <2>7. \A i \in P : Fills(t, i) <=> ~bio[t].write /\ o # 0 /\ i = p /\ InSegment(t)
      BY DEF Fills
    <2>8. \A i \in P : Fills(t, i)' <=> ~bio[t].write /\ o # Words - 1 /\ i = p /\ InSegment(t)
      BY <1>1, <2>1 DEF Fills
    <2> HIDE DEF s0, p, o, P
    <2>9. bio[t].write => \A k \in K : k < o => data[s0][k].stamp = Ink(t)
      <3> SUFFICES ASSUME bio[t].write, NEW k \in K, k < o PROVE data[s0][k].stamp = Ink(t)
        OBVIOUS
      <3>1. Tears(t, s0) /\ k \in 0 .. Offset(t) - 1
        BY <1>1, <2>1, <2>5 DEF o
      <3> QED
        BY <1>2, <2>1, <3>1
    <2>10. \A k, l \in K : k >= o /\ l >= o => data[s0][k].stamp = data[s0][l].stamp
      <3> SUFFICES ASSUME NEW k \in K, NEW l \in K, k >= o, l >= o PROVE data[s0][k].stamp = data[s0][l].stamp
        OBVIOUS
      <3>1. CASE Tears(t, s0)
        <4>1. k \in Offset(t) .. Words - 1 /\ l \in Offset(t) .. Words - 1
          BY <1>1 DEF o
        <4> QED
          BY <1>2, <2>1, <3>1, <4>1
      <3>2. CASE ~Tears(t, s0)
        <4>1. WholeSector(data[s0])
          BY <1>2, <1>4, <2>1, <3>2
        <4> QED
          BY <4>1 DEF WholeSector
      <3> QED
        BY <3>1, <3>2
    <2>11. \A s \in S : s # s0 => WholeSector(data[s])
      BY <1>2, <1>4, <2>5
    <2>12. ~bio[t].write => WholeSector(data[s0])
      BY <1>2, <1>4, <2>1, <2>5
    <2>13. \A s \in S : WholeSector(data'[s]) \/ Tears(t, s)'
      <3> SUFFICES ASSUME NEW s \in S, ~Tears(t, s)', NEW k \in K, NEW l \in K
                   PROVE  data'[s][k].stamp = data'[s][l].stamp
        BY DEF WholeSector
      <3>1. CASE bio[t].write /\ s = s0
        <4>1. o = Words - 1
          BY <2>6, <3>1
        <4>2. \A j \in K : j < o \/ j = o
          BY <1>1, <4>1
        <4>3. \A j \in K : data'[s][j].stamp = Ink(t)
          BY <2>2, <2>4, <2>9, <3>1, <4>2
        <4> QED
          BY <4>3
      <3>2. CASE ~(bio[t].write /\ s = s0)
        <4>1. WholeSector(data[s]) /\ data'[s][k] = data[s][k] /\ data'[s][l] = data[s][l]
          BY <2>2, <2>11, <2>12, <3>2
        <4> QED
          BY <4>1 DEF WholeSector
      <3> QED
        BY <3>1, <3>2
    <2>14. ASSUME NEW s \in S, Tears(t, s)'
           PROVE  /\ \A k \in 0 .. Offset(t)' - 1 : data'[s][k].stamp = Ink(t)'
                  /\ \A k, l \in Offset(t)' .. Words - 1 : data'[s][k].stamp = data'[s][l].stamp
      <3>1. bio[t].write /\ o # Words - 1 /\ s = s0 /\ Offset(t)' = o + 1 /\ Ink(t)' = Ink(t)
        BY <2>1, <2>6, <2>14
      <3>2. ASSUME NEW k \in 0 .. Offset(t)' - 1 PROVE data'[s][k].stamp = Ink(t)'
        <4>1. k \in K /\ (k < o \/ k = o)
          BY <1>1, <3>1, <3>2
        <4> QED
          BY <2>2, <2>4, <2>9, <3>1, <4>1
      <3>3. ASSUME NEW k \in Offset(t)' .. Words - 1, NEW l \in Offset(t)' .. Words - 1
            PROVE  data'[s][k].stamp = data'[s][l].stamp
        <4>1. k \in K /\ l \in K /\ k >= o /\ l >= o /\ k # o /\ l # o
          BY <1>1, <3>1, <3>3
        <4> QED
          BY <2>2, <2>10, <3>1, <4>1
      <3> QED
        BY <3>2, <3>3
    <2>15. \A i \in P : WholeSector(page[t][i]) \/ Fills(t, i)
      BY <1>2, <1>6
    <2>16. ~bio[t].write /\ InSegment(t) /\ p \in P =>
             \A k \in K : k < o => page[t][p][k].stamp = data[s0][k].stamp
      <3> SUFFICES ASSUME ~bio[t].write, InSegment(t), p \in P, NEW k \in K, k < o
                   PROVE  page[t][p][k].stamp = data[s0][k].stamp
        OBVIOUS
      <3>1. Fills(t, p) /\ k \in 0 .. Offset(t) - 1
        BY <1>1, <2>7 DEF o
      <3> QED
        BY <1>2, <1>6, <3>1 DEF s0
    <2>17. \A i \in P : WholeSector(page'[t][i]) \/ Fills(t, i)'
      <3> SUFFICES ASSUME NEW i \in P, ~Fills(t, i)', NEW k \in K, NEW l \in K
                   PROVE  page'[t][i][k].stamp = page'[t][i][l].stamp
        BY DEF WholeSector
      <3>1. CASE ~bio[t].write /\ i = p /\ InSegment(t)
        <4>1. o = Words - 1
          BY <2>8, <3>1
        <4>2. \A j \in K : j < o \/ j = o
          BY <1>1, <4>1
        <4>3. \A j \in K : page'[t][i][j].stamp = data[s0][j].stamp
          BY <2>3, <2>16, <3>1, <4>2
        <4> QED
          BY <2>12, <3>1, <4>3 DEF WholeSector
      <3>2. CASE ~(~bio[t].write /\ i = p /\ InSegment(t))
        <4>1. WholeSector(page[t][i]) /\ page'[t][i][k] = page[t][i][k] /\ page'[t][i][l] = page[t][i][l]
          BY <2>3, <2>7, <2>15, <3>2
        <4> QED
          BY <4>1 DEF WholeSector
      <3> QED
        BY <3>1, <3>2
    <2>18. ASSUME NEW i \in P, Fills(t, i)'
           PROVE  \A k \in 0 .. Offset(t)' - 1 : page'[t][i][k].stamp = data'[SectorNow(t)'][k].stamp
      <3>1. /\ ~bio[t].write /\ o # Words - 1 /\ i = p /\ InSegment(t) /\ Offset(t)' = o + 1 /\ SectorNow(t)' = s0
        BY <2>1, <2>8, <2>18
      <3> SUFFICES ASSUME NEW k \in 0 .. Offset(t)' - 1 PROVE page'[t][i][k].stamp = data'[s0][k].stamp
        BY <3>1
      <3>2. k \in K /\ (k < o \/ k = o)
        BY <1>1, <3>1
      <3>3. data'[s0][k] = data[s0][k]
        BY <2>1, <2>2, <3>1, <3>2
      <3> QED
        BY <2>3, <2>16, <3>1, <3>2, <3>3
    <2>19. \A s \in S : WholeSector(data'[s]) \/ \E u \in Task : Tears(u, s)'
      BY <2>13
    <2>20. \A u \in Task, s \in S : Tears(u, s)' =>
             /\ \A k \in 0 .. Offset(u)' - 1 : data'[s][k].stamp = Ink(u)'
             /\ \A k, l \in Offset(u)' .. Words - 1 : data'[s][k].stamp = data'[s][l].stamp
      <3> SUFFICES ASSUME NEW u \in Task, NEW s \in S, Tears(u, s)'
                   PROVE  /\ \A k \in 0 .. Offset(u)' - 1 : data'[s][k].stamp = Ink(u)'
                          /\ \A k, l \in Offset(u)' .. Words - 1 : data'[s][k].stamp = data'[s][l].stamp
        OBVIOUS
      <3>1. u = t
        BY <1>4
      <3> QED
        BY <2>14, <3>1
    <2>21. \A u \in Task : \A i \in DOMAIN page'[u] : WholeSector(page'[u][i]) \/ Fills(u, i)'
      <3> SUFFICES ASSUME NEW u \in Task, NEW i \in DOMAIN page'[u] PROVE WholeSector(page'[u][i]) \/ Fills(u, i)'
        OBVIOUS
      <3>1. CASE u = t
        BY <1>6, <2>17, <3>1
      <3>2. CASE u # t
        BY <1>2, <1>3, <1>4, <3>2
      <3> QED
        BY <3>1, <3>2
    <2>22. \A u \in Task : \A i \in DOMAIN page'[u] : Fills(u, i)' =>
             \A k \in 0 .. Offset(u)' - 1 : page'[u][i][k].stamp = data'[SectorNow(u)'][k].stamp
      <3> SUFFICES ASSUME NEW u \in Task, NEW i \in DOMAIN page'[u], Fills(u, i)'
                   PROVE  \A k \in 0 .. Offset(u)' - 1 : page'[u][i][k].stamp = data'[SectorNow(u)'][k].stamp
        OBVIOUS
      <3>1. u = t
        BY <1>4
      <3> QED
        BY <1>6, <2>18, <3>1
    <2> QED
      BY <1>1, <1>5, <2>19, <2>20, <2>21, <2>22 DEF OneAtATime, WholeSector
  <1> QED
    BY <1>7, <1>8

-----------------------------------------------------------------------------
\* Requests stay sound while the queue does, and those who wait in it.
LEMMA RequestsKept ==
  ASSUME Inv, queue' = queue, req' = req, merged' = merged,
         \A u \in Task : pc[u] \in {"queued", "command"} =>
           pc'[u] = pc[u] /\ (u \notin Members(req) /\ InLoop(u)' => InLoop(u))
  PROVE  Requests'
  <1>1. Requests /\ queue \subseteq Seq(Task) \ {<<>>} /\ req \in Seq(Task) /\ merged \in Seq(Task)
    BY DEF Inv, Types
  <1>2. \A r \in queue : Members(r) \subseteq Task
    BY <1>1 DEF Members
  <1>3. Members(merged) \subseteq Task
    BY <1>1 DEF Members
  <1>4. ASSUME NEW r \in queue
        PROVE  \/ \A t \in Members(r) : pc'[t] = "queued"
               \/ \E t \in Task : r = <<t>> /\ pc'[t] = "command"
    BY <1>1, <1>2, <1>4 DEF Requests
  <1>5. \A t \in Members(merged) : pc'[t] = "queued" /\ \A r \in queue : t \notin Members(r)
    BY <1>1, <1>3 DEF Requests
  <1>6. \A t \in Members(merged) \ Members(req) : ~InLoop(t)'
    BY <1>1, <1>3 DEF Requests
  <1>7. \A r, s \in queue : r # s => Members(r) \cap Members(s) = {}
    BY <1>1 DEF Requests
  <1>8. Members(req) \subseteq Members(merged)
    BY <1>1 DEF Requests
  <1> QED
    BY <1>4, <1>5, <1>6, <1>7, <1>8 DEF Requests, Members

\* The one that is moved is on its way, and waits in the queue in the mode QUEUE.
LEMMA FirstOfRequest ==
  ASSUME Inv, req # <<>>
  PROVE  /\ req[1] \in Task /\ pc[req[1]] = "queued" /\ req[1] \in Members(req)
         /\ Members(req) = Members(Tail(req)) \cup {req[1]} /\ Tail(req) \in Seq(Task)
  <1>1. req \in Seq(Task) /\ Requests
    BY DEF Inv, Types
  <1>2. Len(req) \in Nat \ {0} /\ req[1] \in Task /\ 1 \in DOMAIN req
    BY <1>1
  <1>3. req[1] \in Members(req)
    BY <1>2 DEF Members
  <1>4. Tail(req) \in Seq(Task) /\ Len(Tail(req)) = Len(req) - 1 /\ \A i \in 1 .. Len(req) - 1 : Tail(req)[i] = req[i + 1]
    BY <1>1, <1>2
  <1>5. Members(req) \subseteq Members(Tail(req)) \cup {req[1]}
    <2> SUFFICES ASSUME NEW i \in 1 .. Len(req), i # 1 PROVE req[i] \in Members(Tail(req))
      BY <1>1 DEF Members
    <2>1. i - 1 \in 1 .. Len(req) - 1 /\ (i - 1) + 1 = i
      BY <1>2
    <2>2. i - 1 \in DOMAIN Tail(req) /\ Tail(req)[i - 1] = req[i]
      BY <1>4, <2>1
    <2> QED
      BY <2>2 DEF Members
  <1>6. Members(Tail(req)) \subseteq Members(req)
    <2> SUFFICES ASSUME NEW i \in 1 .. Len(req) - 1 PROVE Tail(req)[i] \in Members(req)
      BY <1>4 DEF Members
    <2>1. i + 1 \in DOMAIN req /\ Tail(req)[i] = req[i + 1]
      BY <1>1, <1>2, <1>4
    <2> QED
      BY <2>1 DEF Members
  <1> QED
    BY <1>1, <1>2, <1>3, <1>4, <1>5, <1>6 DEF Requests

\* A word moved or a segment given up, in both modes.
LEMMA XferKeeps ==
  ASSUME Inv, NEW t \in Task, Xfer(t), Frame, pc[t] = "moving" \/ (req # <<>> /\ t = req[1])
  PROVE  Inv'
  <1>1. /\ InLoop(t) /\ pc[t] \in Busy /\ (pc[t] = "moving" \/ t \in Members(req))
        /\ mode = "QUEUE" => req # <<>> /\ t = req[1]
    BY FirstOfRequest DEF Xfer, GiveUp, MoveWord, Busy, Inv, OneAtATime
  <1>2. /\ UNCHANGED <<capacity, pc, bio, status, written, ended, older, stale, mode, queue, running, req, merged, even>>
    BY DEF Frame, ghosts, queueVars
  <1>3. Types' /\ "store" \notin stray'
    <2>1. stray' \subseteq stray \cup {"page"}
      BY <1>1, WordMoved
    <2>2. cur' \in [Task -> [sector : Nat, seg : Nat \ {0}, word : Nat]]
      <3>1. cur' = [cur EXCEPT ![t] = cur'[t]] /\ cur'[t] \in [sector : Nat, seg : Nat \ {0}, word : Nat]
        BY <1>1, CursorMoves
      <3>2. cur \in [Task -> [sector : Nat, seg : Nat \ {0}, word : Nat]]
        BY DEF Inv, Types, BlockTypes
      <3> QED
        BY <3>1, <3>2
    <2>3. data' \in [0 .. capacity - 1 -> SectorType] /\ page' = [u \in Task |-> page'[u]]
      BY <1>1, BytesMoved
    <2>4. BlockTypes'
      BY <1>2, <2>2, <2>3 DEF Inv, Types, BlockTypes
    <2> QED
      BY <1>2, <2>1, <2>4 DEF Inv, Types
  <1>4. \A u \in Task : PageOf(u)' /\ CursorOf(u)'
    <2>1. ASSUME NEW u \in Task, u # t PROVE PageOf(u)' /\ CursorOf(u)'
      BY <1>1, <2>1, OthersStay
    <2>2. CursorOf(t)'
      BY <1>1, CursorMoves
    <2>3. PageOf(t)'
      <3>1. page'[t] \in [0 .. Size(bio[t].segs) - 1 -> SectorType] /\ PageOf(t)
        BY <1>1, BytesMoved, BioFacts
      <3>2. Size(bio[t].segs)' = Size(bio[t].segs)
        BY <1>2, SameBio
      <3> QED
        BY <1>1, <1>2, <3>1, <3>2 DEF PageOf, Busy
    <2> QED
      BY <2>1, <2>2, <2>3
  <1>5. Requests'
    <2>1. \A u \in Task : u # t => (InLoop(u)' <=> InLoop(u))
      BY <1>1, OthersStay
    <2> QED
      BY <1>1, <1>2, <2>1, RequestsKept
  <1>6. EvenSoFar' /\ OneAtATime'
    BY <1>1, XferEven, XferOneAtATime
  <1> QED
    BY <1>3, <1>4, <1>5, <1>6 DEF Inv

\* Steps that move nothing: what they do to the tasks decides.
LEMMA NothingMoved ==
  ASSUME Inv, UNCHANGED <<capacity, data, bio, page, cur, stray, even, mode>>,
         mode = "QUEUE" => /\ \A u \in Task : pc'[u] # "moving"
                           /\ \A u \in Task : cur[u].word # 0 => req' # <<>> /\ u = req'[1],
         \A u \in Task : /\ pc'[u] \in Busy => pc[u] \in Busy
                         /\ pc'[u] \in {"idle", "command"} => pc[u] \in {"idle", "command"}
                         /\ pc'[u] = "ended" /\ status'[u] = "ok" => ~InLoop(u)
  PROVE  /\ EvenSoFar' /\ OneAtATime' /\ "store" \notin stray'
         /\ \A u \in Task : PageOf(u)' /\ CursorOf(u)'
         /\ \A u \in Task : InLoop(u)' <=> InLoop(u)
  <1>1. \A u \in Task : /\ Size(bio[u].segs)' = Size(bio[u].segs) /\ (InLoop(u)' <=> InLoop(u))
                        /\ (Regular(u)' <=> Regular(u)) /\ Length(u)' = Length(u)
                        /\ CurSectors(u)' = CurSectors(u) /\ (BeyondEnd(u)' <=> BeyondEnd(u))
                        /\ Position(u)' = Position(u) /\ Offset(u)' = Offset(u)
                        /\ (InSegment(u)' <=> InSegment(u)) /\ Ink(u)' = Ink(u) /\ SectorNow(u)' = SectorNow(u)
    BY DEF Size, Before, InLoop, Regular, Length, CurSectors, BeyondEnd, Position, Place, Offset, InSegment, Ink, SectorNow
  <1>2. \A u \in Task : (ReadOf(u)' <=> ReadOf(u)) /\ (\A s : Tears(u, s)' <=> Tears(u, s)) /\ (\A i : Fills(u, i)' <=> Fills(u, i))
    BY <1>1 DEF ReadOf, Done, Offset, Tears, Fills
  <1>3. EvenSoFar'
    BY <1>1, <1>2 DEF Inv, EvenSoFar, DataInPlace
  <1>4. OneAtATime'
    <2>1. OneAtATime
      BY DEF Inv
    <2> QED
      BY <1>1, <1>2, <2>1 DEF OneAtATime, WholeSector
  <1>5. ASSUME NEW u \in Task PROVE PageOf(u)' /\ CursorOf(u)'
    <2>1. PageOf(u) /\ CursorOf(u)
      BY <1>5, BioFacts
    <2>2. PageOf(u)'
      BY <1>1, <1>5, <2>1 DEF PageOf
    <2> QED
      BY <1>1, <1>5, <2>1, <2>2 DEF CursorOf
  <1> QED
    BY <1>1, <1>3, <1>4, <1>5 DEF Inv

\* The sets that bio_endio adds to keep their types.
LEMMA EndBiosTypes ==
  ASSUME Inv, NEW S, S \subseteq Task, EndBios(S), UNCHANGED <<disk, bio, page, cur>>
  PROVE  BlockTypes' /\ pc' \in [Task -> Pcs]
  <1>1. BlockTypes /\ pc \in [Task -> Pcs]
    BY DEF Inv, Types
  <1>2. pc' \in [Task -> Pcs] /\ status' \in [Task -> {"none", "ok", "error"}]
    BY <1>1 DEF EndBios, BlockTypes, Pcs
  <1>3. \A t \in Task : bio[t].stamp \in Stamp /\ older[t] \subseteq Stamp
    BY <1>1, TaskTypes
  <1>4. ended' \subseteq Stamp
    BY <1>1, <1>3 DEF EndBios, BlockTypes
  <1>5. stale' \in [0 .. capacity - 1 -> SUBSET Stamp]
    <2>1. DOMAIN stale = 0 .. capacity - 1 /\ \A s \in DOMAIN stale : stale[s] \subseteq Stamp
      BY <1>1 DEF BlockTypes
    <2> DEFINE more(s) == UNION {older[t] : t \in {u \in {t \in S : bio[t].write} : s \in Sectors(bio[u])}}
    <2>2. \A s : more(s) \subseteq Stamp
      BY <1>3
    <2>3. stale' = [s \in DOMAIN stale |-> stale[s] \cup more(s)]
      BY DEF EndBios
    <2> HIDE DEF more
    <2> QED
      BY <2>1, <2>2, <2>3
  <1> QED
    BY <1>1, <1>2, <1>4, <1>5 DEF EndBios, BlockTypes, disk

\* In the mode NOQUEUE a task takes its own bio.
LEMMA MakeRequestKeeps ==
  ASSUME Inv, NEW t \in Task, MakeRequest(t)
  PROVE  Inv'
  <1>1. /\ mode = "NOQUEUE" /\ pc[t] = "submitted" /\ pc' = [pc EXCEPT ![t] = "moving"]
        /\ UNCHANGED <<capacity, data, bio, page, cur, status, written, ended, older, stale,
                       mode, queue, running, req, merged, stray, even>>
    BY DEF MakeRequest, disk, ghosts, queueVars
  <1>2. pc \in [Task -> Pcs]
    BY DEF Inv, Types
  <1>3. \A u \in Task : pc'[u] = IF u = t THEN "moving" ELSE pc[u]
    BY <1>1, <1>2
  <1>4. /\ EvenSoFar' /\ OneAtATime' /\ "store" \notin stray'
        /\ \A u \in Task : PageOf(u)' /\ CursorOf(u)'
        /\ \A u \in Task : InLoop(u)' <=> InLoop(u)
    <2>1. \A u \in Task : /\ pc'[u] \in Busy => pc[u] \in Busy
                          /\ pc'[u] \in {"idle", "command"} => pc[u] \in {"idle", "command"}
                          /\ pc'[u] = "ended" /\ status'[u] = "ok" => ~InLoop(u)
      BY <1>1, <1>3, BioFacts DEF Busy, CursorOf
    <2> QED
      BY <1>1, <2>1, NothingMoved
  <1>5. Requests'
    BY <1>1, <1>3, <1>4, RequestsKept
  <1>6. Types'
    BY <1>1, <1>2 DEF Inv, Types, BlockTypes, Pcs
  <1> QED
    BY <1>4, <1>5, <1>6 DEF Inv

\* It ends it when all segments are done.
LEMMA EndDirectKeeps ==
  ASSUME Inv, NEW t \in Task, EndDirect(t)
  PROVE  Inv'
  <1>1. /\ pc[t] = "moving" /\ ~InLoop(t) /\ EndBios({t})
        /\ UNCHANGED <<disk, capacity, data, bio, page, cur, mode, queue, running, req, merged, stray, even>>
    BY DEF EndDirect, disk, queueVars
  <1>2. \A u \in Task : /\ pc'[u] = IF u = t THEN "ended" ELSE pc[u]
                        /\ status'[u] = IF u = t THEN "ok" ELSE status[u]
    BY <1>1 DEF EndBios
  <1>3. BlockTypes' /\ pc' \in [Task -> Pcs]
    BY <1>1, EndBiosTypes
  <1>4. /\ EvenSoFar' /\ OneAtATime' /\ "store" \notin stray'
        /\ \A u \in Task : PageOf(u)' /\ CursorOf(u)'
        /\ \A u \in Task : InLoop(u)' <=> InLoop(u)
    <2>1. \A u \in Task : /\ pc'[u] \in Busy => pc[u] \in Busy
                          /\ pc'[u] \in {"idle", "command"} => pc[u] \in {"idle", "command"}
                          /\ pc'[u] = "ended" /\ status'[u] = "ok" => ~InLoop(u)
      BY <1>1, <1>2, BioFacts DEF Busy, CursorOf
    <2>2. mode = "QUEUE" => /\ \A u \in Task : pc'[u] # "moving"
                            /\ \A u \in Task : cur[u].word # 0 => req' # <<>> /\ u = req'[1]
      BY <1>1 DEF Inv, OneAtATime
    <2> QED
      BY <1>1, <2>1, <2>2, NothingMoved
  <1>5. Requests'
    BY <1>1, <1>2, <1>4, RequestsKept
  <1>6. Types'
    BY <1>1, <1>3 DEF Inv, Types
  <1> QED
    BY <1>4, <1>5, <1>6 DEF Inv

\* The queue is run, or has been.
LEMMA RunQueueKeeps ==
  ASSUME Inv, RunQueue \/ RequestDone
  PROVE  Inv'
  <1>1. /\ UNCHANGED <<capacity, data, pc, bio, page, cur, status, written, ended, older, stale,
                       mode, queue, req, merged, stray, even>>
        /\ running' \in BOOLEAN
    BY DEF RunQueue, RequestDone, blockVars, disk, ghosts
  <1>2. /\ EvenSoFar' /\ OneAtATime' /\ "store" \notin stray'
        /\ \A u \in Task : PageOf(u)' /\ CursorOf(u)'
        /\ \A u \in Task : InLoop(u)' <=> InLoop(u)
    <2>1. \A u \in Task : pc'[u] = "ended" /\ status'[u] = "ok" => ~InLoop(u)
      BY <1>1, BioFacts DEF CursorOf
    <2>2. mode = "QUEUE" => /\ \A u \in Task : pc'[u] # "moving"
                            /\ \A u \in Task : cur[u].word # 0 => req' # <<>> /\ u = req'[1]
      BY <1>1 DEF Inv, OneAtATime
    <2> QED
      BY <1>1, <2>1, <2>2, NothingMoved
  <1>3. Requests'
    BY <1>1, <1>2, RequestsKept
  <1>4. Types'
    BY <1>1 DEF Inv, Types, BlockTypes
  <1> QED
    BY <1>2, <1>3, <1>4 DEF Inv

\* Nothing has been begun when no request has been started.
LEMMA NothingBegun ==
  ASSUME Inv, NEW t \in Task, mode = "QUEUE", req = <<>> \/ t \notin Members(req)
  PROVE  cur[t].word = 0
  <1>1. cur[t].word # 0 => req # <<>> /\ t = req[1]
    BY DEF Inv, OneAtATime
  <1> QED
    BY <1>1, FirstOfRequest

\* The next bio of a request has not been begun, and the one before is left between two sectors.
LEMMA NextBioKeeps ==
  ASSUME Inv, NextBio
  PROVE  Inv'
  <1>1. /\ req # <<>> /\ ~InLoop(req[1]) /\ req' = Tail(req)
        /\ UNCHANGED <<capacity, data, pc, bio, page, cur, status, written, ended, older, stale,
                       mode, queue, running, merged, stray, even>>
    BY DEF NextBio, blockVars, disk, ghosts
  <1>2. /\ req[1] \in Task /\ Members(req) = Members(Tail(req)) \cup {req[1]} /\ Tail(req) \in Seq(Task)
    BY <1>1, FirstOfRequest
  <1>3. /\ EvenSoFar' /\ OneAtATime' /\ "store" \notin stray'
        /\ \A u \in Task : PageOf(u)' /\ CursorOf(u)'
        /\ \A u \in Task : InLoop(u)' <=> InLoop(u)
    <2>1. \A u \in Task : pc'[u] = "ended" /\ status'[u] = "ok" => ~InLoop(u)
      BY <1>1, BioFacts DEF CursorOf
    <2>2. mode = "QUEUE" => /\ \A u \in Task : pc'[u] # "moving"
                            /\ \A u \in Task : cur[u].word # 0 => req' # <<>> /\ u = req'[1]
      <3>1. cur[req[1]].word = 0
        BY <1>1, <1>2, BioFacts DEF CursorOf
      <3> QED
        BY <1>1, <3>1 DEF Inv, OneAtATime
    <2> QED
      BY <1>1, <2>1, <2>2, NothingMoved
  <1>4. Requests'
    <2>1. Requests
      BY DEF Inv
    <2>2. \A t \in Members(merged) \ Members(Tail(req)) : ~InLoop(t)'
      <3> SUFFICES ASSUME NEW t \in Members(merged) \ Members(Tail(req)) PROVE ~InLoop(t)'
        OBVIOUS
      <3>1. t \in Task
        BY DEF Inv, Types, Members
      <3>2. ~InLoop(t)
        BY <1>1, <1>2, <2>1 DEF Requests
      <3> QED
        BY <1>3, <3>1, <3>2
    <2>3. Members(Tail(req)) \subseteq Members(merged)
      BY <1>2, <2>1 DEF Requests
    <2>4. Members(req)' = Members(Tail(req)) /\ Members(merged)' = Members(merged)
      BY <1>1 DEF Members
    <2>5. /\ \A r \in queue : \/ \A t \in Members(r) : pc[t] = "queued"
                              \/ \E t \in Task : r = <<t>> /\ pc[t] = "command"
          /\ \A r, s \in queue : r # s => Members(r) \cap Members(s) = {}
          /\ \A t \in Members(merged) : pc[t] = "queued" /\ \A r \in queue : t \notin Members(r)
      BY <2>1 DEF Requests
    <2> DEFINE rest == Members(Tail(req))
    <2>6. Members(req)' = rest /\ rest \subseteq Members(merged) /\ \A t \in Members(merged) \ rest : ~InLoop(t)'
      BY <2>2, <2>3, <2>4
    <2> HIDE DEF rest
    <2> QED
      BY <1>1, <2>4, <2>5, <2>6 DEF Requests, Members
  <1>5. Types'
    BY <1>1, <1>2 DEF Inv, Types, BlockTypes
  <1> QED
    BY <1>3, <1>4, <1>5 DEF Inv

\* When a request ends, all its bios have been moved, and no other request has them.
LEMMA EndRequestKeeps ==
  ASSUME Inv, EndRequest
  PROVE  Inv'
  <1> DEFINE S == {merged[i] : i \in DOMAIN merged}
  <1>1. /\ req = <<>> /\ merged' = <<>> /\ EndBios(S) /\ req' = req
        /\ UNCHANGED <<disk, capacity, data, bio, page, cur, mode, queue, running, stray, even>>
    BY DEF EndRequest, disk
  <1>2. Members(merged) = S /\ S \subseteq Task /\ Requests
    BY DEF Inv, Types, Members
  <1>3. \A u \in Task : /\ pc'[u] = IF u \in S THEN "ended" ELSE pc[u]
                        /\ status'[u] = IF u \in S THEN "ok" ELSE status[u]
    BY <1>1 DEF EndBios
  <1>4. BlockTypes' /\ pc' \in [Task -> Pcs]
    BY <1>1, <1>2, EndBiosTypes
  <1>5. Members(req) = {} /\ \A u \in S : pc[u] = "queued" /\ ~InLoop(u) /\ \A r \in queue : u \notin Members(r)
    <2>1. Members(req) = {}
      BY <1>1 DEF Members
    <2> QED
      BY <1>2, <2>1 DEF Requests
  <1> HIDE DEF S
  <1>6. /\ EvenSoFar' /\ OneAtATime' /\ "store" \notin stray'
        /\ \A u \in Task : PageOf(u)' /\ CursorOf(u)'
    <2>1. \A u \in Task : /\ pc'[u] \in Busy => pc[u] \in Busy
                          /\ pc'[u] \in {"idle", "command"} => pc[u] \in {"idle", "command"}
                          /\ pc'[u] = "ended" /\ status'[u] = "ok" => ~InLoop(u)
      <3> SUFFICES ASSUME NEW u \in Task
                   PROVE  /\ pc'[u] \in Busy => pc[u] \in Busy
                          /\ pc'[u] \in {"idle", "command"} => pc[u] \in {"idle", "command"}
                          /\ pc'[u] = "ended" /\ status'[u] = "ok" => ~InLoop(u)
        OBVIOUS
      <3>1. pc[u] = "ended" /\ status[u] = "ok" => ~InLoop(u)
        BY BioFacts DEF CursorOf
      <3>2. CASE u \in S
        BY <1>3, <1>5, <3>2 DEF Busy
      <3>3. CASE u \notin S
        BY <1>3, <3>1, <3>3
      <3> QED
        BY <3>2, <3>3
    <2>2. mode = "QUEUE" => /\ \A u \in Task : pc'[u] # "moving"
                            /\ \A u \in Task : cur[u].word # 0 => req' # <<>> /\ u = req'[1]
      BY <1>1, <1>3 DEF Inv, OneAtATime
    <2> QED
      BY <1>1, <2>1, <2>2, NothingMoved
  <1>7. Requests'
    <2>1. Members(merged') = {} /\ Members(req') = {}
      BY <1>1 DEF Members
    <2>2. ASSUME NEW r \in queue
          PROVE  \/ \A t \in Members(r) : pc'[t] = "queued"
                 \/ \E t \in Task : r = <<t>> /\ pc'[t] = "command"
      <3>1. Members(r) \subseteq Task
        BY DEF Inv, Types, Members
      <3>2. \/ \A t \in Members(r) : pc[t] = "queued"
            \/ \E t \in Task : r = <<t>> /\ pc[t] = "command"
        BY <1>2 DEF Requests
      <3> QED
        BY <1>3, <1>5, <3>1, <3>2
    <2>3. \A r, s \in queue : r # s => Members(r) \cap Members(s) = {}
      BY <1>2 DEF Requests
    <2> QED
      BY <1>1, <2>1, <2>2, <2>3 DEF Requests, Members
  <1>8. Types'
    <2>1. <<>> \in Seq(Task)
      OBVIOUS
    <2> QED
      BY <1>1, <1>4, <2>1 DEF Inv, Types
  <1> QED
    BY <1>6, <1>7, <1>8 DEF Inv

\* A request that is in the queue.
LEMMA QueueFacts ==
  ASSUME Inv, NEW r \in queue
  PROVE  /\ r \in Seq(Task) /\ r # <<>> /\ r[1] \in Members(r) /\ Members(r) \subseteq Task /\ Members(r) # {}
         /\ pc[r[1]] = "queued" => \A t \in Members(r) : pc[t] = "queued"
         /\ pc[r[1]] = "command" => r = <<r[1]>>
         /\ \A t \in Members(r) : pc[t] \in {"queued", "command"} /\ t \notin Members(merged)
  <1>1. r \in Seq(Task) /\ r # <<>> /\ Requests
    BY DEF Inv, Types
  <1>2. 1 \in DOMAIN r /\ Members(r) \subseteq Task
    BY <1>1 DEF Members
  <1>3. r[1] \in Members(r)
    BY <1>2 DEF Members
  <1>4. \/ \A t \in Members(r) : pc[t] = "queued"
        \/ \E t \in Task : r = <<t>> /\ pc[t] = "command"
    BY <1>1 DEF Requests
  <1>5. \A t \in Members(r) : t \notin Members(merged)
    BY <1>1 DEF Requests
  <1>6. CASE \A t \in Members(r) : pc[t] = "queued"
    BY <1>1, <1>2, <1>3, <1>5, <1>6
  <1>7. CASE \E t \in Task : r = <<t>> /\ pc[t] = "command"
    <2>1. PICK t \in Task : r = <<t>> /\ pc[t] = "command"
      BY <1>7
    <2>2. Members(r) = {t} /\ r[1] = t
      BY <2>1 DEF Members
    <2> QED
      BY <1>1, <1>2, <1>3, <1>5, <2>1, <2>2
  <1> QED
    BY <1>4, <1>6, <1>7

\* A request that starts is no longer in the queue.
LEMMA StartRequestKeeps ==
  ASSUME Inv, StartRequest
  PROVE  Inv'
  <1>1. /\ req = <<>> /\ merged = <<>>
        /\ UNCHANGED <<capacity, data, pc, bio, page, cur, status, written, ended, older, stale,
                       mode, running, stray, even>>
    BY DEF StartRequest, blockVars, disk, ghosts
  <1>2. PICK r \in queue : pc[r[1]] = "queued" /\ queue' = queue \ {r} /\ req' = r /\ merged' = r
    BY DEF StartRequest
  <1>3. /\ r \in Seq(Task) /\ r # <<>> /\ \A t \in Members(r) : pc[t] = "queued"
    BY <1>2, QueueFacts
  <1>4. /\ EvenSoFar' /\ OneAtATime' /\ "store" \notin stray'
        /\ \A u \in Task : PageOf(u)' /\ CursorOf(u)'
    <2>1. \A u \in Task : pc'[u] = "ended" /\ status'[u] = "ok" => ~InLoop(u)
      BY <1>1, BioFacts DEF CursorOf
    <2>2. mode = "QUEUE" => /\ \A u \in Task : pc'[u] # "moving"
                            /\ \A u \in Task : cur[u].word # 0 => req' # <<>> /\ u = req'[1]
      BY <1>1 DEF Inv, OneAtATime
    <2> QED
      BY <1>1, <2>1, <2>2, NothingMoved
  <1>5. Requests'
    <2>1. Requests
      BY DEF Inv
    <2>2. ASSUME NEW s \in queue, s # r
          PROVE  /\ \/ \A t \in Members(s) : pc'[t] = "queued"
                    \/ \E t \in Task : s = <<t>> /\ pc'[t] = "command"
                 /\ Members(s) \cap Members(r) = {}
      BY <1>1, <2>1, <2>2 DEF Requests
    <2>3. \A s, z \in queue : s # z => Members(s) \cap Members(z) = {}
      BY <2>1 DEF Requests
    <2>4. Members(merged)' = Members(r) /\ Members(req)' = Members(r)
      BY <1>2 DEF Members
    <2> QED
      BY <1>1, <1>2, <1>3, <2>2, <2>3, <2>4 DEF Requests, Members
  <1>6. Types'
    BY <1>1, <1>2, <1>3 DEF Inv, Types, BlockTypes
  <1> QED
    BY <1>4, <1>5, <1>6 DEF Inv

\* A command leaves the queue with an error, and takes no bio with it.
LEMMA SkipCommandKeeps ==
  ASSUME Inv, SkipCommand
  PROVE  Inv'
  <1>1. UNCHANGED <<capacity, data, bio, page, cur, written, ended, older, stale, mode, running, req, merged, stray, even>>
    BY DEF SkipCommand, disk, ghosts
  <1>2. PICK r \in queue : /\ pc[r[1]] = "command" /\ queue' = queue \ {r}
                           /\ pc' = [pc EXCEPT ![r[1]] = "ended"] /\ status' = [status EXCEPT ![r[1]] = "error"]
    BY DEF SkipCommand
  <1> DEFINE t == r[1]
  <1>3. t \in Task /\ r = <<t>> /\ t \in Members(r) /\ pc[t] = "command"
    BY <1>2, QueueFacts
  <1> HIDE DEF t
  <1>4. pc \in [Task -> Pcs] /\ status \in [Task -> {"none", "ok", "error"}] /\ Requests
    BY DEF Inv, Types, BlockTypes
  <1>5. \A u \in Task : /\ pc'[u] = IF u = t THEN "ended" ELSE pc[u]
                        /\ status'[u] = IF u = t THEN "error" ELSE status[u]
    BY <1>2, <1>4 DEF t
  <1>6. /\ EvenSoFar' /\ OneAtATime' /\ "store" \notin stray'
        /\ \A u \in Task : PageOf(u)' /\ CursorOf(u)'
        /\ \A u \in Task : InLoop(u)' <=> InLoop(u)
    <2>1. \A u \in Task : /\ pc'[u] \in Busy => pc[u] \in Busy
                          /\ pc'[u] \in {"idle", "command"} => pc[u] \in {"idle", "command"}
                          /\ pc'[u] = "ended" /\ status'[u] = "ok" => ~InLoop(u)
      BY <1>5, BioFacts DEF Busy, CursorOf
    <2>2. mode = "QUEUE" => /\ \A u \in Task : pc'[u] # "moving"
                            /\ \A u \in Task : cur[u].word # 0 => req' # <<>> /\ u = req'[1]
      BY <1>1, <1>5 DEF Inv, OneAtATime
    <2> QED
      BY <1>1, <2>1, <2>2, NothingMoved
  <1>7. Requests'
    <2>1. ASSUME NEW s \in queue, s # r
          PROVE  \/ \A u \in Members(s) : pc'[u] = "queued"
                 \/ \E u \in Task : s = <<u>> /\ pc'[u] = "command"
      <3>1. t \notin Members(s) /\ Members(s) \subseteq Task
        BY <1>3, <1>4, <2>1, QueueFacts DEF Requests
      <3>2. CASE \A u \in Members(s) : pc[u] = "queued"
        BY <1>5, <3>1, <3>2
      <3>3. CASE \E u \in Task : s = <<u>> /\ pc[u] = "command"
        <4>1. PICK u \in Task : s = <<u>> /\ pc[u] = "command"
          BY <3>3
        <4>2. u \in Members(s)
          BY <4>1 DEF Members
        <4> QED
          BY <1>5, <3>1, <4>1, <4>2
      <3> QED
        BY <1>4, <3>2, <3>3 DEF Requests
    <2>2. \A s, z \in queue : s # z => Members(s) \cap Members(z) = {}
      BY <1>4 DEF Requests
    <2>3. Members(merged)' = Members(merged) /\ Members(req)' = Members(req) /\ Members(merged) \subseteq Task
      BY <1>1 DEF Members, Inv, Types
    <2>4. \A u \in Members(merged) : pc'[u] = "queued" /\ \A s \in queue : u \notin Members(s)
      BY <1>3, <1>4, <1>5, <2>3 DEF Requests
    <2>5. Members(req) \subseteq Members(merged) /\ \A u \in Members(merged) \ Members(req) : ~InLoop(u)'
      BY <1>4, <1>6, <2>3 DEF Requests
    <2> QED
      <3>1. \A s \in queue' : s \in queue /\ s # r
        BY <1>2
      <3>2. \A s \in queue' : \/ \A u \in Members(s) : pc'[u] = "queued"
                              \/ \E u \in Task : s = <<u>> /\ pc'[u] = "command"
        BY <2>1, <3>1
      <3>3. \A s, z \in queue' : s # z => Members(s) \cap Members(z) = {}
        BY <2>2, <3>1
      <3>4. \A u \in Members(merged) : pc'[u] = "queued" /\ \A s \in queue' : u \notin Members(s)
        BY <2>4, <3>1
      <3> QED
        BY <2>3, <2>5, <3>2, <3>3, <3>4 DEF Requests, Members
  <1>8. Types'
    <2>1. pc' \in [Task -> Pcs] /\ status' \in [Task -> {"none", "ok", "error"}]
      BY <1>2, <1>4 DEF Pcs
    <2> QED
      BY <1>1, <1>2, <2>1 DEF Inv, Types, BlockTypes
  <1> QED
    BY <1>6, <1>7, <1>8 DEF Inv

\* A request comes that has the bios of those it takes the place of, and one more.
LEMMA RequestComes ==
  ASSUME Inv, NEW t \in Task, pc[t] \in {"idle", "submitted"}, NEW D, D \subseteq queue,
         NEW n \in Seq(Task), n # <<>>, queue' = (queue \ D) \cup {n}, req' = req, merged' = merged,
         \A u \in Task : u # t => pc'[u] = pc[u], \A u \in Task : InLoop(u)' => InLoop(u),
         \A u \in Members(n) : u = t \/ \E r \in D : u \in Members(r),
         \/ n = <<t>> /\ pc'[t] = "command"
         \/ pc'[t] = "queued" /\ \A r \in D : \A u \in Members(r) : pc[u] = "queued"
  PROVE  Requests'
  <1>1. Requests /\ merged \in Seq(Task)
    BY DEF Inv, Types
  <1>2. \A r \in queue : t \notin Members(r) /\ Members(r) \subseteq Task
    BY QueueFacts
  <1>3. Members(merged) \subseteq Task /\ t \notin Members(merged)
    <2>1. Members(merged) \subseteq Task
      BY <1>1 DEF Members
    <2> QED
      BY <1>1, <2>1 DEF Requests
  <1>4. ASSUME NEW r \in queue
        PROVE  \/ \A u \in Members(r) : pc'[u] = "queued"
               \/ \E u \in Task : r = <<u>> /\ pc'[u] = "command"
    <2>1. CASE \A u \in Members(r) : pc[u] = "queued"
      BY <1>2, <1>4, <2>1
    <2>2. CASE \E u \in Task : r = <<u>> /\ pc[u] = "command"
      BY <2>2
    <2> QED
      BY <1>1, <1>4, <2>1, <2>2 DEF Requests
  <1>5. \/ \A u \in Members(n) : pc'[u] = "queued"
        \/ \E u \in Task : n = <<u>> /\ pc'[u] = "command"
    BY <1>2
  <1>6. \A r \in queue \ D : Members(r) \cap Members(n) = {}
    BY <1>1, <1>2 DEF Requests
  <1>7. \A r, s \in queue : r # s => Members(r) \cap Members(s) = {}
    BY <1>1 DEF Requests
  <1>8. \A u \in Members(merged) : pc'[u] = "queued" /\ u \notin Members(n) /\ \A r \in queue : u \notin Members(r)
    <2> SUFFICES ASSUME NEW u \in Members(merged)
                 PROVE  pc'[u] = "queued" /\ u \notin Members(n) /\ \A r \in queue : u \notin Members(r)
      OBVIOUS
    <2>1. pc[u] = "queued" /\ \A r \in queue : u \notin Members(r)
      BY <1>1 DEF Requests
    <2>2. u # t /\ u \in Task
      BY <1>3
    <2> QED
      BY <2>1, <2>2
  <1>9. Members(req) \subseteq Members(merged) /\ \A u \in Members(merged) \ Members(req) : ~InLoop(u)'
    BY <1>1, <1>3 DEF Requests
  <1>10. Members(merged)' = Members(merged) /\ Members(req)' = Members(req)
    BY DEF Members
  <1> DEFINE Q == (queue \ D) \cup {n}
  <1>11. /\ \A r \in Q : \/ \A u \in Members(r) : pc'[u] = "queued"
                         \/ \E u \in Task : r = <<u>> /\ pc'[u] = "command"
         /\ \A r, s \in Q : r # s => Members(r) \cap Members(s) = {}
         /\ \A u \in Members(merged) : pc'[u] = "queued" /\ \A r \in Q : u \notin Members(r)
         /\ queue' = Q
    <2>1. \A r \in Q : \/ \A u \in Members(r) : pc'[u] = "queued"
                       \/ \E u \in Task : r = <<u>> /\ pc'[u] = "command"
      BY <1>4, <1>5
    <2>2. \A r, s \in Q : r # s => Members(r) \cap Members(s) = {}
      BY <1>6, <1>7
    <2>3. \A u \in Members(merged) : pc'[u] = "queued" /\ \A r \in Q : u \notin Members(r)
      BY <1>8
    <2> QED
      BY <2>1, <2>2, <2>3
  <1> HIDE DEF Q
  <1>12. \A r : Members(r)' = Members(r)
    BY DEF Members
  <1> QED
    BY <1>9, <1>10, <1>11, <1>12 DEF Requests

\* Who a request has when a bio joins it behind or before.
LEMMA MembersOf ==
  ASSUME NEW t \in Task, NEW r \in Seq(Task), r # <<>>
  PROVE  /\ <<t>> \in Seq(Task) /\ <<t>> # <<>> /\ Members(<<t>>) = {t}
         /\ Append(r, t) \in Seq(Task) /\ Append(r, t) # <<>> /\ Members(Append(r, t)) \subseteq Members(r) \cup {t}
         /\ <<t>> \o r \in Seq(Task) /\ <<t>> \o r # <<>> /\ Members(<<t>> \o r) \subseteq Members(r) \cup {t}
  <1>1. <<t>> \in Seq(Task) /\ <<t>> # <<>> /\ Members(<<t>>) = {t}
    BY DEF Members
  <1>2. /\ Append(r, t) \in Seq(Task) /\ Len(Append(r, t)) = Len(r) + 1 /\ Len(r) \in Nat
        /\ \A i \in 1 .. Len(r) + 1 : Append(r, t)[i] = IF i <= Len(r) THEN r[i] ELSE t
    OBVIOUS
  <1>3. Members(Append(r, t)) \subseteq Members(r) \cup {t}
    BY <1>2 DEF Members
  <1>4. /\ <<t>> \o r \in Seq(Task) /\ Len(<<t>> \o r) = Len(r) + 1
        /\ \A i \in 1 .. Len(r) + 1 : (<<t>> \o r)[i] = IF i <= 1 THEN t ELSE r[i - 1]
    OBVIOUS
  <1>5. Members(<<t>> \o r) \subseteq Members(r) \cup {t}
    <2> SUFFICES ASSUME NEW i \in 1 .. Len(r) + 1 PROVE (<<t>> \o r)[i] \in Members(r) \cup {t}
      BY <1>4 DEF Members
    <2>1. CASE i <= 1
      BY <1>4, <2>1
    <2>2. CASE ~(i <= 1)
      <3>1. i - 1 \in DOMAIN r /\ (<<t>> \o r)[i] = r[i - 1]
        BY <1>2, <1>4, <2>2
      <3> QED
        BY <3>1 DEF Members
    <2> QED
      BY <2>1, <2>2
  <1> QED
    BY <1>1, <1>2, <1>3, <1>4, <1>5

\* A bio gets into one request only.
LEMMA EnqueueKeeps ==
  ASSUME Inv, NEW t \in Task, Enqueue(t)
  PROVE  Inv'
  <1>1. /\ mode = "QUEUE" /\ pc[t] = "submitted" /\ pc' = [pc EXCEPT ![t] = "queued"]
        /\ UNCHANGED <<capacity, data, bio, page, cur, status, written, ended, older, stale,
                       mode, running, req, merged, stray, even>>
    BY DEF Enqueue, disk, ghosts
  <1>2. pc \in [Task -> Pcs] /\ queue \subseteq Seq(Task) \ {<<>>}
    BY DEF Inv, Types
  <1>3. \A u \in Task : pc'[u] = IF u = t THEN "queued" ELSE pc[u]
    BY <1>1, <1>2
  <1>4. /\ EvenSoFar' /\ OneAtATime' /\ "store" \notin stray'
        /\ \A u \in Task : PageOf(u)' /\ CursorOf(u)'
        /\ \A u \in Task : InLoop(u)' <=> InLoop(u)
    <2>1. \A u \in Task : /\ pc'[u] \in Busy => pc[u] \in Busy
                          /\ pc'[u] \in {"idle", "command"} => pc[u] \in {"idle", "command"}
                          /\ pc'[u] = "ended" /\ status'[u] = "ok" => ~InLoop(u)
      BY <1>1, <1>3, BioFacts DEF Busy, CursorOf
    <2>2. mode = "QUEUE" => /\ \A u \in Task : pc'[u] # "moving"
                            /\ \A u \in Task : cur[u].word # 0 => req' # <<>> /\ u = req'[1]
      BY <1>1, <1>3 DEF Inv, OneAtATime
    <2> QED
      BY <1>1, <2>1, <2>2, NothingMoved
  <1>5. Requests' /\ queue' \subseteq Seq(Task) \ {<<>>}
    <2>1. CASE queue' = queue \cup {<<t>>}
      <3>1. <<t>> \in Seq(Task) /\ <<t>> # <<>> /\ \A u \in Members(<<t>>) : u = t
        BY DEF Members
      <3>2. queue' = (queue \ {}) \cup {<<t>>}
        BY <2>1
      <3>3. Requests'
        BY <1>1, <1>3, <1>4, <3>1, <3>2, RequestComes
      <3> QED
        BY <1>2, <2>1, <3>1, <3>3
    <2>2. CASE \E r \in queue : /\ pc[r[1]] = "queued"
                                /\ \/ queue' = (queue \ {r}) \cup {Append(r, t)}
                                   \/ queue' = (queue \ {r}) \cup {<<t>> \o r}
      <3>1. PICK r \in queue : /\ pc[r[1]] = "queued"
                               /\ \/ queue' = (queue \ {r}) \cup {Append(r, t)}
                                  \/ queue' = (queue \ {r}) \cup {<<t>> \o r}
        BY <2>2
      <3>2. PICK n \in {Append(r, t), <<t>> \o r} : queue' = (queue \ {r}) \cup {n}
        BY <3>1
      <3>3. r \in Seq(Task) /\ r # <<>> /\ \A u \in Members(r) : pc[u] = "queued"
        BY <3>1, QueueFacts
      <3>4. n \in Seq(Task) /\ n # <<>> /\ Members(n) \subseteq Members(r) \cup {t}
        <4>1. /\ Append(r, t) \in Seq(Task) /\ Append(r, t) # <<>>
              /\ Members(Append(r, t)) \subseteq Members(r) \cup {t}
              /\ <<t>> \o r \in Seq(Task) /\ <<t>> \o r # <<>>
              /\ Members(<<t>> \o r) \subseteq Members(r) \cup {t}
          BY <3>3, MembersOf
        <4>2. CASE n = Append(r, t)
          BY <4>1, <4>2
        <4>3. CASE n = <<t>> \o r
          BY <4>1, <4>3
        <4> QED
          BY <3>2, <4>2, <4>3
      <3> DEFINE D == {r}
      <3>5. /\ D \subseteq queue /\ queue' = (queue \ D) \cup {n}
            /\ \A u \in Members(n) : u = t \/ \E z \in D : u \in Members(z)
            /\ \A z \in D : \A u \in Members(z) : pc[u] = "queued"
        BY <3>2, <3>3, <3>4
      <3> HIDE DEF D
      <3>6. Requests'
        BY <1>1, <1>3, <1>4, <3>4, <3>5, RequestComes
      <3> QED
        BY <1>2, <3>2, <3>4, <3>6
    <2> QED
      BY <2>1, <2>2 DEF Enqueue
  <1>6. Types'
    <2>1. pc' \in [Task -> Pcs]
      BY <1>1, <1>2 DEF Pcs
    <2> QED
      BY <1>1, <1>5, <2>1 DEF Inv, Types, BlockTypes
  <1> QED
    BY <1>4, <1>5, <1>6 DEF Inv

\* A command is a request of its own.
LEMMA CommandKeeps ==
  ASSUME Inv, NEW t \in Task, Command(t)
  PROVE  Inv'
  <1>1. /\ mode = "QUEUE" /\ pc[t] = "idle" /\ pc' = [pc EXCEPT ![t] = "command"]
        /\ queue' = queue \cup {<<t>>}
        /\ UNCHANGED <<capacity, data, bio, page, cur, status, written, ended, older, stale,
                       mode, running, req, merged, stray, even>>
    BY DEF Command, disk, ghosts
  <1>2. pc \in [Task -> Pcs] /\ queue \subseteq Seq(Task) \ {<<>>}
    BY DEF Inv, Types
  <1>3. \A u \in Task : pc'[u] = IF u = t THEN "command" ELSE pc[u]
    BY <1>1, <1>2
  <1>4. /\ EvenSoFar' /\ OneAtATime' /\ "store" \notin stray'
        /\ \A u \in Task : PageOf(u)' /\ CursorOf(u)'
        /\ \A u \in Task : InLoop(u)' <=> InLoop(u)
    <2>1. \A u \in Task : /\ pc'[u] \in Busy => pc[u] \in Busy
                          /\ pc'[u] \in {"idle", "command"} => pc[u] \in {"idle", "command"}
                          /\ pc'[u] = "ended" /\ status'[u] = "ok" => ~InLoop(u)
      BY <1>1, <1>3, BioFacts DEF Busy, CursorOf
    <2>2. mode = "QUEUE" => /\ \A u \in Task : pc'[u] # "moving"
                            /\ \A u \in Task : cur[u].word # 0 => req' # <<>> /\ u = req'[1]
      BY <1>1, <1>3 DEF Inv, OneAtATime
    <2> QED
      BY <1>1, <2>1, <2>2, NothingMoved
  <1>5. Requests' /\ queue' \subseteq Seq(Task) \ {<<>>}
    <2>1. <<t>> \in Seq(Task) /\ <<t>> # <<>> /\ \A u \in Members(<<t>>) : u = t
      BY DEF Members
    <2>2. queue' = (queue \ {}) \cup {<<t>>}
      BY <1>1
    <2>3. Requests'
      <3>1. pc[t] \in {"idle", "submitted"} /\ pc'[t] = "command" /\ req' = req /\ merged' = merged
        BY <1>1, <1>3
      <3>2. \A u \in Task : u # t => pc'[u] = pc[u]
        BY <1>3
      <3>3. \A u \in Task : InLoop(u)' => InLoop(u)
        BY <1>4
      <3> PICK n : n = <<t>>
        OBVIOUS
      <3>4. /\ n \in Seq(Task) /\ n # <<>> /\ {} \subseteq queue /\ queue' = (queue \ {}) \cup {n}
            /\ \A u \in Members(n) : u = t
        BY <2>1, <2>2
      <3> QED
        BY <3>1, <3>2, <3>3, <3>4, RequestComes
    <2> QED
      BY <1>1, <1>2, <2>1, <2>3
  <1>6. Types'
    <2>1. pc' \in [Task -> Pcs]
      BY <1>1, <1>2 DEF Pcs
    <2> QED
      BY <1>1, <1>5, <2>1 DEF Inv, Types, BlockTypes
  <1> QED
    BY <1>4, <1>5, <1>6 DEF Inv

-----------------------------------------------------------------------------
\* At the start of a bio nothing of it has been moved.
LEMMA Fresh ==
  ASSUME NEW segs \in SegLists
  PROVE  /\ Before(segs, 1) = 0 /\ 0 \div Words = 0 /\ 0 % Words = 0 /\ Len(segs) \in Nat \ {0}
         /\ segs[1] \in Nat \ {0} /\ 0 < segs[1] * Words /\ (1 - 1) * segs[1] = 0 /\ Size(segs) \in Nat
  <1>1. /\ Before(segs, 1) = 0 /\ Len(segs) \in Nat \ {0} /\ segs[1] \in Nat \ {0} /\ Words \in Nat \ {0}
    BY SumOfSegments, BlockAssumption
  <1>2. Size(segs) \in Nat
    <2>1. 1 \in 1 .. Len(segs) + 1
      BY <1>1
    <2> QED
      BY <2>1, SegmentsInOrder
  <1> DEFINE c == segs[1]
  <1>3. c \in Nat \ {0}
    BY <1>1
  <1> HIDE DEF c
  <1>4. 0 \div Words = 0 /\ 0 % Words = 0 /\ 0 < c * Words /\ (1 - 1) * c = 0
    BY <1>1, <1>3, SMT
  <1> QED
    BY <1>1, <1>2, <1>4 DEF c

\* A bio that has just come, or gone.
LEMMA ArriveKeeps ==
  ASSUME Inv, NEW t \in Task, Arrive(t)
  PROVE  Inv'
  <1> DEFINE new == bio'[t]
             Bio == [write : BOOLEAN, sector : Nat, segs : Segs, stamp : Stamp]
             Blank == [k \in 0 .. Words - 1 |-> Junk]
             size == Size(new.segs)
  <1>0. /\ BlockTypes /\ pc \in [Task -> Pcs] /\ bio \in [Task -> Bio] /\ page = [u \in Task |-> page[u]]
        /\ cur \in [Task -> [sector : Nat, seg : Nat \ {0}, word : Nat]]
        /\ status \in [Task -> {"none", "ok", "error"}] /\ older \in [Task -> SUBSET Stamp]
        /\ capacity = Capacity /\ capacity \in Nat \ {0}
    BY TdlbdAssumption DEF Inv, Types, BlockTypes
  <1>1. /\ UNCHANGED <<capacity, data, ended, stale, mode, queue, running, req, merged, stray>>
        /\ bio' = [bio EXCEPT ![t] = new] /\ new \in Bio
        /\ cur' = [cur EXCEPT ![t] = Start(new.sector)]
        /\ pc' = [pc EXCEPT ![t] = pc'[t]] /\ page' = [page EXCEPT ![t] = page'[t]]
        /\ status' = [status EXCEPT ![t] = status'[t]] /\ status'[t] \in {"none", "ok", "error"}
        /\ older' = [older EXCEPT ![t] = older'[t]] /\ older'[t] \subseteq Stamp /\ written' \in Stamp
        /\ pc[t] \in {"idle", "ended"}
        /\ \/ pc'[t] = "idle" /\ page'[t] = <<>>
           \/ /\ pc'[t] = "submitted" /\ page'[t] = [i \in 0 .. size - 1 |-> Blank]
              /\ new.sector + size <= capacity
        /\ even' = (even /\ Range(new.segs) = {new.segs[1]})
    <2>1. /\ UNCHANGED <<capacity, data, ended, stale, mode, queue, running, req, merged, stray>>
          /\ even' = (even /\ Range(new.segs) = {new.segs[1]})
      BY DEF Arrive, Submit, Reap, disk, queueVars
    <2>2. CASE Submit(t)
      <3>1. PICK sector \in 0 .. MaxSector, segs \in Segments[t], write \in BOOLEAN :
              /\ capacity # 0 => sector + Size(segs) <= capacity
              /\ write => written < MaxWrites
              /\ written' = IF write THEN written + 1 ELSE written
              /\ Enter(t, [write |-> write, sector |-> sector, segs |-> segs,
                           stamp |-> IF write THEN written + 1 ELSE 0], Size(segs))
        BY <2>2 DEF Submit
      <3> DEFINE b == [write |-> write, sector |-> sector, segs |-> segs,
                       stamp |-> IF write THEN written + 1 ELSE 0]
      <3>2. segs \in Segs /\ sector \in Nat
        <4>1. segs \in UNION Range(Segments) /\ sector \in Nat
          BY ConstsHold DEF Consts, Range
        <4> QED
          BY <4>1, Zenon DEF Segs
      <3>3. /\ bio' = [bio EXCEPT ![t] = b] /\ cur' = [cur EXCEPT ![t] = Start(sector)]
            /\ page' = [page EXCEPT ![t] = [i \in 0 .. Size(segs) - 1 |-> Blank]]
            /\ older' = [older EXCEPT ![t] = ended]
            /\ pc[t] = "idle" /\ pc' = [pc EXCEPT ![t] = "submitted"] /\ status' = status
        BY <2>2, <3>1 DEF Submit, Enter
      <3>4. written' \in Stamp /\ b.stamp \in Stamp
        BY <1>0, <3>1, ConstsHold DEF Consts, BlockTypes, Stamp
      <3>5. b \in Bio
        BY <3>2, <3>4
      <3>6. new = b /\ new.sector = sector /\ new.segs = segs
        BY <1>0, <3>3
      <3>7. new.sector + size <= capacity
        BY <1>0, <3>1, <3>6
      <3>8. /\ pc'[t] = "submitted" /\ older'[t] = ended /\ ended \subseteq Stamp
            /\ page'[t] = [i \in 0 .. Size(segs) - 1 |-> Blank]
        BY <1>0, <3>3 DEF BlockTypes
      <3>9. status' = [status EXCEPT ![t] = status'[t]] /\ status'[t] \in {"none", "ok", "error"}
        BY <1>0, <3>3
      <3> HIDE DEF b
      <3>10. /\ bio' = [bio EXCEPT ![t] = new] /\ new \in Bio /\ cur' = [cur EXCEPT ![t] = Start(new.sector)]
             /\ pc' = [pc EXCEPT ![t] = pc'[t]] /\ page' = [page EXCEPT ![t] = page'[t]]
             /\ older' = [older EXCEPT ![t] = older'[t]]
        BY <3>3, <3>5, <3>6, <3>8
      <3> QED
        BY <2>1, <3>3, <3>4, <3>6, <3>7, <3>8, <3>9, <3>10
    <2>3. CASE Reap(t)
      <3>1. /\ bio' = [bio EXCEPT ![t] = NoBio] /\ cur' = [cur EXCEPT ![t] = Start(0)]
            /\ page' = [page EXCEPT ![t] = <<>>] /\ older' = [older EXCEPT ![t] = {}]
            /\ pc[t] = "ended" /\ pc' = [pc EXCEPT ![t] = "idle"] /\ status' = [status EXCEPT ![t] = "none"]
            /\ written' = written
        BY <2>3 DEF Reap
      <3>2. NoBio \in Bio /\ NoBio.sector = 0
        BY ConstsHold DEF NoBio, Segs, Stamp, Consts
      <3>3. new = NoBio /\ page'[t] = <<>> /\ pc'[t] = "idle" /\ older'[t] = {} /\ status'[t] = "none"
        BY <1>0, <3>1
      <3>4. written' \in Stamp
        BY <1>0, <3>1 DEF BlockTypes
      <3> QED
        BY <2>1, <3>1, <3>2, <3>3, <3>4
    <2> QED
      BY <2>1, <2>2, <2>3 DEF Arrive
  <1> HIDE DEF new, Blank
  <1>2. new.segs \in SegLists /\ new.sector \in Nat /\ new.stamp \in Stamp /\ size \in Nat
    <2>1. new.segs \in SegLists /\ new.sector \in Nat /\ new.stamp \in Stamp
      BY <1>1, SegsAreLists
    <2> QED
      BY <2>1, Fresh
  <1>3. /\ \A u \in Task \ {t} : /\ pc'[u] = pc[u] /\ bio'[u] = bio[u] /\ cur'[u] = cur[u]
                                 /\ page'[u] = page[u] /\ status'[u] = status[u]
        /\ bio'[t] = new /\ cur'[t] = Start(new.sector) /\ pc'[t] \in {"idle", "submitted"}
        /\ cur'[t].sector = new.sector /\ cur'[t].seg = 1 /\ cur'[t].word = 0
    BY <1>0, <1>1 DEF Start, new
  <1>4. ASSUME NEW u \in Task, u # t
        PROVE  /\ Size(bio[u].segs)' = Size(bio[u].segs) /\ (InLoop(u)' <=> InLoop(u))
               /\ (Regular(u)' <=> Regular(u)) /\ PageOf(u)' /\ CursorOf(u)' /\ (ReadOf(u)' <=> ReadOf(u))
               /\ (\A s : Tears(u, s)' <=> Tears(u, s)) /\ (\A i : Fills(u, i)' <=> Fills(u, i))
               /\ Offset(u)' = Offset(u) /\ SectorNow(u)' = SectorNow(u) /\ Ink(u)' = Ink(u)
    <2>1. /\ Size(bio[u].segs)' = Size(bio[u].segs) /\ (InLoop(u)' <=> InLoop(u)) /\ (Regular(u)' <=> Regular(u))
          /\ Position(u)' = Position(u) /\ Offset(u)' = Offset(u) /\ (BeyondEnd(u)' <=> BeyondEnd(u))
          /\ Length(u)' = Length(u) /\ CurSectors(u)' = CurSectors(u) /\ SectorNow(u)' = SectorNow(u)
          /\ (InSegment(u)' <=> InSegment(u))
      BY <1>1, <1>3, <1>4 DEF Size, Before, InLoop, Regular, Length, CurSectors, Position, Place, Offset,
                              BeyondEnd, SectorNow, InSegment
    <2>2. PageOf(u) /\ CursorOf(u)
      BY <1>4, BioFacts
    <2>3. PageOf(u)' /\ CursorOf(u)'
      BY <1>1, <1>3, <1>4, <2>1, <2>2 DEF PageOf, CursorOf
    <2>4. (ReadOf(u)' <=> ReadOf(u)) /\ Ink(u)' = Ink(u)
      BY <1>3, <1>4, <2>1 DEF ReadOf, Done, Offset, Ink
    <2>5. (\A s : Tears(u, s)' <=> Tears(u, s)) /\ (\A i : Fills(u, i)' <=> Fills(u, i))
      BY <1>3, <1>4, <2>1 DEF Tears, Fills
    <2> QED
      BY <2>1, <2>3, <2>4, <2>5
  <1>5. /\ Size(bio[t].segs)' = size /\ Length(t)' = Len(new.segs) /\ CurSectors(t)' = new.segs[1]
        /\ Offset(t)' = 0 /\ Position(t)' = 0 /\ InLoop(t)'
        /\ Len(new.segs) \in Nat \ {0} /\ new.segs[1] \in Nat \ {0} /\ 0 < new.segs[1] * Words
        /\ (1 - 1) * new.segs[1] = 0
    <2>1. /\ Before(new.segs, 1) = 0 /\ 0 \div Words = 0 /\ 0 % Words = 0 /\ Len(new.segs) \in Nat \ {0}
          /\ new.segs[1] \in Nat \ {0} /\ 0 < new.segs[1] * Words /\ (1 - 1) * new.segs[1] = 0
      BY <1>2, Fresh
    <2>2. Size(bio[t].segs)' = size /\ Length(t)' = Len(new.segs) /\ CurSectors(t)' = new.segs[1]
      BY <1>3 DEF Size, Before, Length, CurSectors
    <2>3. Offset(t)' = 0
      BY <1>3, <2>1 DEF Offset
    <2>4. Position(t)' = 0
      <3>1. Position(t)' = Before(new.segs, 1) + 0 \div Words
        BY <1>3 DEF Position, Place, Before
      <3> QED
        BY <2>1, <3>1
    <2>5. InLoop(t)'
      BY <1>3, <2>1 DEF InLoop
    <2> QED
      BY <2>1, <2>2, <2>3, <2>4, <2>5
  <1>6. Types'
    <2>1. bio' \in [Task -> Bio] /\ pc' \in [Task -> Pcs] /\ status' \in [Task -> {"none", "ok", "error"}]
      <3>1. bio' \in [Task -> Bio]
        <4> HIDE DEF Bio
        <4> QED
          BY <1>0, <1>1
      <3>2. pc'[t] \in Pcs
        BY <1>3 DEF Pcs
      <3>3. pc' \in [Task -> Pcs]
        BY <1>0, <1>1, <3>2
      <3>4. status' \in [Task -> {"none", "ok", "error"}]
        BY <1>0, <1>1
      <3> QED
        BY <3>1, <3>3, <3>4
    <2>2. cur' \in [Task -> [sector : Nat, seg : Nat \ {0}, word : Nat]]
      <3>1. Start(new.sector) \in [sector : Nat, seg : Nat \ {0}, word : Nat]
        BY <1>2 DEF Start
      <3> QED
        BY <1>0, <1>1, <3>1
    <2>3. older' \in [Task -> SUBSET Stamp] /\ page' = [u \in Task |-> page'[u]]
      BY <1>0, <1>1
    <2>4. even' \in BOOLEAN
      BY <1>1
    <2> QED
      BY <1>0, <1>1, <2>1, <2>2, <2>3, <2>4 DEF Inv, Types, BlockTypes
  <1>7. PageOf(t)' /\ CursorOf(t)'
    <2>1. Blank \in SectorType
      <3>1. Junk \in Value
        BY ConstsHold DEF Junk, Word, Value, Nowhere, Stamp, Consts
      <3> QED
        BY <3>1 DEF Blank, SectorType
    <2>2. PageOf(t)'
      <3>1. CASE pc'[t] = "idle"
        BY <1>1, <3>1 DEF PageOf, Busy
      <3>2. CASE pc'[t] # "idle"
        <4>1. page'[t] = [i \in 0 .. size - 1 |-> Blank] /\ new.sector + size <= capacity /\ pc'[t] = "submitted"
          BY <1>1, <3>2
        <4>2. page'[t] \in [0 .. size - 1 -> SectorType]
          BY <2>1, <4>1
        <4> QED
          BY <1>1, <1>3, <1>5, <4>1, <4>2 DEF PageOf
      <3> QED
        BY <3>1, <3>2
    <2>3. CursorOf(t)'
      <3>1. cur'[t].sector = new.sector + (cur'[t].seg - 1) * CurSectors(t)'
        <4>1. (cur'[t].seg - 1) * CurSectors(t)' = 0
          BY <1>3, <1>5
        <4> QED
          BY <1>2, <1>3, <4>1
      <3> QED
        BY <1>3, <1>5, <3>1 DEF CursorOf
    <2> QED
      BY <2>2, <2>3
  <1>8. Requests'
    <2>1. \A u \in Task : pc[u] \in {"queued", "command"} =>
            pc'[u] = pc[u] /\ (u \notin Members(req) /\ InLoop(u)' => InLoop(u))
      BY <1>1, <1>3, <1>4
    <2> QED
      BY <1>1, <2>1, RequestsKept
  <1>9. EvenSoFar'
    <2> SUFFICES ASSUME even' PROVE EvenSoFar'
      BY DEF EvenSoFar
    <2>1. even /\ Range(new.segs) = {new.segs[1]}
      BY <1>1
    <2>2. Regular(t)'
      <3>1. \A i \in 1 .. Len(new.segs) : new.segs[i] = new.segs[1]
        <4>1. DOMAIN new.segs = 1 .. Len(new.segs)
          BY <1>2 DEF SegLists
        <4> QED
          BY <2>1, <4>1 DEF Range
      <3> QED
        BY <1>3, <1>5, <3>1 DEF Regular
    <2>3. ReadOf(t)'
      <3> SUFFICES ASSUME NEW i \in DOMAIN page'[t], NEW k \in 0 .. Words - 1 PROVE ~Done(t, i, k)'
        BY DEF ReadOf
      <3>1. CASE pc'[t] = "idle"
        <4>1. page'[t] = <<>>
          BY <1>1, <3>1
        <4> QED
          BY <4>1
      <3>2. CASE pc'[t] # "idle"
        <4>1. page'[t] = [j \in 0 .. size - 1 |-> Blank]
          BY <1>1, <3>2
        <4>2. i \in Nat /\ k \in Nat /\ ~(i < 0) /\ ~(k < 0)
          BY <1>2, <4>1
        <4>3. Done(t, i, k)' <=> i < Position(t)' \/ (i = Position(t)' /\ k < Offset(t)')
          BY DEF Done, Offset
        <4> QED
          BY <1>5, <4>2, <4>3
      <3> QED
        BY <3>1, <3>2
    <2>4. (\A u \in Task : Regular(u) /\ ReadOf(u)) /\ DataInPlace /\ "page" \notin stray
      BY <2>1 DEF Inv, EvenSoFar
    <2>5. \A u \in Task : Regular(u)' /\ ReadOf(u)'
      BY <1>4, <2>2, <2>3, <2>4
    <2>6. DataInPlace'
      BY <1>1, <2>4 DEF DataInPlace
    <2> QED
      BY <1>1, <2>4, <2>5, <2>6 DEF EvenSoFar
  <1>10. OneAtATime'
    <2> SUFFICES ASSUME mode = "QUEUE" PROVE OneAtATime'
      BY <1>1 DEF OneAtATime
    <2>1. OneAtATime
      BY DEF Inv
    <2>2. \A u \in Task : pc'[u] # "moving"
      BY <1>3, <2>1 DEF OneAtATime
    <2>3. \A u \in Task : cur'[u].word # 0 => req' # <<>> /\ u = req'[1]
      BY <1>1, <1>3, <2>1 DEF OneAtATime
    <2>4. cur[t].word = 0 /\ Offset(t) = 0
      <3>1. cur[t].word = 0
        <4>1. cur[t].word # 0 => req # <<>> /\ t = req[1]
          BY <2>1 DEF OneAtATime
        <4> QED
          BY <1>1, <4>1, FirstOfRequest
      <3> QED
        BY <1>2, <3>1, Fresh DEF Offset
    <2>5. (\A s : ~Tears(t, s) /\ ~Tears(t, s)') /\ \A i : ~Fills(t, i) /\ ~Fills(t, i)'
      BY <1>5, <2>4 DEF Tears, Fills
    <2>6. \A s \in 0 .. capacity' - 1 : WholeSector(data'[s]) \/ \E u \in Task : Tears(u, s)'
      <3> SUFFICES ASSUME NEW s \in 0 .. capacity - 1, ~WholeSector(data[s]) PROVE \E u \in Task : Tears(u, s)'
        BY <1>1
      <3>1. PICK u \in Task : Tears(u, s)
        BY <2>1 DEF OneAtATime
      <3> QED
        BY <1>4, <2>5, <3>1
    <2>7. \A u \in Task, s \in 0 .. capacity' - 1 : Tears(u, s)' =>
            /\ \A k \in 0 .. Offset(u)' - 1 : data'[s][k].stamp = Ink(u)'
            /\ \A k, l \in Offset(u)' .. Words - 1 : data'[s][k].stamp = data'[s][l].stamp
      <3> SUFFICES ASSUME NEW u \in Task, NEW s \in 0 .. capacity - 1, Tears(u, s)'
                   PROVE  /\ \A k \in 0 .. Offset(u)' - 1 : data'[s][k].stamp = Ink(u)'
                          /\ \A k, l \in Offset(u)' .. Words - 1 : data'[s][k].stamp = data'[s][l].stamp
        BY <1>1
      <3>1. u # t
        BY <2>5
      <3>2. Tears(u, s) /\ Offset(u)' = Offset(u) /\ Ink(u)' = Ink(u)
        BY <1>4, <3>1
      <3> QED
        BY <1>1, <2>1, <3>2 DEF OneAtATime
    <2>8. \A u \in Task : \A i \in DOMAIN page'[u] : WholeSector(page'[u][i]) \/ Fills(u, i)'
      <3> SUFFICES ASSUME NEW u \in Task, NEW i \in DOMAIN page'[u] PROVE WholeSector(page'[u][i]) \/ Fills(u, i)'
        OBVIOUS
      <3>1. CASE u # t
        BY <1>3, <1>4, <2>1, <3>1 DEF OneAtATime
      <3>2. CASE u = t
        <4>1. CASE page'[t] = <<>>
          BY <3>2, <4>1
        <4>2. CASE page'[t] # <<>>
          <5>1. page'[t] = [j \in 0 .. size - 1 |-> Blank]
            BY <1>1, <4>2
          <5>2. page'[u][i] = Blank
            BY <3>2, <5>1
          <5> QED
            BY <5>2 DEF WholeSector, Blank
        <4> QED
          BY <4>1, <4>2
      <3> QED
        BY <3>1, <3>2
    <2>9. \A u \in Task : \A i \in DOMAIN page'[u] : Fills(u, i)' =>
            \A k \in 0 .. Offset(u)' - 1 : page'[u][i][k].stamp = data'[SectorNow(u)'][k].stamp
      <3> SUFFICES ASSUME NEW u \in Task, NEW i \in DOMAIN page'[u], Fills(u, i)'
                   PROVE  \A k \in 0 .. Offset(u)' - 1 : page'[u][i][k].stamp = data'[SectorNow(u)'][k].stamp
        OBVIOUS
      <3>1. u # t
        BY <2>5
      <3>2. /\ Fills(u, i) /\ Offset(u)' = Offset(u) /\ SectorNow(u)' = SectorNow(u) /\ page'[u] = page[u]
        BY <1>3, <1>4, <3>1
      <3> QED
        BY <1>1, <2>1, <3>2 DEF OneAtATime
    <2> QED
      BY <1>1, <2>2, <2>3, <2>6, <2>7, <2>8, <2>9 DEF OneAtATime, WholeSector
  <1>11. \A u \in Task : PageOf(u)' /\ CursorOf(u)'
    BY <1>4, <1>7
  <1>12. "store" \notin stray'
    BY <1>1 DEF Inv
  <1> QED
    BY <1>6, <1>8, <1>9, <1>10, <1>11, <1>12 DEF Inv

\* The invariant holds at first.
LEMMA InvInit == Init => Inv
  <1> SUFFICES ASSUME Init PROVE Inv
    OBVIOUS
  <1>1. /\ capacity = Capacity /\ mode \in Modes /\ Capacity \in Nat \ {0}
        /\ data = [s \in 0 .. capacity - 1 |-> [k \in 0 .. Words - 1 |-> Word(0, s)]]
        /\ pc = [t \in Task |-> "idle"] /\ bio = [t \in Task |-> NoBio] /\ page = [t \in Task |-> <<>>]
        /\ cur = [t \in Task |-> Start(0)] /\ status = [t \in Task |-> "none"]
        /\ written = 0 /\ ended = {0} /\ older = [t \in Task |-> {}]
        /\ stale = [s \in 0 .. capacity - 1 |-> {}]
        /\ queue = {} /\ running = FALSE /\ req = <<>> /\ merged = <<>> /\ stray = {} /\ even = TRUE
    BY TdlbdAssumption DEF Init, BlockInit
  <1>2. \A s \in 0 .. capacity - 1 : Word(0, s) \in Value /\ Word(0, s).place = s /\ Word(0, s).stamp = 0
    BY <1>1, ConstsHold DEF Word, Value, Stamp, Consts
  <1>3. Types
    <2>1. NoBio \in [write : BOOLEAN, sector : Nat, segs : Segs, stamp : Stamp]
      BY ConstsHold DEF NoBio, Segs, Stamp, Consts
    <2>2. Start(0) \in [sector : Nat, seg : Nat \ {0}, word : Nat]
      BY DEF Start
    <2>3. written \in Stamp /\ ended \subseteq Stamp
      BY <1>1, ConstsHold DEF Stamp, Consts
    <2>4. data \in [0 .. capacity - 1 -> SectorType]
      BY <1>1, <1>2 DEF SectorType
    <2>5. BlockTypes
      BY <1>1, <2>1, <2>2, <2>3, <2>4 DEF BlockTypes
    <2>6. pc \in [Task -> Pcs]
      BY <1>1 DEF Pcs
    <2>7. queue \subseteq Seq(Task) \ {<<>>} /\ req \in Seq(Task) /\ merged \in Seq(Task)
      <3>1. <<>> \in Seq(Task)
        OBVIOUS
      <3> QED
        BY <1>1, <3>1
    <2>8. capacity = Capacity /\ mode \in Modes /\ running \in BOOLEAN /\ even \in BOOLEAN /\ stray \subseteq {"page", "store"}
      BY <1>1
    <2> QED
      BY <2>5, <2>6, <2>7, <2>8 DEF Types
  <1>4. \A t \in Task : /\ pc[t] = "idle" /\ page[t] = <<>> /\ bio[t] = NoBio /\ bio[t].segs = <<1>>
                        /\ bio[t].sector = 0 /\ cur[t].sector = 0 /\ cur[t].seg = 1 /\ cur[t].word = 0
    BY <1>1 DEF NoBio, Start
  <1>5. ASSUME NEW t \in Task
        PROVE  PageOf(t) /\ CursorOf(t) /\ Regular(t) /\ ReadOf(t) /\ Offset(t) = 0
    <2>1. bio[t].segs \in SegLists
      BY <1>3, TaskTypes DEF Types
    <2>2. 0 < 1 * Words /\ 0 % Words = 0 /\ (1 - 1) * 1 = 0
      BY BlockAssumption, SMT
    <2>3. Length(t) = 1 /\ CurSectors(t) = 1 /\ InLoop(t)
      <3>1. Len(<<1>>) = 1 /\ <<1>>[1] = 1
        OBVIOUS
      <3>2. Length(t) = 1 /\ CurSectors(t) = 1
        BY <1>4, <3>1, Zenon DEF Length, CurSectors
      <3> QED
        BY <1>4, <3>2 DEF Length, InLoop
    <2>4. PageOf(t)
      BY <1>4 DEF PageOf, Busy
    <2>5. CursorOf(t)
      BY <1>4, <2>2, <2>3 DEF CursorOf
    <2>6. Regular(t)
      BY <1>4, <2>3 DEF Regular
    <2>7. ReadOf(t)
      BY <1>4 DEF ReadOf
    <2> QED
      BY <1>4, <2>2, <2>4, <2>5, <2>6, <2>7 DEF Offset
  <1>6. Requests
    <2>1. Members(merged) = {} /\ Members(req) = {}
      BY <1>1 DEF Members
    <2> QED
      BY <1>1, <2>1 DEF Requests
  <1>7. EvenSoFar
    BY <1>1, <1>2, <1>5 DEF EvenSoFar, DataInPlace
  <1>8. OneAtATime
    <2>1. \A t \in Task : (\A s : ~Tears(t, s)) /\ \A i : ~Fills(t, i)
      BY <1>5 DEF Tears, Fills
    <2>2. \A s \in 0 .. capacity - 1 : WholeSector(data[s])
      <3> SUFFICES ASSUME NEW s \in 0 .. capacity - 1, NEW k \in 0 .. Words - 1 PROVE data[s][k].stamp = 0
        BY DEF WholeSector
      <3>1. data[s][k] = Word(0, s)
        BY <1>1
      <3> QED
        BY <1>2, <3>1
    <2> QED
      BY <1>4, <2>1, <2>2 DEF OneAtATime
  <1> QED
    BY <1>1, <1>3, <1>5, <1>6, <1>7, <1>8 DEF Inv

\* It depends on the variables only.
LEMMA StutterKeeps ==
  ASSUME Inv, UNCHANGED vars
  PROVE  Inv'
  <1>1. UNCHANGED <<capacity, data, pc, bio, page, cur, status, written, ended, older, stale,
                    mode, queue, running, req, merged, stray, even>>
    BY DEF vars, blockVars, disk, ghosts, queueVars
  <1>2. /\ EvenSoFar' /\ OneAtATime' /\ "store" \notin stray'
        /\ \A u \in Task : PageOf(u)' /\ CursorOf(u)'
        /\ \A u \in Task : InLoop(u)' <=> InLoop(u)
    <2>1. \A u \in Task : pc'[u] = "ended" /\ status'[u] = "ok" => ~InLoop(u)
      BY <1>1, BioFacts DEF CursorOf
    <2>2. mode = "QUEUE" => /\ \A u \in Task : pc'[u] # "moving"
                            /\ \A u \in Task : cur[u].word # 0 => req' # <<>> /\ u = req'[1]
      BY <1>1 DEF Inv, OneAtATime
    <2> QED
      BY <1>1, <2>1, <2>2, NothingMoved
  <1>3. Requests'
    BY <1>1, <1>2, RequestsKept
  <1>4. Types'
    BY <1>1 DEF Inv, Types, BlockTypes
  <1> QED
    BY <1>2, <1>3, <1>4 DEF Inv

\* Requests, cursors and what they say of the words moved hold throughout.
THEOREM InvIsInvariant == Spec => []Inv
  <1>1. Inv /\ [Next]_vars => Inv'
    <2> SUFFICES ASSUME Inv, [Next]_vars PROVE Inv'
      OBVIOUS
    <2>1. CASE RunQueue
      BY <2>1, RunQueueKeeps
    <2>2. CASE Request
      <3>1. CASE XferQueued
        <4>1. req # <<>> /\ Xfer(req[1]) /\ Frame
          BY <3>1 DEF XferQueued, Frame
        <4>2. req[1] \in Task
          BY <4>1, FirstOfRequest
        <4> QED
          BY <4>1, <4>2, XferKeeps
      <3>2. CASE SkipCommand \/ StartRequest \/ NextBio \/ EndRequest \/ RequestDone
        BY <3>2, SkipCommandKeeps, StartRequestKeeps, NextBioKeeps, EndRequestKeeps, RunQueueKeeps
      <3> QED
        BY <2>2, <3>1, <3>2 DEF Request
    <2>3. ASSUME NEW t \in Task, Arrive(t) \/ Enqueue(t) \/ Command(t) \/ Direct(t)
          PROVE  Inv'
      <3>1. CASE XferDirect(t)
        BY <3>1, XferKeeps DEF XferDirect, Frame
      <3>2. CASE Arrive(t) \/ Enqueue(t) \/ Command(t) \/ MakeRequest(t) \/ EndDirect(t)
        BY <3>2, ArriveKeeps, EnqueueKeeps, CommandKeeps, MakeRequestKeeps, EndDirectKeeps
      <3> QED
        BY <2>3, <3>1, <3>2 DEF Direct
    <2>4. CASE UNCHANGED vars
      BY <2>4, StutterKeeps
    <2> QED
      BY <2>1, <2>2, <2>3, <2>4 DEF Next
  <1> QED
    BY <1>1, InvInit, PTL DEF Spec

\* Every variable keeps its type, and a request that has been started names the bios it was made of.
THEOREM TypesHold == Spec => []TypeOK
  <1>1. Inv => TypeOK
    <2> SUFFICES ASSUME Inv PROVE TypeOK
      OBVIOUS
    <2>1. \A t \in Task : \A i \in DOMAIN page[t] : page[t][i] \in SectorType
      <3> SUFFICES ASSUME NEW t \in Task, NEW i \in DOMAIN page[t] PROVE page[t][i] \in SectorType
        OBVIOUS
      <3>1. page[t] = <<>> \/ page[t] \in [0 .. Size(bio[t].segs) - 1 -> SectorType]
        BY DEF Inv, PageOf
      <3>2. CASE page[t] = <<>>
        BY <3>2
      <3>3. CASE page[t] \in [0 .. Size(bio[t].segs) - 1 -> SectorType]
        BY <3>3
      <3> QED
        BY <3>1, <3>2, <3>3
    <2>2. BlockTypeOK
      BY <2>1 DEF Inv, Types, BlockTypes, BlockTypeOK, SectorType, Segs
    <2>3. \A r \in queue : r # <<>> /\ Range(r) \subseteq Task
      BY QueueFacts DEF Members, Range
    <2>4. Range(req) = Members(req) /\ Range(merged) = Members(merged) /\ Members(merged) \subseteq Task
      BY DEF Inv, Types, Members, Range
    <2>5. Range(req) \subseteq Range(merged) /\ Range(merged) \subseteq Task
      BY <2>4 DEF Inv, Requests
    <2> QED
      BY <2>2, <2>3, <2>5 DEF Inv, Types, TypeOK, Pcs
  <1> QED
    BY <1>1, InvIsInvariant, PTL

\* While every bio has segments of one length, the loop that always counts the first one (tdlbd.c,
\* lines 79-96) moves each word to its sector, in both modes and however bios are merged.
THEOREM EvenDataIsInPlace == Spec => []EvenInPlace
  <1>1. Inv => EvenInPlace
    <2> SUFFICES ASSUME Inv, even PROVE InPlace
      BY DEF EvenInPlace
    <2>1. DOMAIN data = 0 .. capacity - 1 /\ \A s \in 0 .. capacity - 1 : DOMAIN data[s] = 0 .. Words - 1
      BY DEF Inv, Types, BlockTypes, SectorType
    <2>2. DataInPlace /\ \A t \in Task : Regular(t) /\ ReadOf(t)
      BY DEF Inv, EvenSoFar
    <2>3. ASSUME NEW t \in Task, HasRead(t), NEW i \in DOMAIN page[t], NEW k \in DOMAIN page[t][i]
          PROVE  page[t][i][k].place = bio[t].sector + i
      <3>1. pc[t] = "ended" /\ status[t] = "ok" /\ ~bio[t].write
        BY <2>3 DEF HasRead
      <3>2. page[t] \in [0 .. Size(bio[t].segs) - 1 -> SectorType] /\ Size(bio[t].segs) \in Nat
        <4>1. page[t] = <<>> \/ page[t] \in [0 .. Size(bio[t].segs) - 1 -> SectorType]
          BY DEF Inv, PageOf
        <4>2. page[t] # <<>>
          BY <2>3
        <4> QED
          BY <4>1, <4>2, BioFacts
      <3>3. i \in 0 .. Size(bio[t].segs) - 1 /\ k \in 0 .. Words - 1
        BY <2>3, <3>2 DEF SectorType
      <3>4. cur[t].seg = Length(t) + 1 /\ cur[t].word = 0
        BY <3>1, BioFacts DEF CursorOf
      <3>5. Position(t) = Size(bio[t].segs)
        <4>1. 0 \div Words = 0
          BY BlockAssumption, SMT
        <4> DEFINE size == Size(bio[t].segs)
        <4>2. Position(t) = size + 0
          BY <3>4, <4>1 DEF Position, Place, Length, Size
        <4> HIDE DEF size
        <4>3. size \in Nat
          BY <3>2 DEF size
        <4> QED
          BY <4>2, <4>3 DEF size
      <3>6. Done(t, i, k)
        BY <3>2, <3>3, <3>5 DEF Done
      <3> QED
        BY <2>2, <2>3, <3>1, <3>3, <3>6 DEF ReadOf
    <2> QED
      BY <2>1, <2>2, <2>3 DEF DataInPlace, InPlace
  <1> QED
    BY <1>1, InvIsInvariant, PTL

\* With dev->lock held over a request (tdlbd.c, lines 106-122), a read returns sectors of one write
\* each, even when other segments of it are moved wrongly.
THEOREM ReadsOfTheQueueAreWhole == Spec => []QueueReadsAreWhole
  <1>1. Inv => QueueReadsAreWhole
    <2> SUFFICES ASSUME Inv, mode = "QUEUE", NEW t \in Task, HasRead(t), NEW i \in DOMAIN page[t],
                        NEW k \in DOMAIN page[t][i], NEW l \in DOMAIN page[t][i]
                 PROVE  page[t][i][k].stamp = page[t][i][l].stamp
      BY DEF QueueReadsAreWhole, ReadsAreWhole
    <2>1. cur[t].word = 0
      BY BioFacts DEF CursorOf, HasRead
    <2>2. ~Fills(t, i)
      <3>1. 0 % Words = 0
        BY BlockAssumption, SMT
      <3> QED
        BY <2>1, <3>1 DEF Fills, Offset
    <2>3. WholeSector(page[t][i])
      BY <2>2 DEF Inv, OneAtATime
    <2>4. k \in 0 .. Words - 1 /\ l \in 0 .. Words - 1
      <3>1. page[t] = <<>> \/ page[t] \in [0 .. Size(bio[t].segs) - 1 -> SectorType]
        BY DEF Inv, PageOf
      <3>2. CASE page[t] = <<>>
        BY <3>2
      <3>3. CASE page[t] \in [0 .. Size(bio[t].segs) - 1 -> SectorType]
        BY <3>3 DEF SectorType
      <3> QED
        BY <3>1, <3>2, <3>3
    <2> QED
      BY <2>3, <2>4 DEF WholeSector
  <1> QED
    BY <1>1, InvIsInvariant, PTL

\* The test of vmem_disk_transfer (tdlbd.c, line 65) keeps every copy in the data store, and those of
\* even bios in their pages.
THEOREM DriverStaysInBounds == Spec => []StaysInBounds
  <1>1. Inv => StaysInBounds
    BY DEF Inv, Types, EvenSoFar, StaysInBounds
  <1> QED
    BY <1>1, InvIsInvariant, PTL
=============================================================================
