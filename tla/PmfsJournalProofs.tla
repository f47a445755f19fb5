-------------------------- MODULE PmfsJournalProofs -------------------------
(***************************************************************************)
(* Proofs about PmfsJournal, for a journal of any size, any number of      *)
(* tasks, objects, transactions and power failures.                        *)
(*                                                                         *)
(* The inductive invariant IInv is proved part by part: one lemma per      *)
(* conjunct, one step per action.  OwnInv, about whose changes there are,  *)
(* rests on it.  The theorems about them follow, and then, with the        *)
(* invariant Recoverable, that recovery is atomic.                         *)
(***************************************************************************)
EXTENDS PmfsJournal, FiniteSetTheorems, WellFoundedInduction, TLAPS

(***************************************************************************)
(* Least and greatest entries.                                             *)
(***************************************************************************)
\* A set of numbers that is not empty has a least one.
LEMMA LeastOf ==
  ASSUME NEW S, S \subseteq Nat, S # {}
  PROVE  \E m \in S : \A x \in S : m <= x
<1>1. PICK m \in S : \A x \in S : ~(<<x, m>> \in OpToRel(<, Nat))
  BY NatLessThanWellFounded, WFMin, Zenon
<1>2. ASSUME NEW x \in S
      PROVE  m <= x
  <2>1. m \in Nat /\ x \in Nat
    OBVIOUS
  <2>2. ~(x < m)
    <3>1. ASSUME x < m
          PROVE  FALSE
      <4>1. <<x, m>> \in OpToRel(<, Nat)
        BY <2>1, <3>1, Zenon DEF OpToRel
      <4>2. QED
        BY <1>1, <4>1
    <3>2. QED
      BY <3>1
  <2>3. QED
    BY <2>1, <2>2
<1>3. QED
  BY <1>2

\* If it is bounded, it has a greatest one.
LEMMA GreatestOf ==
  ASSUME NEW n \in Nat, NEW S, S \subseteq 0 .. n, S # {}
  PROVE  \E m \in S : \A x \in S : x <= m
<1> DEFINE T == {n - x : x \in S}
<1>1. T \subseteq Nat /\ T # {}
  <2>1. ASSUME NEW x \in S
        PROVE  n - x \in Nat
    <3>1. x \in 0 .. n
      OBVIOUS
    <3>2. QED
      BY <3>1
  <2>2. PICK x \in S : TRUE
    OBVIOUS
  <2>3. QED
    BY <2>1, <2>2
<1>2. PICK k \in T : \A y \in T : k <= y
  <2> HIDE DEF T
  <2> QED
    BY <1>1, LeastOf
<1>3. PICK m \in S : k = n - m
  OBVIOUS
<1>4. ASSUME NEW x \in S
      PROVE  x <= m
  <2>1. n - x \in T
    OBVIOUS
  <2>2. n - m <= n - x
    BY <1>2, <1>3, <2>1
  <2>3. x \in 0 .. n /\ m \in 0 .. n
    OBVIOUS
  <2>4. QED
    BY <2>2, <2>3
<1>5. QED
  BY <1>4

\* The first and the last entry of a run.
LEMMA EndsOfRun ==
  ASSUME NEW i \in Int, NEW j \in Int, i <= j
  PROVE  /\ Lowest(i .. j) = i
         /\ (CHOOSE x \in i .. j : \A y \in i .. j : y <= x) = j
<1>1. /\ i \in i .. j /\ \A y \in i .. j : i <= y
      /\ j \in i .. j /\ \A y \in i .. j : y <= j
  OBVIOUS
<1>2. ASSUME NEW x \in i .. j, \A y \in i .. j : x <= y
      PROVE  x = i
  BY <1>1, <1>2
<1>3. ASSUME NEW x \in i .. j, \A y \in i .. j : y <= x
      PROVE  x = j
  BY <1>1, <1>3
<1>4. Lowest(i .. j) = i
  BY <1>1, <1>2 DEF Lowest
<1>5. QED
  BY <1>1, <1>3, <1>4

(***************************************************************************)
(* What the walks over the log find.                                       *)
(***************************************************************************)
\* Indices go round the journal.
LEMMA Around ==
  ASSUME NEW i \in Idx
  PROVE  /\ NextEntry(i) \in Idx /\ PrevEntry(i) \in Idx
         /\ NextEntry(i) = IF i = JSize - 1 THEN 0 ELSE i + 1
BY JournalAssumption DEF Idx, NextEntry, PrevEntry

\* Generations go round too.
LEMMA Generations ==
  ASSUME NEW g \in 0 .. MaxGen
  PROVE  NextGen(g) \in 1 .. MaxGen /\ (g # 0 => PrevGen(g) \in 1 .. MaxGen)
BY JournalAssumption DEF NextGen, PrevGen

\* The cleaner passes a run of entries from its head on, and stays before the end.
LEMMA PassedIsRun ==
  ASSUME TypeOK, cleaner.head # cleaner.tail, Passed # {}
  PROVE  \E e \in Idx :
           /\ cleaner.head <= e /\ Passed = cleaner.head .. e
           /\ cleaner.head < cleaner.tail => e < cleaner.tail
<1> DEFINE h == cleaner.head
           g == cleaner.gen
           lines == h .. IF cleaner.tail > h THEN cleaner.tail - 1 ELSE JSize - 1
           ends == {i \in lines : Ends(i, g) /\ \A j \in h + 1 .. i : ~Starts(j, g)}
           e == CHOOSE i \in ends : \A j \in ends : i <= j
<1>1. h \in Idx /\ cleaner.tail \in Idx /\ JSize \in Nat
  BY JournalAssumption DEF TypeOK, CleanerType
<1>2. CASE ~Starts(h, g)
  <2>1. Passed = {h}
    BY <1>2 DEF Passed
  <2>2. {h} = h .. h
    BY <1>1 DEF Idx
  <2>3. QED
    BY <1>1, <2>1, <2>2 DEF Idx
<1>3. CASE Starts(h, g)
  <2>1. Passed = Finished(h, cleaner.tail, g)
    BY <1>3 DEF Passed
  <2>2. Finished(h, cleaner.tail, g) = IF ends = {} THEN {} ELSE h .. e
    BY DEF Finished
  <2>3. ends # {} /\ Passed = h .. e
    BY <2>1, <2>2
  <2>4. ends \subseteq Nat
    BY <1>1 DEF Idx
  <2>5. \E m \in ends : \A x \in ends : m <= x
    <3> HIDE DEF ends
    <3> QED
      BY <2>3, <2>4, LeastOf
  <2>6. e \in ends
    <3> HIDE DEF ends
    <3> QED
      BY <2>5
  <2>7. e \in lines
    BY <2>6
  <2> HIDE DEF e
  <2>8. e \in Idx /\ h <= e /\ (h < cleaner.tail => e < cleaner.tail)
    BY <1>1, <2>7 DEF Idx
  <2>9. QED
    BY <2>3, <2>8
<1>4. QED
  BY <1>2, <1>3

\* A turn of the cleaner's loop.
LEMMA CleanerSteps ==
  ASSUME TypeOK, CleanStep
  PROVE  /\ cleaner.pc = "scan" /\ phase \in {"mounted", "stopping"}
         /\ \/ /\ cleaner' = [cleaner EXCEPT !.pc = "store"]
               /\ UNCHANGED <<log, nlog, trans, past>>
            \/ \E e \in Idx :
                 /\ cleaner.head # cleaner.tail /\ cleaner.head <= e
                 /\ cleaner.head < cleaner.tail => e < cleaner.tail
                 /\ cleaner' = [cleaner EXCEPT
                      !.head = IF e = JSize - 1 THEN 0 ELSE e + 1,
                      !.gen = IF (IF e = JSize - 1 THEN 0 ELSE e + 1) = 0 THEN NextGen(@) ELSE @]
                 /\ trans' = [t \in Tasks |-> [trans[t] EXCEPT !.skipped =
                      @ \/ (Active(t) /\ Reserved(t) \cap (cleaner.head .. e) # {})]]
                 /\ \/ UNCHANGED <<log, nlog>>
                    \/ /\ log' = Invalidated(cleaner.head .. e, cleaner.gen)
                       /\ nlog' \in {FirstFenced(cleaner.head .. e, cleaner.gen), nlog}
                 /\ past' = [past EXCEPT !.broken = @ \/ SkipsInLast]
         /\ UNCHANGED <<phase, hdr, nhdr, data, walk, tids, crashes>>
<1>1. CASE cleaner.head = cleaner.tail \/ Passed = {}
  BY <1>1 DEF CleanStep
<1>2. CASE ~(cleaner.head = cleaner.tail \/ Passed = {})
  <2>1. PICK e \in Idx :
          /\ cleaner.head <= e /\ Passed = cleaner.head .. e
          /\ cleaner.head < cleaner.tail => e < cleaner.tail
    BY <1>2, PassedIsRun
  <2>2. cleaner.head \in Int /\ e \in Int
    BY JournalAssumption DEF TypeOK, CleanerType, Idx
  <2>3. (CHOOSE i \in Passed : \A j \in Passed : j <= i) = e
    BY <2>1, <2>2, EndsOfRun
  <2>4. NextEntry(CHOOSE i \in Passed : \A j \in Passed : j <= i)
          = IF e = JSize - 1 THEN 0 ELSE e + 1
    BY <2>3, Around
  <2> DEFINE skips == SkipsInLast
             fenced == FirstFenced(cleaner.head .. e, cleaner.gen)
             new == NextEntry(CHOOSE i \in Passed : \A j \in Passed : j <= i)
  <2>5. /\ cleaner.head # cleaner.tail
        /\ cleaner' = [cleaner EXCEPT !.head = new, !.gen = IF new = 0 THEN NextGen(@) ELSE @]
        /\ trans' = [t \in Tasks |-> [trans[t] EXCEPT !.skipped = @ \/ Skips(t)]]
        /\ \/ UNCHANGED <<log, nlog>>
           \/ /\ log' = Invalidated(cleaner.head .. e, cleaner.gen)
              /\ nlog' \in {fenced, nlog}
        /\ past' = [past EXCEPT !.broken = @ \/ skips]
    BY <1>2, <2>1 DEF CleanStep
  <2>6. trans' = [t \in Tasks |-> [trans[t] EXCEPT !.skipped =
                   @ \/ (Active(t) /\ Reserved(t) \cap (cleaner.head .. e) # {})]]
    BY <2>1, <2>5 DEF Skips
  <2> HIDE DEF skips, fenced, new
  <2>7. /\ cleaner.pc = "scan" /\ phase \in {"mounted", "stopping"}
        /\ UNCHANGED <<phase, hdr, nhdr, data, walk, tids, crashes>>
    BY DEF CleanStep
  <2>8. new = IF e = JSize - 1 THEN 0 ELSE e + 1
    BY <2>4 DEF new
  <2>9. QED
    BY <2>1, <2>5, <2>6, <2>7, <2>8 DEF skips, fenced
<1>3. QED
  BY <1>1, <1>2

\* What has been promised stays.
PromisesKept ==
  /\ past'.settled = past.settled /\ past'.doubt = past.doubt /\ past'.excused = past.excused

\* The history notes whether entries of running transactions are invalidated.
LEMMA CleanerPast ==
  ASSUME TypeOK, CleanStep
  PROVE  /\ PastType' /\ PromisesKept
         /\ ~past'.broken => ~past.broken /\ (UNCHANGED log \/ ~SkipsInLast)
<1>1. (past' = past /\ UNCHANGED log) \/ past' = [past EXCEPT !.broken = @ \/ SkipsInLast]
  <2> DEFINE skips == SkipsInLast
  <2>1. (past' = past /\ UNCHANGED log) \/ past' = [past EXCEPT !.broken = @ \/ skips]
    BY DEF CleanStep
  <2>2. QED
    BY <2>1
<1>2. CASE past' = past /\ UNCHANGED log
  BY <1>2 DEF TypeOK, PastType, PromisesKept
<1>3. CASE past' = [past EXCEPT !.broken = @ \/ SkipsInLast]
  <2>1. SkipsInLast \in BOOLEAN
    BY DEF SkipsInLast
  <2>2. past'.broken = (past.broken \/ SkipsInLast)
    BY <1>3 DEF TypeOK, PastType
  <2>3. ~past'.broken => ~past.broken /\ ~SkipsInLast
    BY <2>2, Zenon
  <2> DEFINE erases == SkipsInLast
  <2>4. past' = [past EXCEPT !.broken = @ \/ erases] /\ erases \in BOOLEAN
    BY <1>3, <2>1
  <2> HIDE DEF erases
  <2>5. PastType' /\ PromisesKept
    BY <2>4 DEF TypeOK, PastType, PromisesKept
  <2>6. QED
    BY <2>3, <2>5
<1>4. QED
  BY <1>1, <1>2, <1>3

\* What else the history notes of the last generation.
LEMMA BrokenGrows ==
  ASSUME TypeOK, NEW x \in BOOLEAN, NEW D \in SUBSET [tid : Tids, objs : SUBSET Objs],
         NEW X \in SUBSET Objs,
         past' = [past EXCEPT !.doubt = @ \cup D, !.excused = @ \cup X, !.broken = @ \/ x]
  PROVE  /\ PastType' /\ past'.settled = past.settled
         /\ past'.doubt = past.doubt \cup D /\ past'.excused = past.excused \cup X
         /\ ~past'.broken => ~past.broken /\ ~x
<1>1. PastType' /\ past'.settled = past.settled /\ past'.broken = (past.broken \/ x)
      /\ past'.doubt = past.doubt \cup D /\ past'.excused = past.excused \cup X
  BY DEF TypeOK, PastType
<1>2. QED
  BY <1>1, Zenon

\* A new generation after recovery.
LEMMA ForwardPast ==
  ASSUME TypeOK, ForwardGen
  PROVE  /\ PastType' /\ past'.settled = past.settled
         /\ past'.doubt = past.doubt /\ past'.excused = past.excused
         /\ ~past'.broken => ~past.broken
<1> DEFINE x == LastBegunLate
<1>1. past' = [past EXCEPT !.broken = @ \/ x]
  BY DEF ForwardGen
<1>2. x \in BOOLEAN
  BY DEF LastBegunLate
<1> HIDE DEF x
<1>3. PastType' /\ past'.settled = past.settled /\ past'.broken = (past.broken \/ x)
      /\ past'.doubt = past.doubt /\ past'.excused = past.excused
  BY <1>1, <1>2 DEF TypeOK, PastType
<1>4. QED
  BY <1>3, Zenon

\* What a power failure leaves in doubt.
CrashDoubt == {[tid |-> trans[t].tid, objs |-> trans[t].objs] :
                 t \in {u \in Tasks : trans[u].pc = "end" /\ trans[u].kind = "commit"}}
\* ... and what it excuses.
CrashExcuse == UNION {trans[t].objs : t \in {u \in Tasks : trans[u].skipped}}

\* A power failure adds to what is in doubt and to what is excused, and settles nothing.
LEMMA CrashPast ==
  ASSUME TypeOK, Crash
  PROVE  /\ PastType' /\ past'.settled = past.settled
         /\ past'.doubt = past.doubt \cup CrashDoubt
         /\ past'.excused = past.excused \cup CrashExcuse
         /\ ~past'.broken => ~past.broken /\ ~LostInLast
<1>1. \A t \in Tasks : trans[t].tid \in Tids /\ trans[t].objs \in SUBSET Objs
  BY DEF TypeOK, TransType
<1>2. CrashDoubt \in SUBSET [tid : Tids, objs : SUBSET Objs] /\ CrashExcuse \in SUBSET Objs
  BY <1>1 DEF CrashDoubt, CrashExcuse
<1> DEFINE x == LostInLast
<1>3. x \in BOOLEAN
  BY DEF LostInLast
<1>4. past' = [past EXCEPT !.doubt = @ \cup CrashDoubt, !.excused = @ \cup CrashExcuse,
                           !.broken = @ \/ x]
  BY DEF Crash, CrashDoubt, CrashExcuse
<1> HIDE DEF x
<1>5. QED
  <2> HIDE DEF CrashDoubt, CrashExcuse
  <2>1. /\ PastType' /\ past'.settled = past.settled
        /\ past'.doubt = past.doubt \cup CrashDoubt
        /\ past'.excused = past.excused \cup CrashExcuse
        /\ ~past'.broken => ~past.broken /\ ~x
    BY <1>2, <1>3, <1>4, BrokenGrows
  <2>2. QED
    BY <2>1 DEF x

\* It leaves the transactions alone, but for noting which it overtakes.
LEMMA CleanerLeaves ==
  ASSUME IInv, CleanStep
  PROVE  /\ cleaner'.last = cleaner.last /\ cleaner'.tail = cleaner.tail
         /\ cleaner'.pc \in {"scan", "store"}
         /\ \A t \in Tasks :
              /\ trans'[t].pc = trans[t].pc /\ trans'[t].start = trans[t].start
              /\ trans'[t].size = trans[t].size /\ trans'[t].head = trans[t].head
              /\ trans[t].skipped => trans'[t].skipped
<1>1. CASE /\ cleaner' = [cleaner EXCEPT !.pc = "store"]
           /\ UNCHANGED <<log, nlog, trans>>
  BY <1>1 DEF IInv, TypeOK, CleanerType
<1>2. ASSUME NEW e \in Idx,
             cleaner' = [cleaner EXCEPT
               !.head = IF e = JSize - 1 THEN 0 ELSE e + 1,
               !.gen = IF (IF e = JSize - 1 THEN 0 ELSE e + 1) = 0 THEN NextGen(@) ELSE @],
             trans' = [t \in Tasks |-> [trans[t] EXCEPT !.skipped =
               @ \/ (Active(t) /\ Reserved(t) \cap (cleaner.head .. e) # {})]]
      PROVE  /\ cleaner'.last = cleaner.last /\ cleaner'.tail = cleaner.tail
             /\ cleaner'.pc = cleaner.pc
             /\ \A t \in Tasks :
                  /\ trans'[t].pc = trans[t].pc /\ trans'[t].start = trans[t].start
                  /\ trans'[t].size = trans[t].size /\ trans'[t].head = trans[t].head
                  /\ trans[t].skipped => trans'[t].skipped
  <2>1. /\ cleaner'.last = cleaner.last /\ cleaner'.tail = cleaner.tail
        /\ cleaner'.pc = cleaner.pc
    BY <1>2 DEF IInv, TypeOK, CleanerType
  <2> DEFINE passed(t) == Active(t) /\ Reserved(t) \cap (cleaner.head .. e) # {}
  <2>2. trans' = [t \in Tasks |-> [trans[t] EXCEPT !.skipped = @ \/ passed(t)]]
    BY <1>2
  <2> HIDE DEF passed
  <2>3. \A t \in Tasks :
          /\ trans'[t].pc = trans[t].pc /\ trans'[t].start = trans[t].start
          /\ trans'[t].size = trans[t].size /\ trans'[t].head = trans[t].head
          /\ trans[t].skipped => trans'[t].skipped
    BY <2>2 DEF IInv, TypeOK, TransType
  <2>4. QED
    BY <2>1, <2>3
<1>3. QED
  BY <1>1, <1>2, CleanerSteps DEF IInv

\* The three ends of a reservation r of task t: it fails, it starts a lap, or it takes
\* the entries behind the tail.
Fails(t) ==
  /\ trans' = [trans EXCEPT ![t] = NoTrans]
  /\ UNCHANGED <<hdr, nhdr, cleaner, past>>
\* There is room for it, and none of it is in use.
HasRoom(r) ==
  ~past'.broken => ~past.broken /\ Avail(r.head, hdr.tail) >= r.size /\ ~Reuses(r.size)
\* It starts a lap and tries again.
Wraps(t, r) ==
  /\ hdr.tail + r.size >= JSize /\ HasRoom(r)
  /\ hdr' = [hdr EXCEPT !.tail = 0, !.gen = NextGen(@)]
  /\ trans' = [trans EXCEPT ![t] = [r EXCEPT !.pc = "wrapped"]]
  /\ UNCHANGED <<nhdr, cleaner>>
\* It takes the entries behind the tail.
Takes(t, r) ==
  /\ hdr.tail + r.size < JSize /\ HasRoom(r)
  /\ hdr' = [hdr EXCEPT !.tail = @ + r.size] /\ nhdr' = hdr'
  /\ trans' = [trans EXCEPT ![t] = [r EXCEPT !.pc = "run", !.start = hdr.tail, !.gen = hdr.gen]]
  /\ \/ cleaner' = cleaner
     \/ cleaner.pc = "asleep" /\ cleaner' = [cleaner EXCEPT !.pc = "woken"]

\* There are no others; as long as nothing is overrun there is room for what is taken.
LEMMA Reserves ==
  ASSUME IInv, NEW t \in Tasks, NEW r \in TransType, Reserve(t, r)
  PROVE  /\ Fails(t) \/ Wraps(t, r) \/ Takes(t, r)
         /\ PastType' /\ PromisesKept
<1> DEFINE avail == Avail(r.head, hdr.tail)
           reuses == Reuses(r.size)
<1>1. CASE ~Fits(avail, r.size)
  BY <1>1 DEF Reserve, Fails, IInv, TypeOK, PastType, PromisesKept
<1>2. CASE Fits(avail, r.size)
  <2>1. past' = [past EXCEPT !.broken = @ \/ avail < r.size \/ reuses]
    BY <1>2 DEF Reserve
  <2>2. reuses \in BOOLEAN
    BY DEF Reuses
  <2>3. avail \in Int /\ r.size \in Int /\ hdr.tail + r.size \in Int /\ JSize \in Int
    BY JournalAssumption DEF IInv, TypeOK, HeaderType, TransType, Avail, Idx
  <2> HIDE DEF reuses
  <2>4. PastType' /\ PromisesKept
    BY <2>1, <2>2, <2>3 DEF PastType, PromisesKept, IInv, TypeOK
  <2>5. ~past'.broken => ~past.broken /\ avail >= r.size /\ ~reuses
    <3>1. past'.broken = (past.broken \/ avail < r.size \/ reuses)
      BY <2>1 DEF PastType, IInv, TypeOK
    <3>2. ~past'.broken => ~past.broken /\ ~(avail < r.size) /\ ~reuses
      BY <3>1, Zenon
    <3>3. QED
      BY <2>3, <3>2
  <2> HIDE DEF avail
  <2>6. CASE hdr.tail + r.size >= JSize
    <3>1. /\ hdr' = [hdr EXCEPT !.tail = 0, !.gen = NextGen(@)]
          /\ trans' = [trans EXCEPT ![t] = [r EXCEPT !.pc = "wrapped"]]
          /\ UNCHANGED <<nhdr, cleaner>>
      BY <1>2, <2>6 DEF Reserve, avail
    <3>2. QED
      BY <2>4, <2>5, <2>6, <3>1 DEF avail, reuses, Wraps, HasRoom
  <2>7. CASE ~(hdr.tail + r.size >= JSize)
    <3>1. /\ hdr' = [hdr EXCEPT !.tail = @ + r.size] /\ nhdr' = hdr'
          /\ trans' = [trans EXCEPT ![t] =
               [r EXCEPT !.pc = "run", !.start = hdr.tail, !.gen = hdr.gen]]
          /\ \/ cleaner' = cleaner
             \/ cleaner.pc = "asleep" /\ cleaner' = [cleaner EXCEPT !.pc = "woken"]
      BY <1>2, <2>7 DEF Reserve, TailFlushed, avail
    <3>2. hdr.tail + r.size < JSize
      BY <2>3, <2>7
    <3>3. QED
      BY <2>4, <2>5, <3>1, <3>2 DEF avail, reuses, Takes, HasRoom
  <2>8. QED
    BY <2>6, <2>7
<1>3. QED
  BY <1>1, <1>2

\* A new transaction asks for what its objects need, and an entry for its end.
LEMMA Begins ==
  ASSUME IInv, NEW t \in Tasks, NewTransaction(t)
  PROVE  /\ phase = "mounted" /\ \A u \in Tasks : trans[u].pc # "wrapped"
         /\ trans[t].pc = "idle" /\ tids' \in Tids
         /\ UNCHANGED <<phase, log, nlog, data, walk, crashes>>
         /\ \E r \in TransType :
              /\ r.head = hdr.head /\ r.size > 0 /\ r.used = 0 /\ r.skipped = FALSE
              /\ Reserve(t, r) /\ r.logged = {} /\ r.objs \cap Busy = {}
<1>1. PICK objs \in SUBSET (Objs \ Busy) \ {{}}, spare \in 0 .. 1 :
        /\ Cardinality(objs) + spare <= MaxEntries
        /\ Reserve(t, [NoTrans EXCEPT !.tid = tids + 1, !.objs = objs, !.head = hdr.head,
                                      !.size = Cardinality(objs) + spare + 1])
  BY DEF NewTransaction
<1>2. Cardinality(objs) \in Nat
  <2>1. objs \in SUBSET Objs
    OBVIOUS
  <2>2. QED
    BY <2>1, JournalAssumption, FS_Subset, FS_CardinalityType
<1> DEFINE n == Cardinality(objs)
           r == [NoTrans EXCEPT !.tid = tids + 1, !.objs = objs, !.head = hdr.head,
                                !.size = n + spare + 1]
<1>3. tids + 1 \in Tids /\ hdr.head \in Idx /\ objs \in SUBSET Objs
  BY JournalAssumption DEF NewTransaction, IInv, TypeOK, HeaderType, Tids
<1>4. n + spare + 1 \in 0 .. MaxEntries + 1 /\ n + spare + 1 > 0
  BY <1>1, <1>2, JournalAssumption
<1>5. 0 \in Idx /\ 0 \in 0 .. MaxEntries + 1 /\ 0 \in 0 .. MaxGen /\ 0 \in Tids
  BY JournalAssumption DEF Idx, Tids
<1> HIDE DEF n
<1>6. /\ r \in TransType /\ r.head = hdr.head /\ r.size > 0 /\ r.used = 0
      /\ r.skipped = FALSE /\ r.logged = {} /\ r.objs \cap Busy = {}
  BY <1>3, <1>4, <1>5 DEF TransType, NoTrans
<1>7. Reserve(t, r)
  BY <1>1 DEF n
<1>8. QED
  BY <1>3, <1>6, <1>7 DEF NewTransaction, MutexFree

\* Either way a task comes to a reservation.
LEMMA Reservations ==
  ASSUME IInv, NEW t \in Tasks, NewTransaction(t) \/ Again(t)
  PROVE  /\ phase = "mounted" /\ tids' \in Tids
         /\ UNCHANGED <<phase, log, nlog, data, walk, crashes>>
         /\ PastType' /\ PromisesKept
         /\ \E r \in TransType :
              /\ r.size > 0 /\ r.used < r.size
              /\ \/ /\ r.head = hdr.head /\ \A u \in Tasks : trans[u].pc # "wrapped"
                    /\ trans[t].pc = "idle" /\ r.used = 0 /\ r.skipped = FALSE
                    /\ r.logged = {} /\ r.objs \cap Busy = {}
                 \/ r = trans[t] /\ r.pc = "wrapped"
              /\ Fails(t) \/ Wraps(t, r) \/ Takes(t, r)
<1>1. CASE NewTransaction(t)
  <2>1. PICK r \in TransType :
          /\ r.head = hdr.head /\ r.size > 0 /\ r.used = 0 /\ r.skipped = FALSE
          /\ Reserve(t, r) /\ r.logged = {} /\ r.objs \cap Busy = {}
    BY <1>1, Begins
  <2>2. QED
    BY <1>1, <2>1, Begins, Reserves
<1>2. CASE Again(t)
  <2>1. Reserve(t, trans[t]) /\ trans[t] \in TransType /\ trans[t].pc = "wrapped"
    BY <1>2 DEF Again, IInv, TypeOK
  <2>2. trans[t].used < trans[t].size /\ trans[t].size > 0 /\ tids \in Tids
    BY <2>1 DEF IInv, TypeOK, EntriesFit
  <2>3. QED
    BY <1>2, <2>1, <2>2, Reserves DEF Again
<1>3. QED
  BY <1>1, <1>2

\* What is logged has a length, and fits.
LEMMA Logs ==
  ASSUME IInv, NEW t \in Tasks, AddLogEntry(t)
  PROVE  \E objs \in SUBSET Objs, n \in Nat :
         \E ord \in [0 .. n - 1 -> objs] :
           /\ trans[t].used + n < trans[t].size /\ objs \subseteq trans[t].objs
           /\ \A o \in objs : \E k \in 0 .. n - 1 : ord[k] = o
           /\ log' = [i \in Idx |->
                IF i - EntryAt(t) \in 0 .. n - 1
                THEN EntryOf(t, i - trans[t].start, {}, ord[i - EntryAt(t)]) ELSE log[i]]
           /\ trans' = [trans EXCEPT ![t].pc = "log", ![t].logged = @ \cup objs,
                                     ![t].used = @ + n]
<1>1. PICK objs \in SUBSET trans[t].objs \ {{}} :
        \E ord \in [0 .. Cardinality(objs) - 1 -> objs] :
          /\ trans[t].used + Cardinality(objs) < trans[t].size
          /\ \A o \in objs : \E k \in DOMAIN ord : ord[k] = o
          /\ log' = [i \in Idx |->
               IF i - EntryAt(t) \in DOMAIN ord
               THEN EntryOf(t, i - trans[t].start, {}, ord[i - EntryAt(t)]) ELSE log[i]]
          /\ trans' = [trans EXCEPT ![t].pc = "log", ![t].logged = @ \cup objs,
                                    ![t].used = @ + Cardinality(objs)]
  BY DEF AddLogEntry
<1>2. objs \in SUBSET Objs
  BY DEF IInv, TypeOK, TransType
<1>3. Cardinality(objs) \in Nat
  BY <1>2, JournalAssumption, FS_Subset, FS_CardinalityType
<1>4. PICK ord \in [0 .. Cardinality(objs) - 1 -> objs] :
        /\ trans[t].used + Cardinality(objs) < trans[t].size
        /\ \A o \in objs : \E k \in 0 .. Cardinality(objs) - 1 : ord[k] = o
        /\ log' = [i \in Idx |->
             IF i - EntryAt(t) \in 0 .. Cardinality(objs) - 1
             THEN EntryOf(t, i - trans[t].start, {}, ord[i - EntryAt(t)]) ELSE log[i]]
        /\ trans' = [trans EXCEPT ![t].pc = "log", ![t].logged = @ \cup objs,
                                  ![t].used = @ + Cardinality(objs)]
  <2>1. \A ord \in [0 .. Cardinality(objs) - 1 -> objs] : DOMAIN ord = 0 .. Cardinality(objs) - 1
    OBVIOUS
  <2>2. QED
    BY <1>1, <2>1
<1> DEFINE n == Cardinality(objs)
<1>5. /\ trans[t].used + n < trans[t].size /\ objs \subseteq trans[t].objs
      /\ \A o \in objs : \E k \in 0 .. n - 1 : ord[k] = o
      /\ log' = [i \in Idx |->
           IF i - EntryAt(t) \in 0 .. n - 1
           THEN EntryOf(t, i - trans[t].start, {}, ord[i - EntryAt(t)]) ELSE log[i]]
      /\ trans' = [trans EXCEPT ![t].pc = "log", ![t].logged = @ \cup objs,
                                ![t].used = @ + n]
  BY <1>4
<1>6. n \in Nat /\ ord \in [0 .. n - 1 -> objs]
  BY <1>3
<1> HIDE DEF n
<1>7. QED
  BY <1>2, <1>5, <1>6

\* Where the walk back from i has to end.
Low(h, i) == IF h.head <= i THEN h.head ELSE 0

\* The entry that ends a walk of recovery backwards is one before its beginning, or that.
LEMMA BackwardIsRun ==
  ASSUME TypeOK, NEW i \in Idx, NEW g
  PROVE  \E b \in Idx :
           /\ b <= i /\ Backward(i, g) = b .. i
           /\ Low(hdr, i) <= b
           /\ Starts(b, g) \/ b = Low(hdr, i) \/ Ends(b - 1, g)
           /\ \A j \in b + 1 .. i : ~Starts(j, g) /\ ~Ends(j - 1, g)
<1> DEFINE low == IF hdr.head <= i THEN hdr.head ELSE 0
           S == {b \in low .. i : Starts(b, g) \/ b = low \/ Ends(b - 1, g)}
           Cut(b) == /\ Starts(b, g) \/ b = low \/ Ends(b - 1, g)
                     /\ \A j \in b + 1 .. i : ~Starts(j, g) /\ ~Ends(j - 1, g)
<1>1. low \in Nat /\ i \in Nat /\ low <= i /\ i <= JSize - 1 /\ JSize \in Nat
  BY JournalAssumption DEF TypeOK, HeaderType, Idx
<1> HIDE DEF low
<1>2. S \subseteq 0 .. i /\ S # {}
  <2>1. low \in S
    BY <1>1
  <2>2. low .. i \subseteq 0 .. i
    BY <1>1
  <2>3. QED
    BY <2>1, <2>2
<1>3. PICK m \in S : \A x \in S : x <= m
  <2> HIDE DEF S
  <2> QED
    BY <1>1, <1>2, GreatestOf
<1>4. m \in low .. i /\ (Starts(m, g) \/ m = low \/ Ends(m - 1, g))
  OBVIOUS
<1>5. ASSUME NEW j \in m + 1 .. i
      PROVE  ~Starts(j, g) /\ ~Ends(j - 1, g)
  <2>1. j \in low .. i /\ ~(j <= m)
    BY <1>1, <1>4
  <2>2. j \notin S
    BY <1>3, <2>1
  <2>3. QED
    BY <2>1, <2>2
<1>6. \E b \in low .. i : Cut(b)
  BY <1>4, <1>5
<1> DEFINE c == CHOOSE b \in low .. i : Cut(b)
<1>7. c \in low .. i /\ Cut(c)
  <2> HIDE DEF Cut
  <2> QED
    BY <1>6
<1>8. Backward(i, g) = c .. i
  BY DEF Backward, low
<1> HIDE DEF c
<1>9. c \in Idx /\ c <= i /\ low <= c
  BY <1>1, <1>7 DEF Idx
<1>10. low = Low(hdr, i)
  BY DEF low, Low
<1>11. QED
  BY <1>7, <1>8, <1>9, <1>10

\* Undoing gives each object a value that it has had.
LEMMA UndoneType ==
  ASSUME TypeOK, NEW lines \in SUBSET Idx, NEW g
  PROVE  Undone(lines, g) \in [Objs -> Tids]
<1> SUFFICES ASSUME NEW o \in Objs
             PROVE  Undone(lines, g)[o] \in Tids
  BY DEF Undone
<1> DEFINE E == {i \in lines : log[i].gen = g /\ log[i].obj = o}
           first == CHOOSE i \in E : \A j \in E : i <= j
<1>1. Undone(lines, g)[o] = IF E = {} THEN mem[o] ELSE log[first].old
  BY DEF Undone
<1>2. CASE E = {}
  <2>1. mem[o] \in Tids
    BY DEF TypeOK, DataType
  <2>2. QED
    BY <1>1, <1>2, <2>1
<1>3. CASE E # {}
  <2>1. E \subseteq Idx /\ E \subseteq Nat
    <3>1. E \subseteq lines
      OBVIOUS
    <3>2. Idx \subseteq Nat
      BY JournalAssumption DEF Idx
    <3> HIDE DEF E
    <3>3. QED
      BY <3>1, <3>2
  <2>2. first \in E
    <3> HIDE DEF E
    <3>1. \E m \in E : \A x \in E : m <= x
      BY <1>3, <2>1, LeastOf
    <3>2. QED
      BY <3>1
  <2> HIDE DEF first
  <2>3. log[first] \in Entries
    BY <2>1, <2>2 DEF TypeOK, LogType
  <2>4. log[first].old \in Tids
    BY <2>3 DEF Entries
  <2>5. QED
    BY <1>1, <1>3, <2>4
<1>4. QED
  BY <1>2, <1>3

\* Invalidated lines are lines of the log.
LEMMA InvalidatedType ==
  ASSUME TypeOK, NEW lines, NEW g
  PROVE  /\ Invalidated(lines, g) \in [Idx -> Entries]
         /\ FirstFenced(lines, g) \in [Idx -> Entries]
<1>1. log \in [Idx -> Entries] /\ nlog \in [Idx -> Entries]
  BY DEF TypeOK, LogType
<1>2. ASSUME NEW i \in Idx
      PROVE  [log[i] EXCEPT !.gen = 0] \in Entries
  <2>1. 0 \in 0 .. MaxGen
    BY JournalAssumption
  <2>2. QED
    BY <1>1, <2>1 DEF Entries
<1>3. Invalidated(lines, g) \in [Idx -> Entries]
  BY <1>1, <1>2 DEF Invalidated
<1>4. FirstFenced(lines, g) \in [Idx -> Entries]
  <2> DEFINE inv == Invalidated(lines, g)
             P(j) == /\ g = MaxGen /\ inv[j].gen = 0
                     /\ \E i \in lines : log[i].kind = {"start"} /\ (j \in lines => j <= i)
  <2>1. FirstFenced(lines, g) = [j \in Idx |-> IF P(j) THEN inv[j] ELSE nlog[j]]
    BY DEF FirstFenced
  <2>2. inv \in [Idx -> Entries]
    BY <1>3
  <2> HIDE DEF inv, P
  <2>3. QED
    BY <1>1, <2>1, <2>2
<1>5. QED
  BY <1>3, <1>4

\* What is logged is an entry.
LEMMA EntryType ==
  ASSUME TypeOK, NEW t \in Tasks, NEW k, NEW kind \in Kinds, NEW o \in Objs \cup {None}
  PROVE  EntryOf(t, k, kind, o) \in Entries
<1>1. trans[t].gen \in 0 .. MaxGen
  BY DEF TypeOK, TransType
<1>2. (IF o = None THEN 0 ELSE mem[o]) \in Tids
  BY JournalAssumption DEF TypeOK, DataType, Tids
<1>3. (kind \cup (IF k = 0 THEN {"start"} ELSE {})) \in Kinds
  BY DEF Kinds
<1>4. QED
  BY <1>1, <1>2, <1>3 DEF EntryOf, Entries

\* A turn of recovery goes back over a run of entries.
LEMMA RecoverySteps ==
  ASSUME TypeOK, RecoverStep
  PROVE  /\ phase = "recovering"
         /\ \E b \in Idx, i \in Idx, g \in 1 .. MaxGen :
              /\ b <= i
              /\ walk' = [tail |-> b, gen |-> g]
              /\ mem' \in {Undone(b .. i, g), mem}
              /\ log' = Invalidated(b .. i, g)
              /\ nlog' \in {FirstFenced(b .. i, g), nlog}
              /\ nmem' \in {mem', nmem}
         /\ UNCHANGED <<phase, hdr, nhdr, trans, cleaner, tids, crashes, past>>
<1> DEFINE g == IF walk.tail = 0 THEN PrevGen(walk.gen) ELSE walk.gen
           i == PrevEntry(walk.tail)
           lines == IF log[i].gen = g THEN Backward(i, g) ELSE {i}
           undo == log[i].gen = g /\ Unfinished(lines, g)
<1>1. /\ walk' = [tail |-> Lowest(lines), gen |-> g]
      /\ mem' = IF undo THEN Undone(lines, g) ELSE mem
      /\ log' = Invalidated(lines, g)
      /\ nlog' = IF log[i].gen = g THEN FirstFenced(lines, g) ELSE nlog
      /\ nmem' = IF g = MaxGen /\ undo THEN mem' ELSE nmem
  BY DEF RecoverStep
<1>2. g \in 1 .. MaxGen /\ i \in Idx
  <2>1. walk.tail \in Idx /\ walk.gen \in 1 .. MaxGen
    BY DEF TypeOK
  <2>2. walk.gen \in 0 .. MaxGen /\ walk.gen # 0
    BY <2>1, JournalAssumption
  <2>3. QED
    BY <2>1, <2>2, Around, Generations
<1>3. PICK b \in Idx : b <= i /\ lines = b .. i
  <2>1. CASE log[i].gen = g
    <3>1. PICK b \in Idx : b <= i /\ Backward(i, g) = b .. i
      <4> HIDE DEF i, g
      <4> QED
        BY <1>2, BackwardIsRun
    <3>2. QED
      BY <2>1, <3>1
  <2>2. CASE log[i].gen # g
    <3>1. {i} = i .. i /\ i <= i
      <4> HIDE DEF i, g
      <4> QED
        BY <1>2 DEF Idx
    <3>2. QED
      BY <1>2, <2>2, <3>1
  <2>3. QED
    BY <2>1, <2>2
<1> HIDE DEF lines, undo, g, i
<1>4. Lowest(lines) = b
  <2>1. b \in Int /\ i \in Int
    BY <1>2 DEF Idx
  <2>2. QED
    BY <1>3, <2>1, EndsOfRun
<1>5. /\ walk' = [tail |-> b, gen |-> g]
      /\ mem' \in {Undone(b .. i, g), mem}
      /\ log' = Invalidated(b .. i, g)
      /\ nlog' \in {FirstFenced(b .. i, g), nlog}
      /\ nmem' \in {mem', nmem}
  BY <1>1, <1>3, <1>4
<1>6. QED
  BY <1>2, <1>3, <1>5 DEF RecoverStep

(***************************************************************************)
(* The types.                                                              *)
(***************************************************************************)
\* The header stays in the journal.
LEMMA HeaderTypeStep ==
  ASSUME IInv, [Next]_vars
  PROVE  HeaderType'
<1>1. ASSUME NEW t \in Tasks, NewTransaction(t)
      PROVE  HeaderType'
  <2>1. PICK r \in TransType :
          /\ r.size > 0 /\ r.used < r.size
          /\ \/ r.head = hdr.head /\ \A u \in Tasks : trans[u].pc # "wrapped"
             \/ r = trans[t] /\ r.pc = "wrapped"
          /\ Fails(t) \/ Wraps(t, r) \/ Takes(t, r)
    BY <1>1, Reservations
  <2>2. /\ hdr \in [head : Idx, tail : Idx, gen : 1 .. MaxGen]
        /\ nhdr \in [head : Idx, tail : Idx, gen : 1 .. MaxGen]
    BY DEF IInv, TypeOK, HeaderType
  <2>3. hdr.gen \in 0 .. MaxGen
    BY <2>2, JournalAssumption
  <2>4. NextGen(hdr.gen) \in 1 .. MaxGen /\ 0 \in Idx
    BY <2>3, Generations, JournalAssumption DEF Idx
  <2>5. CASE Fails(t)
    BY <2>2, <2>5 DEF Fails, HeaderType
  <2>6. CASE Wraps(t, r)
    BY <2>2, <2>4, <2>6 DEF Wraps, HeaderType
  <2>7. CASE Takes(t, r)
    <3>1. hdr.tail + r.size \in Idx
      BY <2>1, <2>2, <2>7, JournalAssumption DEF Takes, TransType, Idx
    <3>2. QED
      BY <2>2, <2>7, <3>1 DEF Takes, HeaderType
  <2>8. QED
    BY <2>1, <2>5, <2>6, <2>7
<1>2. ASSUME NEW t \in Tasks, Again(t)
      PROVE  HeaderType'
  <2>1. PICK r \in TransType :
          /\ r.size > 0 /\ r.used < r.size
          /\ \/ r.head = hdr.head /\ \A u \in Tasks : trans[u].pc # "wrapped"
             \/ r = trans[t] /\ r.pc = "wrapped"
          /\ Fails(t) \/ Wraps(t, r) \/ Takes(t, r)
    BY <1>2, Reservations
  <2>2. /\ hdr \in [head : Idx, tail : Idx, gen : 1 .. MaxGen]
        /\ nhdr \in [head : Idx, tail : Idx, gen : 1 .. MaxGen]
    BY DEF IInv, TypeOK, HeaderType
  <2>3. hdr.gen \in 0 .. MaxGen
    BY <2>2, JournalAssumption
  <2>4. NextGen(hdr.gen) \in 1 .. MaxGen /\ 0 \in Idx
    BY <2>3, Generations, JournalAssumption DEF Idx
  <2>5. CASE Fails(t)
    BY <2>2, <2>5 DEF Fails, HeaderType
  <2>6. CASE Wraps(t, r)
    BY <2>2, <2>4, <2>6 DEF Wraps, HeaderType
  <2>7. CASE Takes(t, r)
    <3>1. hdr.tail + r.size \in Idx
      BY <2>1, <2>2, <2>7, JournalAssumption DEF Takes, TransType, Idx
    <3>2. QED
      BY <2>2, <2>7, <3>1 DEF Takes, HeaderType
  <2>8. QED
    BY <2>1, <2>5, <2>6, <2>7
<1>3. CASE CleanHead
  BY <1>3 DEF CleanHead, CleanerType, IInv, TypeOK, HeaderType
<1>4. CASE CleanEnd
  BY <1>4 DEF CleanEnd, IInv, TypeOK, HeaderType
<1>5. CASE ForwardGen
  <2>1. hdr.gen \in 0 .. MaxGen
    BY JournalAssumption DEF IInv, TypeOK, HeaderType
  <2>2. NextGen(hdr.gen) \in 1 .. MaxGen
    BY <2>1, Generations
  <2>3. QED
    BY <1>5, <2>2 DEF ForwardGen, IInv, TypeOK, HeaderType
<1>6. CASE ForwardHead
  BY <1>6 DEF ForwardHead, IInv, TypeOK, HeaderType
<1>7. CASE ForwardFence
  BY <1>7 DEF ForwardFence, IInv, TypeOK, HeaderType
<1>8. CASE Crash
  BY <1>8 DEF Crash, IInv, TypeOK, HeaderType
<1>9. CASE WriteBackHeader
  BY <1>9 DEF WriteBackHeader, IInv, TypeOK, HeaderType
<1>10. ASSUME NEW t \in Tasks, AddLogEntry(t) \/ LogFence(t) \/ Store(t) \/ Commit(t)
            \/ Abort(t) \/ LastFence(t)
      PROVE  HeaderType'
  BY <1>10 DEF AddLogEntry, LogFence, Store, Commit, Abort, LastFence,
     journal, IInv, TypeOK, HeaderType
<1>11. CASE CleanStart \/ CleanStep \/ Unmount \/ Mount \/ RecoverStep
            \/ ForwardInvalidate \/ Mounted \/ UNCHANGED vars
  BY <1>11 DEF vars, CleanStart, CleanStep, Unmount, Mount, RecoverStep,
     ForwardInvalidate, Mounted, journal, IInv, TypeOK, HeaderType
<1>12. QED
  BY <1>1, <1>2, <1>3, <1>4, <1>5, <1>6,
     <1>7, <1>8, <1>9, <1>10, <1>11 DEF Next, TaskStep, Cleaning, Recovery

\* The log keeps its entries.
LEMMA LogTypeStep ==
  ASSUME IInv, [Next]_vars
  PROVE  LogType'
<1> USE DEF LogType
<1>1. ASSUME NEW t \in Tasks, AddLogEntry(t)
      PROVE  LogType'
  <2>1. PICK objs \in SUBSET Objs, n \in Nat :
          \E ord \in [0 .. n - 1 -> objs] :
            /\ trans[t].used + n < trans[t].size /\ objs \subseteq trans[t].objs
            /\ \A o \in objs : \E k \in 0 .. n - 1 : ord[k] = o
            /\ log' = [i \in Idx |->
                 IF i - EntryAt(t) \in 0 .. n - 1
                 THEN EntryOf(t, i - trans[t].start, {}, ord[i - EntryAt(t)]) ELSE log[i]]
            /\ trans' = [trans EXCEPT ![t].pc = "log", ![t].logged = @ \cup objs,
                                      ![t].used = @ + n]
    BY <1>1, Logs
  <2>2. PICK ord \in [0 .. n - 1 -> objs] :
          log' = [i \in Idx |->
            IF i - EntryAt(t) \in 0 .. n - 1
            THEN EntryOf(t, i - trans[t].start, {}, ord[i - EntryAt(t)]) ELSE log[i]]
    BY <2>1
  <2>3. ASSUME NEW i \in Idx, i - EntryAt(t) \in 0 .. n - 1
        PROVE  EntryOf(t, i - trans[t].start, {}, ord[i - EntryAt(t)]) \in Entries
    <3>1. ord[i - EntryAt(t)] \in Objs \cup {None} /\ {} \in Kinds
      BY <2>3 DEF Kinds
    <3>2. QED
      BY <3>1, EntryType DEF IInv
  <2>4. log' \in [Idx -> Entries]
    BY <2>2, <2>3 DEF IInv, TypeOK
  <2>5. QED
    BY <1>1, <2>4 DEF AddLogEntry, IInv, TypeOK
<1>2. ASSUME NEW t \in Tasks, LogFence(t)
      PROVE  LogType'
  <2>1. nlog' \in [Idx -> Entries]
    BY <1>2 DEF LogFence, LogFlushed, IInv, TypeOK
  <2>2. QED
    BY <1>2, <2>1 DEF LogFence, IInv, TypeOK
<1>3. ASSUME NEW t \in Tasks, Commit(t)
      PROVE  LogType'
  <2>1. EntryOf(t, trans[t].used, {"commit"}, None) \in Entries
    BY EntryType DEF Kinds, IInv
  <2>2. log' = [log EXCEPT ![EntryAt(t)] = EntryOf(t, trans[t].used, {"commit"}, None)] /\ nlog' = nlog
    BY <1>3 DEF Commit, LastEntry
  <2>3. QED
    BY <2>1, <2>2 DEF IInv, TypeOK
<1>4. ASSUME NEW t \in Tasks, Abort(t)
      PROVE  LogType'
  <2>1. EntryOf(t, trans[t].used, {"abort"}, None) \in Entries
    BY EntryType DEF Kinds, IInv
  <2>2. log' = [log EXCEPT ![EntryAt(t)] = EntryOf(t, trans[t].used, {"abort"}, None)] /\ nlog' = nlog
    BY <1>4 DEF Abort, LastEntry
  <2>3. QED
    BY <2>1, <2>2 DEF IInv, TypeOK
<1>5. ASSUME NEW t \in Tasks, LastFence(t)
      PROVE  LogType'
  <2>1. nlog' \in [Idx -> Entries]
    BY <1>5 DEF LastFence, LogFlushed, IInv, TypeOK
  <2>2. QED
    BY <1>5, <2>1 DEF LastFence, IInv, TypeOK
<1>6. CASE CleanStep
  <2>1. \/ /\ cleaner' = [cleaner EXCEPT !.pc = "store"]
           /\ UNCHANGED <<log, nlog, trans>>
        \/ \E e \in Idx :
             /\ cleaner.head # cleaner.tail /\ cleaner.head <= e
             /\ cleaner.head < cleaner.tail => e < cleaner.tail
             /\ cleaner' = [cleaner EXCEPT
                  !.head = IF e = JSize - 1 THEN 0 ELSE e + 1,
                  !.gen = IF (IF e = JSize - 1 THEN 0 ELSE e + 1) = 0 THEN NextGen(@) ELSE @]
             /\ trans' = [t \in Tasks |-> [trans[t] EXCEPT !.skipped =
                  @ \/ (Active(t) /\ Reserved(t) \cap (cleaner.head .. e) # {})]]
             /\ \/ UNCHANGED <<log, nlog>>
                \/ /\ log' = Invalidated(cleaner.head .. e, cleaner.gen)
                   /\ nlog' \in {FirstFenced(cleaner.head .. e, cleaner.gen), nlog}
    BY <1>6, CleanerSteps DEF IInv
  <2>2. ASSUME NEW e \in Idx
        PROVE  /\ Invalidated(cleaner.head .. e, cleaner.gen) \in [Idx -> Entries]
               /\ FirstFenced(cleaner.head .. e, cleaner.gen) \in [Idx -> Entries]
    BY InvalidatedType DEF IInv
  <2>3. log \in [Idx -> Entries] /\ nlog \in [Idx -> Entries]
    BY DEF IInv, TypeOK
  <2>4. log' \in [Idx -> Entries] /\ nlog' \in [Idx -> Entries]
    <3>1. CASE UNCHANGED <<log, nlog>>
      BY <2>3, <3>1
    <3>2. ASSUME NEW e \in Idx,
                 log' = Invalidated(cleaner.head .. e, cleaner.gen),
                 nlog' \in {FirstFenced(cleaner.head .. e, cleaner.gen), nlog}
          PROVE  log' \in [Idx -> Entries] /\ nlog' \in [Idx -> Entries]
      BY <2>2, <2>3, <3>2, Zenon
    <3>3. QED
      BY <2>1, <3>1, <3>2
  <2>5. QED
    BY <2>4
<1>7. CASE CleanHead
  <2>1. nlog' \in [Idx -> Entries]
    BY <1>7 DEF CleanHead, IInv, TypeOK
  <2>2. QED
    BY <1>7, <2>1 DEF CleanHead, IInv, TypeOK
<1>8. CASE RecoverStep
  <2>1. PICK b \in Idx, i \in Idx, g \in 1 .. MaxGen :
          /\ b <= i
          /\ walk' = [tail |-> b, gen |-> g]
          /\ mem' \in {Undone(b .. i, g), mem}
          /\ log' = Invalidated(b .. i, g)
          /\ nlog' \in {FirstFenced(b .. i, g), nlog}
          /\ nmem' \in {mem', nmem}
    BY <1>8, RecoverySteps DEF IInv
  <2>2. QED
    BY <2>1, InvalidatedType DEF IInv, TypeOK
<1>9. CASE ForwardInvalidate
  <2>1. log' \in [Idx -> Entries]
    BY <1>9, InvalidatedType DEF ForwardInvalidate, IInv
  <2>2. QED
    BY <1>9, <2>1 DEF ForwardInvalidate, IInv, TypeOK
<1>10. CASE ForwardGen
  BY <1>10 DEF ForwardGen, IInv, TypeOK
<1>11. CASE Crash
  <2>1. PICK I \in SUBSET {i \in Idx : nlog[i] # log[i]} :
          nlog' = [i \in Idx |-> IF i \in I THEN log[i] ELSE nlog[i]]
    BY <1>11 DEF Crash
  <2>2. nlog' \in [Idx -> Entries] /\ log' = nlog'
    BY <1>11, <2>1 DEF Crash, IInv, TypeOK
  <2>3. QED
    BY <2>2
<1>12. ASSUME NEW t \in Tasks, NewTransaction(t) \/ Again(t) \/ Store(t)
      PROVE  LogType'
  BY <1>12 DEF NewTransaction, Again, Store, journal, IInv, TypeOK
<1>13. CASE CleanStart \/ CleanEnd \/ Unmount \/ Mount \/ ForwardHead
            \/ ForwardFence \/ Mounted \/ WriteBackHeader
            \/ UNCHANGED vars
  BY <1>13 DEF vars, CleanStart, CleanEnd, Unmount, Mount, ForwardHead,
     ForwardFence, Mounted, WriteBackHeader, journal, IInv, TypeOK
<1> HIDE DEF LogType
<1>14. QED
  BY <1>1, <1>2, <1>3, <1>4, <1>5, <1>6, <1>7,
     <1>8, <1>9, <1>10, <1>11, <1>12, <1>13 DEF Next, TaskStep, Cleaning, Recovery

\* The meta-data come from transactions.
LEMMA DataTypeStep ==
  ASSUME IInv, [Next]_vars
  PROVE  DataType'
<1> USE DEF DataType, IInv, TypeOK
<1>1. ASSUME NEW t \in Tasks, Store(t)
      PROVE  DataType'
  <2>1. trans[t].tid \in Tids
    BY DEF TransType
  <2>2. QED
    BY <1>1, <2>1 DEF Store
<1>2. ASSUME NEW t \in Tasks, Commit(t)
      PROVE  DataType'
  BY <1>2 DEF Commit, CommittedData
<1>3. ASSUME NEW t \in Tasks, Abort(t)
      PROVE  DataType'
  <2>1. Written(t) \subseteq Idx
    BY <1>3, JournalAssumption DEF EntriesFit, Abort, Running, Reserved, Written, TransType, Idx
  <2>2. mem' \in [Objs -> Tids]
    BY <1>3, <2>1, UndoneType DEF Abort
  <2>3. QED
    BY <1>3, <2>2 DEF Abort
<1>4. CASE RecoverStep
  <2>1. PICK b \in Idx, i \in Idx, g \in 1 .. MaxGen :
          /\ b <= i
          /\ walk' = [tail |-> b, gen |-> g]
          /\ mem' \in {Undone(b .. i, g), mem}
          /\ log' = Invalidated(b .. i, g)
          /\ nlog' \in {FirstFenced(b .. i, g), nlog}
          /\ nmem' \in {mem', nmem}
    BY <1>4, RecoverySteps DEF IInv
  <2>2. b .. i \in SUBSET Idx
    BY <2>1, JournalAssumption DEF Idx
  <2>3. Undone(b .. i, g) \in [Objs -> Tids]
    BY <2>2, UndoneType
  <2>4. QED
    BY <2>1, <2>3
<1>5. CASE ForwardGen
  BY <1>5 DEF ForwardGen
<1>6. CASE Crash
  <2>1. PICK O \in SUBSET {o \in Objs : nmem[o] # mem[o]} :
          nmem' = [o \in Objs |-> IF o \in O THEN mem[o] ELSE nmem[o]]
    BY <1>6 DEF Crash
  <2>2. nmem' \in [Objs -> Tids] /\ mem' = nmem'
    BY <1>6, <2>1 DEF Crash
  <2>3. QED
    BY <2>2
<1>7. ASSUME NEW t \in Tasks, NewTransaction(t) \/ Again(t) \/ AddLogEntry(t) \/ LogFence(t)
            \/ LastFence(t)
      PROVE  DataType'
  BY <1>7 DEF NewTransaction, Again, AddLogEntry, LogFence, LastFence, data
<1>8. CASE CleanStart \/ CleanStep \/ CleanHead \/ CleanEnd \/ Unmount
            \/ Mount \/ ForwardInvalidate \/ ForwardHead \/ ForwardFence
            \/ Mounted \/ WriteBackHeader \/ UNCHANGED vars
  BY <1>8 DEF vars, CleanStart, CleanStep, CleanHead, CleanEnd, Unmount,
     Mount, ForwardInvalidate, ForwardHead, ForwardFence, Mounted,
     WriteBackHeader, data
<1> HIDE DEF DataType, IInv, TypeOK
<1>9. QED
  BY <1>1, <1>2, <1>3, <1>4, <1>5,
     <1>6, <1>7, <1>8 DEF Next, TaskStep, Cleaning, Recovery

\* A transaction is one, and its entries are in the journal.
Entered == trans \in [Tasks -> TransType] /\ EntriesFit

\* Transactions stay transactions.
LEMMA TransTypeStep ==
  ASSUME IInv, [Next]_vars
  PROVE  Entered'
<1>1. ASSUME NEW t \in Tasks, NewTransaction(t)
      PROVE  Entered'
  <2>1. PICK r \in TransType :
          /\ r.size > 0 /\ r.used < r.size
          /\ \/ r.head = hdr.head /\ \A u \in Tasks : trans[u].pc # "wrapped"
             \/ r = trans[t] /\ r.pc = "wrapped"
          /\ Fails(t) \/ Wraps(t, r) \/ Takes(t, r)
    BY <1>1, Reservations
  <2>2. hdr.tail \in Idx /\ hdr.gen \in 0 .. MaxGen
    BY JournalAssumption DEF IInv, TypeOK, HeaderType
  <2>3. CASE Fails(t)
    <3>1. NoTrans \in TransType
      BY JournalAssumption DEF NoTrans, TransType, Tids, Idx
    <3>2. QED
      BY <2>3, <3>1 DEF Fails, Entered, EntriesFit, NoTrans, IInv, TypeOK
  <2>4. CASE Wraps(t, r)
    <3>1. [r EXCEPT !.pc = "wrapped"] \in TransType
      BY DEF TransType
    <3>2. QED
      BY <2>1, <2>4, <3>1 DEF Wraps, Entered, EntriesFit, IInv, TypeOK, TransType
  <2>5. CASE Takes(t, r)
    <3>1. [r EXCEPT !.pc = "run", !.start = hdr.tail, !.gen = hdr.gen] \in TransType
      BY <2>2 DEF TransType
    <3>2. QED
      BY <2>1, <2>5, <3>1 DEF Takes, Entered, EntriesFit, IInv, TypeOK, TransType
  <2>6. QED
    BY <2>1, <2>3, <2>4, <2>5
<1>2. ASSUME NEW t \in Tasks, Again(t)
      PROVE  Entered'
  <2>1. PICK r \in TransType :
          /\ r.size > 0 /\ r.used < r.size
          /\ \/ r.head = hdr.head /\ \A u \in Tasks : trans[u].pc # "wrapped"
             \/ r = trans[t] /\ r.pc = "wrapped"
          /\ Fails(t) \/ Wraps(t, r) \/ Takes(t, r)
    BY <1>2, Reservations
  <2>2. hdr.tail \in Idx /\ hdr.gen \in 0 .. MaxGen
    BY JournalAssumption DEF IInv, TypeOK, HeaderType
  <2>3. CASE Fails(t)
    <3>1. NoTrans \in TransType
      BY JournalAssumption DEF NoTrans, TransType, Tids, Idx
    <3>2. QED
      BY <2>3, <3>1 DEF Fails, Entered, EntriesFit, NoTrans, IInv, TypeOK
  <2>4. CASE Wraps(t, r)
    <3>1. [r EXCEPT !.pc = "wrapped"] \in TransType
      BY DEF TransType
    <3>2. QED
      BY <2>1, <2>4, <3>1 DEF Wraps, Entered, EntriesFit, IInv, TypeOK, TransType
  <2>5. CASE Takes(t, r)
    <3>1. [r EXCEPT !.pc = "run", !.start = hdr.tail, !.gen = hdr.gen] \in TransType
      BY <2>2 DEF TransType
    <3>2. QED
      BY <2>1, <2>5, <3>1 DEF Takes, Entered, EntriesFit, IInv, TypeOK, TransType
  <2>6. QED
    BY <2>1, <2>3, <2>4, <2>5
<1>3. ASSUME NEW t \in Tasks, AddLogEntry(t)
      PROVE  Entered'
  <2>1. PICK objs \in SUBSET Objs, n \in Nat :
          \E ord \in [0 .. n - 1 -> objs] :
            /\ trans[t].used + n < trans[t].size /\ objs \subseteq trans[t].objs
            /\ \A o \in objs : \E k \in 0 .. n - 1 : ord[k] = o
            /\ log' = [i \in Idx |->
                 IF i - EntryAt(t) \in 0 .. n - 1
                 THEN EntryOf(t, i - trans[t].start, {}, ord[i - EntryAt(t)]) ELSE log[i]]
            /\ trans' = [trans EXCEPT ![t].pc = "log", ![t].logged = @ \cup objs,
                                      ![t].used = @ + n]
    BY <1>3, Logs
  <2>2. /\ trans[t].used + n < trans[t].size
        /\ trans' = [trans EXCEPT ![t].pc = "log", ![t].logged = @ \cup objs,
                                  ![t].used = @ + n]
    BY <2>1
  <2>3. trans[t].used + n \in 0 .. MaxEntries + 1
    BY <2>2, JournalAssumption DEF IInv, TypeOK, TransType
  <2>4. trans[t].pc = "run"
    BY <1>3 DEF AddLogEntry, Running
  <2>5. trans[t].logged \cup objs \in SUBSET Objs
    BY DEF IInv, TypeOK, TransType
  <2>6. trans' \in [Tasks -> TransType]
    <3> DEFINE l == trans[t].logged \cup objs
               k == trans[t].used + n
               r == [trans[t] EXCEPT !.pc = "log", !.logged = l, !.used = k]
    <3>1. trans \in [Tasks -> TransType]
      BY DEF IInv, TypeOK
    <3>2. trans' = [trans EXCEPT ![t] = r]
      BY <2>2, <3>1
    <3>3. l \in SUBSET Objs /\ k \in 0 .. MaxEntries + 1
      BY <2>3, <2>5
    <3> HIDE DEF l, k
    <3>4. r \in TransType
      <4> PICK o : o = trans[t]
        OBVIOUS
      <4>1. o \in TransType
        BY <3>1
      <4>2. [o EXCEPT !.pc = "log", !.logged = l, !.used = k] \in TransType
        BY <3>3, <4>1 DEF TransType
      <4> QED
        BY <4>2
    <3>5. QED
      BY <3>1, <3>2, <3>4
  <2>7. EntriesFit'
    BY <2>2, <2>3, <2>4 DEF IInv, TypeOK, EntriesFit, TransType
  <2>8. QED
    BY <2>6, <2>7 DEF Entered
<1>4. ASSUME NEW t \in Tasks, LogFence(t)
      PROVE  Entered'
  BY <1>4 DEF LogFence, Entered, IInv, TypeOK, EntriesFit, TransType
<1>5. ASSUME NEW t \in Tasks, Commit(t)
      PROVE  Entered'
  <2>1. /\ trans[t].pc = "run"
        /\ trans' = [trans EXCEPT ![t].pc = "end", ![t].used = @ + 1, ![t].kind = "commit"]
    BY <1>5 DEF Commit, Running, LastEntry
  <2>2. trans[t].used + 1 \in 0 .. MaxEntries + 1 /\ trans[t].used + 1 <= trans[t].size
    BY <2>1, JournalAssumption DEF IInv, TypeOK, EntriesFit, TransType
  <2>3. QED
    BY <2>1, <2>2 DEF Entered, IInv, TypeOK, EntriesFit, TransType
<1>6. ASSUME NEW t \in Tasks, Abort(t)
      PROVE  Entered'
  <2>1. /\ trans[t].pc = "run"
        /\ trans' = [trans EXCEPT ![t].pc = "end", ![t].used = @ + 1, ![t].kind = "abort"]
    BY <1>6 DEF Abort, Running, LastEntry
  <2>2. trans[t].used + 1 \in 0 .. MaxEntries + 1 /\ trans[t].used + 1 <= trans[t].size
    BY <2>1, JournalAssumption DEF IInv, TypeOK, EntriesFit, TransType
  <2>3. QED
    BY <2>1, <2>2 DEF Entered, IInv, TypeOK, EntriesFit, TransType
<1>7. ASSUME NEW t \in Tasks, LastFence(t)
      PROVE  Entered'
  <2>1. NoTrans \in TransType
    BY JournalAssumption DEF NoTrans, TransType, Tids, Idx
  <2>2. QED
    BY <1>7, <2>1 DEF LastFence, Entered, IInv, TypeOK, EntriesFit, NoTrans
<1>8. CASE CleanStep
  <2>1. \/ /\ cleaner' = [cleaner EXCEPT !.pc = "store"]
           /\ UNCHANGED <<log, nlog, trans>>
        \/ \E e \in Idx :
             /\ cleaner.head # cleaner.tail /\ cleaner.head <= e
             /\ cleaner.head < cleaner.tail => e < cleaner.tail
             /\ cleaner' = [cleaner EXCEPT
                  !.head = IF e = JSize - 1 THEN 0 ELSE e + 1,
                  !.gen = IF (IF e = JSize - 1 THEN 0 ELSE e + 1) = 0 THEN NextGen(@) ELSE @]
             /\ trans' = [t \in Tasks |-> [trans[t] EXCEPT !.skipped =
                  @ \/ (Active(t) /\ Reserved(t) \cap (cleaner.head .. e) # {})]]
             /\ \/ UNCHANGED <<log, nlog>>
                \/ /\ log' = Invalidated(cleaner.head .. e, cleaner.gen)
                   /\ nlog' \in {FirstFenced(cleaner.head .. e, cleaner.gen), nlog}
    BY <1>8, CleanerSteps DEF IInv
  <2>2. CASE UNCHANGED trans
    BY <2>2 DEF Entered, IInv, TypeOK, EntriesFit
  <2>3. ASSUME NEW e \in Idx,
               trans' = [t \in Tasks |-> [trans[t] EXCEPT !.skipped =
                 @ \/ (Active(t) /\ Reserved(t) \cap (cleaner.head .. e) # {})]]
        PROVE  Entered'
    <3> DEFINE skips(t) == trans[t].skipped \/ (Active(t) /\ Reserved(t) \cap (cleaner.head .. e) # {})
    <3>1. \A t \in Tasks : skips(t) \in BOOLEAN
      BY DEF IInv, TypeOK, TransType
    <3>2. trans' = [t \in Tasks |-> [trans[t] EXCEPT !.skipped = skips(t)]]
      BY <2>3
    <3> HIDE DEF skips
    <3>3. QED
      BY <3>1, <3>2 DEF Entered, IInv, TypeOK, EntriesFit, TransType
  <2>4. QED
    BY <2>1, <2>2, <2>3
<1>9. CASE Crash
  <2>1. NoTrans \in TransType
    BY JournalAssumption DEF NoTrans, TransType, Tids, Idx
  <2>2. QED
    BY <1>9, <2>1 DEF Crash, Entered, EntriesFit, NoTrans
<1>10. ASSUME NEW t \in Tasks, Store(t)
      PROVE  Entered'
  BY <1>10 DEF Store, Entered, IInv, TypeOK, EntriesFit
<1>11. CASE CleanStart \/ CleanHead \/ CleanEnd \/ Unmount \/ Mount
            \/ RecoverStep \/ ForwardInvalidate \/ ForwardGen
            \/ ForwardHead \/ ForwardFence \/ Mounted \/ WriteBackHeader
            \/ UNCHANGED vars
  BY <1>11 DEF vars, CleanStart, CleanHead, CleanEnd, Unmount, Mount,
     RecoverStep, ForwardInvalidate, ForwardGen, ForwardHead,
     ForwardFence, Mounted, WriteBackHeader, Entered, IInv, TypeOK,
     EntriesFit
<1>12. QED
  BY <1>1, <1>2, <1>3, <1>4, <1>5, <1>6,
     <1>7, <1>8, <1>9, <1>10, <1>11 DEF Next, TaskStep, Cleaning, Recovery

\* The cleaner stays in the journal.
LEMMA CleanerTypeStep ==
  ASSUME IInv, [Next]_vars
  PROVE  CleanerType'
<1>1. ASSUME NEW t \in Tasks, NewTransaction(t)
      PROVE  CleanerType'
  <2>1. PICK r \in TransType :
          /\ r.size > 0 /\ r.used < r.size
          /\ \/ r.head = hdr.head /\ \A u \in Tasks : trans[u].pc # "wrapped"
             \/ r = trans[t] /\ r.pc = "wrapped"
          /\ Fails(t) \/ Wraps(t, r) \/ Takes(t, r)
    BY <1>1, Reservations
  <2>2. CASE UNCHANGED cleaner
    BY <2>2 DEF IInv, TypeOK, CleanerType
  <2>3. CASE cleaner' = [cleaner EXCEPT !.pc = "woken"]
    BY <2>3 DEF IInv, TypeOK, CleanerType
  <2>4. QED
    BY <2>1, <2>2, <2>3 DEF Fails, Wraps, Takes
<1>2. ASSUME NEW t \in Tasks, Again(t)
      PROVE  CleanerType'
  <2>1. PICK r \in TransType :
          /\ r.size > 0 /\ r.used < r.size
          /\ \/ r.head = hdr.head /\ \A u \in Tasks : trans[u].pc # "wrapped"
             \/ r = trans[t] /\ r.pc = "wrapped"
          /\ Fails(t) \/ Wraps(t, r) \/ Takes(t, r)
    BY <1>2, Reservations
  <2>2. CASE UNCHANGED cleaner
    BY <2>2 DEF IInv, TypeOK, CleanerType
  <2>3. CASE cleaner' = [cleaner EXCEPT !.pc = "woken"]
    BY <2>3 DEF IInv, TypeOK, CleanerType
  <2>4. QED
    BY <2>1, <2>2, <2>3 DEF Fails, Wraps, Takes
<1>3. CASE CleanStart
  <2>1. hdr \in [head : Idx, tail : Idx, gen : 1 .. MaxGen]
    BY DEF IInv, TypeOK, HeaderType
  <2>2. hdr.gen \in 0 .. MaxGen /\ hdr.gen # 0
    BY <2>1, JournalAssumption
  <2>3. LapOfCleaner(hdr) \in 0 .. MaxGen
    BY <2>2, Generations, JournalAssumption DEF LapOfCleaner
  <2>4. QED
    BY <1>3, <2>1, <2>3 DEF CleanStart, IInv, TypeOK, CleanerType
<1>4. CASE CleanStep
  <2>1. \/ /\ cleaner' = [cleaner EXCEPT !.pc = "store"]
           /\ UNCHANGED <<log, nlog, trans>>
        \/ \E e \in Idx :
             /\ cleaner.head # cleaner.tail /\ cleaner.head <= e
             /\ cleaner.head < cleaner.tail => e < cleaner.tail
             /\ cleaner' = [cleaner EXCEPT
                  !.head = IF e = JSize - 1 THEN 0 ELSE e + 1,
                  !.gen = IF (IF e = JSize - 1 THEN 0 ELSE e + 1) = 0 THEN NextGen(@) ELSE @]
             /\ trans' = [t \in Tasks |-> [trans[t] EXCEPT !.skipped =
                  @ \/ (Active(t) /\ Reserved(t) \cap (cleaner.head .. e) # {})]]
             /\ \/ UNCHANGED <<log, nlog>>
                \/ /\ log' = Invalidated(cleaner.head .. e, cleaner.gen)
                   /\ nlog' \in {FirstFenced(cleaner.head .. e, cleaner.gen), nlog}
    BY <1>4, CleanerSteps DEF IInv
  <2>2. CASE cleaner' = [cleaner EXCEPT !.pc = "store"]
    BY <2>2 DEF IInv, TypeOK, CleanerType
  <2>3. ASSUME NEW e \in Idx,
               cleaner' = [cleaner EXCEPT
                 !.head = IF e = JSize - 1 THEN 0 ELSE e + 1,
                 !.gen = IF (IF e = JSize - 1 THEN 0 ELSE e + 1) = 0 THEN NextGen(@) ELSE @]
        PROVE  CleanerType'
    <3>1. (IF e = JSize - 1 THEN 0 ELSE e + 1) \in Idx
      BY <2>3, JournalAssumption DEF Idx
    <3>2. cleaner.gen \in 0 .. MaxGen
      BY DEF IInv, TypeOK, CleanerType
    <3>3. NextGen(cleaner.gen) \in 0 .. MaxGen
      BY <3>2, Generations, JournalAssumption
    <3>4. QED
      BY <2>3, <3>1, <3>2, <3>3 DEF IInv, TypeOK, CleanerType
  <2>4. QED
    BY <2>1, <2>2, <2>3
<1>5. CASE CleanHead
  BY <1>5 DEF CleanHead, IInv, TypeOK, CleanerType
<1>6. CASE CleanEnd
  <2>1. Asleep \in [pc : {"asleep", "woken", "scan", "store", "fence"}, head : Idx, tail : Idx,
                    gen : 0 .. MaxGen, last : BOOLEAN]
    BY JournalAssumption DEF Asleep, Idx
  <2>2. QED
    BY <1>6, <2>1 DEF CleanEnd, CleanerType
<1>7. CASE Unmount
  <2>1. cleaner' = cleaner \/ cleaner' = [cleaner EXCEPT !.pc = "woken", !.last = TRUE]
    BY <1>7 DEF Unmount
  <2>2. QED
    BY <2>1 DEF IInv, TypeOK, CleanerType
<1>8. CASE Crash
  <2>1. Asleep \in [pc : {"asleep", "woken", "scan", "store", "fence"}, head : Idx, tail : Idx,
                    gen : 0 .. MaxGen, last : BOOLEAN]
    BY JournalAssumption DEF Asleep, Idx
  <2>2. QED
    BY <1>8, <2>1 DEF Crash, CleanerType
<1>9. ASSUME NEW t \in Tasks, AddLogEntry(t) \/ LogFence(t) \/ Store(t) \/ Commit(t)
            \/ Abort(t) \/ LastFence(t)
      PROVE  CleanerType'
  BY <1>9 DEF AddLogEntry, LogFence, Store, Commit, Abort, LastFence, IInv,
     TypeOK, CleanerType
<1>10. CASE Mount \/ RecoverStep \/ ForwardInvalidate \/ ForwardGen
            \/ ForwardHead \/ ForwardFence \/ Mounted \/ WriteBackHeader
            \/ UNCHANGED vars
  BY <1>10 DEF vars, Mount, RecoverStep, ForwardInvalidate, ForwardGen,
     ForwardHead, ForwardFence, Mounted, WriteBackHeader, IInv,
     TypeOK, CleanerType
<1>11. QED
  BY <1>1, <1>2, <1>3, <1>4, <1>5, <1>6,
     <1>7, <1>8, <1>9, <1>10 DEF Next, TaskStep, Cleaning, Recovery

\* What is left of the types.
Rest ==
  /\ phase \in Phases /\ PastType
  /\ walk \in [tail : Idx, gen : 1 .. MaxGen]
  /\ tids \in Tids /\ crashes \in 0 .. MaxCrashes

\* The rest of the types.
LEMMA RestStep ==
  ASSUME IInv, [Next]_vars
  PROVE  Rest'
<1>1. ASSUME NEW t \in Tasks, NewTransaction(t)
      PROVE  Rest'
  BY <1>1, Reservations DEF Rest, IInv, TypeOK
<1>2. ASSUME NEW t \in Tasks, Again(t)
      PROVE  Rest'
  BY <1>2, Reservations DEF Rest, IInv, TypeOK
<1>3. ASSUME NEW t \in Tasks, LastFence(t)
      PROVE  Rest'
  <2>1. trans[t].tid \in Tids
    BY DEF IInv, TypeOK, TransType
  <2>2. [o \in Objs |-> IF trans[t].kind = "commit" /\ o \in trans[t].objs THEN trans[t].tid
                        ELSE past.settled[o]] \in [Objs -> Tids]
    BY <2>1 DEF IInv, TypeOK, PastType
  <2>3. PastType'
    BY <1>3, <2>2 DEF LastFence, PastType, IInv, TypeOK
  <2>4. QED
    BY <1>3, <2>3 DEF LastFence, Rest, IInv, TypeOK
<1>4. CASE Mount
  <2>1. walk' \in [tail : Idx, gen : 1 .. MaxGen]
    BY <1>4 DEF Mount, IInv, TypeOK, HeaderType
  <2>2. QED
    BY <1>4, <2>1 DEF Mount, Rest, Phases, PastType, IInv, TypeOK
<1>5. CASE RecoverStep
  <2>1. PICK b \in Idx, i \in Idx, g \in 1 .. MaxGen :
          /\ b <= i
          /\ walk' = [tail |-> b, gen |-> g]
          /\ mem' \in {Undone(b .. i, g), mem}
          /\ log' = Invalidated(b .. i, g)
          /\ nlog' \in {FirstFenced(b .. i, g), nlog}
          /\ nmem' \in {mem', nmem}
    BY <1>5, RecoverySteps DEF IInv
  <2>2. QED
    BY <1>5, <2>1, RecoverySteps DEF Rest, PastType, IInv, TypeOK
<1>6. CASE Mounted
  <2>1. NoWalk \in [tail : Idx, gen : 1 .. MaxGen]
    BY JournalAssumption DEF NoWalk, Idx
  <2>2. mem \in [Objs -> Tids]
    BY DEF IInv, TypeOK, DataType
  <2>3. PastType'
    BY <1>6, <2>2 DEF Mounted, PastType, IInv, TypeOK
  <2>4. QED
    BY <1>6, <2>1, <2>3 DEF Mounted, Rest, Phases, IInv, TypeOK
<1>7. CASE Crash
  <2>1. NoWalk \in [tail : Idx, gen : 1 .. MaxGen]
    BY JournalAssumption DEF NoWalk, Idx
  <2>2. crashes' \in 0 .. MaxCrashes
    BY <1>7, JournalAssumption DEF Crash, MayCrash, IInv, TypeOK
  <2>6. PastType'
    BY <1>7, CrashPast DEF IInv
  <2>7. QED
    BY <1>7, <2>1, <2>2, <2>6 DEF Crash, Rest, Phases, IInv, TypeOK
<1>8. ASSUME NEW t \in Tasks, AddLogEntry(t) \/ LogFence(t) \/ Store(t) \/ Commit(t)
            \/ Abort(t)
      PROVE  Rest'
  BY <1>8 DEF AddLogEntry, LogFence, Store, Commit, Abort, Rest, IInv,
     TypeOK, PastType, Phases
<1>12. CASE ForwardGen
  BY <1>12, ForwardPast DEF ForwardGen, Rest, Phases, IInv, TypeOK
<1>9. CASE CleanStart \/ CleanHead \/ ForwardInvalidate
            \/ ForwardHead \/ ForwardFence
            \/ WriteBackHeader \/ CleanEnd \/ Unmount \/ UNCHANGED vars
  BY <1>9 DEF vars, CleanStart, CleanHead, ForwardInvalidate,
     ForwardGen, ForwardHead, ForwardFence, WriteBackHeader,
     CleanEnd, Unmount, Rest, IInv, TypeOK, PastType, Phases
<1>10. CASE CleanStep
  BY <1>10, CleanerSteps, CleanerPast DEF Rest, IInv, TypeOK
<1>11. QED
  BY <1>1, <1>2, <1>3, <1>4, <1>5,
     <1>6, <1>7, <1>8, <1>9, <1>10, <1>12 DEF Next, TaskStep, Cleaning, Recovery

\* Transactions and the cleaner belong to a mounted volume.
LEMMA StagesStep ==
  ASSUME IInv, [Next]_vars
  PROVE  Stages'
<1>1. ASSUME NEW t \in Tasks, NewTransaction(t)
      PROVE  Stages'
  <2>1. PICK r \in TransType :
          /\ r.size > 0 /\ r.used < r.size
          /\ \/ r.head = hdr.head /\ \A u \in Tasks : trans[u].pc # "wrapped"
             \/ r = trans[t] /\ r.pc = "wrapped"
          /\ Fails(t) \/ Wraps(t, r) \/ Takes(t, r)
    BY <1>1, Reservations
  <2>2. phase' = "mounted" /\ phase = "mounted"
    BY <1>1, Reservations
  <2>3. cleaner'.last = cleaner.last
    BY <2>1 DEF Fails, Wraps, Takes, IInv, TypeOK, CleanerType
  <2>4. QED
    BY <2>2, <2>3 DEF Stages, IInv
<1>2. ASSUME NEW t \in Tasks, Again(t)
      PROVE  Stages'
  <2>1. PICK r \in TransType :
          /\ r.size > 0 /\ r.used < r.size
          /\ \/ r.head = hdr.head /\ \A u \in Tasks : trans[u].pc # "wrapped"
             \/ r = trans[t] /\ r.pc = "wrapped"
          /\ Fails(t) \/ Wraps(t, r) \/ Takes(t, r)
    BY <1>2, Reservations
  <2>2. phase' = "mounted" /\ phase = "mounted"
    BY <1>2, Reservations
  <2>3. cleaner'.last = cleaner.last
    BY <2>1 DEF Fails, Wraps, Takes, IInv, TypeOK, CleanerType
  <2>4. QED
    BY <2>2, <2>3 DEF Stages, IInv
<1>3. ASSUME NEW t \in Tasks, AddLogEntry(t)
      PROVE  Stages'
  BY <1>3 DEF AddLogEntry, Running, Stages, IInv
<1>4. ASSUME NEW t \in Tasks, LogFence(t)
      PROVE  Stages'
  BY <1>4 DEF LogFence, Stages, IInv
<1>5. ASSUME NEW t \in Tasks, Commit(t)
      PROVE  Stages'
  BY <1>5 DEF Commit, Running, Stages, IInv
<1>6. ASSUME NEW t \in Tasks, Abort(t)
      PROVE  Stages'
  BY <1>6 DEF Abort, Running, Stages, IInv
<1>7. ASSUME NEW t \in Tasks, LastFence(t)
      PROVE  Stages'
  BY <1>7 DEF LastFence, Stages, IInv
<1>8. CASE CleanStart
  BY <1>8 DEF CleanStart, Stages, IInv
<1>9. CASE CleanStep
  <2>1. phase' = phase /\ phase \in {"mounted", "stopping"}
    BY <1>9 DEF CleanStep
  <2>2. \A t \in Tasks : trans'[t].pc = trans[t].pc
    BY <1>9, CleanerLeaves
  <2>3. cleaner'.last = cleaner.last
    BY <1>9, CleanerLeaves
  <2>4. QED
    BY <2>1, <2>2, <2>3, CleanerLeaves DEF Stages, IInv
<1>10. CASE CleanHead
  BY <1>10 DEF CleanHead, Stages, IInv
<1>11. CASE CleanEnd
  BY <1>11 DEF CleanEnd, Stages, Asleep, IInv
<1>12. CASE Unmount
  BY <1>12 DEF Unmount, Stages, IInv
<1>13. CASE RecoverStep
  BY <1>13 DEF RecoverStep, Stages, IInv
<1>14. CASE Crash
  BY <1>14 DEF Crash, Stages, NoTrans, Asleep
<1>15. ASSUME NEW t \in Tasks, Store(t)
      PROVE  Stages'
  BY <1>15 DEF Store, Stages, IInv
<1>16. CASE Mount \/ ForwardInvalidate \/ ForwardGen \/ ForwardHead
            \/ ForwardFence \/ Mounted \/ WriteBackHeader
            \/ UNCHANGED vars
  BY <1>16 DEF vars, Mount, ForwardInvalidate, ForwardGen, ForwardHead,
     ForwardFence, Mounted, WriteBackHeader, Stages, IInv
<1>17. QED
  BY <1>1, <1>2, <1>3, <1>4, <1>5, <1>6, <1>7, <1>8, <1>9,
     <1>10, <1>11, <1>12, <1>13, <1>14, <1>15, <1>16 DEF Next, TaskStep, Cleaning, Recovery

(***************************************************************************)
(* Where the entries of transactions lie.                                  *)
(***************************************************************************)
Walking == cleaner.pc \in {"scan", "store"}
\* The three conjuncts of IInv that are about places.
Places == WrapInHand /\ CleanerOnWay /\ LiveInFront

\* The numbers of the header, of transactions and of the cleaner.
LEMMA Ranges ==
  ASSUME IInv
  PROVE  /\ JSize \in Nat /\ JSize > 1
         /\ hdr.head \in Nat /\ hdr.head < JSize /\ hdr.tail \in Nat /\ hdr.tail < JSize
         /\ nhdr.head \in Nat /\ nhdr.head < JSize /\ nhdr.tail \in Nat /\ nhdr.tail < JSize
         /\ cleaner.head \in Nat /\ cleaner.head < JSize
         /\ cleaner.tail \in Nat /\ cleaner.tail < JSize
         /\ \A t \in Tasks : /\ trans[t].head \in Nat /\ trans[t].head < JSize
                             /\ trans[t].start \in Nat /\ trans[t].size \in Nat
BY JournalAssumption DEF IInv, TypeOK, HeaderType, CleanerType, TransType, Idx

\* The entries of a live transaction are entries of the journal.
LEMMA LiveRanges ==
  ASSUME IInv, NEW t \in Tasks, Live(t)
  PROVE  trans[t].size > 0 /\ trans[t].start + trans[t].size < JSize
BY DEF IInv, EntriesFit, Live, Active

\* An overrun is never taken back.
LEMMA StillWhole ==
  ASSUME IInv, [Next]_vars, ~past'.broken
  PROVE  ~past.broken
<1>1. ASSUME NEW t \in Tasks, NewTransaction(t) \/ Again(t)
      PROVE  ~past.broken
  <2>1. PICK r \in TransType : Fails(t) \/ Wraps(t, r) \/ Takes(t, r)
    BY <1>1, Reservations
  <2>2. QED
    BY <2>1 DEF Fails, Wraps, Takes, HasRoom
<1>2. CASE past' = past
  BY <1>2
<1>3. ASSUME NEW t \in Tasks, LastFence(t)
      PROVE  ~past.broken
  BY <1>3 DEF LastFence, IInv, TypeOK, PastType
<1>4. CASE Crash \/ ForwardGen
  BY <1>4, CrashPast, ForwardPast DEF IInv
<1>5. CASE Mounted
  BY <1>5 DEF Mounted, IInv, TypeOK, PastType
<1>6. ASSUME NEW t \in Tasks, AddLogEntry(t) \/ LogFence(t) \/ Store(t) \/ Commit(t) \/ Abort(t)
      PROVE  past' = past
  BY <1>6 DEF AddLogEntry, LogFence, Store, Commit, Abort
<1>7. CASE Cleaning \/ Unmount \/ WriteBackHeader \/ UNCHANGED vars
  <2>1. CASE CleanStep
    BY <2>1, CleanerPast DEF IInv
  <2>2. QED
    BY <1>2, <1>7, <2>1 DEF vars, Cleaning, CleanStart, CleanHead, CleanEnd, Unmount,
       WriteBackHeader
<1>8. CASE Mount \/ RecoverStep \/ ForwardInvalidate \/ ForwardHead \/ ForwardFence
  BY <1>2, <1>8 DEF Mount, RecoverStep, ForwardInvalidate, ForwardHead, ForwardFence
<1>9. QED
  BY <1>1, <1>2, <1>3, <1>4, <1>5, <1>6, <1>7, <1>8 DEF Next, TaskStep, Recovery

(***************************************************************************)
(* The kinds of steps.                                                     *)
(***************************************************************************)
\* Nothing moves, and no transaction begins; the header may be written back.
Calm ==
  /\ hdr'.head = hdr.head /\ hdr'.tail = hdr.tail
  /\ \/ nhdr'.head = nhdr.head /\ nhdr'.tail = nhdr.tail
     \/ nhdr'.head = hdr.head /\ nhdr'.tail = hdr.tail
  /\ Walking' = Walking
  /\ Walking => cleaner'.head = cleaner.head /\ cleaner'.tail = cleaner.tail
  /\ \A t \in Tasks :
       /\ Live(t)' => /\ Live(t) /\ trans'[t].start = trans[t].start
                      /\ trans'[t].size = trans[t].size
       /\ trans'[t].pc = "wrapped" => trans[t].pc = "wrapped" /\ trans'[t].head = trans[t].head

\* The volume has no transactions, and no cleaner.
LEMMA StillKeeps ==
  ASSUME \A t \in Tasks : trans'[t].pc = "idle", cleaner'.pc = "asleep"
  PROVE  Places'
BY DEF Places, WrapInHand, CleanerOnWay, LiveInFront, Live, Active

\* Such a step leaves everything at its place.
LEMMA CalmKeeps ==
  ASSUME IInv, Places, Calm
  PROVE  Places'
<1>1. WrapInHand'
  BY DEF Calm, Places, WrapInHand
<1>2. CleanerOnWay'
  BY DEF Calm, Places, CleanerOnWay, InOrder, Walking
<1>3. Front' = Front
  BY DEF Calm, Front, Walking
<1>4. LiveInFront'
  <2> SUFFICES ASSUME NEW t \in Tasks, Live(t)'
               PROVE  /\ Inside(trans[t], hdr.head, hdr.tail)'
                      /\ Inside(trans[t], nhdr.head, nhdr.tail)'
                      /\ Inside(trans[t], Front, hdr.tail)'
                      /\ \A u \in Tasks : Live(u)' /\ u # t =>
                           \/ trans'[t].start + trans'[t].size <= trans'[u].start
                           \/ trans'[u].start + trans'[u].size <= trans'[t].start
    BY DEF LiveInFront
  <2>1. /\ Live(t)
        /\ \A u \in Tasks : Live(u)' => /\ Live(u) /\ trans'[u].start = trans[u].start
                                        /\ trans'[u].size = trans[u].size
    BY DEF Calm
  <2>2. QED
    BY <1>3, <2>1 DEF Calm, Places, LiveInFront, Inside
<1>5. QED
  BY <1>1, <1>2, <1>4 DEF Places

\* A reservation: the fields of the header, the transaction and the cleaner after it.
LEMMA ReservationFields ==
  ASSUME IInv, NEW t \in Tasks, NewTransaction(t) \/ Again(t), ~past'.broken, Places
  PROVE  /\ \A u \in Tasks : u # t => trans'[u] = trans[u]
         /\ cleaner'.head = cleaner.head /\ cleaner'.tail = cleaner.tail
         /\ Walking' = Walking /\ hdr'.head = hdr.head
         /\ \/ trans'[t].pc = "idle" /\ UNCHANGED <<hdr, nhdr>>
            \/ /\ 0 < hdr.head /\ hdr.head <= hdr.tail
               /\ hdr'.tail = 0 /\ UNCHANGED nhdr
               /\ \A u \in Tasks : trans[u].pc # "wrapped"
               /\ trans'[t].pc = "wrapped" /\ trans'[t].head = hdr.head
            \/ \E size \in Nat \ {0} :
                 /\ hdr.tail < hdr.head => hdr.tail + size < hdr.head
                 /\ hdr'.tail = hdr.tail + size
                 /\ nhdr'.head = hdr.head /\ nhdr'.tail = hdr.tail + size
                 /\ \A u \in Tasks : u # t => trans[u].pc # "wrapped"
                 /\ trans'[t].pc = "run" /\ trans'[t].start = hdr.tail
                 /\ trans'[t].size = size
<1>1. PICK r \in TransType :
        /\ r.size > 0 /\ r.used < r.size
        /\ \/ r.head = hdr.head /\ \A u \in Tasks : trans[u].pc # "wrapped"
           \/ r = trans[t] /\ r.pc = "wrapped"
        /\ Fails(t) \/ Wraps(t, r) \/ Takes(t, r)
  BY Reservations
<1>2. /\ r.size \in Nat /\ r.head \in Nat /\ r.head < JSize
      /\ hdr \in [head : Idx, tail : Idx, gen : 1 .. MaxGen]
      /\ cleaner = [cleaner EXCEPT !.pc = @] /\ DOMAIN trans = Tasks
  BY JournalAssumption DEF TransType, IInv, TypeOK, HeaderType, CleanerType, Idx
<1>3. \/ r.head = hdr.head
      \/ hdr.tail = 0 /\ r.head > 0 /\ (hdr.head = 0 \/ r.head <= hdr.head)
  BY <1>1 DEF Places, WrapInHand
<1>4. CASE Fails(t)
  <2>1. trans'[t].pc = "idle" /\ \A u \in Tasks : u # t => trans'[u] = trans[u]
    BY <1>2, <1>4 DEF Fails, NoTrans
  <2>2. QED
    BY <1>4, <2>1 DEF Fails, Walking
<1>5. CASE Wraps(t, r)
  <2>1. /\ Avail(r.head, hdr.tail) >= r.size /\ hdr.tail + r.size >= JSize
        /\ hdr'.head = hdr.head /\ hdr'.tail = 0 /\ nhdr' = nhdr /\ cleaner' = cleaner
    BY <1>2, <1>5 DEF Wraps, HasRoom
  <2>2. r.head = hdr.head /\ 0 < hdr.head /\ hdr.head <= hdr.tail
    BY <1>2, <1>3, <2>1, Ranges DEF Avail
  <2>3. \A u \in Tasks : trans[u].pc # "wrapped"
    <3>1. CASE r = trans[t] /\ r.pc = "wrapped"
      BY <2>2, <3>1, Ranges DEF Places, WrapInHand
    <3>2. QED
      BY <1>1, <3>1
  <2>4. /\ \A u \in Tasks : u # t => trans'[u] = trans[u]
        /\ trans'[t].pc = "wrapped" /\ trans'[t].head = r.head
    BY <1>2, <1>5 DEF Wraps, TransType
  <2>5. Walking' = Walking
    BY <2>1 DEF Walking
  <2>6. QED
    BY <2>1, <2>2, <2>3, <2>4, <2>5
<1>6. CASE Takes(t, r)
  <2>1. /\ Avail(r.head, hdr.tail) >= r.size /\ hdr.tail + r.size < JSize
        /\ hdr'.head = hdr.head /\ hdr'.tail = hdr.tail + r.size /\ nhdr' = hdr'
    BY <1>2, <1>6 DEF Takes, HasRoom
  <2>2. hdr.tail < hdr.head => hdr.tail + r.size < hdr.head
    BY <1>2, <1>3, <2>1, Ranges DEF Avail
  <2>3. \A u \in Tasks : u # t => trans[u].pc # "wrapped"
    BY <1>1 DEF Places, WrapInHand
  <2>4. /\ \A u \in Tasks : u # t => trans'[u] = trans[u]
        /\ trans'[t].pc = "run" /\ trans'[t].start = hdr.tail /\ trans'[t].size = r.size
    BY <1>2, <1>6 DEF Takes, TransType
  <2>5. /\ cleaner'.head = cleaner.head /\ cleaner'.tail = cleaner.tail
        /\ \/ cleaner'.pc = cleaner.pc
           \/ cleaner.pc = "asleep" /\ cleaner'.pc = "woken"
    <3>1. CASE cleaner' = cleaner
      BY <3>1
    <3>2. CASE cleaner.pc = "asleep" /\ cleaner' = [cleaner EXCEPT !.pc = "woken"]
      BY <3>2 DEF IInv, TypeOK, CleanerType
    <3>3. QED
      BY <1>6, <3>1, <3>2 DEF Takes
  <2>6. Walking' = Walking
    BY <2>5 DEF Walking
  <2>7. r.size \in Nat \ {0}
    BY <1>1, <1>2
  <2>8. QED
    BY <2>1, <2>2, <2>3, <2>4, <2>5, <2>6, <2>7
<1>7. QED
  BY <1>1, <1>4, <1>5, <1>6

\* The places of transactions after a reservation.
LEMMA ReservationKeeps ==
  ASSUME IInv, NEW t \in Tasks, NewTransaction(t) \/ Again(t), ~past'.broken, Places
  PROVE  Places'
<1> DEFINE h == hdr.head
           n == hdr.tail
<1>1. /\ \A u \in Tasks : u # t => trans'[u] = trans[u]
      /\ cleaner'.head = cleaner.head /\ cleaner'.tail = cleaner.tail
      /\ Walking' = Walking /\ hdr'.head = hdr.head
  BY ReservationFields
<1>2. \A u \in Tasks : u # t => (Live(u)' <=> Live(u))
  BY <1>1 DEF Live, Active
<1>3. Front' = Front
  BY <1>1 DEF Front, Walking
<1>4. /\ h \in Nat /\ n \in Nat /\ Front \in Nat /\ Front < JSize
      /\ \A u \in Tasks : trans[u].start \in Nat /\ trans[u].size \in Nat
  BY Ranges DEF Front
<1>5. InOrder(h, Front, n)
  <2>1. CASE Walking
    <3>1. InOrder(h, cleaner.head, cleaner.tail) /\ InOrder(h, cleaner.tail, n)
      BY <2>1 DEF Places, CleanerOnWay, Walking
    <3>2. QED
      BY <2>1, <3>1, Ranges DEF InOrder, Walking, Front
  <2>2. CASE ~Walking
    BY <2>2, Ranges DEF InOrder, Walking, Front
  <2>3. QED
    BY <2>1, <2>2
<1>6. CASE trans'[t].pc = "idle" /\ UNCHANGED <<hdr, nhdr>>
  <2>1. ~Live(t)' /\ trans'[t].pc # "wrapped"
    BY <1>6 DEF Live, Active
  <2>2. Calm
    BY <1>1, <1>2, <1>6, <2>1 DEF Calm
  <2>3. QED
    BY <2>2, CalmKeeps
<1>7. CASE /\ 0 < h /\ h <= n
           /\ hdr'.tail = 0 /\ UNCHANGED nhdr
           /\ \A u \in Tasks : trans[u].pc # "wrapped"
           /\ trans'[t].pc = "wrapped" /\ trans'[t].head = h
  <2>1. WrapInHand'
    BY <1>1, <1>4, <1>7 DEF WrapInHand
  <2>2. CleanerOnWay'
    <3>1. CASE Walking
      <4>1. InOrder(h, cleaner.head, cleaner.tail) /\ InOrder(h, cleaner.tail, n)
        BY <3>1 DEF Places, CleanerOnWay, Walking
      <4>2. InOrder(h, cleaner.tail, 0)
        BY <1>7, <4>1, Ranges DEF InOrder
      <4>3. QED
        BY <1>1, <1>7, <4>1, <4>2 DEF CleanerOnWay
    <3>2. QED
      BY <1>1, <3>1 DEF CleanerOnWay, Walking
  <2>3. LiveInFront'
    <3>1. \A u \in Tasks : Live(u)' => u # t /\ Live(u) /\ trans'[u] = trans[u]
      BY <1>1, <1>2, <1>7 DEF Live, Active
    <3>2. SUFFICES ASSUME NEW u \in Tasks, Live(u)'
                   PROVE  /\ Inside(trans'[u], hdr'.head, hdr'.tail)
                          /\ Inside(trans'[u], nhdr'.head, nhdr'.tail)
                          /\ Inside(trans'[u], Front', hdr'.tail)
      BY <3>1 DEF LiveInFront, Places
    <3>3. Live(u) /\ trans'[u] = trans[u]
      BY <3>1, <3>2
    <3>4. /\ Inside(trans[u], h, n) /\ Inside(trans[u], nhdr.head, nhdr.tail)
          /\ Inside(trans[u], Front, n)
      BY <3>3 DEF Places, LiveInFront
    <3>5. h <= n /\ h > 0 /\ h <= Front /\ Front <= n
      BY <1>4, <1>5, <1>7 DEF InOrder
    <3>6. Inside(trans[u], h, 0) /\ Inside(trans[u], Front, 0)
      BY <1>4, <3>4, <3>5 DEF Inside
    <3>7. QED
      BY <1>1, <1>3, <1>7, <3>3, <3>4, <3>6
  <2>4. QED
    BY <2>1, <2>2, <2>3 DEF Places
<1>8. ASSUME NEW size \in Nat \ {0},
             n < h => n + size < h,
             hdr'.tail = n + size,
             nhdr'.head = h, nhdr'.tail = n + size,
             \A u \in Tasks : u # t => trans[u].pc # "wrapped",
             trans'[t].pc = "run", trans'[t].start = n, trans'[t].size = size
      PROVE  Places'
  <2>1. WrapInHand'
    BY <1>1, <1>8 DEF WrapInHand
  <2>2. CleanerOnWay'
    <3>1. CASE Walking
      <4>1. InOrder(h, cleaner.head, cleaner.tail) /\ InOrder(h, cleaner.tail, n)
        BY <3>1 DEF Places, CleanerOnWay, Walking
      <4>2. InOrder(h, cleaner.tail, n + size)
        BY <1>8, <4>1, Ranges DEF InOrder
      <4>3. QED
        BY <1>1, <1>8, <4>1, <4>2 DEF CleanerOnWay
    <3>2. QED
      BY <1>1, <3>1 DEF CleanerOnWay, Walking
  <2>3. LiveInFront'
    <3>1. \A u \in Tasks : Live(u)' => u = t \/ (Live(u) /\ trans'[u] = trans[u])
      BY <1>1, <1>2
    <3>2. ASSUME NEW u \in Tasks, Live(u), u # t
          PROVE  /\ Inside(trans[u], h, n + size) /\ Inside(trans[u], Front, n + size)
                 /\ trans[u].start + trans[u].size <= n \/ n + size <= trans[u].start
      <4>1. Inside(trans[u], h, n) /\ Inside(trans[u], Front, n)
        BY <3>2 DEF Places, LiveInFront
      <4>2. QED
        BY <1>4, <1>5, <1>8, <4>1 DEF Inside, InOrder
    <3>3. Inside(trans'[t], h, n + size) /\ Inside(trans'[t], Front, n + size)
      BY <1>4, <1>5, <1>8 DEF Inside, InOrder
    <3>4. ASSUME NEW u \in Tasks, Live(u)'
          PROVE  Inside(trans'[u], h, n + size) /\ Inside(trans'[u], Front, n + size)
      BY <3>1, <3>2, <3>3, <3>4
    <3>5. ASSUME NEW u \in Tasks, NEW v \in Tasks, Live(u)', Live(v)', u # v
          PROVE  \/ trans'[u].start + trans'[u].size <= trans'[v].start
                 \/ trans'[v].start + trans'[v].size <= trans'[u].start
      <4>1. CASE u = t
        BY <1>1, <1>8, <3>1, <3>2, <3>5, <4>1
      <4>2. CASE v = t
        BY <1>1, <1>8, <3>1, <3>2, <3>5, <4>2
      <4>3. CASE u # t /\ v # t
        BY <3>1, <3>5, <4>3 DEF Places, LiveInFront
      <4>4. QED
        BY <4>1, <4>2, <4>3
    <3>6. QED
      BY <1>1, <1>3, <1>8, <3>4, <3>5 DEF LiveInFront
  <2>4. QED
    BY <2>1, <2>2, <2>3 DEF Places
<1>9. QED
  <2>1. CASE \E size \in Nat \ {0} :
                 /\ n < h => n + size < h
                 /\ hdr'.tail = n + size
                 /\ nhdr'.head = h /\ nhdr'.tail = n + size
                 /\ \A u \in Tasks : u # t => trans[u].pc # "wrapped"
                 /\ trans'[t].pc = "run" /\ trans'[t].start = n
                 /\ trans'[t].size = size
    BY <1>8, <2>1
  <2>2. QED
    BY <1>6, <1>7, <2>1, ReservationFields

\* The cleaner goes on, and notes whom it overtakes.
LEMMA CleanStepKeeps ==
  ASSUME IInv, CleanStep, Places
  PROVE  Places'
<1> DEFINE c == cleaner.head
           ct == cleaner.tail
<1>1. /\ hdr' = hdr /\ nhdr' = nhdr /\ Walking /\ Walking' /\ ct = cleaner'.tail
      /\ \A t \in Tasks :
           /\ trans'[t].pc = trans[t].pc /\ trans'[t].start = trans[t].start
           /\ trans'[t].size = trans[t].size /\ trans'[t].head = trans[t].head
           /\ trans[t].skipped => trans'[t].skipped
  BY CleanerSteps, CleanerLeaves DEF IInv, Walking
<1>2. \A t \in Tasks : Live(t)' => Live(t)
  BY <1>1 DEF Live, Active
<1>3. CASE cleaner' = [cleaner EXCEPT !.pc = "store"]
  <2>1. cleaner'.head = c
    BY <1>3 DEF IInv, TypeOK, CleanerType
  <2>2. Calm
    BY <1>1, <1>2, <2>1 DEF Calm
  <2>3. QED
    BY <2>2, CalmKeeps
<1>4. CASE ~(cleaner' = [cleaner EXCEPT !.pc = "store"])
  <2> DEFINE next(e) == IF e = JSize - 1 THEN 0 ELSE e + 1
  <2>1. PICK e \in Idx :
           /\ c # ct /\ c <= e /\ (c < ct => e < ct)
           /\ cleaner' = [cleaner EXCEPT !.head = next(e),
                            !.gen = IF next(e) = 0 THEN NextGen(@) ELSE @]
           /\ trans' = [t \in Tasks |-> [trans[t] EXCEPT !.skipped =
                          @ \/ (Active(t) /\ Reserved(t) \cap (c .. e) # {})]]
    BY <1>4, CleanerSteps DEF IInv
  <2> DEFINE d == next(e)
  <2>2. cleaner'.head = d
    BY <2>1 DEF IInv, TypeOK, CleanerType
  <2>3. /\ e \in Nat /\ e < JSize /\ JSize \in Nat /\ c \in Nat /\ ct \in Nat /\ ct < JSize
        /\ hdr.head \in Nat /\ hdr.tail \in Nat
    BY Ranges DEF Idx
  <2>4. InOrder(hdr.head, c, ct) /\ InOrder(hdr.head, ct, hdr.tail)
    BY <1>1 DEF Places, CleanerOnWay, Walking
  <2>5. InOrder(hdr.head, d, ct)
    BY <2>1, <2>3, <2>4 DEF InOrder
  <2>6. ASSUME NEW t \in Tasks, Live(t)'
        PROVE  Inside(trans[t], d, hdr.tail)
    <3>1. Active(t) /\ ~trans'[t].skipped /\ Live(t)
      BY <1>1, <1>2, <2>6 DEF Live, Active
    <3>2. Reserved(t) \cap (c .. e) = {}
      BY <2>1, <3>1 DEF IInv, TypeOK, TransType
    <3>3. /\ trans[t].start \in Nat /\ trans[t].size \in Nat /\ trans[t].size > 0
          /\ trans[t].start + trans[t].size < JSize
      BY <3>1, Ranges, LiveRanges
    <3>4. trans[t].start + trans[t].size <= c \/ e < trans[t].start
      <4> SUFFICES ASSUME trans[t].start + trans[t].size > c, trans[t].start <= e
                   PROVE  FALSE
        BY <2>3, <3>3
      <4>1. CASE c <= trans[t].start
        <5>1. trans[t].start \in Reserved(t) \cap (c .. e)
          BY <2>3, <3>3, <4>1 DEF Reserved
        <5>2. QED
          BY <3>2, <5>1
      <4>2. CASE trans[t].start < c
        <5>1. c \in Reserved(t) \cap (c .. e)
          BY <2>1, <2>3, <3>3, <4>2 DEF Reserved
        <5>2. QED
          BY <3>2, <5>1
      <4>3. QED
        BY <2>3, <3>3, <4>1, <4>2
    <3>5. Inside(trans[t], c, hdr.tail)
      BY <1>1, <3>1 DEF Places, LiveInFront, Front, Walking
    <3>6. QED
      BY <2>1, <2>3, <3>3, <3>4, <3>5 DEF Inside
  <2>7. Front' = d
    BY <1>1, <2>2 DEF Front, Walking
  <2>8. WrapInHand'
    BY <1>1 DEF Places, WrapInHand
  <2>9. CleanerOnWay'
    BY <1>1, <2>2, <2>4, <2>5 DEF CleanerOnWay
  <2> HIDE DEF d
  <2>10. LiveInFront'
    BY <1>1, <1>2, <2>6, <2>7 DEF Places, LiveInFront, Inside
  <2>11. QED
    BY <2>8, <2>9, <2>10 DEF Places
<1>5. QED
  BY <1>3, <1>4

\* The head moves up to where the cleaner has stopped.
LEMMA CleanHeadKeeps ==
  ASSUME IInv, CleanHead, Places
  PROVE  Places'
<1>1. /\ hdr'.head = cleaner.head /\ hdr'.tail = hdr.tail /\ nhdr' = nhdr
      /\ cleaner.pc = "store" /\ cleaner'.pc = "fence" /\ trans' = trans
  BY DEF CleanHead, IInv, TypeOK, HeaderType, CleanerType
<1>2. InOrder(hdr.head, cleaner.head, cleaner.tail) /\ InOrder(hdr.head, cleaner.tail, hdr.tail)
  BY <1>1 DEF Places, CleanerOnWay
<1>3. WrapInHand'
  BY <1>1, <1>2, Ranges DEF Places, WrapInHand, InOrder
<1>4. CleanerOnWay'
  BY <1>1 DEF CleanerOnWay
<1>5. Front' = Front /\ Front = cleaner.head
  BY <1>1 DEF Front
<1>6. \A t \in Tasks : Live(t)' <=> Live(t)
  BY <1>1 DEF Live, Active
<1>7. LiveInFront'
  BY <1>1, <1>5, <1>6 DEF Places, LiveInFront
<1>8. QED
  BY <1>3, <1>4, <1>7 DEF Places

\* Where entries lie, from step to step.
LEMMA PlacesStep ==
  ASSUME IInv, [Next]_vars, ~past'.broken
  PROVE  Places'
<1> Places
  BY StillWhole DEF IInv, Places
<1>1. ASSUME NEW t \in Tasks, NewTransaction(t) \/ Again(t)
      PROVE  Places'
  BY <1>1, ReservationKeeps
<1>2. ASSUME NEW t \in Tasks, AddLogEntry(t)
      PROVE  Places'
  <2>1. /\ UNCHANGED <<hdr, nhdr, cleaner>> /\ \A u \in Tasks : u # t => trans'[u] = trans[u]
        /\ trans'[t].start = trans[t].start \/ trans'[t].pc = "idle"
        /\ trans'[t].size = trans[t].size \/ trans'[t].pc = "idle"
        /\ trans'[t].skipped = trans[t].skipped \/ trans'[t].pc = "idle"
        /\ trans'[t].pc \in {"run", "log", "end", "idle"}
        /\ trans'[t].pc \in {"run", "log"} => trans[t].pc \in {"run", "log"}
    BY <1>2 DEF AddLogEntry, Running, IInv, TypeOK, TransType
  <2>2. Calm
    BY <2>1 DEF Calm, Walking, Live, Active
  <2>3. QED
    BY <2>2, CalmKeeps
<1>3. ASSUME NEW t \in Tasks, LogFence(t)
      PROVE  Places'
  <2>1. /\ UNCHANGED <<hdr, nhdr, cleaner>> /\ \A u \in Tasks : u # t => trans'[u] = trans[u]
        /\ trans'[t].start = trans[t].start \/ trans'[t].pc = "idle"
        /\ trans'[t].size = trans[t].size \/ trans'[t].pc = "idle"
        /\ trans'[t].skipped = trans[t].skipped \/ trans'[t].pc = "idle"
        /\ trans'[t].pc \in {"run", "log", "end", "idle"}
        /\ trans'[t].pc \in {"run", "log"} => trans[t].pc \in {"run", "log"}
    BY <1>3 DEF LogFence, IInv, TypeOK, TransType
  <2>2. Calm
    BY <2>1 DEF Calm, Walking, Live, Active
  <2>3. QED
    BY <2>2, CalmKeeps
<1>4. ASSUME NEW t \in Tasks, Commit(t)
      PROVE  Places'
  <2>1. /\ UNCHANGED <<hdr, nhdr, cleaner>> /\ \A u \in Tasks : u # t => trans'[u] = trans[u]
        /\ trans'[t].start = trans[t].start \/ trans'[t].pc = "idle"
        /\ trans'[t].size = trans[t].size \/ trans'[t].pc = "idle"
        /\ trans'[t].skipped = trans[t].skipped \/ trans'[t].pc = "idle"
        /\ trans'[t].pc \in {"run", "log", "end", "idle"}
        /\ trans'[t].pc \in {"run", "log"} => trans[t].pc \in {"run", "log"}
    BY <1>4 DEF Commit, Running, LastEntry, IInv, TypeOK, TransType
  <2>2. Calm
    BY <2>1 DEF Calm, Walking, Live, Active
  <2>3. QED
    BY <2>2, CalmKeeps
<1>5. ASSUME NEW t \in Tasks, Abort(t)
      PROVE  Places'
  <2>1. /\ UNCHANGED <<hdr, nhdr, cleaner>> /\ \A u \in Tasks : u # t => trans'[u] = trans[u]
        /\ trans'[t].start = trans[t].start \/ trans'[t].pc = "idle"
        /\ trans'[t].size = trans[t].size \/ trans'[t].pc = "idle"
        /\ trans'[t].skipped = trans[t].skipped \/ trans'[t].pc = "idle"
        /\ trans'[t].pc \in {"run", "log", "end", "idle"}
        /\ trans'[t].pc \in {"run", "log"} => trans[t].pc \in {"run", "log"}
    BY <1>5 DEF Abort, Running, LastEntry, IInv, TypeOK, TransType
  <2>2. Calm
    BY <2>1 DEF Calm, Walking, Live, Active
  <2>3. QED
    BY <2>2, CalmKeeps
<1>6. ASSUME NEW t \in Tasks, LastFence(t)
      PROVE  Places'
  <2>1. /\ UNCHANGED <<hdr, nhdr, cleaner>> /\ \A u \in Tasks : u # t => trans'[u] = trans[u]
        /\ trans'[t].start = trans[t].start \/ trans'[t].pc = "idle"
        /\ trans'[t].size = trans[t].size \/ trans'[t].pc = "idle"
        /\ trans'[t].skipped = trans[t].skipped \/ trans'[t].pc = "idle"
        /\ trans'[t].pc \in {"run", "log", "end", "idle"}
        /\ trans'[t].pc \in {"run", "log"} => trans[t].pc \in {"run", "log"}
    BY <1>6 DEF LastFence, NoTrans, IInv, TypeOK, TransType
  <2>2. Calm
    BY <2>1 DEF Calm, Walking, Live, Active
  <2>3. QED
    BY <2>2, CalmKeeps
<1>7. ASSUME NEW t \in Tasks, Store(t)
      PROVE  Places'
  <2>1. Calm
    BY <1>7 DEF Store, journal, Calm, Walking, Live, Active
  <2>2. QED
    BY <2>1, CalmKeeps
<1>8. CASE CleanStart
  <2>1. /\ UNCHANGED <<hdr, nhdr, trans>> /\ cleaner.pc = "woken" /\ cleaner'.pc = "scan"
        /\ cleaner'.head = hdr.head /\ cleaner'.tail = hdr.tail
    BY <1>8 DEF CleanStart, journal, IInv, TypeOK, CleanerType
  <2>2. Front' = Front
    BY <2>1 DEF Front
  <2>3. WrapInHand'
    BY <2>1 DEF Places, WrapInHand
  <2>4. CleanerOnWay'
    BY <2>1, Ranges DEF CleanerOnWay, InOrder
  <2>5. LiveInFront'
    BY <2>1, <2>2 DEF Places, LiveInFront, Live, Active
  <2>6. QED
    BY <2>3, <2>4, <2>5 DEF Places
<1>9. CASE CleanStep
  BY <1>9, CleanStepKeeps
<1>10. CASE CleanHead
  BY <1>10, CleanHeadKeeps
<1>11. CASE CleanEnd \/ Unmount \/ WriteBackHeader \/ UNCHANGED vars
  <2>1. UNCHANGED <<hdr, trans>> /\ nhdr' \in {nhdr, hdr}
    BY <1>11 DEF CleanEnd, Unmount, WriteBackHeader, vars, journal
  <2>2. \/ cleaner' = cleaner
        \/ ~Walking /\ ~Walking'
    <3>1. ASSUME cleaner.pc = "asleep", cleaner' = [cleaner EXCEPT !.pc = "woken", !.last = TRUE]
          PROVE  ~Walking /\ ~Walking'
      BY <3>1 DEF Walking, IInv, TypeOK, CleanerType
    <3>2. QED
      BY <1>11, <3>1 DEF CleanEnd, Unmount, WriteBackHeader, vars, Walking, Asleep
  <2>3. Walking' = Walking
    BY <2>2 DEF Walking
  <2>4. Calm
    BY <2>1, <2>2, <2>3 DEF Calm, Live, Active
  <2>5. QED
    BY <2>4, CalmKeeps
<1>12. CASE Recovery
  <2>1. phase \notin {"mounted", "stopping"} /\ UNCHANGED <<trans, cleaner>>
    BY <1>12 DEF Recovery, Mount, RecoverStep, ForwardInvalidate, ForwardGen, ForwardHead,
       ForwardFence, Mounted
  <2>2. QED
    BY <2>1, StillKeeps DEF IInv, Stages
<1>13. CASE Crash
  BY <1>13, StillKeeps DEF Crash, NoTrans, Asleep
<1>14. QED
  BY <1>1, <1>2, <1>3, <1>4, <1>5, <1>6, <1>7, <1>8, <1>9, <1>10, <1>11, <1>12, <1>13
     DEF Next, TaskStep, Cleaning

(***************************************************************************)
(* Whose changes there are.                                                *)
(***************************************************************************)
\* A transaction and its entries are as they were, but for the fence behind them and for
\* being overtaken.
Alike(t) ==
  /\ trans'[t].objs = trans[t].objs /\ trans'[t].logged = trans[t].logged
  /\ trans'[t].used = trans[t].used /\ trans'[t].start = trans[t].start
  /\ trans'[t].size = trans[t].size /\ trans'[t].gen = trans[t].gen
  /\ trans'[t].kind = trans[t].kind /\ trans'[t].tid = trans[t].tid
  /\ trans'[t].pc = trans[t].pc \/ {trans'[t].pc, trans[t].pc} \subseteq {"run", "log"}
  /\ trans[t].pc = "wrapped" => trans'[t].skipped = trans[t].skipped
\* Nobody writes its entries.
EntriesKept(t) == Active(t) => \A i \in Written(t) : log'[i] = log[i]
\* Nobody writes its objects.
ObjsKept(t) ==
  \A o \in trans[t].objs : mem'[o] = mem[o] /\ past'.settled[o] = past.settled[o]

\* One that is as it was is alike.
LEMMA Unmoved ==
  ASSUME NEW t \in Tasks, trans'[t] = trans[t]
  PROVE  Alike(t)
BY DEF Alike

\* It keeps its place and its entries.
LEMMA AlikePlaces ==
  ASSUME NEW t \in Tasks, Alike(t)
  PROVE  /\ Active(t)' <=> Active(t)
         /\ Reserved(t)' = Reserved(t) /\ Written(t)' = Written(t)
<1>1. Active(t)' <=> Active(t)
  BY DEF Alike, Active
<1>2. Reserved(t)' = Reserved(t)
  BY DEF Alike, Reserved
<1>3. Written(t)' = Written(t)
  BY <1>2 DEF Alike, Written
<1>4. QED
  BY <1>1, <1>2, <1>3

\* What it carries, what its log tells, and what it owns.
LEMMA AlikeKeeps ==
  ASSUME NEW t \in Tasks, Alike(t), Carried(t)
  PROVE  /\ Carried(t)'
         /\ EntriesKept(t) /\ ObjsKept(t) /\ LogTells(t) => LogTells(t)'
         /\ ObjsKept(t) /\ Owned(t) => Owned(t)'
<1>1. Carried(t)'
  BY DEF Alike, Carried
<1>2. ASSUME EntriesKept(t), ObjsKept(t), LogTells(t)
      PROVE  LogTells(t)'
  <2> SUFFICES ASSUME Active(t)'
               PROVE  /\ \A i \in Written(t)' : log'[i].gen = trans'[t].gen
                                               /\ log'[i].obj \in trans'[t].logged
                      /\ \A o \in trans'[t].logged :
                           \E i \in Written(t)' :
                             /\ log'[i].obj = o /\ log'[i].old = past'.settled[o]
                             /\ \A j \in Written(t)' : log'[j].obj = o => i <= j
    BY DEF LogTells
  <2>1. /\ Active(t) /\ Written(t)' = Written(t) /\ trans'[t].gen = trans[t].gen
        /\ trans'[t].logged = trans[t].logged
    BY AlikePlaces DEF Alike
  <2>2. \A i \in Written(t) : log'[i] = log[i]
    BY <1>2, <2>1 DEF EntriesKept
  <2>3. \A o \in trans[t].logged : past'.settled[o] = past.settled[o]
    BY <1>2 DEF ObjsKept, Carried
  <2>4. /\ \A i \in Written(t) : log[i].gen = trans[t].gen /\ log[i].obj \in trans[t].logged
        /\ \A o \in trans[t].logged :
             \E i \in Written(t) :
               /\ log[i].obj = o /\ log[i].old = past.settled[o]
               /\ \A j \in Written(t) : log[j].obj = o => i <= j
    BY <1>2, <2>1 DEF LogTells
  <2>5. QED
    BY <2>1, <2>2, <2>3, <2>4
<1>3. ASSUME ObjsKept(t), Owned(t)
      PROVE  Owned(t)'
  BY <1>3 DEF Alike, ObjsKept, Owned
<1>4. QED
  BY <1>1, <1>2, <1>3

\* Steps in which nothing is stored and no transaction begins, logs or ends.
LEMMA QuietKeeps ==
  ASSUME OwnInv, \A t \in Tasks : Alike(t), UNCHANGED mem, past'.settled = past.settled,
         phase' = "mounted" => phase = "mounted",
         ~past'.broken => ~past.broken /\ \A t \in Tasks : EntriesKept(t)
  PROVE  OwnInv'
<1>1. ASSUME NEW t \in Tasks
      PROVE  Carried(t)'
  BY AlikeKeeps DEF OwnInv
<1>2. ASSUME phase' = "mounted", ~past'.broken
      PROVE  /\ OneWriter' /\ OnlyOwnChanges'
             /\ \A t \in Tasks : LogTells(t)' /\ Owned(t)'
  <2>1. /\ phase = "mounted" /\ ~past.broken
        /\ OneWriter /\ OnlyOwnChanges /\ \A t \in Tasks : LogTells(t) /\ Owned(t)
    BY <1>2 DEF OwnInv
  <2>2. \A t \in Tasks : ObjsKept(t) /\ EntriesKept(t)
    BY <1>2 DEF ObjsKept
  <2>3. \A t \in Tasks : LogTells(t)' /\ Owned(t)'
    BY <2>1, <2>2, AlikeKeeps DEF OwnInv
  <2>4. OneWriter'
    BY <2>1, AlikePlaces DEF OneWriter, Alike
  <2>5. OnlyOwnChanges'
    BY <2>1 DEF OnlyOwnChanges, Alike
  <2>6. QED
    BY <2>3, <2>4, <2>5
<1>3. QED
  BY <1>1, <1>2 DEF OwnInv

\* Its entries lie in the journal.
LEMMA OwnEntries ==
  ASSUME IInv, NEW t \in Tasks, Active(t)
  PROVE  /\ trans[t].start \in Nat /\ trans[t].used \in Nat /\ trans[t].size \in Nat
         /\ trans[t].used < trans[t].size /\ trans[t].start + trans[t].size < JSize
         /\ EntryAt(t) = trans[t].start + trans[t].used /\ EntryAt(t) \in Reserved(t)
         /\ Reserved(t) \subseteq Idx /\ Written(t) \subseteq Reserved(t) /\ EntryAt(t) \notin Written(t)
<1>1. /\ trans[t].start \in Nat /\ trans[t].used \in Nat /\ trans[t].size \in Nat
      /\ trans[t].used < trans[t].size /\ trans[t].start + trans[t].size < JSize
      /\ JSize \in Nat
  BY JournalAssumption DEF IInv, TypeOK, TransType, EntriesFit, Active, Idx
<1>2. QED
  BY <1>1 DEF EntryAt, Reserved, Written, Idx

\* A transaction's own step: the others are as they were, their entries and objects too.
LEMMA OwnStep ==
  ASSUME IInv, OwnInv, NEW t \in Tasks, UNCHANGED phase, UNCHANGED past,
         \A u \in Tasks : u # t => trans'[u] = trans[u],
         trans'[t].objs = trans[t].objs,
         Active(t), Active(t)' => Reserved(t)' = Reserved(t),
         \A i \in Idx : i \notin Reserved(t) => log'[i] = log[i],
         Carried(t)',
         phase = "mounted" /\ ~past.broken =>
           /\ \A o \in Objs : o \notin trans[t].objs => mem'[o] = mem[o]
           /\ LogTells(t)' /\ Owned(t)'
  PROVE  OwnInv'
<1>1. \A u \in Tasks : u # t => Alike(u)
  BY Unmoved
<1>2. ASSUME NEW u \in Tasks
      PROVE  Carried(u)'
  BY <1>1, AlikeKeeps DEF OwnInv
<1>3. ASSUME phase = "mounted", ~past.broken
      PROVE  /\ OneWriter' /\ OnlyOwnChanges'
             /\ \A u \in Tasks : LogTells(u)' /\ Owned(u)'
  <2>1. OneWriter /\ OnlyOwnChanges /\ \A u \in Tasks : LogTells(u) /\ Owned(u)
    BY <1>3 DEF OwnInv
  <2>2. ASSUME NEW u \in Tasks, u # t
        PROVE  ObjsKept(u) /\ EntriesKept(u)
    <3>1. trans[u].objs \subseteq Objs
      BY DEF IInv, TypeOK, TransType
    <3>2. trans[u].objs \cap trans[t].objs = {}
      BY <2>1, <2>2 DEF OneWriter
    <3>3. ObjsKept(u)
      BY <1>3, <3>1, <3>2 DEF ObjsKept
    <3>4. Active(u) => Written(u) \subseteq Idx /\ Written(u) \cap Reserved(t) = {}
      <4>1. Active(u) => Written(u) \subseteq Reserved(u) /\ Reserved(u) \subseteq Idx
        BY OwnEntries
      <4>2. Active(u) => Reserved(u) \cap Reserved(t) = {}
        BY <2>1, <2>2 DEF OneWriter
      <4>3. QED
        BY <4>1, <4>2
    <3>5. EntriesKept(u)
      BY <3>4 DEF EntriesKept
    <3>6. QED
      BY <3>3, <3>5
  <2>3. \A u \in Tasks : LogTells(u)' /\ Owned(u)'
    BY <1>1, <1>3, <2>1, <2>2, AlikeKeeps DEF OwnInv
  <2>4. \A u \in Tasks : trans'[u].objs = trans[u].objs
    OBVIOUS
  <2>5. \A u \in Tasks : Active(u)' => Active(u) /\ Reserved(u)' = Reserved(u)
    BY <1>1, AlikePlaces
  <2>6. OneWriter'
    BY <2>1, <2>4, <2>5 DEF OneWriter
  <2>7. OnlyOwnChanges'
    BY <1>3, <2>1, <2>4 DEF OnlyOwnChanges
  <2>8. QED
    BY <2>3, <2>6, <2>7
<1>4. QED
  BY <1>2, <1>3 DEF OwnInv

\* Logging: an object that is new to the log is as it was before the transaction; of one that
\* is there already the first entry stays the first.
LEMMA OwnLogs ==
  ASSUME IInv, OwnInv, NEW t \in Tasks, AddLogEntry(t)
  PROVE  OwnInv'
<1>1. PICK objs \in SUBSET Objs, n \in Nat :
        \E ord \in [0 .. n - 1 -> objs] :
          /\ trans[t].used + n < trans[t].size /\ objs \subseteq trans[t].objs
          /\ \A o \in objs : \E k \in 0 .. n - 1 : ord[k] = o
          /\ log' = [i \in Idx |->
               IF i - EntryAt(t) \in 0 .. n - 1
               THEN EntryOf(t, i - trans[t].start, {}, ord[i - EntryAt(t)]) ELSE log[i]]
          /\ trans' = [trans EXCEPT ![t].pc = "log", ![t].logged = @ \cup objs,
                                    ![t].used = @ + n]
  BY Logs
<1>2. PICK ord \in [0 .. n - 1 -> objs] :
        /\ trans[t].used + n < trans[t].size /\ objs \subseteq trans[t].objs
        /\ \A o \in objs : \E k \in 0 .. n - 1 : ord[k] = o
        /\ log' = [i \in Idx |->
             IF i - EntryAt(t) \in 0 .. n - 1
             THEN EntryOf(t, i - trans[t].start, {}, ord[i - EntryAt(t)]) ELSE log[i]]
        /\ trans' = [trans EXCEPT ![t].pc = "log", ![t].logged = @ \cup objs,
                                  ![t].used = @ + n]
  BY <1>1
<1>3. trans \in [Tasks -> TransType] /\ log \in [Idx -> Entries]
  BY DEF IInv, TypeOK, LogType
<1>4. /\ \A u \in Tasks : u # t => trans'[u] = trans[u]
      /\ trans'[t].pc = "log" /\ trans'[t].logged = trans[t].logged \cup objs
      /\ trans'[t].used = trans[t].used + n /\ trans'[t].objs = trans[t].objs
      /\ trans'[t].start = trans[t].start /\ trans'[t].size = trans[t].size
      /\ trans'[t].gen = trans[t].gen /\ trans'[t].skipped = trans[t].skipped
  BY <1>2, <1>3 DEF TransType
<1>5. /\ Active(t) /\ trans[t].pc = "run" /\ phase = "mounted"
      /\ UNCHANGED <<phase, past, mem>>
  BY DEF AddLogEntry, Running, Active, data
<1> DEFINE a == EntryAt(t)
<1>6. /\ trans[t].start \in Nat /\ trans[t].used \in Nat /\ trans[t].size \in Nat
      /\ a = trans[t].start + trans[t].used
      /\ Reserved(t) \subseteq Idx /\ Written(t) \subseteq Reserved(t)
  BY <1>5, OwnEntries
<1>7. Reserved(t)' = Reserved(t)
  BY <1>4 DEF Reserved
<1>8. ASSUME NEW k \in 0 .. n - 1
      PROVE  a + k \in Reserved(t)
  <2> DEFINE s == trans[t].start
             u == trans[t].used
             z == trans[t].size
  <2>1. k \in Nat /\ k < n /\ u + n < z /\ s \in Nat /\ u \in Nat /\ z \in Nat /\ a = s + u
    BY <1>2, <1>6
  <2>2. Reserved(t) = s .. s + z - 1
    BY DEF Reserved
  <2> HIDE DEF a, s, u, z
  <2>3. a + k \in s .. s + z - 1
    BY <2>1
  <2>4. QED
    BY <2>2, <2>3
<1>9. ASSUME NEW i
      PROVE  i \in Written(t)' <=> i \in Written(t) \/ \E k \in 0 .. n - 1 : i = a + k
  <2>1. i \in Written(t)' <=> i \in Reserved(t) /\ i < trans[t].start + (trans[t].used + n)
    BY <1>4, <1>7 DEF Written
  <2>2. i \in Written(t) <=> i \in Reserved(t) /\ i < a
    BY <1>6 DEF Written
  <2>3. ASSUME i \in Reserved(t), ~(i < a), i < trans[t].start + (trans[t].used + n)
        PROVE  \E k \in 0 .. n - 1 : i = a + k
    <3>1. i \in Int
      BY <1>6, <2>3 DEF Reserved
    <3>2. i - a \in 0 .. n - 1 /\ i = a + (i - a)
      BY <1>6, <2>3, <3>1
    <3>3. QED
      BY <3>2
  <2>4. ASSUME NEW k \in 0 .. n - 1, i = a + k
        PROVE  i \in Reserved(t) /\ i < trans[t].start + (trans[t].used + n)
    BY <1>6, <1>8, <2>4
  <2>5. ASSUME i \in Reserved(t), i < a
        PROVE  i < trans[t].start + (trans[t].used + n)
    BY <1>6, <2>5 DEF Reserved
  <2>6. QED
    BY <2>1, <2>2, <2>3, <2>4, <2>5
<1>10. ASSUME NEW k \in 0 .. n - 1
       PROVE  /\ a + k \in Idx /\ log'[a + k].gen = trans[t].gen
              /\ log'[a + k].obj = ord[k] /\ log'[a + k].old = mem[ord[k]] /\ ord[k] \in objs
  <2>1. a + k \in Idx /\ (a + k) - a = k
    BY <1>6, <1>8
  <2>2. log'[a + k] = EntryOf(t, (a + k) - trans[t].start, {}, ord[k])
    BY <1>2, <2>1
  <2>3. ord[k] \in objs /\ ord[k] # None
    BY JournalAssumption
  <2>4. QED
    BY <2>1, <2>2, <2>3 DEF EntryOf
<1>11. ASSUME NEW i \in Idx, i \notin Reserved(t) \/ i \in Written(t)
       PROVE  log'[i] = log[i]
  <2>1. i \in Int /\ a \in Int /\ (i \in Written(t) => i < a)
    BY <1>6, JournalAssumption DEF Idx, Written
  <2>2. ASSUME i - a \in 0 .. n - 1
        PROVE  FALSE
    <3>1. i = a + (i - a)
      BY <2>1
    <3>2. i \in Reserved(t)
      BY <1>8, <2>2, <3>1
    <3>3. QED
      BY <1>11, <2>1, <2>2, <3>2
  <2>3. QED
    BY <1>2, <2>2
<1>12. Carried(t)'
  BY <1>2, <1>4, <1>5 DEF OwnInv, Carried
<1> DEFINE W == Written(t)
<1>13. ASSUME phase = "mounted", ~past.broken
       PROVE  LogTells(t)' /\ Owned(t)'
  <2>1. LogTells(t) /\ Owned(t) /\ trans[t].logged \subseteq trans[t].objs
    BY <1>13 DEF OwnInv, Carried
  <2>2. /\ \A i \in W : log'[i] = log[i] /\ i \in Nat /\ i < a
        /\ \A i \in W : log[i].gen = trans[t].gen /\ log[i].obj \in trans[t].logged
    BY <1>5, <1>6, <1>11, <2>1, JournalAssumption DEF LogTells, Idx, Written
  <2>3. \A o \in trans[t].logged :
          \E i \in W : /\ log[i].obj = o /\ log[i].old = past.settled[o]
                       /\ \A j \in W : log[j].obj = o => i <= j
    BY <1>5, <2>1 DEF LogTells
  <2>4. \A o \in trans[t].objs \ trans[t].logged : mem[o] = past.settled[o]
    BY <1>5, <2>1 DEF Owned
  <2>5. Owned(t)'
    BY <1>4, <1>5, <2>4 DEF Owned
  <2> HIDE DEF W, a
  <2>6. \A i : i \in Written(t)' <=> i \in W \/ \E k \in 0 .. n - 1 : i = a + k
    BY <1>9 DEF W, a
  <2>7. \A k \in 0 .. n - 1 : /\ log'[a + k].gen = trans[t].gen
                              /\ log'[a + k].obj = ord[k] /\ log'[a + k].old = mem[ord[k]]
                              /\ ord[k] \in objs
    BY <1>10 DEF a
  <2>8. a \in Nat
    BY <1>6
  <2>9. \A i \in Written(t)' : /\ log'[i].gen = trans'[t].gen
                               /\ log'[i].obj \in trans'[t].logged
    BY <1>4, <2>2, <2>6, <2>7
  <2>10. ASSUME NEW o \in trans'[t].logged
         PROVE  \E i \in Written(t)' :
                  /\ log'[i].obj = o /\ log'[i].old = past'.settled[o]
                  /\ \A j \in Written(t)' : log'[j].obj = o => i <= j
    <3>1. CASE o \in trans[t].logged
      <4>1. PICK i \in W : /\ log[i].obj = o /\ log[i].old = past.settled[o]
                           /\ \A j \in W : log[j].obj = o => i <= j
        BY <2>3, <3>1
      <4>2. ASSUME NEW j \in Written(t)', log'[j].obj = o
            PROVE  i <= j
        BY <2>2, <2>6, <2>8, <4>1, <4>2
      <4>3. QED
        BY <1>5, <2>2, <2>6, <4>1, <4>2
    <3>2. CASE o \notin trans[t].logged
      <4>1. o \in objs
        BY <1>4, <3>2
      <4> DEFINE K == {k \in 0 .. n - 1 : ord[k] = o}
      <4>2. \E k \in K : \A l \in K : k <= l
        <5>1. K \subseteq Nat /\ K # {}
          BY <1>2, <4>1
        <5> HIDE DEF K
        <5>2. QED
          BY <5>1, LeastOf
      <4>3. PICK k \in K : \A l \in K : k <= l
        BY <4>2
      <4>4. log'[a + k].obj = o /\ log'[a + k].old = past'.settled[o] /\ a + k \in Written(t)'
        <5>1. k \in 0 .. n - 1 /\ ord[k] = o
          BY <4>3
        <5>2. a + k \in Written(t)' /\ log'[a + k].obj = o /\ log'[a + k].old = mem[o]
          BY <2>6, <2>7, <5>1
        <5>3. o \in trans[t].objs
          BY <1>2, <4>1
        <5>4. mem[o] = past.settled[o]
          BY <2>4, <3>2, <5>3
        <5>5. QED
          BY <1>5, <5>2, <5>4
      <4>5. ASSUME NEW j \in Written(t)', log'[j].obj = o
            PROVE  a + k <= j
        <5>1. j \notin W
          BY <2>2, <3>2, <4>5
        <5>2. PICK l \in 0 .. n - 1 : j = a + l
          BY <2>6, <5>1
        <5>3. l \in K
          BY <2>7, <4>5, <5>2
        <5>4. QED
          BY <2>8, <4>3, <5>2, <5>3
      <4>6. QED
        BY <4>4, <4>5
    <3>3. QED
      BY <3>1, <3>2
  <2>11. LogTells(t)'
    BY <2>9, <2>10 DEF LogTells
  <2>12. QED
    BY <2>5, <2>11
<1>14. Active(t)'
  BY <1>4 DEF Active
<1>15. QED
  BY <1>4, <1>5, <1>7, <1>11, <1>12, <1>13, OwnStep

\* The caller's stores go to what it has logged.
LEMMA OwnStores ==
  ASSUME IInv, OwnInv, NEW t \in Tasks, Store(t)
  PROVE  OwnInv'
<1>1. /\ Active(t) /\ trans[t].pc = "run" /\ phase = "mounted"
      /\ UNCHANGED <<phase, past, log, trans>>
      /\ mem' = [o \in Objs |-> IF o \in trans[t].logged THEN trans[t].tid ELSE mem[o]]
  BY DEF Store, Running, Active, journal
<1>2. /\ \A u \in Tasks : trans'[u] = trans[u]
      /\ Active(t)' /\ Reserved(t)' = Reserved(t) /\ Written(t)' = Written(t)
  BY <1>1 DEF Active, Reserved, Written
<1>3. Carried(t) /\ trans[t].logged \subseteq trans[t].objs /\ trans[t].objs \subseteq Objs
  BY DEF OwnInv, Carried, IInv, TypeOK, TransType
<1>4. Carried(t)'
  BY <1>1, <1>3 DEF Carried
<1>5. ASSUME phase = "mounted", ~past.broken
      PROVE  LogTells(t)' /\ Owned(t)'
  <2>1. LogTells(t) /\ Owned(t)
    BY <1>5 DEF OwnInv
  <2>2. LogTells(t)'
    BY <1>1, <1>2, <2>1 DEF LogTells
  <2>3. Owned(t)'
    BY <1>1, <1>3, <2>1 DEF Owned
  <2>4. QED
    BY <2>2, <2>3
<1>6. \A o \in Objs : o \notin trans[t].objs => mem'[o] = mem[o]
  BY <1>1, <1>3
<1>7. QED
  BY <1>1, <1>2, <1>4, <1>5, <1>6, OwnStep

\* The entry that ends a transaction goes to its own place.
LEMMA LastEntrySteps ==
  ASSUME IInv, OwnInv, NEW t \in Tasks, NEW kind \in {"commit", "abort"}, Running(t),
         LastEntry(t, kind)
  PROVE  /\ Active(t) /\ trans[t].pc = "run" /\ phase = "mounted" /\ ~Active(t)'
         /\ \A u \in Tasks : u # t => trans'[u] = trans[u]
         /\ trans'[t].pc = "end" /\ trans'[t].kind = kind /\ trans'[t].tid = trans[t].tid
         /\ trans'[t].objs = trans[t].objs
         /\ \A i \in Idx : i \notin Reserved(t) => log'[i] = log[i]
         /\ Carried(t)'
<1>1. Active(t) /\ trans[t].pc = "run" /\ phase = "mounted"
  BY DEF Running, Active
<1>2. EntryAt(t) \in Reserved(t)
  BY <1>1, OwnEntries
<1>3. trans \in [Tasks -> TransType] /\ log \in [Idx -> Entries]
  BY DEF IInv, TypeOK, LogType
<1>4. /\ \A u \in Tasks : u # t => trans'[u] = trans[u]
      /\ trans'[t].pc = "end" /\ trans'[t].kind = kind /\ trans'[t].objs = trans[t].objs
      /\ trans'[t].logged = trans[t].logged /\ trans'[t].tid = trans[t].tid
  BY <1>3 DEF LastEntry, TransType
<1>5. \A i \in Idx : i \notin Reserved(t) => log'[i] = log[i]
  BY <1>2, <1>3 DEF LastEntry
<1>6. ~Active(t)'
  BY <1>4 DEF Active
<1>7. Carried(t)'
  BY <1>4 DEF OwnInv, Carried
<1>8. QED
  BY <1>1, <1>4, <1>5, <1>6, <1>7

\* A commit leaves what the transaction has stored.
LEMMA OwnCommits ==
  ASSUME IInv, OwnInv, NEW t \in Tasks, Commit(t)
  PROVE  OwnInv'
<1>1. /\ Running(t) /\ LastEntry(t, "commit") /\ UNCHANGED <<phase, past, mem>>
      /\ \A o \in trans[t].objs : mem[o] = trans[t].tid
  BY DEF Commit
<1>2. /\ Active(t) /\ trans[t].pc = "run" /\ phase = "mounted" /\ ~Active(t)'
      /\ \A u \in Tasks : u # t => trans'[u] = trans[u]
      /\ trans'[t].pc = "end" /\ trans'[t].kind = "commit" /\ trans'[t].tid = trans[t].tid
      /\ trans'[t].objs = trans[t].objs
      /\ \A i \in Idx : i \notin Reserved(t) => log'[i] = log[i]
      /\ Carried(t)'
  BY <1>1, LastEntrySteps
<1>3. LogTells(t)'
  BY <1>2 DEF LogTells
<1>4. Owned(t)'
  BY <1>1, <1>2 DEF Owned
<1>5. QED
  BY <1>1, <1>2, <1>3, <1>4, OwnStep

\* Undoing gives each of the transaction's objects its old value, and the others what they have.
LEMMA UndoneOwn ==
  ASSUME IInv, OwnInv, phase = "mounted", ~past.broken, NEW t \in Tasks, trans[t].pc = "run",
         NEW o \in Objs
  PROVE  Undone(Written(t), trans[t].gen)[o] =
           IF o \in trans[t].objs THEN past.settled[o] ELSE mem[o]
<1> DEFINE W == Written(t)
           g == trans[t].gen
           E == {i \in W : log[i].gen = g /\ log[i].obj = o}
           first == CHOOSE i \in E : \A j \in E : i <= j
<1>1. Undone(W, g)[o] = IF E = {} THEN mem[o] ELSE log[first].old
  BY DEF Undone
<1>2. LogTells(t) /\ Owned(t) /\ trans[t].logged \subseteq trans[t].objs /\ Active(t)
  BY DEF OwnInv, Carried, Active
<1>3. /\ \A i \in W : log[i].gen = g /\ log[i].obj \in trans[t].logged
      /\ \A p \in trans[t].logged :
           \E i \in W : /\ log[i].obj = p /\ log[i].old = past.settled[p]
                        /\ \A j \in W : log[j].obj = p => i <= j
  BY <1>2 DEF LogTells
<1>4. W \subseteq Nat
  BY <1>2, OwnEntries, JournalAssumption DEF Idx
<1>5. \A p \in trans[t].objs \ trans[t].logged : mem[p] = past.settled[p]
  BY <1>2 DEF Owned
<1> HIDE DEF W, g
<1>6. CASE o \in trans[t].logged
  <2>1. PICK i \in W : /\ log[i].obj = o /\ log[i].old = past.settled[o]
                       /\ \A j \in W : log[j].obj = o => i <= j
    BY <1>3, <1>6
  <2>2. i \in E /\ \A j \in E : i <= j
    BY <1>3, <2>1
  <2>3. \A k \in E : (\A j \in E : k <= j) => k = i
    <3> SUFFICES ASSUME NEW k \in E, \A j \in E : k <= j
                 PROVE  k = i
      OBVIOUS
    <3>1. k <= i /\ i <= k /\ k \in Nat /\ i \in Nat
      BY <1>4, <2>2
    <3>2. QED
      BY <3>1
  <2> HIDE DEF E
  <2>4. first = i
    BY <2>2, <2>3
  <2>5. QED
    BY <1>1, <1>2, <1>6, <2>1, <2>2, <2>4 DEF W, g
<1>7. CASE o \notin trans[t].logged
  <2>1. E = {}
    BY <1>3, <1>7
  <2> HIDE DEF E
  <2>2. QED
    BY <1>1, <1>5, <1>7, <2>1 DEF W, g
<1>8. QED
  BY <1>6, <1>7

\* An abort takes back what the transaction has stored, and nothing else.
LEMMA OwnAborts ==
  ASSUME IInv, OwnInv, NEW t \in Tasks, Abort(t)
  PROVE  OwnInv'
<1>1. /\ Running(t) /\ LastEntry(t, "abort") /\ UNCHANGED <<phase, past>>
      /\ mem' = Undone(Written(t), trans[t].gen)
  BY DEF Abort
<1>2. /\ Active(t) /\ trans[t].pc = "run" /\ phase = "mounted" /\ ~Active(t)'
      /\ \A u \in Tasks : u # t => trans'[u] = trans[u]
      /\ trans'[t].pc = "end" /\ trans'[t].kind = "abort" /\ trans'[t].tid = trans[t].tid
      /\ trans'[t].objs = trans[t].objs
      /\ \A i \in Idx : i \notin Reserved(t) => log'[i] = log[i]
      /\ Carried(t)'
  BY <1>1, LastEntrySteps
<1>3. trans[t].objs \subseteq Objs
  BY DEF IInv, TypeOK, TransType
<1>4. LogTells(t)'
  BY <1>2 DEF LogTells
<1>5. ASSUME phase = "mounted", ~past.broken
      PROVE  /\ \A o \in Objs : o \notin trans[t].objs => mem'[o] = mem[o]
             /\ Owned(t)'
  <2>1. \A o \in Objs : mem'[o] = IF o \in trans[t].objs THEN past.settled[o] ELSE mem[o]
    BY <1>1, <1>2, <1>5, UndoneOwn
  <2>2. Owned(t)'
    BY <1>1, <1>2, <1>3, <2>1 DEF Owned
  <2>3. QED
    BY <2>1, <2>2
<1>6. QED
  BY <1>1, <1>2, <1>4, <1>5, OwnStep

\* The fence behind the last entry settles what has been committed.
LEMMA OwnSettles ==
  ASSUME IInv, OwnInv, NEW t \in Tasks, LastFence(t)
  PROVE  OwnInv'
<1>1. /\ phase = "mounted" /\ trans[t].pc = "end" /\ UNCHANGED <<phase, log, mem>>
      /\ past' = [past EXCEPT !.settled =
           [o \in Objs |-> IF trans[t].kind = "commit" /\ o \in trans[t].objs
                           THEN trans[t].tid ELSE @[o]]]
      /\ trans' = [trans EXCEPT ![t] = NoTrans]
  BY DEF LastFence, data
<1>2. trans \in [Tasks -> TransType] /\ PastType
  BY DEF IInv, TypeOK
<1>3. /\ trans'[t] = NoTrans /\ \A u \in Tasks : u # t => trans'[u] = trans[u]
      /\ past'.broken = past.broken
      /\ \A o \in Objs : past'.settled[o] = IF trans[t].kind = "commit" /\ o \in trans[t].objs
                                            THEN trans[t].tid ELSE past.settled[o]
      /\ \A u \in Tasks : trans[u].objs \subseteq Objs
  BY <1>1, <1>2 DEF PastType, TransType
<1>4. /\ trans'[t].objs = {} /\ trans'[t].logged = {} /\ trans'[t].pc = "idle"
  BY <1>3 DEF NoTrans
<1>5. Carried(t)' /\ LogTells(t)' /\ Owned(t)' /\ ~Active(t)'
  BY <1>4 DEF Carried, LogTells, Owned, Active
<1>6. \A u \in Tasks : u # t => Alike(u)
  BY <1>3, Unmoved
<1>7. \A u \in Tasks : Carried(u)'
  BY <1>5, <1>6, AlikeKeeps DEF OwnInv
<1>8. ASSUME ~past.broken
      PROVE  /\ OneWriter' /\ OnlyOwnChanges'
             /\ \A u \in Tasks : LogTells(u)' /\ Owned(u)'
  <2>1. OneWriter /\ OnlyOwnChanges /\ \A u \in Tasks : LogTells(u) /\ Owned(u)
    BY <1>1, <1>8 DEF OwnInv
  <2>2. ASSUME NEW u \in Tasks, u # t
        PROVE  ObjsKept(u) /\ EntriesKept(u)
    <3>1. trans[u].objs \cap trans[t].objs = {}
      BY <2>1, <2>2 DEF OneWriter
    <3>2. QED
      BY <1>1, <1>3, <3>1 DEF ObjsKept, EntriesKept
  <2>3. \A u \in Tasks : LogTells(u)' /\ Owned(u)'
    BY <1>5, <1>6, <2>1, <2>2, AlikeKeeps DEF OwnInv
  <2>4. OneWriter'
    <3>1. \A u \in Tasks : u # t => (Active(u)' <=> Active(u)) /\ Reserved(u)' = Reserved(u)
      BY <1>6, AlikePlaces
    <3>2. QED
      BY <1>3, <1>4, <1>5, <2>1, <3>1 DEF OneWriter
  <2>5. OnlyOwnChanges'
    <3> SUFFICES ASSUME NEW o \in Objs, \A u \in Tasks : o \notin trans'[u].objs
                 PROVE  mem'[o] = past'.settled[o]
      BY DEF OnlyOwnChanges
    <3>1. CASE o \in trans[t].objs
      BY <1>1, <1>3, <2>1, <3>1 DEF Owned
    <3>2. CASE o \notin trans[t].objs
      <4>1. \A u \in Tasks : o \notin trans[u].objs
        BY <1>3, <3>2
      <4>2. mem[o] = past.settled[o]
        BY <1>1, <1>8, <2>1, <4>1 DEF OnlyOwnChanges
      <4>3. QED
        BY <1>1, <1>3, <3>2, <4>2
    <3>3. QED
      BY <3>1, <3>2
  <2>6. QED
    BY <2>3, <2>4, <2>5
<1>9. QED
  BY <1>3, <1>7, <1>8 DEF OwnInv

\* A transaction begins with objects that nobody has, and which are as they were settled;
\* the entries it takes are nobody's.
LEMMA OwnBegins ==
  ASSUME IInv, IInv', OwnInv, NEW t \in Tasks, NewTransaction(t) \/ Again(t)
  PROVE  OwnInv'
<1>1. /\ phase = "mounted" /\ UNCHANGED <<phase, log, mem>> /\ past'.settled = past.settled
  BY Reservations DEF data, PromisesKept
<1>2. PICK r \in TransType :
        /\ \/ /\ trans[t].pc = "idle" /\ r.used = 0 /\ r.skipped = FALSE
              /\ r.logged = {} /\ r.objs \cap Busy = {}
           \/ r = trans[t] /\ r.pc = "wrapped"
        /\ Fails(t) \/ Wraps(t, r) \/ Takes(t, r)
  BY Reservations
<1>3. trans \in [Tasks -> TransType]
  BY DEF IInv, TypeOK
<1>4. Carried(t)
  BY DEF OwnInv
<1>5. /\ r.used = 0 /\ r.logged = {} /\ ~r.skipped /\ r.objs \subseteq Objs
      /\ trans[t].logged = {} \/ trans[t].pc = "idle"
      /\ trans[t].pc \in {"idle", "wrapped"}
  BY <1>2, <1>4 DEF Carried, TransType
<1>6. /\ \A u \in Tasks : u # t => trans'[u] = trans[u]
      /\ \/ Fails(t) /\ trans'[t] = NoTrans
         \/ Wraps(t, r) /\ trans'[t] = [r EXCEPT !.pc = "wrapped"]
         \/ Takes(t, r) /\ trans'[t] = [r EXCEPT !.pc = "run", !.start = hdr.tail,
                                                 !.gen = hdr.gen]
  BY <1>2, <1>3 DEF Fails, Wraps, Takes
<1>7. /\ trans'[t].logged = {} /\ trans'[t].used = 0 /\ ~trans'[t].skipped
      /\ \/ Fails(t) /\ trans'[t].pc = "idle" /\ trans'[t].objs = {}
         \/ HasRoom(r) /\ trans'[t].objs = r.objs /\ trans'[t].pc = "wrapped"
         \/ /\ HasRoom(r) /\ trans'[t].objs = r.objs /\ trans'[t].pc = "run"
            /\ trans'[t].start = hdr.tail /\ trans'[t].size = r.size
            /\ hdr.tail + r.size < JSize
  <2>1. CASE Fails(t) /\ trans'[t] = NoTrans
    BY <2>1 DEF NoTrans
  <2>2. CASE Wraps(t, r) /\ trans'[t] = [r EXCEPT !.pc = "wrapped"]
    BY <1>5, <2>2 DEF TransType, Wraps
  <2>3. CASE Takes(t, r) /\ trans'[t] = [r EXCEPT !.pc = "run", !.start = hdr.tail,
                                                  !.gen = hdr.gen]
    <3>1. HasRoom(r) /\ hdr.tail + r.size < JSize
      BY <2>3 DEF Takes
    <3>2. /\ trans'[t].logged = {} /\ trans'[t].used = 0 /\ ~trans'[t].skipped
          /\ trans'[t].objs = r.objs /\ trans'[t].pc = "run"
          /\ trans'[t].start = hdr.tail /\ trans'[t].size = r.size
      BY <1>5, <2>3 DEF TransType
    <3>3. QED
      BY <3>1, <3>2
  <2>4. QED
    BY <1>6, <2>1, <2>2, <2>3
<1>8. Carried(t)'
  BY <1>7 DEF Carried
<1>9. \A u \in Tasks : u # t => Alike(u)
  BY <1>6, Unmoved
<1>10. \A u \in Tasks : Carried(u)'
  BY <1>8, <1>9, AlikeKeeps DEF OwnInv
<1>11. ASSUME ~past'.broken
       PROVE  /\ OneWriter' /\ OnlyOwnChanges'
              /\ \A u \in Tasks : LogTells(u)' /\ Owned(u)'
  <2>1. ~past.broken
    BY <1>7, <1>11 DEF Fails, HasRoom
  <2>2. OneWriter /\ OnlyOwnChanges /\ \A u \in Tasks : LogTells(u) /\ Owned(u)
    BY <1>1, <2>1 DEF OwnInv
  <2>3. \A u \in Tasks : ObjsKept(u) /\ EntriesKept(u)
    BY <1>1 DEF ObjsKept, EntriesKept
  <2>4. \A u \in Tasks : u # t => LogTells(u)' /\ Owned(u)'
    BY <1>9, <2>2, <2>3, AlikeKeeps DEF OwnInv
  <2>5. LogTells(t)'
    <3>1. ASSUME Active(t)'
          PROVE  Written(t)' = {}
      <4>1. trans'[t].start \in Nat
        BY JournalAssumption DEF IInv, TypeOK, TransType, Idx
      <4>2. QED
        BY <1>7, <4>1 DEF Written, Reserved
    <3>2. QED
      BY <1>7, <3>1 DEF LogTells
  <2>6. ASSUME NEW o \in r.objs
        PROVE  mem[o] = past.settled[o]
    <3>1. CASE r.objs \cap Busy = {}
      <4>1. \A u \in Tasks : o \notin trans[u].objs
        BY <2>6, <3>1 DEF Busy
      <4>2. QED
        BY <1>1, <1>5, <2>1, <2>2, <4>1 DEF OnlyOwnChanges
    <3>2. CASE r = trans[t] /\ r.pc = "wrapped"
      BY <1>5, <2>2, <3>2 DEF Owned
    <3>3. QED
      BY <1>2, <3>1, <3>2
  <2>7. Owned(t)'
    BY <1>1, <1>7, <2>6 DEF Owned
  <2>8. ASSUME NEW u \in Tasks, u # t
        PROVE  /\ trans'[t].objs \cap trans'[u].objs = {}
               /\ Active(t)' /\ Active(u)' => Reserved(t)' \cap Reserved(u)' = {}
    <3>1. trans'[u] = trans[u] /\ Reserved(u)' = Reserved(u) /\ (Active(u)' <=> Active(u))
      BY <1>6, <1>9, <2>8, AlikePlaces
    <3>2. r.objs \cap trans[u].objs = {}
      <4>1. CASE r.objs \cap Busy = {}
        BY <4>1 DEF Busy
      <4>2. CASE r = trans[t]
        BY <2>2, <2>8, <4>2 DEF OneWriter
      <4>3. QED
        BY <1>2, <4>1, <4>2
    <3>3. ASSUME Active(t)', Active(u)'
          PROVE  Reserved(t)' \cap Reserved(u)' = {}
      <4>1. /\ HasRoom(r) /\ trans'[t].start = hdr.tail /\ trans'[t].size = r.size
            /\ hdr.tail + r.size < JSize
        BY <1>7, <3>3 DEF Active
      <4>2. Reserved(t)' = hdr.tail .. hdr.tail + r.size - 1
        BY <4>1 DEF Reserved
      <4>3. CASE trans[u].skipped
        BY <1>11, <3>1, <3>3, <4>1, <4>2, <4>3 DEF HasRoom, Reuses
      <4>4. CASE ~trans[u].skipped
        <5>1. Live(t)' /\ Live(u)'
          BY <1>7, <3>1, <3>3, <4>4 DEF Live
        <5>2. \/ trans'[t].start + trans'[t].size <= trans'[u].start
              \/ trans'[u].start + trans'[u].size <= trans'[t].start
          BY <1>11, <2>8, <5>1 DEF IInv, LiveInFront
        <5>3. /\ trans'[t].start \in Nat /\ trans'[t].size \in Nat
              /\ trans'[u].start \in Nat /\ trans'[u].size \in Nat
          BY JournalAssumption DEF IInv, TypeOK, TransType, Idx
        <5>4. QED
          BY <5>2, <5>3 DEF Reserved
      <4>5. QED
        BY <4>3, <4>4
    <3>4. QED
      BY <1>7, <3>1, <3>2, <3>3
  <2>9. OneWriter'
    <3>1. ASSUME NEW u \in Tasks, NEW v \in Tasks, u # v
          PROVE  /\ trans'[u].objs \cap trans'[v].objs = {}
                 /\ Active(u)' /\ Active(v)' => Reserved(u)' \cap Reserved(v)' = {}
      <4>1. CASE u = t
        BY <2>8, <3>1, <4>1
      <4>2. CASE v = t
        BY <2>8, <3>1, <4>2
      <4>3. CASE u # t /\ v # t
        BY <1>6, <1>9, <2>2, <3>1, <4>3, AlikePlaces DEF OneWriter
      <4>4. QED
        BY <4>1, <4>2, <4>3
    <3>2. QED
      BY <3>1 DEF OneWriter
  <2>10. OnlyOwnChanges'
    <3> SUFFICES ASSUME NEW o \in Objs, \A u \in Tasks : o \notin trans'[u].objs
                 PROVE  mem'[o] = past'.settled[o]
      BY DEF OnlyOwnChanges
    <3>1. CASE o \in trans[t].objs
      BY <1>1, <1>4, <1>5, <2>2, <3>1 DEF Owned, Carried
    <3>2. CASE o \notin trans[t].objs
      <4>1. \A u \in Tasks : o \notin trans[u].objs
        BY <1>6, <3>2
      <4>2. mem[o] = past.settled[o]
        BY <1>1, <2>1, <2>2, <4>1 DEF OnlyOwnChanges
      <4>3. QED
        BY <1>1, <4>2
    <3>3. QED
      BY <3>1, <3>2
  <2>11. QED
    BY <2>4, <2>5, <2>7, <2>9, <2>10
<1>12. QED
  BY <1>1, <1>10, <1>11 DEF OwnInv

\* The cleaner's turn, unless it goes over a running transaction.
LEMMA OwnCleans ==
  ASSUME IInv, OwnInv, CleanStep
  PROVE  OwnInv'
<1>1. UNCHANGED <<phase, mem>>
  BY DEF CleanStep, data
<1>2. /\ past'.settled = past.settled
      /\ ~past'.broken => ~past.broken /\ (UNCHANGED log \/ ~SkipsInLast)
  BY CleanerPast DEF IInv, PromisesKept
<1>3. ~past'.broken => \A t \in Tasks : EntriesKept(t)
  <2>1. UNCHANGED log \/ log' = Invalidated(Passed, cleaner.gen)
    BY DEF CleanStep
  <2>2. ASSUME ~past'.broken, NEW t \in Tasks, Active(t), NEW i \in Written(t),
               log' = Invalidated(Passed, cleaner.gen), ~SkipsInLast
        PROVE  log'[i] = log[i]
    <3>1. i \in Reserved(t) /\ Reserved(t) \subseteq Idx
      BY <2>2, OwnEntries
    <3>2. ~(i \in Passed /\ cleaner.gen = MaxGen)
      BY <2>2, <3>1 DEF SkipsInLast, Skips
    <3>3. QED
      BY <2>2, <3>1, <3>2 DEF Invalidated
  <2>3. QED
    BY <1>2, <2>1, <2>2 DEF EntriesKept
<1>4. ASSUME NEW t \in Tasks
      PROVE  Alike(t)
  <2>1. CASE UNCHANGED trans
    BY <2>1, Unmoved
  <2>2. ASSUME NEW e \in Idx,
               trans' = [u \in Tasks |-> [trans[u] EXCEPT !.skipped =
                 @ \/ (Active(u) /\ Reserved(u) \cap (cleaner.head .. e) # {})]]
        PROVE  Alike(t)
    <3> DEFINE passed(u) == Active(u) /\ Reserved(u) \cap (cleaner.head .. e) # {}
    <3>1. trans' = [u \in Tasks |-> [trans[u] EXCEPT !.skipped = @ \/ passed(u)]]
      BY <2>2
    <3>2. trans[t].pc = "wrapped" => passed(t) = FALSE
      BY DEF Active
    <3> HIDE DEF passed
    <3>3. trans[t] \in TransType
      BY DEF IInv, TypeOK
    <3>4. trans'[t] = [trans[t] EXCEPT !.skipped = @ \/ passed(t)]
      BY <3>1
    <3>5. trans[t].pc = "wrapped" => trans'[t].skipped = trans[t].skipped
      BY <3>2, <3>3, <3>4 DEF TransType
    <3>6. QED
      BY <3>3, <3>4, <3>5 DEF Alike, TransType
  <2>3. QED
    BY <2>1, <2>2, CleanerSteps DEF IInv
<1>5. QED
  BY <1>1, <1>2, <1>3, <1>4, QuietKeeps

\* Where there is no mounted volume there is little to say.
LEMMA OwnStops ==
  ASSUME OwnInv, phase' # "mounted",
         UNCHANGED trans \/ \A t \in Tasks : trans'[t] = NoTrans
  PROVE  OwnInv'
<1>1. ASSUME NEW t \in Tasks
      PROVE  Carried(t)'
  <2>1. CASE UNCHANGED trans
    BY <2>1 DEF OwnInv, Carried
  <2>2. CASE trans'[t] = NoTrans
    BY <2>2 DEF NoTrans, Carried
  <2>3. QED
    BY <2>1, <2>2
<1>2. QED
  BY <1>1 DEF OwnInv

\* A mount settles what recovery has left.
LEMMA OwnMounts ==
  ASSUME IInv, OwnInv, Mounted
  PROVE  OwnInv'
<1>1. /\ phase = "recovered" /\ UNCHANGED <<trans, mem>>
      /\ past' = [past EXCEPT !.settled = mem, !.doubt = {}, !.excused = {}]
  BY DEF Mounted, data
<1>2. \A t \in Tasks : trans[t].pc = "idle"
  BY <1>1 DEF IInv, Stages
<1>3. \A t \in Tasks : Carried(t)' /\ trans[t].objs = {} /\ ~Active(t)'
  BY <1>1, <1>2 DEF OwnInv, Carried, Active
<1>4. past'.settled = mem'
  BY <1>1 DEF IInv, TypeOK, PastType
<1>5. OneWriter' /\ OnlyOwnChanges'
  BY <1>1, <1>3, <1>4 DEF OneWriter, OnlyOwnChanges
<1>6. \A t \in Tasks : LogTells(t)' /\ Owned(t)'
  BY <1>1, <1>2, <1>3 DEF LogTells, Owned
<1>7. QED
  BY <1>3, <1>5, <1>6 DEF OwnInv

\* Whose changes there are, from step to step.
LEMMA OwnStepKeeps ==
  ASSUME IInv, IInv', OwnInv, [Next]_vars
  PROVE  OwnInv'
<1>1. ASSUME NEW t \in Tasks, TaskStep(t)
      PROVE  OwnInv'
  <2>1. CASE LogFence(t)
    <3>1. /\ UNCHANGED <<phase, log, mem, past>> /\ trans[t].pc = "log"
          /\ trans' = [trans EXCEPT ![t].pc = "run"]
      BY <2>1 DEF LogFence, data
    <3>2. \A u \in Tasks : u # t => Alike(u)
      BY <3>1, Unmoved
    <3>3. Alike(t)
      BY <3>1 DEF Alike, IInv, TypeOK, TransType
    <3>4. \A u \in Tasks : Alike(u) /\ EntriesKept(u)
      BY <3>1, <3>2, <3>3 DEF EntriesKept
    <3>5. QED
      BY <3>1, <3>4, QuietKeeps
  <2>2. QED
    BY <1>1, <2>1, OwnBegins, OwnLogs, OwnStores, OwnCommits, OwnAborts, OwnSettles
       DEF TaskStep
<1>2. CASE \/ CleanStart \/ CleanHead \/ CleanEnd \/ Unmount \/ WriteBackHeader
           \/ UNCHANGED vars
  <2>1. /\ UNCHANGED <<trans, log, mem, past>> /\ (phase' = "mounted" => phase = "mounted")
    BY <1>2 DEF CleanStart, CleanHead, CleanEnd, Unmount, WriteBackHeader, vars, journal, data
  <2>2. \A t \in Tasks : Alike(t) /\ EntriesKept(t)
    BY <2>1, Unmoved DEF EntriesKept
  <2>3. QED
    BY <2>1, <2>2, QuietKeeps
<1>3. CASE Recovery
  <2>1. CASE Mounted
    BY <2>1, OwnMounts
  <2>2. CASE ~Mounted
    <3>1. UNCHANGED trans /\ phase' # "mounted"
      BY <1>3, <2>2 DEF Recovery, Mount, RecoverStep, ForwardInvalidate, ForwardGen,
         ForwardHead, ForwardFence
    <3>2. QED
      BY <3>1, OwnStops
  <2>3. QED
    BY <2>1, <2>2
<1>4. CASE Crash
  BY <1>4, OwnStops DEF Crash
<1>5. QED
  BY <1>1, <1>2, <1>3, <1>4, OwnCleans DEF Next, Cleaning

(***************************************************************************)
(* The theorems.                                                           *)
(***************************************************************************)
\* A journal that has just been made is in order.
LEMMA InitInv == Init => IInv
<1> SUFFICES ASSUME Init
             PROVE  IInv
  OBVIOUS
<1>1. /\ JSize \in Nat \ {0, 1} /\ MaxGen \in Nat \ {0, 1} /\ MaxTrans \in Nat
      /\ MaxEntries \in Nat /\ MaxCrashes \in Nat
      /\ 0 \in Idx /\ 0 \in Tids /\ 1 \in 1 .. MaxGen /\ 0 \in 0 .. MaxGen
      /\ 0 \in 0 .. MaxEntries + 1
  BY JournalAssumption DEF Idx, Tids
<1>2. HeaderType /\ CleanerType /\ walk \in [tail : Idx, gen : 1 .. MaxGen]
  BY <1>1 DEF Init, HeaderType, CleanerType, Asleep, NoWalk
<1>3. Blank \in Entries
  BY <1>1 DEF Blank, Entries, Kinds
<1>4. LogType /\ DataType
  BY <1>1, <1>3 DEF Init, LogType, DataType
<1>5. NoTrans \in TransType
  BY <1>1 DEF NoTrans, TransType
<1>6. trans \in [Tasks -> TransType] /\ \A t \in Tasks : trans[t] = NoTrans
  BY <1>5 DEF Init
<1>7. PastType
  BY <1>1 DEF Init, PastType
<1>8. phase \in Phases /\ tids \in Tids /\ crashes \in 0 .. MaxCrashes
  BY <1>1 DEF Init, Phases
<1>9. Stages /\ EntriesFit
  BY <1>6 DEF Init, Stages, EntriesFit, NoTrans, Asleep
<1>10. WrapInHand /\ CleanerOnWay /\ LiveInFront
  BY <1>6 DEF Init, WrapInHand, CleanerOnWay, LiveInFront, Live, Active, NoTrans, Asleep
<1>11. QED
  BY <1>2, <1>4, <1>6, <1>7, <1>8, <1>9, <1>10 DEF IInv, TypeOK

\* Whatever tasks, the cleaner, power failures and recoveries do, in whatever order,
\* the header, the log, the transactions and the cleaner stay as IInv relates them.
THEOREM Invariance == Spec => []IInv
<1>1. IInv /\ [Next]_vars => IInv'
  <2> SUFFICES ASSUME IInv, [Next]_vars
               PROVE  IInv'
    OBVIOUS
  <2>1. TypeOK'
    BY HeaderTypeStep, LogTypeStep, DataTypeStep, TransTypeStep, CleanerTypeStep, RestStep
       DEF TypeOK, Entered, Rest
  <2>2. Stages' /\ EntriesFit'
    BY StagesStep, TransTypeStep DEF Entered
  <2>3. QED
    BY <2>1, <2>2, PlacesStep DEF IInv, Places
<1>2. QED
  BY <1>1, InitInv, PTL DEF Spec

\* The head, the tail, the cleaner and the recovery's walk stay inside the journal, and
\* every entry and piece of data keeps its type, also after a failure at any place.
THEOREM TypeCorrect == Spec => []TypeOK
<1>1. IInv => TypeOK
  BY DEF IInv
<1>2. QED
  BY <1>1, Invariance, PTL

\* However the journal wraps and is cleaned, no two transactions that still write share
\* an entry, unless a full journal has been overrun.
THEOREM ReservationsDisjoint == Spec => []ReservationsApart
<1>1. IInv => ReservationsApart
  <2> SUFFICES ASSUME IInv, ~past.broken, NEW t \in Tasks, NEW u \in Tasks, t # u,
                      Live(t), Live(u)
               PROVE  Reserved(t) \cap Reserved(u) = {}
    BY DEF ReservationsApart
  <2>1. \/ trans[t].start + trans[t].size <= trans[u].start
        \/ trans[u].start + trans[u].size <= trans[t].start
    BY DEF IInv, LiveInFront
  <2>2. QED
    BY <2>1, Ranges DEF Reserved
<1>2. QED
  BY <1>1, Invariance, PTL

\* The entries of a transaction that may have changed something lie between head and
\* tail, in the header the CPUs see and in the one a power failure would leave.
THEOREM LiveEntriesStay == Spec => []LiveEntriesKept
<1>1. IInv => LiveEntriesKept
  <2> SUFFICES ASSUME IInv, ~past.broken, NEW t \in Tasks, Live(t)
               PROVE  Reserved(t) \subseteq Between(hdr) \cap Between(nhdr)
    BY DEF LiveEntriesKept, Live, Active
  <2>1. Inside(trans[t], hdr.head, hdr.tail) /\ Inside(trans[t], nhdr.head, nhdr.tail)
    BY DEF IInv, LiveInFront
  <2>2. /\ trans[t].start \in Nat /\ trans[t].size \in Nat
        /\ trans[t].start + trans[t].size < JSize
    BY Ranges, LiveRanges
  <2>3. Reserved(t) \subseteq Between(hdr)
    BY <2>1, <2>2, Ranges DEF Inside, Reserved, Between
  <2>4. Reserved(t) \subseteq Between(nhdr)
    BY <2>1, <2>2, Ranges DEF Inside, Reserved, Between
  <2>5. QED
    BY <2>3, <2>4
<1>2. QED
  BY <1>1, Invariance, PTL

\* On a journal that has just been made nobody has anything.
LEMMA InitOwn == Init => OwnInv
<1> SUFFICES ASSUME Init
             PROVE  OwnInv
  OBVIOUS
<1>1. \A t \in Tasks : trans[t].pc = "idle" /\ trans[t].objs = {} /\ trans[t].logged = {}
  BY DEF Init, NoTrans
<1>2. \A t \in Tasks : Carried(t)
  BY <1>1 DEF Carried
<1>3. past.settled = mem
  BY DEF Init
<1>4. OneWriter /\ OnlyOwnChanges /\ \A t \in Tasks : LogTells(t) /\ Owned(t)
  BY <1>1, <1>3 DEF OneWriter, OnlyOwnChanges, LogTells, Owned, Active
<1>5. QED
  BY <1>2, <1>4 DEF OwnInv

\* Each transaction's entries tell what its objects were before it, no object and no entry
\* has two writers, and what nobody writes is as it was settled.
THEOREM OwnInvariance == Spec => []OwnInv
<1>1. IInv /\ IInv' /\ OwnInv /\ [Next]_vars => OwnInv'
  BY OwnStepKeeps
<1>2. QED
  BY <1>1, InitOwn, Invariance, PTL DEF Spec

\* An abort takes back what its transaction has changed and nothing else, a commit keeps it,
\* and neither the wraps of the journal nor the cleaner come between, unless entries of a
\* running transaction have been reused or invalidated.
THEOREM ChangesAreOwn == Spec => []OnlyOwnChanges
<1>1. OwnInv => OnlyOwnChanges
  BY DEF OwnInv, OnlyOwnChanges
<1>2. QED
  BY <1>1, OwnInvariance, PTL

(***************************************************************************)
(* Recovery.  As long as the generations have not come to the last one,    *)
(* every entry carries the generation of the lap it was written in, and    *)
(* what is older than its lap is left over.  The rest of the module shows  *)
(* that recovery is atomic there.                                          *)
(*                                                                         *)
(* L is a log, h a header, M the meta-data and X the objects that are      *)
(* excused; T is what each object is to be after recovery.                 *)
(***************************************************************************)
\* The lap that an entry lies in: that of the tail, or the one before.
Lap(h, i) == IF i < h.tail THEN h.gen ELSE h.gen - 1
\* An entry between head and tail that is not left over from an earlier lap.
Valid(L, h, i) == i \in Between(h) /\ L[i].gen = Lap(h, i)
\* One that starts a transaction.
StartAt(L, h, i) == Valid(L, h, i) /\ "start" \in L[i].kind
\* One that ends a transaction.
EndAt(L, h, i) == Valid(L, h, i) /\ L[i].kind \cap {"commit", "abort"} # {}

\* What recovery takes for the entries of the transaction that starts at b.
Reach(L, h, b) ==
  {i \in Idx :
     /\ b <= i /\ Low(h, i) <= b /\ Valid(L, h, i)
     /\ \A j \in b + 1 .. i : ~StartAt(L, h, j)
     /\ \A j \in b .. i - 1 : ~EndAt(L, h, j)}
\* A transaction that recovery is to undo.
LeftOpen(L, h, b) == StartAt(L, h, b) /\ \A i \in Reach(L, h, b) : ~EndAt(L, h, i)

\* i is the first entry of o in S, the one that is undone last.
LeastFor(S, L, o, i) == i \in S /\ L[i].obj = o /\ \A j \in S : L[j].obj = o => i <= j

\* A recovery that begins here makes every object what it is to be: what it puts back is
\* that, and it puts back all that is not that yet.
Good(L, h, M, T, X) ==
  /\ \A b \in Idx : LeftOpen(L, h, b) =>
       \A o \in Objs \ X, i \in Idx : LeastFor(Reach(L, h, b), L, o, i) => L[i].old = T[o]
  /\ \A o \in Objs \ X :
       \/ M[o] = T[o]
       \/ \E b \in Idx : LeftOpen(L, h, b) /\ \E i \in Reach(L, h, b) : L[i].obj = o

\* What is settled, or what a transaction in doubt wrote, all of it.
Promised(T) ==
  \A o \in Objs :
    \/ T[o] = past.settled[o]
    \/ \E d \in past.doubt : o \in d.objs /\ \A p \in d.objs : T[p] = d.tid

\* The volume is not between a failure and the end of its recovery.
Away == phase \in {"mounted", "stopping", "unmounted"}
\* t has entries.
Going(t) == trans[t].pc \in {"run", "log", "end"}
\* The last one that it has written.
Last(t) == trans[t].start + trans[t].used - 1
\* Before the last generation.
Early == hdr.gen # MaxGen

\* No entry is younger than its lap, and a line that is not written back hides an older one.
Ages ==
  \A i \in Idx :
    /\ log[i].gen <= Lap(hdr, i) /\ log[i].gen <= Lap(nhdr, i)
    /\ nlog[i] = log[i] \/ nlog[i].gen < log[i].gen
\* What a transaction has reserved and not yet written is left over.
AgesOf(t) ==
  /\ Going(t) => \A i \in Reserved(t) : trans[t].gen <= Lap(hdr, i) /\ trans[t].gen <= Lap(nhdr, i)
  /\ Active(t) => \A i \in Reserved(t) \ Written(t) : log[i].gen < trans[t].gen
  /\ Live(t) => \A h \in {hdr, nhdr} : Lap(h, trans[t].start) = trans[t].gen
\* A journal whose tail has wrapped is in its second lap at least.
Laps == \A h \in {hdr, nhdr} : h.tail < h.head => h.gen > 1
\* The cleaner is in a lap that has begun.
CleanerLap ==
  cleaner.pc \in {"scan", "store"} =>
    cleaner.gen <= hdr.gen /\ (cleaner.tail < cleaner.head => cleaner.gen < hdr.gen)
\* No tail lies among the entries of a transaction.
WholeOf(t) ==
  Active(t) => \A h \in {hdr, nhdr} : h.tail <= trans[t].start \/ trans[t].start + trans[t].size <= h.tail

\* Only what a transaction has written since its last fence may be lost.
Unwritten == \A i \in Idx : nlog[i] # log[i] =>
                \E t \in Tasks : trans[t].pc \in {"log", "end"} /\ i \in Written(t)

\* s .. e are the entries of a transaction that has ended, those that are still in the journal.
Run(L, h, s, e) ==
  /\ Low(h, e) <= s /\ s <= e
  /\ s = Low(h, e) \/ StartAt(L, h, s)
  /\ EndAt(L, h, e)
  /\ \A j \in s .. e : Valid(L, h, j)
  /\ \A j \in s + 1 .. e : ~StartAt(L, h, j)
  /\ \A j \in s .. e - 1 : ~EndAt(L, h, j)
\* They are nobody's, and none but the end can be lost, which is then that of one that is ending.
Closed(h, s, e) ==
  /\ Run(log, h, s, e)
  /\ \A j \in s .. e - 1 : nlog[j] = log[j]
  /\ \A u \in Tasks : Active(u) => Reserved(u) \cap s .. e = {}
  /\ \/ nlog[e] = log[e]
     \/ \E t \in Tasks : /\ trans[t].pc = "end" /\ e = Last(t) /\ log[e].gen = trans[t].gen
                         /\ StartAt(log, h, s) => s = trans[t].start
\* Every valid entry is that of a transaction that is running, or of one that has ended.
Accounted(h) ==
  \A i \in Idx : Valid(log, h, i) =>
    \/ \E t \in Tasks : Active(t) /\ i \in Written(t)
    \/ \E s, e \in Idx : s <= i /\ i <= e /\ Closed(h, s, e)

\* Of the entries of a transaction the first is the start; the end is its last one.
Plain(t) == \A i \in Written(t) : i < trans[t].start + trans[t].used - (IF Active(t) THEN 0 ELSE 1) =>
               log[i].kind = IF i = trans[t].start THEN {"start"} ELSE {}
\* o has not been changed yet.
Fresh(t, o) ==
  /\ mem[o] = past.settled[o] /\ nmem[o] = past.settled[o]
  /\ \A i \in Written(t) : log[i].obj = o => log[i].old = past.settled[o]
\* The first entry of o, which has what o is to get back.
First(t, o, i) == LeastFor(Written(t), log, o, i) /\ log[i].old = past.settled[o]
\* Undo before change: an object is not changed before its first entry, and the start of
\* the transaction, are persistent.
Kept(t) ==
  /\ Active(t) =>
       /\ Plain(t)
       /\ \A o \in trans[t].objs :
            \/ Fresh(t, o)
            \/ \E i \in Written(t) : First(t, o, i) /\ nlog[i] = log[i]
                                      /\ nlog[trans[t].start] = log[trans[t].start]
  /\ trans[t].pc = "run" => \A i \in Written(t) : nlog[i] = log[i]
  /\ trans[t].pc = "wrapped" => \A o \in trans[t].objs : mem[o] = past.settled[o] /\ nmem[o] = past.settled[o]
\* The header still has the transaction's first entry between head and tail.
InLap(t, h) == trans[t].start \in Between(h) /\ Lap(h, trans[t].start) = trans[t].gen
\* A transaction that has ended and may still lose its last entry.
Complete(t) ==
  /\ Plain(t)
  /\ \A i \in Written(t) : log[i].gen = trans[t].gen
  /\ \A i \in Written(t) \ {Last(t)} : log[i].obj \in trans[t].logged /\ nlog[i] = log[i]
  /\ log[Last(t)].obj = None
  /\ log[Last(t)].kind = {trans[t].kind} \cup (IF trans[t].used = 1 THEN {"start"} ELSE {})
  /\ \A o \in trans[t].logged : \E i \in Written(t) : First(t, o, i)
  /\ \A u \in Tasks : u # t /\ Active(u) => Reserved(u) \cap Written(t) = {}
\* Its changes are persistent before its end can be; until it is, all of its entries are there.
Ended(t) ==
  trans[t].pc = "end" =>
    /\ trans[t].used > 0
    /\ \A o \in trans[t].objs : nmem[o] = mem[o]
    /\ trans[t].kind = "commit" => trans[t].logged = trans[t].objs
    /\ \A h \in {hdr, nhdr} : InLap(t, h) => Inside(trans[t], h.head, h.tail) /\ Complete(t)

\* What nobody has is as it was settled, and persistent.
Unowned == \A o \in Objs : (\A t \in Tasks : o \notin trans[t].objs) =>
              mem[o] = past.settled[o] /\ nmem[o] = past.settled[o]

\* Nothing is left of an earlier failure.
NoDoubt == past.doubt = {} /\ past.excused = {}

\* The invariant of a volume in use.
AwayInv ==
  Away => /\ NoDoubt /\ Unowned /\ Unwritten
          /\ Accounted(hdr) /\ Accounted(nhdr)
          /\ \A t \in Tasks : AgesOf(t) /\ WholeOf(t) /\ Kept(t) /\ Ended(t)
          /\ phase = "unmounted" => nhdr = hdr

\* The header of what recovery has yet to go over.
Walked == [head |-> hdr.head, tail |-> walk.tail, gen |-> walk.gen]
\* T can be had still: by the walk that is going on, and by one after the next failure.
Held(T) ==
  /\ Promised(T)
  /\ \A h \in {hdr, nhdr}, M \in {mem, nmem} : Good(log, h, M, T, past.excused)
  /\ phase = "recovering" => Good(log, Walked, mem, T, past.excused)
  /\ phase \in {"invalidated", "forwarding", "forwarded", "recovered"} =>
       \A o \in Objs \ past.excused : mem[o] = T[o]
\* Before the last generation recovery writes no entry, and each of its stages is persistent before the next.
Paused ==
  /\ nlog = log
  /\ phase = "crashed" => mem = nmem /\ hdr = nhdr
  /\ phase = "recovering" => walk.gen <= hdr.gen /\ (walk.tail < hdr.head => walk.gen > 1)
  /\ phase = "forwarded" => hdr.head = hdr.tail
  /\ phase = "recovered" => hdr = nhdr /\ hdr.head = hdr.tail
  /\ phase \in {"forwarding", "forwarded", "recovered"} => mem = nmem
\* The invariant of a recovery.
RecInv == ~Away => Paused /\ \E T \in [Objs -> Tids] : Held(T)

(***************************************************************************)
(* Runs of entries.                                                        *)
(***************************************************************************)
Headers == [head : Idx, tail : Idx, gen : 1 .. MaxGen]

\* The entries back from i to where its side of the journal ends are of one lap.
LEMMA Sides ==
  ASSUME NEW h \in Headers, NEW i \in Between(h), NEW j \in Idx, Low(h, i) <= j, j <= i
  PROVE  j \in Between(h) /\ Low(h, j) = Low(h, i) /\ Lap(h, j) = Lap(h, i)
BY JournalAssumption DEF Headers, Between, Low, Lap, Idx

\* The part of the journal before a header's tail.
LEMMA BetweenIdx ==
  ASSUME NEW h \in Headers
  PROVE  /\ Between(h) \subseteq Idx
         /\ \A i \in Idx : Low(h, i) \in Idx /\ Low(h, i) <= i
         /\ \A i \in Idx : Lap(h, i) \in 0 .. MaxGen
BY JournalAssumption DEF Headers, Between, Low, Lap, Idx

\* The header of what is left when recovery has gone back over b .. i.
Before(h, b, g) == [head |-> h.head, tail |-> b, gen |-> g]

\* A walk back from the tail goes over the end of one side.
LEMMA WalkBack ==
  ASSUME NEW h \in Headers, h.tail # h.head, h.tail < h.head => h.gen > 1,
         NEW i, i = PrevEntry(h.tail),
         NEW g, g = IF h.tail = 0 THEN PrevGen(h.gen) ELSE h.gen,
         NEW b \in Idx, Low(h, i) <= b, b <= i
  PROVE  /\ i \in Idx /\ i \in Between(h) /\ g = Lap(h, i) /\ g \in 1 .. MaxGen
         /\ \A j \in Between(h) : j > i => Low(h, j) > i
         /\ Before(h, b, g) \in Headers
         /\ Before(h, b, g).tail < Before(h, b, g).head => Before(h, b, g).gen > 1
         /\ \A j \in Idx : j \in Between(Before(h, b, g)) <=> j \in Between(h) /\ j \notin b .. i
         /\ \A j \in Between(h) : j \notin b .. i => Lap(Before(h, b, g), j) = Lap(h, j)
         /\ \A j \in Idx : Low(Before(h, b, g), j) = Low(h, j)
<1>1. /\ h.head \in Idx /\ h.tail \in Idx /\ h.gen \in 1 .. MaxGen
      /\ JSize \in Nat /\ MaxGen \in Nat
  BY JournalAssumption DEF Headers
<1>2. i = (IF h.tail = 0 THEN JSize - 1 ELSE h.tail - 1)
  BY DEF PrevEntry
<1>3. g = (IF h.tail = 0 THEN h.gen - 1 ELSE h.gen)
  BY <1>1 DEF PrevGen, Idx
<1>4. g \in 1 .. MaxGen /\ i \in Idx
  BY <1>1, <1>2, <1>3 DEF Idx
<1>5. Before(h, b, g) \in Headers
  BY <1>1, <1>4 DEF Before, Headers
<1>6. i \in Between(h) /\ g = Lap(h, i)
  BY <1>1, <1>2, <1>3 DEF Between, Lap, Idx
<1>7. \A j \in Between(h) : j > i => Low(h, j) > i
  BY <1>1, <1>2 DEF Between, Low, Idx
<1>8. \A j \in Idx : j \in Between(Before(h, b, g)) <=> j \in Between(h) /\ j \notin b .. i
  BY <1>1, <1>2, <1>4 DEF Between, Low, Idx, Before
<1>9. \A j \in Between(h) : j \notin b .. i => Lap(Before(h, b, g), j) = Lap(h, j)
  BY <1>1, <1>2, <1>3, <1>4 DEF Between, Low, Idx, Before, Lap
<1>10. \A j \in Idx : Low(Before(h, b, g), j) = Low(h, j)
  BY DEF Low, Before
<1>11. Before(h, b, g).tail < Before(h, b, g).head => Before(h, b, g).gen > 1
  BY <1>1, <1>2, <1>3 DEF Before, Low, Idx
<1>12. QED
  BY <1>4, <1>5, <1>6, <1>7, <1>8, <1>9, <1>10, <1>11

\* No run that starts elsewhere reaches into b .. i.
Cut(L, h, b, i) ==
  \/ \A j \in b .. i : ~Valid(L, h, j)
  \/ StartAt(L, h, b)
  \/ b = Low(h, i)
  \/ EndAt(L, h, b - 1)

\* What is left of the journal before b .. i.
IsBefore(k, h, b, i) ==
  /\ k \in Headers /\ i \in Between(h) /\ b \in Idx /\ Low(h, i) <= b /\ b <= i
  /\ \A j \in Between(h) : j > i => Low(h, j) > i
  /\ \A j \in Idx : j \in Between(k) <=> j \in Between(h) /\ j \notin b .. i
  /\ \A j \in Between(h) : j \notin b .. i => Lap(k, j) = Lap(h, j)
  /\ \A j \in Idx : Low(k, j) = Low(h, j)

\* Outside of what a turn has gone over the entries are what they have been.
LEMMA ValidBefore ==
  ASSUME NEW h \in Headers, NEW b \in Idx, NEW i \in Idx, NEW k, IsBefore(k, h, b, i), NEW L,
         NEW j \in Idx
  PROVE  /\ j \notin b .. i => /\ Valid(L, k, j) <=> Valid(L, h, j)
                               /\ StartAt(L, k, j) <=> StartAt(L, h, j)
                               /\ EndAt(L, k, j) <=> EndAt(L, h, j)
         /\ j \in b .. i => ~Valid(L, k, j) /\ ~StartAt(L, k, j) /\ ~EndAt(L, k, j)
<1>1. /\ j \notin b .. i => (Valid(L, k, j) <=> Valid(L, h, j))
      /\ j \in b .. i => ~Valid(L, k, j)
  BY DEF IsBefore, Valid
<1>2. QED
  BY <1>1 DEF StartAt, EndAt

\* There the entries of a transaction are what they have been.
LEMMA ReachBefore ==
  ASSUME NEW h \in Headers, NEW b \in Idx, NEW i \in Idx, NEW k, IsBefore(k, h, b, i),
         NEW L, Cut(L, h, b, i), NEW c \in Idx, c \notin b .. i
  PROVE  /\ Reach(L, k, c) = Reach(L, h, c)
         /\ LeftOpen(L, k, c) <=> LeftOpen(L, h, c)
<1> USE DEF Idx
<1>1. ASSUME NEW j \in Reach(L, h, c)
      PROVE  j \notin b .. i
  <2> SUFFICES ASSUME j \in b .. i
               PROVE  FALSE
    OBVIOUS
  <2>1. /\ j \in Idx /\ c <= j /\ Low(h, j) <= c /\ Valid(L, h, j)
        /\ \A x \in c + 1 .. j : ~StartAt(L, h, x)
        /\ \A x \in c .. j - 1 : ~EndAt(L, h, x)
    BY DEF Reach
  <2>2. c < b
    BY <2>1
  <2>3. Low(h, j) = Low(h, i) /\ i \in Between(h)
    <3>1. i \in Between(h) /\ Low(h, i) <= b /\ b <= j /\ j <= i
      BY DEF IsBefore
    <3>2. Low(h, i) \in Idx
      BY BetweenIdx
    <3>3. Low(h, i) <= j
      BY <3>1, <3>2
    <3> HIDE DEF Idx
    <3>4. QED
      BY <2>1, <3>1, <3>3, Sides
  <2>4. ~StartAt(L, h, b) /\ ~EndAt(L, h, b - 1)
    BY <2>1, <2>2
  <2>5. b # Low(h, i)
    BY <2>1, <2>2, <2>3
  <2>6. QED
    BY <2>1, <2>4, <2>5 DEF Cut
<1>2. ASSUME NEW j \in Idx, j \notin b .. i, c <= j, Low(h, j) <= c, Valid(L, h, j)
      PROVE  \A x \in c .. j : x \in Idx /\ x \notin b .. i
  <2>1. ~(c < b /\ j > i)
    <3>1. j \in Between(h)
      BY <1>2 DEF Valid
    <3>2. ASSUME j > i, c < b
          PROVE  FALSE
      <4>1. Low(h, j) > i
        BY <3>1, <3>2 DEF IsBefore
      <4>2. Low(h, j) \in Idx
        BY <1>2, BetweenIdx
      <4>3. QED
        BY <1>2, <3>2, <4>1, <4>2 DEF IsBefore
    <3>3. QED
      BY <3>2
  <2>2. (j < b \/ j > i) /\ (c < b \/ c > i) /\ c \in 0 .. JSize - 1 /\ j \in 0 .. JSize - 1
    BY <1>2
  <2>3. j < b \/ c > i
    BY <2>1, <2>2
  <2>4. ASSUME NEW x \in c .. j
        PROVE  x \in 0 .. JSize - 1 /\ x \notin b .. i
    BY <2>2, <2>3, JournalAssumption
  <2>5. QED
    BY <2>4
<1>3. ASSUME NEW j \in Idx
      PROVE  j \in Reach(L, k, c) <=> j \in Reach(L, h, c)
  <2>1. CASE j \in b .. i
    <3>1. ~Valid(L, k, j)
      BY <2>1, ValidBefore
    <3>2. QED
      BY <1>1, <2>1, <3>1 DEF Reach
  <2>2. CASE j \notin b .. i
    <3>1. Low(k, j) = Low(h, j) /\ (Valid(L, k, j) <=> Valid(L, h, j))
      BY <2>2, ValidBefore DEF IsBefore
    <3>2. CASE c <= j /\ Low(h, j) <= c /\ Valid(L, h, j)
      <4>1. \A x \in c .. j : /\ StartAt(L, k, x) <=> StartAt(L, h, x)
                              /\ EndAt(L, k, x) <=> EndAt(L, h, x)
        BY <1>2, <2>2, <3>2, ValidBefore
      <4>2. /\ (\A x \in c + 1 .. j : ~StartAt(L, k, x)) <=> (\A x \in c + 1 .. j : ~StartAt(L, h, x))
            /\ (\A x \in c .. j - 1 : ~EndAt(L, k, x)) <=> (\A x \in c .. j - 1 : ~EndAt(L, h, x))
        BY <4>1
      <4>3. QED
        BY <3>1, <4>2 DEF Reach
    <3>3. CASE ~(c <= j /\ Low(h, j) <= c /\ Valid(L, h, j))
      BY <3>1, <3>3 DEF Reach
    <3>4. QED
      BY <3>2, <3>3
  <2>3. QED
    BY <2>1, <2>2
<1>4. Reach(L, k, c) = Reach(L, h, c)
  <2>1. Reach(L, k, c) \subseteq Idx /\ Reach(L, h, c) \subseteq Idx
    BY DEF Reach
  <2> HIDE DEF Idx
  <2>2. QED
    BY <1>3, <2>1
<1>5. StartAt(L, k, c) <=> StartAt(L, h, c)
  BY ValidBefore
<1>6. \A j \in Reach(L, h, c) : EndAt(L, k, j) <=> EndAt(L, h, j)
  <2>1. \A j \in Reach(L, h, c) : j \in Idx /\ j \notin b .. i
    BY <1>1 DEF Reach
  <2>2. QED
    BY <2>1, ValidBefore
<1>7. QED
  BY <1>4, <1>5, <1>6 DEF LeftOpen

\* What recovery still has to do when it has gone back over b .. i, and has given the
\* objects of a run that was left open there what they are to have.
LEMMA GoodBefore ==
  ASSUME NEW h \in Headers, NEW b \in Idx, NEW i \in Idx, NEW k, IsBefore(k, h, b, i),
         NEW L, Cut(L, h, b, i), NEW M, NEW N, NEW T, NEW X, Good(L, h, M, T, X),
         \A o \in Objs \ X :
           \/ N[o] = T[o]
           \/ /\ N[o] = M[o]
              /\ \A c \in b .. i : LeftOpen(L, h, c) => \A j \in Reach(L, h, c) : L[j].obj # o
  PROVE  Good(L, k, N, T, X)
<1>1. ASSUME NEW c \in Idx, LeftOpen(L, k, c)
      PROVE  c \notin b .. i /\ LeftOpen(L, h, c) /\ Reach(L, k, c) = Reach(L, h, c)
  <2>1. c \notin b .. i
    BY <1>1, ValidBefore DEF LeftOpen
  <2>2. QED
    BY <1>1, <2>1, ReachBefore
<1>2. ASSUME NEW c \in Idx, LeftOpen(L, k, c), NEW o \in Objs \ X, NEW j \in Idx,
             LeastFor(Reach(L, k, c), L, o, j)
      PROVE  L[j].old = T[o]
  BY <1>1, <1>2 DEF Good
<1>3. ASSUME NEW o \in Objs \ X
      PROVE  \/ N[o] = T[o]
             \/ \E c \in Idx : LeftOpen(L, k, c) /\ \E j \in Reach(L, k, c) : L[j].obj = o
  <2> SUFFICES ASSUME N[o] # T[o]
               PROVE  \E c \in Idx : LeftOpen(L, k, c) /\ \E j \in Reach(L, k, c) : L[j].obj = o
    OBVIOUS
  <2>1. /\ N[o] = M[o]
        /\ \A c \in b .. i : LeftOpen(L, h, c) => \A j \in Reach(L, h, c) : L[j].obj # o
    OBVIOUS
  <2>2. PICK c \in Idx : LeftOpen(L, h, c) /\ \E j \in Reach(L, h, c) : L[j].obj = o
    BY <2>1 DEF Good
  <2>3. c \notin b .. i
    BY <2>1, <2>2
  <2>4. QED
    BY <2>2, <2>3, ReachBefore
<1>4. QED
  BY <1>2, <1>3 DEF Good

(***************************************************************************)
(* A turn of recovery.                                                     *)
(***************************************************************************)
\* An object that a set of entries has has a first entry there.
LEMMA LeastEntry ==
  ASSUME NEW S \in SUBSET Idx, NEW L, NEW o, \E i \in S : L[i].obj = o
  PROVE  \E i \in Idx : LeastFor(S, L, o, i)
<1> DEFINE E == {i \in S : L[i].obj = o}
<1>1. E # {} /\ E \subseteq Nat
  <2>1. Idx \subseteq Nat
    BY JournalAssumption DEF Idx
  <2>2. QED
    BY <2>1
<1>2. PICK m \in E : \A x \in E : m <= x
  <2> HIDE DEF E
  <2> QED
    BY <1>1, LeastOf
<1>3. QED
  BY <1>2 DEF LeastFor

\* A set of entries has one first entry of an object only.
LEMMA LeastIsOne ==
  ASSUME NEW S \in SUBSET Idx, NEW L, NEW o, NEW i, NEW j, LeastFor(S, L, o, i), LeastFor(S, L, o, j)
  PROVE  i = j
BY JournalAssumption DEF LeastFor, Idx

\* Entries of its lap are what the code compares with the lap's generation.
LEMMA StartsValid ==
  ASSUME NEW h, NEW j \in Between(h), NEW g, g = Lap(h, j)
  PROVE  /\ Valid(log, h, j) <=> log[j].gen = g
         /\ StartAt(log, h, j) <=> Starts(j, g)
         /\ EndAt(log, h, j) <=> Ends(j, g)
BY DEF Valid, StartAt, EndAt, Starts, Ends

\* S is the set of those of the lines that are of generation g.
OfLap(S, lines, g) ==
  /\ S \subseteq Idx /\ lines \subseteq Idx
  /\ \A j \in Idx : j \in S <=> j \in lines /\ log[j].gen = g

\* What undoing a run does to an object.
LEMMA UndoneFirst ==
  ASSUME TypeOK, NEW lines, NEW g, NEW S, OfLap(S, lines, g), NEW o \in Objs
  PROVE  /\ (\A j \in S : log[j].obj # o) => Undone(lines, g)[o] = mem[o]
         /\ \A i : LeastFor(S, log, o, i) => Undone(lines, g)[o] = log[i].old
<1> DEFINE E == {i \in lines : log[i].gen = g /\ log[i].obj = o}
           first == CHOOSE i \in E : \A j \in E : i <= j
<1>1. Undone(lines, g)[o] = IF E = {} THEN mem[o] ELSE log[first].old
  BY DEF Undone
<1>2. E = {i \in S : log[i].obj = o} /\ lines \subseteq Idx
  BY DEF OfLap
<1>3. ASSUME NEW i, LeastFor(S, log, o, i)
      PROVE  E # {} /\ first = i
  <2>1. i \in E /\ \A j \in E : i <= j
    BY <1>2, <1>3 DEF LeastFor
  <2>2. E \subseteq Int
    <3>1. Idx \subseteq Int
      BY JournalAssumption DEF Idx
    <3>2. QED
      BY <1>2, <3>1
  <2> HIDE DEF E
  <2>3. first \in E /\ \A j \in E : first <= j
    BY <2>1
  <2> HIDE DEF first
  <2>4. i <= first /\ first <= i /\ i \in Int /\ first \in Int
    BY <2>1, <2>2, <2>3
  <2>5. QED
    BY <2>1, <2>4
<1>4. QED
  BY <1>1, <1>2, <1>3

\* The lines of a turn of recovery, i being the last of them.
TurnLines(i, g) == IF log[i].gen = g THEN Backward(i, g) ELSE {i}

\* They are cut off from what is before them; what recovery undoes there is the run that
\* has been left open, if one has.
LEMMA TurnCuts ==
  ASSUME TypeOK, NEW h \in Headers, h.head = hdr.head, NEW i \in Between(h), NEW g, g = Lap(h, i),
         \A j \in Between(h) : j > i => Low(h, j) > i
  PROVE  \E b \in Idx :
           /\ TurnLines(i, g) = b .. i /\ Low(h, i) <= b /\ b <= i
           /\ Cut(log, h, b, i)
           /\ log[i].gen = g /\ Unfinished(b .. i, g) => LeftOpen(log, h, b)
           /\ \A c \in b .. i : LeftOpen(log, h, c) =>
                /\ c = b /\ log[i].gen = g /\ Unfinished(b .. i, g)
                /\ \A j \in Idx : j \in Reach(log, h, b) <=> j \in b .. i /\ log[j].gen = g
<1>1. i \in Idx /\ Low(h, i) \in Idx /\ Low(h, i) <= i /\ Low(hdr, i) = Low(h, i)
  BY BetweenIdx DEF Low
<1>2. ASSUME NEW j \in Idx, Low(h, i) <= j, j <= i
      PROVE  /\ j \in Between(h) /\ Low(h, j) = Low(h, i)
             /\ Valid(log, h, j) <=> log[j].gen = g
             /\ StartAt(log, h, j) <=> Starts(j, g)
             /\ EndAt(log, h, j) <=> Ends(j, g)
  <2>1. j \in Between(h) /\ Low(h, j) = Low(h, i) /\ Lap(h, j) = g
    BY <1>2, Sides
  <2>2. QED
    BY <2>1, StartsValid
<1>3. CASE log[i].gen # g
  <2>1. TurnLines(i, g) = i .. i
    BY <1>1, <1>3 DEF TurnLines, Idx
  <2>2. ~Valid(log, h, i)
    BY <1>1, <1>2, <1>3 DEF Idx
  <2>3. \A j \in i .. i : ~Valid(log, h, j) /\ ~LeftOpen(log, h, j)
    BY <1>1, <2>2 DEF LeftOpen, StartAt, Idx
  <2>4. QED
    BY <1>1, <1>3, <2>1, <2>3 DEF Cut, Idx
<1>4. CASE log[i].gen = g
  <2>1. PICK b \in Idx :
           /\ b <= i /\ Backward(i, g) = b .. i
           /\ Low(hdr, i) <= b
           /\ Starts(b, g) \/ b = Low(hdr, i) \/ Ends(b - 1, g)
           /\ \A j \in b + 1 .. i : ~Starts(j, g) /\ ~Ends(j - 1, g)
    BY <1>1, BackwardIsRun
  <2>2. TurnLines(i, g) = b .. i /\ Low(h, i) <= b
    BY <1>1, <1>4, <2>1 DEF TurnLines
  <2>3. \A j \in b .. i : /\ j \in Idx /\ j \in Between(h) /\ Low(h, j) = Low(h, i)
                          /\ Valid(log, h, j) <=> log[j].gen = g
                          /\ StartAt(log, h, j) <=> Starts(j, g)
                          /\ EndAt(log, h, j) <=> Ends(j, g)
    <3>1. \A j \in b .. i : j \in Idx /\ Low(h, i) <= j /\ j <= i
      BY <1>1, <2>2, <2>1, JournalAssumption DEF Idx
    <3>2. QED
      BY <1>2, <3>1
  <2>4. Cut(log, h, b, i)
    <3>1. CASE Starts(b, g)
      <4>1. b \in b .. i
        BY <1>1, <2>1 DEF Idx
      <4>2. QED
        BY <2>3, <3>1, <4>1 DEF Cut
    <3>2. CASE Ends(b - 1, g) /\ b # Low(h, i)
      <4>1. b - 1 \in Idx /\ Low(h, i) <= b - 1 /\ b - 1 <= i
        BY <1>1, <2>1, <2>2, <3>2, JournalAssumption DEF Idx
      <4>2. QED
        BY <1>2, <3>2, <4>1 DEF Cut
    <3>3. QED
      BY <1>1, <2>1, <3>1, <3>2 DEF Cut
  <2>5. \A j \in b + 1 .. i : j \in b .. i /\ ~StartAt(log, h, j)
    <3>1. \A j \in b + 1 .. i : j \in b .. i
      BY <1>1, <2>1 DEF Idx
    <3>2. QED
      BY <2>1, <2>3, <3>1
  <2>6. \A j \in b .. i - 1 : j \in b .. i /\ ~EndAt(log, h, j)
    <3>1. ASSUME NEW j \in b .. i - 1
          PROVE  j \in b .. i /\ j + 1 \in b + 1 .. i /\ (j + 1) - 1 = j
      BY <1>1, <2>1 DEF Idx
    <3>2. ASSUME NEW j \in b .. i - 1
          PROVE  j \in b .. i /\ ~Ends(j, g)
      BY <2>1, <3>1
    <3>3. QED
      BY <2>3, <3>2
  <2>7. ASSUME NEW j \in Idx
        PROVE  j \in Reach(log, h, b) <=> j \in b .. i /\ log[j].gen = g
    <3>1. CASE j \in b .. i
      <4>1. (\A x \in b + 1 .. j : x \in b + 1 .. i) /\ (\A x \in b .. j - 1 : x \in b .. i - 1)
            /\ b <= j
        BY <1>1, <2>1, <3>1 DEF Idx
      <4>2. Low(h, j) <= b
        BY <2>2, <2>3, <3>1
      <4>3. QED
        BY <2>3, <2>5, <2>6, <3>1, <4>1, <4>2 DEF Reach
    <3>2. CASE j \notin b .. i
      <4>1. ASSUME j \in Reach(log, h, b)
            PROVE  FALSE
        <5>1. b <= j /\ Low(h, j) <= b /\ j \in Between(h)
          BY <4>1 DEF Reach, Valid
        <5>2. j > i
          BY <1>1, <2>1, <3>2, <5>1 DEF Idx
        <5>3. Low(h, j) > i /\ Low(h, j) \in Idx
          BY <5>1, <5>2, BetweenIdx
        <5>4. QED
          BY <1>1, <2>1, <5>1, <5>3 DEF Idx
      <4>2. QED
        BY <3>2, <4>1
    <3>3. QED
      BY <3>1, <3>2
  <2>8. Lowest(b .. i) = b
    BY <1>1, <2>1, EndsOfRun DEF Idx
  <2>9. Unfinished(b .. i, g) <=> Starts(b, g) /\ \A j \in b .. i : ~Ends(j, g)
    BY <2>8 DEF Unfinished
  <2>10. b \in b .. i /\ i \in b .. i
    BY <1>1, <2>1 DEF Idx
  <2>11. ASSUME Unfinished(b .. i, g)
         PROVE  LeftOpen(log, h, b)
    <3>1. StartAt(log, h, b)
      BY <2>3, <2>9, <2>10, <2>11
    <3>2. \A j \in Reach(log, h, b) : j \in b .. i
      BY <2>7 DEF Reach
    <3>3. \A j \in Reach(log, h, b) : ~EndAt(log, h, j)
      BY <2>3, <2>9, <2>11, <3>2
    <3>4. QED
      BY <3>1, <3>3 DEF LeftOpen
  <2>12. ASSUME NEW c \in b .. i, LeftOpen(log, h, c)
         PROVE  c = b /\ Unfinished(b .. i, g)
    <3>1. StartAt(log, h, c)
      BY <2>12 DEF LeftOpen
    <3>2. c = b
      <4>1. c \notin b + 1 .. i
        BY <2>5, <3>1
      <4>2. QED
        BY <1>1, <2>1, <4>1 DEF Idx
    <3>3. i \in Reach(log, h, b)
      BY <1>1, <1>4, <2>7, <2>10
    <3>4. ~EndAt(log, h, i)
      BY <2>12, <3>2, <3>3 DEF LeftOpen
    <3>5. \A j \in b .. i : j \in b .. i - 1 \/ j = i
      BY <1>1, <2>1 DEF Idx
    <3>6. \A j \in b .. i : ~Ends(j, g)
      BY <2>3, <2>6, <2>10, <3>4, <3>5
    <3>7. Starts(b, g)
      BY <2>3, <2>10, <3>1, <3>2
    <3>8. QED
      BY <2>9, <3>2, <3>6, <3>7
  <2>13. QED
    BY <1>4, <2>1, <2>2, <2>4, <2>7, <2>11, <2>12
<1>5. QED
  BY <1>3, <1>4

(***************************************************************************)
(* The steps of recovery.                                                  *)
(***************************************************************************)
\* Where there is nothing to recover all is as it is to be.
LEMMA GoodEmpty ==
  ASSUME NEW L, NEW h, NEW M, NEW T, NEW X, \A i \in Idx : ~Valid(L, h, i)
  PROVE  Good(L, h, M, T, X) <=> \A o \in Objs \ X : M[o] = T[o]
<1>1. \A b \in Idx : ~LeftOpen(L, h, b)
  BY DEF LeftOpen, StartAt
<1>2. QED
  BY <1>1 DEF Good

\* A failure leaves one of two values of each object.
LEMMA GoodMix ==
  ASSUME NEW L, NEW h, NEW M, NEW N, NEW P, NEW T, NEW X, Good(L, h, M, T, X), Good(L, h, N, T, X),
         \A o \in Objs \ X : P[o] = M[o] \/ P[o] = N[o]
  PROVE  Good(L, h, P, T, X)
BY DEF Good

\* Where all is as it is to be recovery may begin, or stop, at any place.
LEMMA GoodDone ==
  ASSUME NEW L, NEW h, NEW M, NEW N, NEW T, NEW X, Good(L, h, M, T, X),
         \A o \in Objs \ X : N[o] = T[o]
  PROVE  Good(L, h, N, T, X)
BY DEF Good

\* Headers are headers.
LEMMA HeadersAre ==
  ASSUME TypeOK
  PROVE  hdr \in Headers /\ nhdr \in Headers /\ Walked \in Headers
BY DEF TypeOK, HeaderType, Headers, Walked

\* A header whose head is its tail is that of an empty journal.
LEMMA EmptyJournal ==
  ASSUME NEW h \in Headers, h.head = h.tail, NEW L
  PROVE  \A i \in Idx : ~Valid(L, h, i)
BY JournalAssumption DEF Headers, Between, Valid, Idx

\* Before the last generation nothing is invalidated.
LEMMA NotInvalidated ==
  ASSUME TypeOK, NEW lines, NEW g, g # MaxGen
  PROVE  Invalidated(lines, g) = log /\ FirstFenced(lines, g) = nlog
<1>1. log \in [Idx -> Entries] /\ nlog \in [Idx -> Entries]
  BY DEF TypeOK, LogType
<1>2. Invalidated(lines, g) = [i \in Idx |-> log[i]]
  BY DEF Invalidated
<1>3. FirstFenced(lines, g) = [j \in Idx |-> nlog[j]]
  BY DEF FirstFenced
<1>4. QED
  BY <1>1, <1>2, <1>3

\* One turn undoes what has been left open last.
LEMMA TurnKeeps ==
  ASSUME TypeOK, RecInv, Early, RecoverStep
  PROVE  RecInv'
<1> DEFINE g == IF walk.tail = 0 THEN PrevGen(walk.gen) ELSE walk.gen
           i == PrevEntry(walk.tail)
           undo(b) == log[i].gen = g /\ Unfinished(b .. i, g)
<1>1. /\ phase = "recovering" /\ walk.tail # hdr.head
      /\ UNCHANGED <<phase, hdr, nhdr, trans, cleaner, tids, crashes, past>>
  BY DEF RecoverStep
<1>2. Paused /\ \E T \in [Objs -> Tids] : Held(T)
  BY <1>1 DEF RecInv, Away
<1>3. PICK T \in [Objs -> Tids] : Held(T)
  BY <1>2
<1>4. walk.gen <= hdr.gen /\ (walk.tail < hdr.head => walk.gen > 1)
  BY <1>1, <1>2 DEF Paused
<1>5. Walked \in Headers /\ Walked.head = hdr.head /\ Walked.tail = walk.tail /\ Walked.gen = walk.gen
  BY HeadersAre DEF Walked
<1>6. /\ i \in Idx /\ i \in Between(Walked) /\ g = Lap(Walked, i) /\ g \in 1 .. MaxGen
      /\ \A j \in Between(Walked) : j > i => Low(Walked, j) > i
  <2>1. Low(Walked, i) \in Idx /\ Low(Walked, i) <= i
    <3>1. i \in Idx
      BY Around DEF TypeOK
    <3>2. QED
      BY <1>5, <3>1, BetweenIdx
  <2>2. i = PrevEntry(Walked.tail) /\ g = IF Walked.tail = 0 THEN PrevGen(Walked.gen) ELSE Walked.gen
    BY <1>5 DEF i, g
  <2>3. /\ Walked.tail # Walked.head /\ (Walked.tail < Walked.head => Walked.gen > 1)
    BY <1>1, <1>4, <1>5
  <2>4. i \in Idx /\ i <= i
    <3>1. i \in Idx
      BY Around DEF TypeOK
    <3>2. QED
      BY <3>1, JournalAssumption DEF Idx
  <2> HIDE DEF i, g
  <2>5. QED
    BY <1>5, <2>1, <2>2, <2>3, <2>4, WalkBack
<1>7. PICK b \in Idx :
           /\ TurnLines(i, g) = b .. i /\ Low(Walked, i) <= b /\ b <= i
           /\ Cut(log, Walked, b, i)
           /\ log[i].gen = g /\ Unfinished(b .. i, g) => LeftOpen(log, Walked, b)
           /\ \A c \in b .. i : LeftOpen(log, Walked, c) =>
                /\ c = b /\ log[i].gen = g /\ Unfinished(b .. i, g)
                /\ \A j \in Idx : j \in Reach(log, Walked, b) <=> j \in b .. i /\ log[j].gen = g
  BY <1>5, <1>6, TurnCuts
<1>8. g < MaxGen
  <2>1. hdr.gen \in 1 .. MaxGen /\ walk.gen \in 1 .. MaxGen /\ MaxGen \in Nat /\ walk.tail \in Idx
        /\ hdr.head \in Idx
    BY JournalAssumption DEF TypeOK, HeaderType
  <2>2. walk.gen < MaxGen
    BY <1>4, <2>1 DEF Early
  <2>3. walk.tail = 0 => walk.gen > 1
    BY <1>1, <1>4, <2>1, JournalAssumption DEF Idx
  <2>4. QED
    BY <2>1, <2>2, <2>3 DEF PrevGen
<1>9. /\ walk' = [tail |-> b, gen |-> g]
      /\ mem' = IF undo(b) THEN Undone(b .. i, g) ELSE mem
      /\ log' = log /\ nlog' = nlog /\ nmem' = nmem
  <2> DEFINE lines == TurnLines(i, g)
  <2>1. /\ walk' = [tail |-> Lowest(lines), gen |-> g]
        /\ mem' = IF log[i].gen = g /\ Unfinished(lines, g) THEN Undone(lines, g) ELSE mem
        /\ log' = Invalidated(lines, g)
        /\ nlog' = IF log[i].gen = g THEN FirstFenced(lines, g) ELSE nlog
        /\ nmem' = IF g = MaxGen /\ log[i].gen = g /\ Unfinished(lines, g) THEN mem' ELSE nmem
    BY DEF RecoverStep, TurnLines
  <2>2. lines = b .. i
    BY <1>7
  <2>3. Lowest(b .. i) = b
    BY <1>6, <1>7, EndsOfRun, JournalAssumption DEF Idx
  <2>4. g # MaxGen
    BY <1>6, <1>8, JournalAssumption
  <2> HIDE DEF lines, g, i
  <2>5. Invalidated(lines, g) = log /\ FirstFenced(lines, g) = nlog
    BY <2>4, NotInvalidated
  <2>6. QED
    BY <2>1, <2>2, <2>3, <2>4, <2>5
<1>10. IsBefore(Walked', Walked, b, i) /\ (Walked'.tail < Walked'.head => Walked'.gen > 1)
  <2>1. Walked' = Before(Walked, b, g)
    BY <1>1, <1>5, <1>9 DEF Walked, Before
  <2> HIDE DEF i, g
  <2>2. i = PrevEntry(Walked.tail) /\ g = IF Walked.tail = 0 THEN PrevGen(Walked.gen) ELSE Walked.gen
    BY <1>5 DEF i, g
  <2>3. /\ Walked.tail # Walked.head /\ (Walked.tail < Walked.head => Walked.gen > 1)
    BY <1>1, <1>4, <1>5
  <2>4. QED
    BY <1>5, <1>6, <1>7, <2>1, <2>2, <2>3, WalkBack DEF IsBefore
<1> HIDE DEF i, g
<1> DEFINE X == past.excused
<1>11. Good(log, Walked, mem, T, X)
  BY <1>1, <1>3 DEF Held
<1>12. ASSUME NEW o \in Objs \ X
       PROVE  \/ mem'[o] = T[o]
              \/ /\ mem'[o] = mem[o]
                 /\ \A c \in b .. i : LeftOpen(log, Walked, c) =>
                      \A j \in Reach(log, Walked, c) : log[j].obj # o
  <2>1. CASE ~undo(b)
    BY <1>7, <1>9, <2>1
  <2>2. CASE undo(b)
    <3> DEFINE S == Reach(log, Walked, b)
    <3>1. LeftOpen(log, Walked, b) /\ b \in b .. i
      BY <1>6, <1>7, <2>2, JournalAssumption DEF Idx
    <3>2. S \in SUBSET Idx /\ b .. i \in SUBSET Idx
      BY <1>6, JournalAssumption DEF Reach, Idx
    <3>3. \A j \in Idx : j \in S <=> j \in b .. i /\ log[j].gen = g
      BY <1>7, <3>1
    <3>10. OfLap(S, b .. i, g)
      BY <3>2, <3>3 DEF OfLap
    <3>4. mem' = Undone(b .. i, g)
      BY <1>9, <2>2
    <3>5. \A c \in b .. i : LeftOpen(log, Walked, c) => c = b
      BY <1>7
    <3> HIDE DEF S
    <3>6. /\ (\A j \in S : log[j].obj # o) => mem'[o] = mem[o]
          /\ \A j : LeastFor(S, log, o, j) => mem'[o] = log[j].old
      <4>1. o \in Objs
        OBVIOUS
      <4>2. /\ (\A j \in S : log[j].obj # o) => Undone(b .. i, g)[o] = mem[o]
            /\ \A j : LeastFor(S, log, o, j) => Undone(b .. i, g)[o] = log[j].old
        BY <3>10, <4>1, UndoneFirst
      <4>3. QED
        BY <3>4, <4>2
    <3>7. CASE \E j \in S : log[j].obj = o
      <4>1. PICK j \in Idx : LeastFor(S, log, o, j)
        BY <3>2, <3>7, LeastEntry
      <4>2. log[j].old = T[o]
        BY <1>11, <3>1, <4>1 DEF Good, S
      <4>3. QED
        BY <3>6, <4>1, <4>2
    <3>8. CASE ~(\E j \in S : log[j].obj = o)
      BY <3>5, <3>6, <3>8 DEF S
    <3>9. QED
      BY <3>7, <3>8
  <2>3. QED
    BY <2>1, <2>2
<1>13. Good(log, Walked', mem', T, X)
  BY <1>5, <1>6, <1>7, <1>10, <1>11, <1>12, GoodBefore
<1>14. ASSUME NEW h \in {hdr, nhdr}
       PROVE  Good(log, h, mem', T, X) /\ Good(log, h, nmem, T, X)
  <2>1. Good(log, h, mem, T, X) /\ Good(log, h, nmem, T, X)
    BY <1>3 DEF Held
  <2>2. QED
    BY <1>12, <2>1 DEF Good
<1>15. Held(T)'
  <2>1. /\ phase' = "recovering" /\ past' = past /\ log' = log /\ nmem' = nmem /\ hdr' = hdr
        /\ nhdr' = nhdr
    BY <1>1, <1>9
  <2>2. Promised(T)'
    BY <1>3, <2>1 DEF Promised, Held
  <2>3. \A h \in {hdr, nhdr}', M \in {mem, nmem}' : Good(log', h, M, T, past'.excused)
    BY <1>14, <2>1
  <2>4. Good(log', Walked', mem', T, past'.excused)
    BY <1>13, <2>1
  <2>5. QED
    BY <2>1, <2>2, <2>3, <2>4 DEF Held
<1>16. Paused'
  <2>1. walk'.gen <= hdr'.gen /\ (walk'.tail < hdr'.head => walk'.gen > 1)
    <3>1. g <= walk.gen
      BY <1>4, <1>1, JournalAssumption DEF g, PrevGen, TypeOK, HeaderType, Idx
    <3>2. walk'.gen = g /\ hdr' = hdr /\ Walked'.tail = walk'.tail /\ Walked'.head = hdr.head
          /\ Walked'.gen = walk'.gen
      BY <1>1, <1>9 DEF Walked
    <3>3. walk.gen \in Int /\ hdr.gen \in Int /\ g \in Int
      BY <1>6, JournalAssumption DEF TypeOK, HeaderType
    <3>4. QED
      BY <1>4, <1>10, <3>1, <3>2, <3>3
  <2>2. QED
    BY <1>1, <1>2, <1>9, <2>1 DEF Paused
<1>17. QED
  BY <1>15, <1>16 DEF RecInv

\* When recovery has come to the head, there is nothing left to undo.
LEMMA WalkedOut ==
  ASSUME TypeOK, NEW T, Held(T), phase = "recovering", walk.tail = hdr.head
  PROVE  \A o \in Objs \ past.excused : mem[o] = T[o]
<1>1. Walked \in Headers /\ Walked.head = Walked.tail
  BY HeadersAre DEF Walked
<1>2. \A i \in Idx : ~Valid(log, Walked, i)
  BY <1>1, EmptyJournal
<1>3. Good(log, Walked, mem, T, past.excused)
  BY DEF Held
<1>4. QED
  BY <1>2, <1>3, GoodEmpty

\* The end of the walk, and the invalidation of what lies behind the tail.
LEMMA ForwardInvalidateKeeps ==
  ASSUME TypeOK, RecInv, Early, ForwardInvalidate
  PROVE  RecInv'
<1>1. Paused /\ \E T \in [Objs -> Tids] : Held(T)
  BY DEF RecInv, Away, ForwardInvalidate
<1>2. PICK T \in [Objs -> Tids] : Held(T)
  BY <1>1
<1>3. log' = log
  <2>1. hdr.gen # MaxGen
    BY DEF Early
  <2>2. QED
    BY <2>1, NotInvalidated DEF ForwardInvalidate
<1>4. \A o \in Objs \ past.excused : mem[o] = T[o]
  BY <1>2, WalkedOut DEF ForwardInvalidate
<1>5. Held(T)'
  BY <1>2, <1>3, <1>4 DEF Held, Promised, ForwardInvalidate, data
<1>6. Paused'
  BY <1>1, <1>3 DEF Paused, ForwardInvalidate, data
<1>7. QED
  BY <1>5, <1>6 DEF RecInv

\* Entries of the laps that have been are none of a generation to come.
LEMMA NewGen ==
  ASSUME TypeOK, Ages, Early, ForwardGen
  PROVE  \A i \in Idx : ~Valid(log, hdr', i)
<1>1. hdr.gen \in Int /\ hdr.tail \in Int /\ hdr'.gen = hdr.gen + 1 /\ hdr'.tail = hdr.tail
  BY JournalAssumption DEF TypeOK, HeaderType, ForwardGen, NextGen, Early, Idx
<1>2. ASSUME NEW i \in Idx
      PROVE  log[i].gen # Lap(hdr', i)
  <2>1. log[i].gen \in Int /\ log[i].gen <= Lap(hdr, i) /\ i \in Int
    BY JournalAssumption DEF TypeOK, LogType, Entries, Ages, Idx
  <2>2. Lap(hdr', i) = Lap(hdr, i) + 1 /\ Lap(hdr, i) \in Int
    BY <1>1, <2>1 DEF Lap
  <2>3. QED
    BY <2>1, <2>2
<1>3. QED
  BY <1>2 DEF Valid

\* The new generation: nothing in the journal is of it.
LEMMA ForwardGenKeeps ==
  ASSUME TypeOK, Ages, RecInv, Early, ForwardGen
  PROVE  RecInv'
<1>1. Paused /\ \E T \in [Objs -> Tids] : Held(T)
  BY DEF RecInv, Away, ForwardGen
<1>2. PICK T \in [Objs -> Tids] : Held(T)
  BY <1>1
<1>3. /\ phase = "invalidated" /\ phase' = "forwarding" /\ log' = log /\ nlog' = log /\ nmem' = mem
      /\ mem' = mem /\ nhdr' = nhdr
  BY DEF ForwardGen
<1>4. past'.settled = past.settled /\ past'.doubt = past.doubt /\ past'.excused = past.excused
  BY ForwardPast
<1>5. \A o \in Objs \ past.excused : mem[o] = T[o]
  BY <1>2, <1>3 DEF Held
<1>6. Good(log, hdr', mem, T, past.excused)
  BY <1>5, NewGen, GoodEmpty
<1>7. Good(log, nhdr, mem, T, past.excused)
  BY <1>2 DEF Held
<1>8. Held(T)'
  <2>1. Promised(T)'
    BY <1>2, <1>4 DEF Held, Promised
  <2>2. \A h \in {hdr, nhdr}', M \in {mem, nmem}' : Good(log', h, M, T, past'.excused)
    BY <1>3, <1>4, <1>6, <1>7
  <2>3. QED
    BY <1>3, <1>4, <1>5, <2>1, <2>2 DEF Held
<1>9. Paused'
  BY <1>1, <1>3 DEF Paused
<1>10. QED
  BY <1>8, <1>9 DEF RecInv

\* The journal is empty.
LEMMA ForwardHeadKeeps ==
  ASSUME TypeOK, TypeOK', RecInv, ForwardHead
  PROVE  RecInv'
<1>1. Paused /\ \E T \in [Objs -> Tids] : Held(T)
  BY DEF RecInv, Away, ForwardHead
<1>2. PICK T \in [Objs -> Tids] : Held(T)
  BY <1>1
<1>3. /\ phase = "forwarding" /\ phase' = "forwarded" /\ log' = log /\ nlog' = nlog /\ nmem' = nmem
      /\ mem' = mem /\ nhdr' = nhdr /\ past' = past
  BY DEF ForwardHead, data
<1>4. hdr' \in Headers /\ hdr'.head = hdr'.tail
  <2>1. hdr' \in Headers
    BY DEF TypeOK, HeaderType, Headers
  <2>2. hdr'.head = hdr'.tail
    BY DEF ForwardHead, TypeOK, HeaderType
  <2>3. QED
    BY <2>1, <2>2
<1>5. \A o \in Objs \ past.excused : mem[o] = T[o]
  BY <1>2, <1>3 DEF Held
<1>6. Good(log, hdr', mem, T, past.excused)
  BY <1>4, <1>5, EmptyJournal, GoodEmpty
<1>7. mem = nmem
  BY <1>1, <1>3 DEF Paused
<1>8. Held(T)'
  BY <1>2, <1>3, <1>5, <1>6, <1>7 DEF Held, Promised
<1>9. Paused'
  BY <1>1, <1>3, <1>4 DEF Paused
<1>10. QED
  BY <1>8, <1>9 DEF RecInv

\* The header of the empty journal is persistent.
LEMMA ForwardFenceKeeps ==
  ASSUME TypeOK, RecInv, ForwardFence
  PROVE  RecInv'
<1>1. Paused /\ \E T \in [Objs -> Tids] : Held(T)
  BY DEF RecInv, Away, ForwardFence
<1>2. PICK T \in [Objs -> Tids] : Held(T)
  BY <1>1
<1>3. /\ phase = "forwarded" /\ phase' = "recovered" /\ log' = log /\ nlog' = nlog /\ nmem' = nmem
      /\ mem' = mem /\ hdr' = hdr /\ nhdr' = hdr /\ past' = past
  BY DEF ForwardFence, data
<1>4. Held(T)'
  BY <1>2, <1>3 DEF Held, Promised
<1>5. Paused'
  BY <1>1, <1>3 DEF Paused
<1>6. QED
  BY <1>4, <1>5 DEF RecInv

\* The line of the header is evicted during recovery.
LEMMA HeaderKeeps ==
  ASSUME RecInv, WriteBackHeader, ~Away
  PROVE  RecInv'
<1>1. Paused /\ \E T \in [Objs -> Tids] : Held(T)
  BY DEF RecInv
<1>2. PICK T \in [Objs -> Tids] : Held(T)
  BY <1>1
<1>3. /\ phase # "crashed" /\ phase' = phase /\ log' = log /\ nlog' = nlog /\ nmem' = nmem
      /\ mem' = mem /\ hdr' = hdr /\ nhdr' = hdr /\ past' = past /\ walk' = walk
  BY DEF WriteBackHeader, MayCrash, data
<1>4. Held(T)'
  BY <1>2, <1>3 DEF Held, Promised, Walked
<1>5. Paused'
  BY <1>1, <1>3 DEF Paused
<1>6. QED
  BY <1>4, <1>5 DEF RecInv

\* The next mount begins its recovery, if there may be something to recover.
LEMMA MountKeeps ==
  ASSUME TypeOK, Laps, RecInv, Mount, phase = "crashed"
  PROVE  RecInv'
<1>1. Paused /\ \E T \in [Objs -> Tids] : Held(T)
  BY DEF RecInv, Away
<1>2. PICK T \in [Objs -> Tids] : Held(T)
  BY <1>1
<1>3. /\ log' = log /\ nlog' = nlog /\ nmem' = nmem /\ past' = past
      /\ mem' = mem /\ hdr' = hdr /\ nhdr' = nhdr
      /\ walk' = [tail |-> hdr.tail, gen |-> hdr.gen]
      /\ phase' = IF hdr.head = hdr.tail THEN "recovered" ELSE "recovering"
  BY DEF Mount, data, journal
<1>4. mem = nmem /\ hdr = nhdr /\ nlog = log
  BY <1>1 DEF Paused
<1>5. Walked' = hdr
  BY <1>3 DEF Walked, TypeOK, HeaderType
<1>6. Good(log, hdr, mem, T, past.excused)
  BY <1>2 DEF Held
<1>7. hdr.head = hdr.tail => \A o \in Objs \ past.excused : mem[o] = T[o]
  BY <1>6, HeadersAre, EmptyJournal, GoodEmpty
<1>8. Held(T)'
  BY <1>2, <1>3, <1>5, <1>6, <1>7 DEF Held, Promised
<1>9. Paused'
  <2>1. hdr.gen <= hdr.gen /\ (hdr.tail < hdr.head => hdr.gen > 1)
    BY JournalAssumption DEF TypeOK, HeaderType, Laps
  <2>2. QED
    BY <1>3, <1>4, <2>1 DEF Paused
<1>10. QED
  BY <1>8, <1>9 DEF RecInv

\* A failure of recovery leaves it to be done again.
LEMMA CrashAgainKeeps ==
  ASSUME TypeOK, Stages, OwnInv, RecInv, Crash, ~Away
  PROVE  RecInv'
<1>1. Paused /\ \E T \in [Objs -> Tids] : Held(T)
  BY DEF RecInv
<1>2. PICK T \in [Objs -> Tids] : Held(T)
  BY <1>1
<1>3. /\ phase' = "crashed" /\ hdr' = nhdr /\ nhdr' = nhdr /\ log' = nlog' /\ mem' = nmem'
  BY DEF Crash
<1>4. nlog' = log
  <2>1. nlog = log /\ nlog \in [Idx -> Entries]
    BY <1>1 DEF Paused, TypeOK, LogType
  <2>2. \E I \in SUBSET {i \in Idx : nlog[i] # log[i]} :
          nlog' = [i \in Idx |-> IF i \in I THEN log[i] ELSE nlog[i]]
    BY DEF Crash
  <2>3. nlog' = [i \in Idx |-> nlog[i]]
    BY <2>1, <2>2
  <2>4. QED
    BY <2>1, <2>3
<1>5. \A o \in Objs : nmem'[o] = mem[o] \/ nmem'[o] = nmem[o]
  <2>1. PICK O \in SUBSET {o \in Objs : nmem[o] # mem[o]} :
          nmem' = [o \in Objs |-> IF o \in O THEN mem[o] ELSE nmem[o]]
    BY DEF Crash
  <2>2. QED
    BY <2>1
<1>6. past'.settled = past.settled /\ past'.doubt = past.doubt /\ past'.excused = past.excused
  <2>1. \A t \in Tasks : trans[t].pc = "idle" /\ trans[t].objs = {}
    BY DEF Stages, Away, OwnInv, Carried
  <2>2. CrashDoubt = {} /\ CrashExcuse = {}
    BY <2>1 DEF CrashDoubt, CrashExcuse
  <2>3. QED
    BY <2>2, CrashPast
<1>7. Good(log, nhdr, nmem', T, past.excused)
  <2>1. Good(log, nhdr, mem, T, past.excused) /\ Good(log, nhdr, nmem, T, past.excused)
    BY <1>2 DEF Held
  <2>2. QED
    BY <1>5, <2>1, GoodMix
<1>8. Held(T)'
  <2>1. Promised(T)'
    BY <1>2, <1>6 DEF Held, Promised
  <2>2. QED
    BY <1>3, <1>4, <1>6, <1>7, <2>1 DEF Held
<1>9. Paused'
  BY <1>3 DEF Paused
<1>10. QED
  BY <1>8, <1>9 DEF RecInv

\* What has been recovered is what has been promised.
LEMMA RecoveredIsConsistent ==
  ASSUME TypeOK, RecInv, phase = "recovered"
  PROVE  Consistent(past.excused)
<1>1. PICK T \in [Objs -> Tids] : Held(T)
  BY DEF RecInv, Away
<1>2. \A o \in Objs \ past.excused : mem[o] = T[o]
  BY <1>1 DEF Held
<1>3. \A o \in Objs :
        \/ T[o] = past.settled[o]
        \/ \E d \in past.doubt : o \in d.objs /\ \A p \in d.objs : T[p] = d.tid
  BY <1>1 DEF Held, Promised
<1>4. SUFFICES ASSUME NEW o \in Objs \ past.excused
               PROVE  \/ mem[o] = past.settled[o]
                      \/ \E d \in past.doubt :
                           o \in d.objs /\ \A p \in d.objs \ past.excused : mem[p] = d.tid
  BY DEF Consistent
<1>5. CASE T[o] = past.settled[o]
  BY <1>2, <1>5
<1>6. ASSUME NEW d \in past.doubt, o \in d.objs, \A p \in d.objs : T[p] = d.tid, d.objs \subseteq Objs
      PROVE  \A p \in d.objs \ past.excused : mem[p] = d.tid
  BY <1>2, <1>6
<1>7. \A d \in past.doubt : d.objs \subseteq Objs
  BY DEF TypeOK, PastType
<1>8. QED
  BY <1>3, <1>5, <1>6, <1>7

(***************************************************************************)
(* The steps of a mounted volume, in what the recovery depends on.         *)
(***************************************************************************)
\* What a transaction has when it has its entries, and has written none of them.
Blank0(r) == r.used = 0 /\ r.logged = {} /\ r.skipped = FALSE

\* A transaction that begins, or goes on after a wrap.
LEMMA Reserving ==
  ASSUME IInv, OwnInv, NEW t \in Tasks, NewTransaction(t) \/ Again(t), ~past'.broken
  PROVE  /\ ~past.broken /\ phase = "mounted" /\ PromisesKept
         /\ UNCHANGED <<phase, log, nlog, mem, nmem, walk>>
         /\ \A u \in Tasks : u # t => trans'[u] = trans[u]
         /\ trans[t].pc \in {"idle", "wrapped"}
         /\ \/ trans'[t] = NoTrans /\ UNCHANGED <<hdr, nhdr, cleaner>>
            \/ /\ 0 < hdr.head /\ hdr.head <= hdr.tail
               /\ hdr' = [hdr EXCEPT !.tail = 0, !.gen = NextGen(@)] /\ UNCHANGED <<nhdr, cleaner>>
               /\ trans'[t].pc = "wrapped" /\ Blank0(trans'[t])
               /\ trans[t].pc = "idle" /\ trans'[t].objs \cap Busy = {}
            \/ /\ hdr.tail < hdr.head => hdr.tail + trans'[t].size < hdr.head
               /\ hdr.tail + trans'[t].size < JSize
               /\ hdr' = [hdr EXCEPT !.tail = @ + trans'[t].size] /\ nhdr' = hdr'
               /\ trans'[t].pc = "run" /\ trans'[t].start = hdr.tail /\ trans'[t].size \in Nat \ {0}
               /\ trans'[t].gen = hdr.gen /\ Blank0(trans'[t])
               /\ \A u \in Tasks : Active(u) /\ trans[u].skipped =>
                    Reserved(u) \cap (hdr.tail .. hdr.tail + trans'[t].size - 1) = {}
               /\ \/ trans[t].pc = "idle" /\ trans'[t].objs \cap Busy = {}
                  \/ trans[t].pc = "wrapped" /\ trans'[t].objs = trans[t].objs
               /\ cleaner'.head = cleaner.head /\ cleaner'.tail = cleaner.tail
               /\ cleaner'.gen = cleaner.gen
               /\ \/ cleaner'.pc = cleaner.pc
                  \/ cleaner.pc = "asleep" /\ cleaner'.pc = "woken"
<1>1. PICK r \in TransType :
        /\ r.size > 0 /\ r.used < r.size
        /\ \/ /\ r.head = hdr.head /\ \A u \in Tasks : trans[u].pc # "wrapped"
              /\ trans[t].pc = "idle" /\ r.used = 0 /\ r.skipped = FALSE
              /\ r.logged = {} /\ r.objs \cap Busy = {}
           \/ r = trans[t] /\ r.pc = "wrapped"
        /\ Fails(t) \/ Wraps(t, r) \/ Takes(t, r)
  BY Reservations
<1>2. /\ phase = "mounted" /\ PromisesKept /\ UNCHANGED <<phase, log, nlog, mem, nmem, walk>>
  BY Reservations DEF data
<1>3. ~past.broken /\ Places
  BY <1>1 DEF Fails, Wraps, Takes, HasRoom, IInv, Places
<1>4. /\ r.size \in Nat \ {0} /\ r.head \in Nat /\ r.head < JSize
      /\ hdr \in [head : Idx, tail : Idx, gen : 1 .. MaxGen] /\ DOMAIN trans = Tasks
  BY <1>1, JournalAssumption DEF TransType, IInv, TypeOK, HeaderType, Idx
<1>5. \/ r.head = hdr.head
      \/ hdr.tail = 0 /\ r.head > 0 /\ (hdr.head = 0 \/ r.head <= hdr.head)
  BY <1>1, <1>3 DEF Places, WrapInHand
<1>6. trans[t].pc \in {"idle", "wrapped"} /\ Blank0(r)
  BY <1>1 DEF OwnInv, Carried, Blank0
<1>7. CASE Fails(t)
  <2>1. trans'[t] = NoTrans /\ \A u \in Tasks : u # t => trans'[u] = trans[u]
    BY <1>4, <1>7 DEF Fails
  <2>2. QED
    BY <1>2, <1>3, <1>6, <1>7, <2>1 DEF Fails
<1>8. CASE Wraps(t, r)
  <2>1. /\ Avail(r.head, hdr.tail) >= r.size /\ hdr.tail + r.size >= JSize
        /\ hdr' = [hdr EXCEPT !.tail = 0, !.gen = NextGen(@)] /\ nhdr' = nhdr /\ cleaner' = cleaner
    BY <1>8 DEF Wraps, HasRoom
  <2>2. r.head = hdr.head /\ 0 < hdr.head /\ hdr.head <= hdr.tail
    BY <1>4, <1>5, <2>1, Ranges DEF Avail
  <2>3. \A u \in Tasks : trans[u].pc # "wrapped"
    <3>1. CASE r = trans[t] /\ r.pc = "wrapped"
      BY <1>3, <2>2, <3>1, Ranges DEF Places, WrapInHand
    <3>2. QED
      BY <1>1, <3>1
  <2>4. /\ \A u \in Tasks : u # t => trans'[u] = trans[u]
        /\ trans'[t] = [r EXCEPT !.pc = "wrapped"]
    BY <1>4, <1>8 DEF Wraps
  <2>5. /\ trans'[t].pc = "wrapped" /\ Blank0(trans'[t]) /\ trans'[t].objs = r.objs
    BY <1>6, <2>4 DEF Blank0, TransType
  <2>6. trans[t].pc = "idle" /\ r.objs \cap Busy = {}
    BY <1>1, <2>3
  <2>7. QED
    BY <1>2, <1>3, <1>6, <2>1, <2>2, <2>4, <2>5, <2>6
<1>9. CASE Takes(t, r)
  <2>1. /\ Avail(r.head, hdr.tail) >= r.size /\ hdr.tail + r.size < JSize /\ ~Reuses(r.size)
        /\ hdr' = [hdr EXCEPT !.tail = @ + r.size] /\ nhdr' = hdr'
    BY <1>9 DEF Takes, HasRoom
  <2>2. hdr.tail < hdr.head => hdr.tail + r.size < hdr.head
    BY <1>4, <1>5, <2>1, Ranges DEF Avail
  <2>3. /\ \A u \in Tasks : u # t => trans'[u] = trans[u]
        /\ trans'[t] = [r EXCEPT !.pc = "run", !.start = hdr.tail, !.gen = hdr.gen]
    BY <1>4, <1>9 DEF Takes
  <2>4. /\ trans'[t].pc = "run" /\ trans'[t].start = hdr.tail /\ trans'[t].size = r.size
        /\ trans'[t].gen = hdr.gen /\ Blank0(trans'[t]) /\ trans'[t].objs = r.objs
    BY <1>6, <2>3 DEF Blank0, TransType
  <2>5. /\ cleaner'.head = cleaner.head /\ cleaner'.tail = cleaner.tail /\ cleaner'.gen = cleaner.gen
        /\ \/ cleaner'.pc = cleaner.pc
           \/ cleaner.pc = "asleep" /\ cleaner'.pc = "woken"
    <3>1. CASE cleaner' = cleaner
      BY <3>1
    <3>2. CASE cleaner.pc = "asleep" /\ cleaner' = [cleaner EXCEPT !.pc = "woken"]
      BY <3>2 DEF IInv, TypeOK, CleanerType
    <3>3. QED
      BY <1>9, <3>1, <3>2 DEF Takes
  <2>6. \A u \in Tasks : Active(u) /\ trans[u].skipped =>
          Reserved(u) \cap (hdr.tail .. hdr.tail + r.size - 1) = {}
    BY <2>1 DEF Reuses
  <2>7. \/ trans[t].pc = "idle" /\ trans'[t].objs \cap Busy = {}
        \/ trans[t].pc = "wrapped" /\ trans'[t].objs = trans[t].objs
    BY <1>1, <2>4
  <2>8. QED
    BY <1>2, <1>3, <1>4, <1>6, <2>1, <2>2, <2>3, <2>4, <2>5, <2>6, <2>7
<1>10. QED
  BY <1>1, <1>7, <1>8, <1>9

(***************************************************************************)
(* Laps.                                                                   *)
(***************************************************************************)
\* A lap begins.
WrapsTo ==
  /\ 0 < hdr.head /\ hdr.head <= hdr.tail
  /\ hdr' = [hdr EXCEPT !.tail = 0, !.gen = NextGen(@)] /\ nhdr' = nhdr
\* The tail goes on over n entries.
TakesTo(n) ==
  /\ hdr.tail < hdr.head => hdr.tail + n < hdr.head
  /\ hdr.tail + n < JSize
  /\ hdr' = [hdr EXCEPT !.tail = @ + n] /\ nhdr' = hdr'
\* The head goes on.
HeadTo ==
  /\ nhdr' = nhdr
  /\ \/ CleanHead
     \/ ForwardHead

\* No other step changes what the CPUs see of the header, nor does it persist anything else.
LEMMA HeaderSteps ==
  ASSUME IInv, OwnInv, [Next]_vars, ~past'.broken
  PROVE  \/ Crash
         \/ hdr' = hdr /\ nhdr' \in {nhdr, hdr}
         \/ WrapsTo \/ (\E n \in Nat \ {0} : TakesTo(n)) \/ HeadTo
         \/ ForwardGen /\ nhdr' = nhdr
<1>1. ASSUME NEW t \in Tasks, NewTransaction(t) \/ Again(t)
      PROVE  (hdr' = hdr /\ nhdr' = nhdr) \/ WrapsTo \/ \E n \in Nat \ {0} : TakesTo(n)
  <2>1. \/ UNCHANGED <<hdr, nhdr>>
        \/ /\ 0 < hdr.head /\ hdr.head <= hdr.tail
           /\ hdr' = [hdr EXCEPT !.tail = 0, !.gen = NextGen(@)] /\ UNCHANGED <<nhdr, cleaner>>
        \/ /\ hdr.tail < hdr.head => hdr.tail + trans'[t].size < hdr.head
           /\ hdr.tail + trans'[t].size < JSize
           /\ hdr' = [hdr EXCEPT !.tail = @ + trans'[t].size] /\ nhdr' = hdr'
           /\ trans'[t].size \in Nat \ {0}
    BY <1>1, Reserving
  <2>2. QED
    BY <2>1 DEF WrapsTo, TakesTo
<1>2. ASSUME NEW t \in Tasks, AddLogEntry(t) \/ LogFence(t) \/ Store(t) \/ Commit(t) \/ Abort(t)
                              \/ LastFence(t)
      PROVE  hdr' = hdr /\ nhdr' = nhdr
  BY <1>2 DEF AddLogEntry, LogFence, Store, Commit, Abort, LastFence, journal
<1>3. CASE Cleaning \/ Unmount \/ WriteBackHeader \/ UNCHANGED vars
  BY <1>3 DEF Cleaning, CleanStart, CleanStep, CleanHead, CleanEnd, Unmount, WriteBackHeader, vars,
     journal, HeadTo
<1>4. CASE Recovery
  BY <1>4 DEF Recovery, Mount, RecoverStep, ForwardInvalidate, ForwardGen, ForwardHead, ForwardFence,
     Mounted, journal, HeadTo
<1>5. QED
  BY <1>1, <1>2, <1>3, <1>4 DEF Next, TaskStep

\* Laps only grow.
LEMMA LapsGrow ==
  ASSUME IInv, OwnInv, IInv', [Next]_vars, ~past'.broken, Early, ~Crash
  PROVE  /\ nhdr' \in {nhdr, hdr'}
         /\ \A i \in Idx : Lap(hdr, i) <= Lap(hdr', i)
<1>1. /\ hdr \in [head : Idx, tail : Idx, gen : 1 .. MaxGen] /\ Idx \subseteq Nat /\ MaxGen \in Nat
      /\ hdr' \in [head : Idx, tail : Idx, gen : 1 .. MaxGen] /\ hdr.gen # MaxGen
  BY JournalAssumption DEF IInv, TypeOK, HeaderType, Idx, Early
<1>2. CASE hdr' = hdr /\ nhdr' \in {nhdr, hdr}
  BY <1>1, <1>2 DEF Lap
<1>3. CASE WrapsTo
  <2>1. hdr'.tail = 0 /\ hdr'.gen = hdr.gen + 1
    BY <1>1, <1>3 DEF WrapsTo, NextGen
  <2>2. QED
    BY <1>1, <1>3, <2>1 DEF WrapsTo, Lap
<1>4. ASSUME NEW n \in Nat \ {0}, TakesTo(n)
      PROVE  nhdr' \in {nhdr, hdr'} /\ \A i \in Idx : Lap(hdr, i) <= Lap(hdr', i)
  <2>1. hdr'.tail = hdr.tail + n /\ hdr'.gen = hdr.gen
    BY <1>1, <1>4 DEF TakesTo
  <2>2. QED
    BY <1>1, <1>4, <2>1 DEF TakesTo, Lap
<1>5. CASE HeadTo
  <2>1. hdr'.tail = hdr.tail /\ hdr'.gen = hdr.gen /\ nhdr' = nhdr
    BY <1>1, <1>5 DEF HeadTo, CleanHead, ForwardHead
  <2>2. QED
    BY <1>1, <2>1 DEF Lap
<1>6. CASE ForwardGen /\ nhdr' = nhdr
  <2>1. hdr'.tail = hdr.tail /\ hdr'.gen = hdr.gen + 1
    BY <1>1, <1>6 DEF ForwardGen, NextGen
  <2>2. QED
    BY <1>1, <1>6, <2>1 DEF Lap
<1>7. QED
  BY <1>2, <1>3, <1>4, <1>5, <1>6, HeaderSteps

\* A journal that goes round its end is in its second lap at least.
LEMMA LapsKeep ==
  ASSUME IInv, OwnInv, IInv', [Next]_vars, ~past'.broken, Early, Laps
  PROVE  Laps'
<1>1. /\ hdr \in [head : Idx, tail : Idx, gen : 1 .. MaxGen] /\ Idx \subseteq Nat /\ MaxGen \in Nat
      /\ hdr' \in [head : Idx, tail : Idx, gen : 1 .. MaxGen] /\ hdr.gen # MaxGen
  BY JournalAssumption DEF IInv, TypeOK, HeaderType, Idx, Early
<1>2. CASE hdr' = hdr /\ nhdr' \in {nhdr, hdr}
  BY <1>2 DEF Laps
<1>3. CASE WrapsTo
  <2>1. hdr'.gen = hdr.gen + 1 /\ nhdr' = nhdr
    BY <1>1, <1>3 DEF WrapsTo, NextGen
  <2>2. hdr'.gen > 1 /\ hdr.gen \in 1 .. MaxGen
    <3>1. \A g \in 1 .. MaxGen : g + 1 > 1
      BY <1>1
    <3>2. QED
      BY <1>1, <2>1, <3>1
  <2>3. nhdr'.tail < nhdr'.head => nhdr'.gen > 1
    BY <2>1 DEF Laps
  <2>4. QED
    BY <2>2, <2>3 DEF Laps
<1>4. ASSUME NEW n \in Nat \ {0}, TakesTo(n)
      PROVE  Laps'
  <2>1. hdr'.tail = hdr.tail + n /\ hdr'.gen = hdr.gen /\ hdr'.head = hdr.head /\ nhdr' = hdr'
    BY <1>1, <1>4 DEF TakesTo
  <2>2. hdr.tail < hdr.head => hdr.gen > 1
    BY DEF Laps
  <2>3. hdr.tail \in Nat /\ hdr.head \in Nat
    BY <1>1
  <2>4. hdr'.tail < hdr'.head => hdr'.gen > 1
    BY <1>4, <2>1, <2>2, <2>3
  <2>5. QED
    BY <2>1, <2>4 DEF Laps
<1>5. CASE HeadTo
  <2>1. hdr'.tail = hdr.tail /\ hdr'.gen = hdr.gen /\ nhdr' = nhdr
    BY <1>1, <1>5 DEF HeadTo, CleanHead, ForwardHead
  <2>2. hdr.tail < hdr'.head => hdr.tail < hdr.head
    <3>1. CASE CleanHead
      <4>1. hdr'.head = cleaner.head /\ cleaner.pc = "store" /\ ~past.broken
        <5>1. past' = past
          BY <3>1 DEF CleanHead
        <5>2. QED
          BY <1>1, <3>1, <5>1 DEF CleanHead
      <4>2. InOrder(hdr.head, cleaner.head, cleaner.tail) /\ InOrder(hdr.head, cleaner.tail, hdr.tail)
        BY <4>1 DEF IInv, CleanerOnWay
      <4>3. /\ cleaner.head \in Nat /\ cleaner.tail \in Nat /\ hdr.head \in Nat /\ hdr.tail \in Nat
        BY <1>1, JournalAssumption DEF IInv, TypeOK, CleanerType
      <4>4. \A x, y, z, w \in Nat :
              InOrder(x, y, z) /\ InOrder(x, z, w) /\ w < y => w < x
        BY DEF InOrder
      <4>5. QED
        BY <4>1, <4>2, <4>3, <4>4
    <3>2. CASE ForwardHead
      BY <1>1, <3>2 DEF ForwardHead
    <3>3. QED
      BY <1>5, <3>1, <3>2 DEF HeadTo
  <2>3. QED
    BY <1>1, <2>1, <2>2 DEF Laps
<1>6. CASE ForwardGen /\ nhdr' = nhdr
  <2>1. hdr'.tail = hdr.tail /\ hdr'.gen = hdr.gen + 1
    BY <1>1, <1>6 DEF ForwardGen, NextGen
  <2>2. QED
    BY <1>1, <1>6, <2>1 DEF Laps
<1>7. CASE Crash
  BY <1>7 DEF Crash, Laps
<1>8. QED
  BY <1>2, <1>3, <1>4, <1>5, <1>6, <1>7, HeaderSteps

\* The cleaner stays in laps that have begun.
LEMMA CleanerLapKeeps ==
  ASSUME IInv, OwnInv, IInv', [Next]_vars, ~past'.broken, Early, Laps, CleanerLap
  PROVE  CleanerLap'
<1>1. /\ hdr \in [head : Idx, tail : Idx, gen : 1 .. MaxGen] /\ Idx \subseteq Nat /\ MaxGen \in Nat
      /\ hdr' \in [head : Idx, tail : Idx, gen : 1 .. MaxGen] /\ hdr.gen # MaxGen
      /\ cleaner \in [pc : {"asleep", "woken", "scan", "store", "fence"}, head : Idx, tail : Idx,
                      gen : 0 .. MaxGen, last : BOOLEAN]
      /\ cleaner' \in [pc : {"asleep", "woken", "scan", "store", "fence"}, head : Idx, tail : Idx,
                      gen : 0 .. MaxGen, last : BOOLEAN]
  BY JournalAssumption DEF IInv, TypeOK, HeaderType, Idx, Early, CleanerType
<1>2. CASE CleanStart
  <2>1. /\ cleaner'.head = hdr.head /\ cleaner'.tail = hdr.tail /\ cleaner'.gen = LapOfCleaner(hdr)
        /\ hdr' = hdr
    BY <1>1, <1>2 DEF CleanStart, journal
  <2>2. hdr.tail < hdr.head => hdr.gen > 1
    BY DEF Laps
  <2>3. QED
    BY <1>1, <2>1, <2>2 DEF LapOfCleaner, PrevGen, CleanerLap
<1>3. CASE CleanStep
  <2>1. /\ cleaner.pc = "scan" /\ hdr' = hdr
        /\ \/ cleaner' = [cleaner EXCEPT !.pc = "store"]
           \/ \E e \in Idx :
                 /\ cleaner.head # cleaner.tail /\ cleaner.head <= e
                 /\ cleaner.head < cleaner.tail => e < cleaner.tail
                 /\ cleaner' = [cleaner EXCEPT
                      !.head = IF e = JSize - 1 THEN 0 ELSE e + 1,
                      !.gen = IF (IF e = JSize - 1 THEN 0 ELSE e + 1) = 0 THEN NextGen(@) ELSE @]
    BY <1>3, CleanerSteps DEF IInv
  <2>2. CASE cleaner' = [cleaner EXCEPT !.pc = "store"]
    BY <1>1, <2>1, <2>2 DEF CleanerLap
  <2>3. ASSUME NEW e \in Idx, cleaner.head # cleaner.tail, cleaner.head <= e,
               cleaner.head < cleaner.tail => e < cleaner.tail,
               cleaner' = [cleaner EXCEPT
                      !.head = IF e = JSize - 1 THEN 0 ELSE e + 1,
                      !.gen = IF (IF e = JSize - 1 THEN 0 ELSE e + 1) = 0 THEN NextGen(@) ELSE @]
        PROVE  CleanerLap'
    <3>1. cleaner.gen <= hdr.gen /\ (cleaner.tail < cleaner.head => cleaner.gen < hdr.gen)
      BY <2>1 DEF CleanerLap
    <3>2. /\ cleaner'.head = IF e = JSize - 1 THEN 0 ELSE e + 1
          /\ cleaner'.gen = IF (IF e = JSize - 1 THEN 0 ELSE e + 1) = 0 THEN NextGen(cleaner.gen)
                            ELSE cleaner.gen
          /\ cleaner'.tail = cleaner.tail /\ cleaner'.pc = cleaner.pc
      BY <1>1, <2>3
    <3>3. CASE e = JSize - 1
      <4>1. cleaner.tail < cleaner.head
        BY <1>1, <2>3, <3>3, JournalAssumption DEF Idx
      <4>2. cleaner'.head = 0 /\ cleaner'.gen = cleaner.gen + 1
        BY <1>1, <3>1, <3>2, <3>3, <4>1 DEF NextGen
      <4>3. cleaner.gen + 1 <= hdr.gen /\ ~(cleaner.tail < 0)
        <5>1. cleaner.gen < hdr.gen
          BY <3>1, <4>1
        <5>3. cleaner.gen \in Nat /\ cleaner.tail \in Nat
          <6>1. cleaner.tail \in Idx /\ cleaner.gen \in 0 .. MaxGen
            BY <1>1
          <6>2. 0 .. MaxGen \subseteq Nat /\ Idx \subseteq Nat
            BY DEF Idx
          <6>3. QED
            BY <6>1, <6>2
        <5>4. hdr.gen \in Nat
          BY <1>1
        <5>2. QED
          BY <5>1, <5>3, <5>4
      <4>4. QED
        BY <2>1, <3>2, <4>2, <4>3 DEF CleanerLap
    <3>4. CASE e # JSize - 1
      <4>1. cleaner'.head = e + 1 /\ cleaner'.gen = cleaner.gen
        <5>1. e + 1 # 0
          BY <1>1, <2>3
        <5>2. QED
          BY <3>2, <3>4, <5>1
      <4>2. cleaner.tail < e + 1 => cleaner.tail < cleaner.head
        <5>1. cleaner.head \in Nat /\ cleaner.tail \in Nat /\ e \in Nat
          BY <1>1, <2>3
        <5>2. QED
          BY <2>3, <5>1
      <4>3. QED
        BY <2>1, <3>1, <3>2, <4>1, <4>2 DEF CleanerLap
    <3>5. QED
      BY <3>3, <3>4
  <2>4. QED
    BY <2>1, <2>2, <2>3
<1>4. CASE cleaner'.pc \notin {"scan", "store"}
  BY <1>4 DEF CleanerLap
<1>5. CASE /\ cleaner'.head = cleaner.head /\ cleaner'.tail = cleaner.tail /\ cleaner'.gen = cleaner.gen
           /\ cleaner'.pc \in {"scan", "store"} => cleaner'.pc = cleaner.pc
           /\ hdr.gen <= hdr'.gen
  BY <1>1, <1>5 DEF CleanerLap
<1>6. ~Crash => hdr.gen <= hdr'.gen
  <2> SUFFICES ASSUME ~Crash
               PROVE  hdr.gen <= hdr'.gen
    OBVIOUS
  <2>1. CASE hdr' = hdr
    BY <1>1, <2>1
  <2>2. CASE WrapsTo \/ ForwardGen
    <3>1. hdr'.gen = hdr.gen + 1 /\ hdr.gen \in Nat
      <4>1. hdr'.gen = NextGen(hdr.gen)
        BY <1>1, <2>2 DEF WrapsTo, ForwardGen
      <4>2. QED
        BY <1>1, <4>1 DEF NextGen
    <3>2. QED
      BY <3>1
  <2>3. CASE HeadTo \/ \E n \in Nat \ {0} : TakesTo(n)
    BY <1>1, <2>3 DEF HeadTo, TakesTo, CleanHead, ForwardHead
  <2>4. QED
    BY <2>1, <2>2, <2>3, HeaderSteps
<1>7. ASSUME NEW t \in Tasks, NewTransaction(t) \/ Again(t)
      PROVE  /\ cleaner'.head = cleaner.head /\ cleaner'.tail = cleaner.tail
             /\ cleaner'.gen = cleaner.gen
             /\ cleaner'.pc \in {"scan", "store"} => cleaner'.pc = cleaner.pc
  BY <1>7, Reserving
<1>8. ASSUME NEW t \in Tasks, AddLogEntry(t) \/ LogFence(t) \/ Store(t) \/ Commit(t) \/ Abort(t)
                              \/ LastFence(t)
      PROVE  cleaner' = cleaner
  BY <1>8 DEF AddLogEntry, LogFence, Store, Commit, Abort, LastFence
<1>9. CASE Unmount
  <2>1. cleaner' = cleaner \/ cleaner'.pc = "woken"
    BY <1>1, <1>9 DEF Unmount
  <2>2. ~Crash
    BY <1>9 DEF Unmount, Crash
  <2>3. QED
    BY <1>4, <1>5, <1>6, <2>1, <2>2
<1>10. CASE CleanHead \/ CleanEnd \/ Crash
  <2>1. cleaner'.pc \in {"fence", "asleep"}
    BY <1>1, <1>10 DEF CleanHead, CleanEnd, Crash, Asleep
  <2>2. QED
    BY <1>4, <2>1
<1>11. CASE Recovery \/ WriteBackHeader \/ UNCHANGED vars
  <2>1. cleaner' = cleaner
    BY <1>11 DEF Recovery, Mount, RecoverStep, ForwardInvalidate, ForwardGen, ForwardHead,
       ForwardFence, Mounted, WriteBackHeader, vars
  <2>2. CASE Crash
    BY <1>10, <2>2
  <2>3. CASE ~Crash
    BY <1>5, <1>6, <2>1, <2>3
  <2>4. QED
    BY <2>2, <2>3
<1>12. ASSUME NEW t \in Tasks, TaskStep(t)
       PROVE  CleanerLap'
  <2>1. CASE Crash
    BY <1>10, <2>1
  <2>2. CASE ~Crash
    BY <1>5, <1>6, <1>7, <1>8, <1>12, <2>2 DEF TaskStep
  <2>3. QED
    BY <2>1, <2>2
<1>13. QED
  BY <1>2, <1>3, <1>9, <1>10, <1>11, <1>12 DEF Next, Cleaning

(***************************************************************************)
(* Ages of entries.                                                        *)
(***************************************************************************)
\* Entries, headers and transactions, as far as the ages need them.
LEMMA Typed ==
  ASSUME IInv
  PROVE  /\ hdr \in Headers /\ nhdr \in Headers /\ Idx \subseteq Nat /\ MaxGen \in Nat
         /\ \A i \in Idx : /\ log[i].gen \in Nat /\ nlog[i].gen \in Nat
                           /\ Lap(hdr, i) \in Nat /\ Lap(nhdr, i) \in Nat
         /\ DOMAIN log = Idx /\ DOMAIN nlog = Idx /\ DOMAIN trans = Tasks
         /\ \A t \in Tasks : /\ trans[t].gen \in Nat /\ trans[t].used \in Nat
                             /\ trans[t].start \in Nat /\ trans[t].size \in Nat
                             /\ trans[t].objs \subseteq Objs /\ trans[t].logged \subseteq Objs
         /\ \A t \in Tasks : Going(t) =>
              Reserved(t) \subseteq Idx /\ Written(t) \subseteq Reserved(t) /\ trans[t].size > 0
<1>1. TypeOK /\ EntriesFit
  BY DEF IInv
<1>2. /\ hdr \in Headers /\ nhdr \in Headers /\ Idx \subseteq Nat /\ MaxGen \in Nat
  BY <1>1, HeadersAre, JournalAssumption DEF Idx
<1>3. \A i \in Idx : log[i].gen \in Nat /\ nlog[i].gen \in Nat
  <2>1. log \in [Idx -> Entries] /\ nlog \in [Idx -> Entries]
    BY <1>1 DEF TypeOK, LogType
  <2>2. \A e \in Entries : e.gen \in Nat
    <3>1. 0 .. MaxGen \subseteq Nat
      OBVIOUS
    <3>2. QED
      BY <3>1 DEF Entries
  <2>3. QED
    BY <2>1, <2>2
<1>4. \A h \in Headers : \A i \in Idx : Lap(h, i) \in Nat
  <2>1. \A h \in Headers : \A i \in Idx : Lap(h, i) \in 0 .. MaxGen
    BY BetweenIdx
  <2>2. QED
    BY <2>1
<1>5. DOMAIN log = Idx /\ DOMAIN nlog = Idx /\ DOMAIN trans = Tasks
  BY <1>1 DEF TypeOK, LogType
<1>6. \A t \in Tasks : /\ trans[t].gen \in Nat /\ trans[t].used \in Nat
                       /\ trans[t].start \in Nat /\ trans[t].size \in Nat
                       /\ trans[t].objs \subseteq Objs /\ trans[t].logged \subseteq Objs
  <2>1. \A r \in TransType : /\ r.gen \in 0 .. MaxGen /\ r.used \in 0 .. MaxEntries + 1
                             /\ r.start \in Idx /\ r.size \in 0 .. MaxEntries + 1
                             /\ r.objs \subseteq Objs /\ r.logged \subseteq Objs
    BY DEF TransType
  <2>2. /\ 0 .. MaxGen \subseteq Nat /\ 0 .. MaxEntries + 1 \subseteq Nat /\ Idx \subseteq Nat
    BY <1>2
  <2>3. QED
    BY <1>1, <2>1, <2>2 DEF TypeOK
<1>7. ASSUME NEW t \in Tasks, Going(t)
      PROVE  Reserved(t) \subseteq Idx /\ Written(t) \subseteq Reserved(t) /\ trans[t].size > 0
  <2>1. trans[t].start + trans[t].size < JSize /\ trans[t].size > 0
    BY <1>1, <1>7 DEF EntriesFit, Going
  <2>2. QED
    BY <1>6, <2>1, JournalAssumption DEF Reserved, Written, Idx
<1>8. QED
  BY <1>2, <1>3, <1>4, <1>5, <1>6, <1>7

\* A transaction writes its own entries, and those only that are not written yet.
LEMMA Writing ==
  ASSUME IInv, OwnInv, NEW t \in Tasks, AddLogEntry(t) \/ Commit(t) \/ Abort(t)
  PROVE  /\ Active(t) /\ phase = "mounted" /\ UNCHANGED <<phase, hdr, nhdr, nlog, past, cleaner, walk>>
         /\ \A u \in Tasks : u # t => trans'[u] = trans[u]
         /\ trans'[t].pc \in {"log", "end"} /\ (Active(t)' <=> AddLogEntry(t))
         /\ trans'[t].start = trans[t].start /\ trans'[t].size = trans[t].size
         /\ trans'[t].gen = trans[t].gen /\ trans'[t].objs = trans[t].objs
         /\ trans'[t].tid = trans[t].tid /\ trans'[t].skipped = trans[t].skipped
         /\ trans[t].used <= trans'[t].used /\ Written(t) \subseteq Written(t)'
         /\ \A i \in Idx : i \notin Written(t)' \ Written(t) => log'[i] = log[i]
         /\ \A i \in Written(t)' \ Written(t) : i \in Reserved(t) /\ log'[i].gen = trans[t].gen
<1> USE DEF Running, Active
<1>1. /\ trans[t].pc = "run" /\ phase = "mounted" /\ Active(t)
      /\ trans[t] \in TransType /\ DOMAIN trans = Tasks /\ trans[t].used \in Nat
  BY Typed DEF AddLogEntry, Commit, Abort, IInv, TypeOK
<1>2. /\ EntryAt(t) = trans[t].start + trans[t].used /\ EntryAt(t) \in Reserved(t)
      /\ Reserved(t) \subseteq Idx /\ Written(t) \subseteq Reserved(t)
      /\ trans[t].used < trans[t].size /\ trans[t].start \in Nat /\ trans[t].size \in Nat
      /\ DOMAIN log = Idx
  BY <1>1, OwnEntries, Typed
<1>3. CASE AddLogEntry(t)
  <2> HIDE DEF Running, Active
  <2>1. PICK objs \in SUBSET Objs, n \in Nat :
        \E ord \in [0 .. n - 1 -> objs] :
           /\ trans[t].used + n < trans[t].size /\ objs \subseteq trans[t].objs
           /\ \A o \in objs : \E k \in 0 .. n - 1 : ord[k] = o
           /\ log' = [i \in Idx |->
                IF i - EntryAt(t) \in 0 .. n - 1
                THEN EntryOf(t, i - trans[t].start, {}, ord[i - EntryAt(t)]) ELSE log[i]]
           /\ trans' = [trans EXCEPT ![t].pc = "log", ![t].logged = @ \cup objs,
                                     ![t].used = @ + n]
    BY <1>3, Logs
  <2>2. /\ \A u \in Tasks : u # t => trans'[u] = trans[u]
        /\ trans'[t] = [trans[t] EXCEPT !.pc = "log", !.logged = @ \cup objs, !.used = @ + n]
    BY <1>1, <2>1
  <2>3. /\ trans'[t].pc = "log" /\ trans'[t].used = trans[t].used + n
        /\ trans'[t].start = trans[t].start /\ trans'[t].size = trans[t].size
        /\ trans'[t].gen = trans[t].gen /\ trans'[t].objs = trans[t].objs
        /\ trans'[t].tid = trans[t].tid /\ trans'[t].skipped = trans[t].skipped
    BY <1>1, <2>2 DEF TransType
  <2>4. \A i \in Idx : i \in Written(t)' \ Written(t) <=> i - EntryAt(t) \in 0 .. n - 1
    <3>1. \A i \in Nat : i \in Written(t) <=> trans[t].start <= i /\ i < trans[t].start + trans[t].used
      BY <1>1, <1>2 DEF Written, Reserved
    <3>2. \A i \in Nat : i \in Written(t)' <=>
            trans[t].start <= i /\ i < trans[t].start + (trans[t].used + n)
      <4>1. n \in Nat /\ trans[t].used + n < trans[t].size /\ trans[t].used \in Nat
        BY <1>1, <2>1
      <4>2. QED
        BY <1>2, <2>3, <4>1 DEF Written, Reserved
    <3>3. Idx \subseteq Nat
      BY DEF Idx
    <3>4. QED
      BY <1>1, <1>2, <3>1, <3>2, <3>3
  <2>5. Written(t) \subseteq Written(t)' /\ Written(t)' \subseteq Reserved(t)
    BY <1>1, <1>2, <2>1, <2>3 DEF Written, Reserved
  <2>6. /\ \A i \in Idx : i \notin Written(t)' \ Written(t) => log'[i] = log[i]
        /\ \A i \in Written(t)' \ Written(t) : log'[i].gen = trans[t].gen
    <3>1. ASSUME NEW i \in Idx, i \notin Written(t)' \ Written(t) PROVE log'[i] = log[i]
      <4>1. ~(i - EntryAt(t) \in 0 .. n - 1)
        BY <2>4, <3>1
      <4>2. QED
        BY <2>1, <4>1
    <3>2. ASSUME NEW i \in Written(t)' \ Written(t) PROVE log'[i].gen = trans[t].gen
      <4>1. i \in Idx /\ i - EntryAt(t) \in 0 .. n - 1
        BY <1>2, <2>4, <2>5, <3>2
      <4>2. QED
        BY <2>1, <4>1 DEF EntryOf
    <3>3. QED
      BY <3>1, <3>2
  <2>7. UNCHANGED <<phase, hdr, nhdr, nlog, past, cleaner, walk>>
    BY <1>3 DEF AddLogEntry
  <2>8. trans[t].used <= trans'[t].used /\ (Active(t)' <=> AddLogEntry(t))
    BY <1>1, <1>3, <2>1, <2>3 DEF Active
  <2>9. QED
    BY <1>1, <2>2, <2>3, <2>5, <2>6, <2>7, <2>8
<1>4. CASE Commit(t) \/ Abort(t)
  <2>1. PICK kind \in {"commit", "abort"} : LastEntry(t, kind)
    BY <1>4 DEF Commit, Abort
  <2>2. /\ \A u \in Tasks : u # t => trans'[u] = trans[u]
        /\ trans'[t] = [trans[t] EXCEPT !.pc = "end", !.used = @ + 1, !.kind = kind]
    BY <1>1, <2>1 DEF LastEntry
  <2>3. /\ trans'[t].pc = "end" /\ trans'[t].used = trans[t].used + 1
        /\ trans'[t].start = trans[t].start /\ trans'[t].size = trans[t].size
        /\ trans'[t].gen = trans[t].gen /\ trans'[t].objs = trans[t].objs
        /\ trans'[t].tid = trans[t].tid /\ trans'[t].skipped = trans[t].skipped
    BY <1>1, <2>2 DEF TransType
  <2>4. \A i \in Idx : i \in Written(t)' \ Written(t) <=> i = EntryAt(t)
    BY <1>1, <1>2, <2>3 DEF Written, Reserved, Idx
  <2>5. Written(t) \subseteq Written(t)' /\ Written(t)' \subseteq Reserved(t)
    BY <1>1, <1>2, <2>3 DEF Written, Reserved
  <2>6. /\ \A i \in Idx : i # EntryAt(t) => log'[i] = log[i]
        /\ log'[EntryAt(t)].gen = trans[t].gen
    BY <1>2, <2>1 DEF LastEntry, EntryOf
  <2>7. UNCHANGED <<phase, hdr, nhdr, nlog, past, cleaner, walk>>
    BY <1>4 DEF Commit, Abort
  <2>8. ~Active(t)' /\ ~AddLogEntry(t)
    <3>1. trans'[t].pc # "log"
      BY <2>3
    <3>2. AddLogEntry(t) => trans'[t].pc = "log"
      <4> SUFFICES ASSUME AddLogEntry(t)
                   PROVE  trans'[t].pc = "log"
        OBVIOUS
      <4>1. PICK objs \in SUBSET trans[t].objs : \E ord \in [0 .. Cardinality(objs) - 1 -> objs] :
              trans' = [trans EXCEPT ![t].pc = "log", ![t].logged = @ \cup objs,
                                     ![t].used = @ + Cardinality(objs)]
        BY DEF AddLogEntry
      <4>2. QED
        BY <1>1, <4>1 DEF TransType
    <3>3. QED
      BY <2>3, <3>1, <3>2
  <2>9. QED
    BY <1>1, <1>2, <2>2, <2>3, <2>4, <2>5, <2>6, <2>7, <2>8
<1>5. QED
  BY <1>3, <1>4

\* The log stays; some of it becomes persistent perhaps.
Leaves == log' = log /\ nlog' \in [Idx -> Entries] /\ \A i \in Idx : nlog'[i] \in {nlog[i], log[i]}

\* Only three steps, and a failure, do more than that.
LEMMA LogSteps ==
  ASSUME IInv, OwnInv, IInv', [Next]_vars, Early, Ages, CleanerLap, RecInv
  PROVE  Crash \/ Leaves \/ \E t \in Tasks : AddLogEntry(t) \/ Commit(t) \/ Abort(t)
<1>1. TypeOK /\ hdr.gen \in Nat /\ MaxGen \in Nat /\ hdr.gen < MaxGen
  <2>1. hdr.gen \in 1 .. MaxGen /\ hdr.gen # MaxGen
    BY DEF IInv, TypeOK, HeaderType, Early
  <2>2. QED
    BY <2>1, JournalAssumption DEF IInv
<1>2. nlog \in [Idx -> Entries] /\ nlog' \in [Idx -> Entries] /\ log \in [Idx -> Entries]
  BY DEF IInv, TypeOK, LogType
<1>3. ASSUME UNCHANGED <<log, nlog>>
      PROVE  Leaves
  BY <1>2, <1>3 DEF Leaves
<1>4. ASSUME NEW t \in Tasks, NewTransaction(t) \/ Again(t) \/ Store(t)
      PROVE  Leaves
  BY <1>3, <1>4 DEF NewTransaction, Again, Store, journal
<1>5. ASSUME NEW t \in Tasks, LogFence(t) \/ LastFence(t)
      PROVE  Leaves
  BY <1>2, <1>5 DEF LogFence, LastFence, LogFlushed, Leaves
<1>6. CASE CleanStep
  <2>1. CASE UNCHANGED <<log, nlog>>
    BY <1>3, <2>1
  <2>2. ASSUME NEW e \in Idx, cleaner.pc = "scan",
               log' = Invalidated(cleaner.head .. e, cleaner.gen),
               nlog' \in {FirstFenced(cleaner.head .. e, cleaner.gen), nlog}
        PROVE  Leaves
    <3>1. cleaner.gen # MaxGen
      <4>1. cleaner.gen <= hdr.gen
        BY <2>2 DEF CleanerLap
      <4>2. QED
        BY <1>1, <4>1
    <3>2. QED
      BY <1>1, <1>3, <2>2, <3>1, NotInvalidated
  <2>3. QED
    BY <1>1, <1>6, <2>1, <2>2, CleanerSteps
<1>7. CASE CleanHead
  <2>1. log' = log /\ nlog' = [i \in Idx |-> IF log[i].gen = 0 THEN log[i] ELSE nlog[i]]
    BY <1>7 DEF CleanHead
  <2>2. QED
    BY <1>2, <2>1 DEF Leaves
<1>8. CASE CleanStart \/ CleanEnd \/ Unmount \/ WriteBackHeader \/ UNCHANGED vars
  BY <1>3, <1>8 DEF CleanStart, CleanEnd, Unmount, WriteBackHeader, vars, journal
<1>9. CASE RecoverStep
  <2>1. walk.gen <= hdr.gen /\ (walk.tail < hdr.head => walk.gen > 1)
    BY <1>9 DEF RecInv, Paused, Away, RecoverStep
  <2>2. PICK b \in Idx, i \in Idx, g \in 1 .. MaxGen :
              /\ walk' = [tail |-> b, gen |-> g]
              /\ log' = Invalidated(b .. i, g)
              /\ nlog' \in {FirstFenced(b .. i, g), nlog}
    BY <1>1, <1>9, RecoverySteps
  <2>3. g = IF walk.tail = 0 THEN PrevGen(walk.gen) ELSE walk.gen
    BY <1>9, <2>2 DEF RecoverStep
  <2>4. g # MaxGen
    <3>1. walk.gen \in 1 .. MaxGen /\ walk.tail \in Idx /\ hdr.head \in Idx
      BY <1>1 DEF TypeOK, HeaderType
    <3>2. walk.tail = 0 => walk.gen > 1
      <4>1. walk.tail # hdr.head
        BY <1>9 DEF RecoverStep
      <4>2. QED
        BY <2>1, <3>1, <4>1 DEF Idx
    <3>3. QED
      BY <1>1, <2>1, <2>3, <3>1, <3>2 DEF PrevGen
  <2>5. QED
    BY <1>1, <1>3, <2>2, <2>4, NotInvalidated
<1>10. CASE ForwardInvalidate
  <2>1. log' = Invalidated(hdr.tail .. JSize - 1, hdr.gen) /\ nlog' = nlog
    BY <1>10 DEF ForwardInvalidate
  <2>2. QED
    BY <1>1, <1>3, <2>1, NotInvalidated DEF Early
<1>11. CASE ForwardGen
  BY <1>2, <1>11 DEF ForwardGen, Leaves
<1>12. CASE Mount \/ ForwardHead \/ ForwardFence \/ Mounted
  BY <1>3, <1>12 DEF Mount, ForwardHead, ForwardFence, Mounted, journal
<1>13. QED
  BY <1>4, <1>5, <1>6, <1>7, <1>8, <1>9, <1>10, <1>11, <1>12 DEF Next, TaskStep, Cleaning, Recovery

\* No entry is younger than the lap it lies in, and what a failure leaves of it is no younger.
LEMMA AgesKeep ==
  ASSUME IInv, OwnInv, IInv', [Next]_vars, ~past'.broken, Early, Ages, CleanerLap, RecInv, AwayInv
  PROVE  Ages'
<1>1. /\ \A i \in Idx : /\ log[i].gen \in Nat /\ nlog[i].gen \in Nat
                        /\ Lap(hdr, i) \in Nat /\ Lap(nhdr, i) \in Nat
  BY Typed
<1>2. \A i \in Idx : /\ log'[i].gen \in Nat /\ nlog'[i].gen \in Nat
                     /\ Lap(hdr', i) \in Nat /\ Lap(nhdr', i) \in Nat
  <2>1. log' \in [Idx -> Entries] /\ nlog' \in [Idx -> Entries] /\ hdr' \in Headers /\ nhdr' \in Headers
    BY DEF IInv, TypeOK, LogType, HeaderType, Headers
  <2>2. \A e \in Entries : e.gen \in Nat
    <3>1. 0 .. MaxGen \subseteq Nat
      OBVIOUS
    <3>2. QED
      BY <3>1 DEF Entries
  <2>3. \A h \in Headers : \A i \in Idx : Lap(h, i) \in 0 .. MaxGen
    BY BetweenIdx
  <2>4. QED
    BY <2>1, <2>2, <2>3
<1>3. \A i \in Idx :
        /\ log[i].gen <= Lap(hdr, i) /\ log[i].gen <= Lap(nhdr, i)
        /\ nlog[i] = log[i] \/ nlog[i].gen < log[i].gen
  BY DEF Ages
<1>4. CASE Crash
  <2>1. hdr' = nhdr /\ nhdr' = nhdr /\ nlog' = log'
    BY <1>4 DEF Crash
  <2>2. \A i \in Idx : nlog'[i] \in {nlog[i], log[i]}
    <3>1. PICK I \in SUBSET {i \in Idx : nlog[i] # log[i]} :
                nlog' = [i \in Idx |-> IF i \in I THEN log[i] ELSE nlog[i]]
      BY <1>4 DEF Crash
    <3>2. QED
      BY <3>1
  <2>3. ASSUME NEW i \in Idx
        PROVE  log'[i].gen <= Lap(hdr', i)
    BY <1>1, <1>3, <2>1, <2>2
  <2>4. QED
    BY <2>1, <2>3 DEF Ages
<1>5. CASE ~Crash
  <2>1. /\ nhdr' \in {nhdr, hdr'}
        /\ \A i \in Idx : Lap(hdr, i) <= Lap(hdr', i)
    BY <1>5, LapsGrow
  <2>2. CASE Leaves
    <3>1. ASSUME NEW i \in Idx
          PROVE  /\ log'[i].gen <= Lap(hdr', i) /\ log'[i].gen <= Lap(nhdr', i)
                 /\ nlog'[i] = log'[i] \/ nlog'[i].gen < log'[i].gen
      <4>1. log'[i] = log[i] /\ nlog'[i] \in {nlog[i], log[i]}
        BY <2>2 DEF Leaves
      <4>2. log[i].gen <= Lap(hdr', i)
        BY <1>1, <1>2, <1>3, <2>1
      <4>3. QED
        BY <1>3, <2>1, <4>1, <4>2
    <3>2. QED
      BY <3>1 DEF Ages
  <2>3. ASSUME NEW t \in Tasks, AddLogEntry(t) \/ Commit(t) \/ Abort(t)
        PROVE  Ages'
    <3>1. /\ Active(t) /\ phase = "mounted" /\ UNCHANGED <<hdr, nhdr, nlog>>
          /\ \A i \in Idx : i \notin Written(t)' \ Written(t) => log'[i] = log[i]
          /\ \A i \in Written(t)' \ Written(t) : i \in Reserved(t) /\ log'[i].gen = trans[t].gen
      BY <2>3, Writing
    <3>2. /\ \A i \in Reserved(t) : trans[t].gen <= Lap(hdr, i) /\ trans[t].gen <= Lap(nhdr, i)
          /\ \A i \in Reserved(t) \ Written(t) : log[i].gen < trans[t].gen
      BY <3>1 DEF AwayInv, Away, AgesOf, Going, Active
    <3>3. ASSUME NEW i \in Idx
          PROVE  /\ log'[i].gen <= Lap(hdr', i) /\ log'[i].gen <= Lap(nhdr', i)
                 /\ nlog'[i] = log'[i] \/ nlog'[i].gen < log'[i].gen
      <4>1. CASE log'[i] = log[i]
        BY <1>3, <3>1, <4>1
      <4>2. CASE i \in Reserved(t) \ Written(t) /\ log'[i].gen = trans[t].gen
        <5>1. trans[t].gen \in Nat /\ log[i].gen < trans[t].gen /\ nlog[i].gen <= log[i].gen
          BY <1>1, <1>3, <3>2, <4>2, Typed
        <5>2. nlog'[i].gen < log'[i].gen
          BY <1>1, <3>1, <4>2, <5>1
        <5>3. QED
          BY <3>1, <3>2, <4>2, <5>2
      <4>3. QED
        BY <3>1, <4>1, <4>2
    <3>4. QED
      BY <3>3 DEF Ages
  <2>4. QED
    BY <1>5, <2>2, <2>3, LogSteps
<1>6. QED
  BY <1>4, <1>5

(***************************************************************************)
(* What the head and the tail leave of the journal as they go on.          *)
(***************************************************************************)
\* h is what the header k becomes: the head goes on, or the tail, or a lap begins.
Onward(k, h) ==
  \/ h = k
  \/ h.tail = k.tail /\ h.gen = k.gen /\ InOrder(k.head, h.head, k.tail)
  \/ /\ h.head = k.head /\ h.gen = k.gen /\ k.tail <= h.tail
     /\ k.tail < k.head => h.tail < k.head
  \/ h.head = k.head /\ 0 < k.head /\ k.head <= k.tail /\ h.tail = 0 /\ h.gen = k.gen + 1

\* An entry that is in the journal afterwards was there, in the same lap, or is in a new one.
LEMMA OnwardLap ==
  ASSUME NEW k \in Headers, NEW h \in Headers, Onward(k, h), NEW i \in Between(h)
  PROVE  \/ i \in Between(k) /\ Lap(h, i) = Lap(k, i)
         \/ i \notin Between(k) /\ Lap(k, i) < Lap(h, i)
<1>1. /\ k.head \in Nat /\ k.tail \in Nat /\ k.gen \in Nat /\ k.head < JSize /\ k.tail < JSize
      /\ h.head \in Nat /\ h.tail \in Nat /\ h.gen \in Nat /\ h.head < JSize /\ h.tail < JSize
      /\ JSize \in Nat /\ i \in Nat /\ i < JSize
  BY BetweenIdx, JournalAssumption DEF Headers, Idx
<1>2. \A g \in {k, h} : i \in Between(g) <=>
         IF g.head <= g.tail THEN g.head <= i /\ i < g.tail ELSE g.head <= i \/ i < g.tail
  BY <1>1 DEF Between
<1>3. IF h.head <= h.tail THEN h.head <= i /\ i < h.tail ELSE h.head <= i \/ i < h.tail
  BY <1>2
<1>4. i \in Between(k) <=>
         IF k.head <= k.tail THEN k.head <= i /\ i < k.tail ELSE k.head <= i \/ i < k.tail
  BY <1>2
<1>5. /\ Lap(h, i) = IF i < h.tail THEN h.gen ELSE h.gen - 1
      /\ Lap(k, i) = IF i < k.tail THEN k.gen ELSE k.gen - 1
  BY DEF Lap
<1>6. CASE h = k
  BY <1>6
<1>7. CASE h.tail = k.tail /\ h.gen = k.gen /\ InOrder(k.head, h.head, k.tail)
  BY <1>1, <1>3, <1>4, <1>5, <1>7 DEF InOrder
<1>8. CASE /\ h.head = k.head /\ h.gen = k.gen /\ k.tail <= h.tail
           /\ k.tail < k.head => h.tail < k.head
  BY <1>1, <1>3, <1>4, <1>5, <1>8
<1>9. CASE h.head = k.head /\ 0 < k.head /\ k.head <= k.tail /\ h.tail = 0 /\ h.gen = k.gen + 1
  BY <1>1, <1>3, <1>4, <1>5, <1>9
<1>10. QED
  BY <1>6, <1>7, <1>8, <1>9 DEF Onward

\* What lay between head and tail as a whole does so still, if its first entry does.
LEMMA OnwardInside ==
  ASSUME NEW k \in Headers, NEW h \in Headers, Onward(k, h), NEW r, r.start \in Nat, r.size \in Nat,
         r.start \in Between(k), r.start \in Between(h), Inside(r, k.head, k.tail)
  PROVE  Inside(r, h.head, h.tail)
<1>1. /\ k.head \in Nat /\ k.tail \in Nat /\ k.gen \in Nat /\ k.head < JSize /\ k.tail < JSize
      /\ h.head \in Nat /\ h.tail \in Nat /\ h.gen \in Nat /\ h.head < JSize /\ h.tail < JSize
      /\ JSize \in Nat
  BY JournalAssumption DEF Headers, Idx
<1>2. \A g \in {k, h} : r.start \in Between(g) <=>
         IF g.head <= g.tail THEN g.head <= r.start /\ r.start < g.tail
         ELSE (g.head <= r.start /\ r.start < JSize) \/ r.start < g.tail
  <2>1. SUFFICES ASSUME NEW g \in {k, h}
                 PROVE  r.start \in Between(g) <=>
                          IF g.head <= g.tail THEN g.head <= r.start /\ r.start < g.tail
                          ELSE (g.head <= r.start /\ r.start < JSize) \/ r.start < g.tail
    OBVIOUS
  <2> PICK a, z, x : a = g.head /\ z = g.tail /\ x = r.start
    OBVIOUS
  <2>2. a \in Nat /\ z \in Nat /\ x \in Nat /\ JSize \in Nat
    BY <1>1, <2>1
  <2>3. /\ x \in a .. z - 1 <=> a <= x /\ x < z
        /\ x \in a .. JSize - 1 <=> a <= x /\ x < JSize
        /\ x \in 0 .. z - 1 <=> x < z
    BY <2>2
  <2> QED
    BY <2>3 DEF Between
<1>3. IF h.head <= h.tail THEN h.head <= r.start /\ r.start < h.tail
      ELSE h.head <= r.start \/ r.start < h.tail
  BY <1>2
<1>4. IF k.head <= k.tail THEN k.head <= r.start /\ r.start < k.tail
      ELSE k.head <= r.start \/ r.start < k.tail
  BY <1>2
<1>6. CASE h = k
  BY <1>6
<1>7. CASE h.tail = k.tail /\ h.gen = k.gen /\ InOrder(k.head, h.head, k.tail)
  BY <1>1, <1>3, <1>4, <1>7 DEF InOrder, Inside
<1>8. CASE /\ h.head = k.head /\ h.gen = k.gen /\ k.tail <= h.tail
           /\ k.tail < k.head => h.tail < k.head
  BY <1>1, <1>3, <1>4, <1>8 DEF Inside
<1>9. CASE h.head = k.head /\ 0 < k.head /\ k.head <= k.tail /\ h.tail = 0 /\ h.gen = k.gen + 1
  BY <1>1, <1>3, <1>4, <1>9 DEF Inside
<1>10. QED
  BY <1>6, <1>7, <1>8, <1>9 DEF Onward

\* Of the entries that k has h has the last ones of each side, and no others.
Sees(L, h, k) ==
  \A i \in Idx : Valid(L, h, i) =>
    /\ Valid(L, k, i) /\ Low(k, i) <= Low(h, i)
    /\ \A j \in Idx : /\ Low(h, i) <= j /\ j <= i /\ Valid(L, k, j) => Valid(L, h, j)
                      /\ i <= j /\ Low(k, j) <= i /\ Valid(L, k, j) =>
                           Valid(L, h, j) /\ Low(h, j) = Low(h, i)

\* A header that has gone on has the last entries of those it had before.
LEMMA OnwardSees ==
  ASSUME NEW k \in Headers, NEW h \in Headers, Onward(k, h), NEW L,
         \A i \in Idx : L[i].gen \in Nat /\ L[i].gen <= Lap(k, i)
  PROVE  Sees(L, h, k)
<1>1. /\ k.head \in Nat /\ k.tail \in Nat /\ k.gen \in Nat /\ k.head < JSize /\ k.tail < JSize
      /\ h.head \in Nat /\ h.tail \in Nat /\ h.gen \in Nat /\ h.head < JSize /\ h.tail < JSize
      /\ JSize \in Nat /\ Idx \subseteq Nat /\ \A i \in Idx : i < JSize
  BY JournalAssumption DEF Headers, Idx
<1>2. \A g \in {k, h} : \A i \in Idx :
         i \in Between(g) <=>
           IF g.head <= g.tail THEN g.head <= i /\ i < g.tail ELSE g.head <= i \/ i < g.tail
  BY <1>1 DEF Between
<1>3. \A i \in Idx : /\ Low(k, i) = IF k.head <= i THEN k.head ELSE 0
                     /\ Low(h, i) = IF h.head <= i THEN h.head ELSE 0
  BY DEF Low
<1>4. \A i \in Idx : Lap(k, i) \in Nat /\ Lap(h, i) \in Nat
  <2>1. \A i \in Idx : Lap(k, i) \in 0 .. MaxGen /\ Lap(h, i) \in 0 .. MaxGen
    BY BetweenIdx
  <2>2. QED
    BY <2>1
<1>5. ASSUME NEW i \in Idx, Valid(L, h, i)
      PROVE  /\ Valid(L, k, i) /\ Low(k, i) <= Low(h, i)
             /\ i \in Between(h) /\ i \in Between(k)
  <2>1. i \in Between(h) /\ L[i].gen = Lap(h, i)
    BY <1>5 DEF Valid
  <2>2. ~(Lap(k, i) < Lap(h, i))
    BY <1>4, <2>1
  <2>3. i \in Between(k) /\ Lap(h, i) = Lap(k, i)
    BY <2>1, <2>2, OnwardLap
  <2>4. Low(k, i) <= Low(h, i)
    <3>1. CASE h.tail = k.tail /\ InOrder(k.head, h.head, k.tail)
      <4>1. k.head <= i => k.head <= h.head /\ h.head <= i
        BY <1>1, <1>2, <2>1, <2>3, <3>1 DEF InOrder
      <4>2. QED
        BY <1>1, <1>3, <4>1
    <3>2. CASE h.head = k.head
      BY <1>1, <1>3, <3>2
    <3>3. QED
      BY <3>1, <3>2 DEF Onward
  <2>5. QED
    BY <2>1, <2>3, <2>4 DEF Valid
<1>6. ASSUME NEW j \in Idx, Valid(L, k, j), j \in Between(h)
      PROVE  Valid(L, h, j)
  <2>1. j \in Between(k)
    BY <1>6 DEF Valid
  <2>2. Lap(h, j) = Lap(k, j)
    BY <1>6, <2>1, OnwardLap
  <2>3. QED
    BY <1>6, <2>2 DEF Valid
<1>7. ASSUME NEW i \in Idx, Valid(L, h, i), NEW j \in Idx, Low(h, i) <= j, j <= i
      PROVE  j \in Between(h)
  BY <1>5, <1>7, Sides
<1>8. ASSUME NEW i \in Idx, Valid(L, h, i), NEW j \in Idx, Valid(L, k, j), i <= j, Low(k, j) <= i
      PROVE  j \in Between(h) /\ Low(h, j) = Low(h, i)
  <2>1. i \in Between(h) /\ i \in Between(k) /\ j \in Between(k)
    BY <1>5, <1>8 DEF Valid
  <2>2. /\ IF h.head <= h.tail THEN h.head <= i /\ i < h.tail ELSE h.head <= i \/ i < h.tail
        /\ IF k.head <= k.tail THEN k.head <= i /\ i < k.tail ELSE k.head <= i \/ i < k.tail
        /\ IF k.head <= k.tail THEN k.head <= j /\ j < k.tail ELSE k.head <= j \/ j < k.tail
    BY <1>2, <2>1
  <2>3. k.head <= j => k.head <= i
    BY <1>3, <1>8
  <2>4. i \in Nat /\ j \in Nat /\ i <= j
    BY <1>1, <1>8
  <2>5. /\ (IF h.head <= h.tail THEN h.head <= j /\ j < h.tail ELSE h.head <= j \/ j < h.tail)
        /\ (h.head <= i <=> h.head <= j)
    <3>1. CASE h = k
      BY <1>1, <2>2, <2>3, <2>4, <3>1
    <3>2. CASE h.tail = k.tail /\ h.gen = k.gen /\ InOrder(k.head, h.head, k.tail)
      BY <1>1, <2>2, <2>3, <2>4, <3>2 DEF InOrder
    <3>3. CASE /\ h.head = k.head /\ h.gen = k.gen /\ k.tail <= h.tail
               /\ k.tail < k.head => h.tail < k.head
      BY <1>1, <2>2, <2>3, <2>4, <3>3
    <3>4. CASE h.head = k.head /\ 0 < k.head /\ k.head <= k.tail /\ h.tail = 0 /\ h.gen = k.gen + 1
      BY <1>1, <2>2, <2>3, <2>4, <3>4
    <3>5. QED
      BY <3>1, <3>2, <3>3, <3>4 DEF Onward
  <2>6. QED
    BY <1>2, <1>3, <2>5
<1>9. QED
  BY <1>5, <1>6, <1>7, <1>8 DEF Sees

\* What k accounts for h does.
LEMMA OnwardAccounted ==
  ASSUME NEW k \in Headers, NEW h \in Headers, Sees(log, h, k), Accounted(k)
  PROVE  Accounted(h)
<1>0. Idx \subseteq Nat
  BY DEF Idx
<1>1. ASSUME NEW i \in Idx, Valid(log, h, i), NEW s \in Idx, NEW e \in Idx, s <= i, i <= e,
             Closed(k, s, e)
      PROVE  \E z \in Idx : z <= i /\ Closed(h, z, e)
  <2>1. /\ Low(k, e) <= s /\ s <= e /\ (s = Low(k, e) \/ StartAt(log, k, s))
        /\ EndAt(log, k, e) /\ \A j \in s .. e : Valid(log, k, j)
        /\ \A j \in s + 1 .. e : ~StartAt(log, k, j)
        /\ \A j \in s .. e - 1 : ~EndAt(log, k, j)
    BY <1>1 DEF Closed, Run
  <2>2. /\ Low(k, e) \in Idx /\ Low(h, e) \in Idx /\ Low(h, i) <= i
    BY BetweenIdx
  <2>0. /\ s \in Nat /\ e \in Nat /\ i \in Nat /\ Low(k, e) \in Nat /\ Low(h, e) \in Nat
        /\ s <= i /\ i <= e /\ Low(k, e) <= s /\ s <= e
    BY <1>0, <1>1, <2>1, <2>2
  <2>3. Valid(log, h, e) /\ Low(h, e) = Low(h, i)
    <3>1. e \in s .. e /\ Low(k, e) <= i
      BY <2>0
    <3>3. Valid(log, k, e)
      BY <2>1, <3>1
    <3>2. QED
      BY <1>1, <3>1, <3>3 DEF Sees
  <2>4. /\ Low(k, e) <= Low(h, e)
        /\ \A j \in Idx : Low(h, e) <= j /\ j <= e /\ Valid(log, k, j) => Valid(log, h, j)
        /\ \A j \in Idx : Valid(log, h, j) => Valid(log, k, j)
    BY <2>3 DEF Sees
  <2>5. /\ \A j \in Idx : StartAt(log, h, j) => StartAt(log, k, j)
        /\ \A j \in Idx : EndAt(log, h, j) => EndAt(log, k, j)
    BY <2>4 DEF StartAt, EndAt
  <2> DEFINE z == IF s <= Low(h, e) THEN Low(h, e) ELSE s
  <2>6. /\ z \in Idx /\ z <= i /\ z <= e /\ Low(h, e) <= z /\ s <= z
        /\ z .. e \subseteq Idx /\ z .. e \subseteq s .. e /\ z + 1 .. e \subseteq s + 1 .. e
        /\ z .. e - 1 \subseteq s .. e - 1 /\ z + 1 .. e \subseteq Idx /\ z .. e - 1 \subseteq Idx
    <3>1. /\ z \in Nat /\ z <= i /\ z <= e /\ Low(h, e) <= z /\ s <= z
      BY <2>0, <2>2, <2>3
    <3> HIDE DEF z
    <3>2. \A j \in Nat : j <= e => j \in Idx
      BY <2>0, JournalAssumption DEF Idx
    <3>3. QED
      BY <2>0, <3>1, <3>2
  <2>7. z = Low(h, e) \/ (z = s /\ StartAt(log, h, s))
    <3>1. CASE s <= Low(h, e)
      BY <3>1
    <3>2. CASE ~(s <= Low(h, e))
      <4>1. z = s /\ s # Low(k, e)
        BY <2>0, <2>4, <3>2
      <4>2. Valid(log, h, s)
        <5>1. Low(h, e) <= s /\ s \in s .. e
          BY <2>0, <3>2
        <5>2. QED
          BY <1>1, <2>0, <2>1, <2>4, <5>1
      <4>3. QED
        BY <2>1, <4>1, <4>2 DEF StartAt
    <3>3. QED
      BY <3>1, <3>2
  <2>8. StartAt(log, h, z) => z = s /\ StartAt(log, k, s)
    <3>1. StartAt(log, h, z) => StartAt(log, k, z)
      BY <2>5, <2>6
    <3>2. z \notin s + 1 .. e => z = s
      <4>1. z \in Nat /\ s <= z /\ z <= e
        BY <1>0, <2>6
      <4> HIDE DEF z
      <4>2. QED
        BY <2>0, <4>1
    <3>3. QED
      BY <2>1, <3>1, <3>2
  <2> HIDE DEF z
  <2>9. Run(log, h, z, e)
    <3>1. \A j \in z .. e : Valid(log, h, j)
      <4>1. ASSUME NEW j \in z .. e
            PROVE  Valid(log, h, j)
        <5>1. j \in Idx /\ j \in s .. e
          BY <2>6
        <5>2. Low(h, e) <= j /\ j <= e
          <6>1. z \in Nat /\ Low(h, e) <= z /\ j \in Nat /\ z <= j /\ j <= e
            BY <1>0, <2>6, <4>1, <5>1
          <6>2. QED
            BY <2>0, <6>1
        <5>3. QED
          BY <2>1, <2>4, <5>1, <5>2
      <4>2. QED
        BY <4>1
    <3>2. EndAt(log, h, e)
      BY <2>1, <2>3 DEF EndAt
    <3>3. \A j \in z + 1 .. e : ~StartAt(log, h, j)
      BY <2>1, <2>5, <2>6
    <3>4. \A j \in z .. e - 1 : ~EndAt(log, h, j)
      BY <2>1, <2>5, <2>6
    <3>5. z = Low(h, e) \/ StartAt(log, h, z)
      BY <2>7
    <3>6. QED
      BY <2>6, <3>1, <3>2, <3>3, <3>4, <3>5 DEF Run
  <2>10. /\ \A j \in z .. e - 1 : nlog[j] = log[j]
         /\ \A u \in Tasks : Active(u) => Reserved(u) \cap z .. e = {}
    <3>1. /\ \A j \in s .. e - 1 : nlog[j] = log[j]
          /\ \A u \in Tasks : Active(u) => Reserved(u) \cap s .. e = {}
      BY <1>1 DEF Closed
    <3>2. QED
      BY <2>6, <3>1
  <2>11. \/ nlog[e] = log[e]
         \/ \E t \in Tasks : /\ trans[t].pc = "end" /\ e = Last(t) /\ log[e].gen = trans[t].gen
                             /\ StartAt(log, h, z) => z = trans[t].start
    <3>1. \/ nlog[e] = log[e]
          \/ \E t \in Tasks : /\ trans[t].pc = "end" /\ e = Last(t) /\ log[e].gen = trans[t].gen
                              /\ StartAt(log, k, s) => s = trans[t].start
      BY <1>1 DEF Closed
    <3>2. QED
      BY <2>8, <3>1
  <2>12. Closed(h, z, e)
    BY <2>9, <2>10, <2>11 DEF Closed
  <2>13. QED
    BY <2>6, <2>12
<1>2. ASSUME NEW i \in Idx, Valid(log, h, i)
      PROVE  \/ \E t \in Tasks : Active(t) /\ i \in Written(t)
             \/ \E s, e \in Idx : s <= i /\ i <= e /\ Closed(h, s, e)
  <2>1. Valid(log, k, i)
    BY <1>2 DEF Sees
  <2>2. \/ \E t \in Tasks : Active(t) /\ i \in Written(t)
        \/ \E s, e \in Idx : s <= i /\ i <= e /\ Closed(k, s, e)
    BY <2>1 DEF Accounted
  <2>3. QED
    BY <1>1, <1>2, <2>2
<1>3. QED
  BY <1>2 DEF Accounted

(***************************************************************************)
(* Transactions beside the one that takes a step.                          *)
(***************************************************************************)
\* u keeps its entries and its objects.
Like(u) ==
  /\ trans'[u].pc = trans[u].pc \/ {trans'[u].pc, trans[u].pc} \subseteq {"run", "log"}
  /\ trans'[u].objs = trans[u].objs /\ trans'[u].logged = trans[u].logged /\ trans'[u].used = trans[u].used
  /\ trans'[u].start = trans[u].start /\ trans'[u].size = trans[u].size
  /\ trans'[u].gen = trans[u].gen /\ trans'[u].kind = trans[u].kind
\* u keeps its place as well.
Same(u) == Like(u) /\ trans'[u].pc = trans[u].pc
\* It takes no step, nobody writes its objects, and nobody settles them.
Stays(u) ==
  /\ Same(u)
  /\ \A o \in trans[u].objs : /\ mem'[o] = mem[o] /\ nmem'[o] = nmem[o]
                              /\ past'.settled[o] = past.settled[o]
\* Its entries stay; some become persistent perhaps.
EntriesStay(u) == \A i \in Written(u) : log'[i] = log[i] /\ nlog'[i] \in {nlog[i], log[i]}

\* Its sets of entries are the same.
LEMMA SameSets ==
  ASSUME NEW u \in Tasks, Like(u)
  PROVE  /\ Active(u)' <=> Active(u)
         /\ Going(u)' <=> Going(u)
         /\ Reserved(u)' = Reserved(u) /\ Written(u)' = Written(u) /\ Last(u)' = Last(u)
BY DEF Like, Active, Going, Reserved, Written, Last

\* What an object is to get back stays in the log.
LEMMA FirstStays ==
  ASSUME NEW u \in Tasks, Stays(u), EntriesStay(u), NEW o \in trans[u].objs, NEW i, First(u, o, i)
  PROVE  First(u, o, i)'
<1>1. Written(u)' = Written(u)
  BY SameSets DEF Stays, Same
<1>2. /\ i \in Written(u) /\ log[i].obj = o /\ log[i].old = past.settled[o]
      /\ \A j \in Written(u) : log[j].obj = o => i <= j
  BY DEF First, LeastFor
<1>3. past'.settled[o] = past.settled[o]
  BY DEF Stays
<1>4. \A j \in Written(u) : log'[j] = log[j]
  BY DEF EntriesStay
<1>5. LeastFor(Written(u)', log', o, i)
  BY <1>1, <1>2, <1>4 DEF LeastFor
<1>6. log'[i].old = past'.settled[o]
  BY <1>2, <1>3, <1>4
<1>7. QED
  BY <1>5, <1>6 DEF First

\* Its entries start and end as they did.
LEMMA PlainStays ==
  ASSUME NEW u \in Tasks, Same(u), EntriesStay(u), Plain(u)
  PROVE  Plain(u)'
<1>1. Written(u)' = Written(u) /\ (Active(u)' <=> Active(u))
  BY SameSets DEF Same
<1>2. trans'[u].start = trans[u].start /\ trans'[u].used = trans[u].used
  BY DEF Same, Like
<1>3. \A j \in Written(u) : log'[j] = log[j]
  BY DEF EntriesStay
<1>4. \A i \in Written(u) :
         i < trans[u].start + trans[u].used - (IF Active(u) THEN 0 ELSE 1) =>
               log[i].kind = IF i = trans[u].start THEN {"start"} ELSE {}
  BY DEF Plain
<1>5. \A i \in Written(u)' :
         i < trans'[u].start + trans'[u].used - (IF Active(u)' THEN 0 ELSE 1) =>
               log'[i].kind = IF i = trans'[u].start THEN {"start"} ELSE {}
  BY <1>1, <1>2, <1>3, <1>4
<1>6. QED
  BY <1>5 DEF Plain

\* The first entry of a transaction that has written any.
LEMMA StartWritten ==
  ASSUME IInv, NEW u \in Tasks, Going(u), NEW i \in Written(u)
  PROVE  trans[u].start \in Written(u) /\ trans[u].start <= i
<1>1. trans[u].start \in Nat /\ trans[u].size \in Nat /\ trans[u].used \in Nat
  BY Typed
<1>2. QED
  BY <1>1 DEF Written, Reserved

\* What is to be kept of one that is running is kept.
LEMMA KeptStays ==
  ASSUME IInv, NEW u \in Tasks, Stays(u), Active(u) => EntriesStay(u), Kept(u)
  PROVE  Kept(u)'
<1>1. /\ Active(u)' <=> Active(u)
      /\ Written(u)' = Written(u) /\ trans'[u].objs = trans[u].objs /\ trans'[u].pc = trans[u].pc
      /\ trans'[u].start = trans[u].start
  BY SameSets DEF Stays, Same, Like
<1>2. \A o \in trans[u].objs : /\ mem'[o] = mem[o] /\ nmem'[o] = nmem[o]
                               /\ past'.settled[o] = past.settled[o]
  BY DEF Stays
<1>3. CASE Active(u)
  <2>1. EntriesStay(u) /\ Plain(u)
    BY <1>3 DEF Kept
  <2>2. \A j \in Written(u) : log'[j] = log[j] /\ (nlog[j] = log[j] => nlog'[j] = log'[j])
    BY <2>1 DEF EntriesStay
  <2>3. Plain(u)'
    BY <2>1, PlainStays DEF Stays
  <2>4. ASSUME NEW o \in trans[u].objs
        PROVE  \/ Fresh(u, o)'
               \/ \E i \in Written(u)' : First(u, o, i)' /\ nlog'[i] = log'[i]
                                         /\ nlog'[trans'[u].start] = log'[trans'[u].start]
    <3>1. CASE Fresh(u, o)
      BY <1>1, <1>2, <2>2, <3>1 DEF Fresh
    <3>2. ASSUME NEW i \in Written(u), First(u, o, i), nlog[i] = log[i],
                 nlog[trans[u].start] = log[trans[u].start]
          PROVE  /\ First(u, o, i)' /\ nlog'[i] = log'[i]
                 /\ nlog'[trans'[u].start] = log'[trans'[u].start]
      <4>1. trans[u].start \in Written(u)
        BY <1>3, <3>2, StartWritten DEF Going, Active
      <4>2. First(u, o, i)'
        BY <2>1, <3>2, FirstStays
      <4>3. QED
        BY <1>1, <2>2, <3>2, <4>1, <4>2
    <3>3. QED
      BY <1>1, <1>3, <3>1, <3>2 DEF Kept
  <2>5. trans'[u].pc = "run" => \A i \in Written(u)' : nlog'[i] = log'[i]
    BY <1>1, <2>2 DEF Kept
  <2>6. trans'[u].pc # "wrapped"
    BY <1>1, <1>3 DEF Active
  <2>7. QED
    BY <1>1, <2>3, <2>4, <2>5, <2>6 DEF Kept
<1>4. CASE ~Active(u)
  <2>1. trans'[u].pc # "run" /\ ~Active(u)'
    BY <1>1, <1>4 DEF Active
  <2>2. trans'[u].pc = "wrapped" =>
          \A o \in trans'[u].objs : mem'[o] = past'.settled[o] /\ nmem'[o] = past'.settled[o]
    BY <1>1, <1>2 DEF Kept
  <2>3. QED
    BY <2>1, <2>2 DEF Kept
<1>5. QED
  BY <1>3, <1>4

\* The entries of a transaction that is ending stay complete.
LEMMA CompleteStays ==
  ASSUME IInv, OwnInv, NEW u \in Tasks, Stays(u), EntriesStay(u), trans[u].pc = "end", trans[u].used > 0,
         \A v \in Tasks : v # u /\ Active(v)' => Reserved(v)' \cap Written(u) = {},
         Complete(u)
  PROVE  Complete(u)'
<1>1. /\ Written(u)' = Written(u) /\ Last(u)' = Last(u) /\ trans'[u].logged = trans[u].logged
      /\ trans'[u].gen = trans[u].gen /\ trans'[u].kind = trans[u].kind /\ trans'[u].used = trans[u].used
  BY SameSets DEF Stays, Same, Like
<1>2. \A j \in Written(u) : log'[j] = log[j] /\ (nlog[j] = log[j] => nlog'[j] = log'[j])
  BY DEF EntriesStay
<1>3. Last(u) \in Written(u)
  <2>1. /\ trans[u].start \in Nat /\ trans[u].size \in Nat /\ trans[u].used \in Nat
        /\ trans[u].used <= trans[u].size
    BY Typed DEF IInv, EntriesFit
  <2>2. QED
    BY <2>1 DEF Written, Reserved, Last
<1>4. Plain(u)'
  BY PlainStays DEF Stays, Complete
<1>5. \A o \in trans[u].logged : \E i \in Written(u) : First(u, o, i)'
  <2>1. ASSUME NEW o \in trans[u].logged
        PROVE  \E i \in Written(u) : First(u, o, i)'
    <3>1. PICK i \in Written(u) : First(u, o, i)
      BY DEF Complete
    <3>2. o \in trans[u].objs
      BY DEF OwnInv, Carried
    <3>3. QED
      BY <3>1, <3>2, FirstStays
  <2>2. QED
    BY <2>1
<1>6. /\ \A i \in Written(u)' : log'[i].gen = trans'[u].gen
      /\ \A i \in Written(u)' \ {Last(u)'} : log'[i].obj \in trans'[u].logged /\ nlog'[i] = log'[i]
      /\ log'[Last(u)'].obj = None
      /\ log'[Last(u)'].kind = {trans'[u].kind} \cup (IF trans'[u].used = 1 THEN {"start"} ELSE {})
  <2>1. /\ \A i \in Written(u) : log[i].gen = trans[u].gen
        /\ \A i \in Written(u) \ {Last(u)} : log[i].obj \in trans[u].logged /\ nlog[i] = log[i]
        /\ log[Last(u)].obj = None
        /\ log[Last(u)].kind = {trans[u].kind} \cup (IF trans[u].used = 1 THEN {"start"} ELSE {})
    BY DEF Complete
  <2>2. QED
    BY <1>1, <1>2, <1>3, <2>1
<1>7. \A o \in trans'[u].logged : \E i \in Written(u)' : First(u, o, i)'
  BY <1>1, <1>5
<1>8. \A v \in Tasks : v # u /\ Active(v)' => Reserved(v)' \cap Written(u)' = {}
  BY <1>1
<1>9. QED
  BY <1>4, <1>6, <1>7, <1>8 DEF Complete

\* A header that has u's first entry is one that had it, and has as many of the others.
StillIn(u) ==
  \A h \in {hdr', nhdr'} :
    trans[u].start \in Between(h) /\ Lap(h, trans[u].start) = trans[u].gen =>
      \E k \in {hdr, nhdr} :
        /\ InLap(u, k)
        /\ Inside(trans[u], k.head, k.tail) => Inside(trans[u], h.head, h.tail)

\* A transaction that is ending stays as complete as it is, as long as it is there.
LEMMA EndedStays ==
  ASSUME IInv, OwnInv, NEW u \in Tasks, Stays(u), StillIn(u),
         Complete(u) /\ trans[u].pc = "end" /\ (\E h \in {hdr', nhdr'} : InLap(u, h)) =>
           /\ EntriesStay(u)
           /\ \A v \in Tasks : v # u /\ Active(v)' => Reserved(v)' \cap Written(u) = {},
         Ended(u)
  PROVE  Ended(u)'
<1> SUFFICES ASSUME trans'[u].pc = "end"
             PROVE  /\ trans'[u].used > 0
                    /\ \A o \in trans'[u].objs : nmem'[o] = mem'[o]
                    /\ trans'[u].kind = "commit" => trans'[u].logged = trans'[u].objs
                    /\ \A h \in {hdr', nhdr'} :
                         trans'[u].start \in Between(h) /\ Lap(h, trans'[u].start) = trans'[u].gen =>
                           Inside(trans'[u], h.head, h.tail) /\ Complete(u)'
  BY DEF Ended, InLap
<1>1. /\ trans[u].pc = "end" /\ trans'[u].objs = trans[u].objs /\ trans'[u].logged = trans[u].logged
      /\ trans'[u].used = trans[u].used /\ trans'[u].start = trans[u].start
      /\ trans'[u].size = trans[u].size /\ trans'[u].gen = trans[u].gen
      /\ trans'[u].kind = trans[u].kind
  BY DEF Stays, Same, Like
<1>2. /\ trans[u].used > 0 /\ \A o \in trans[u].objs : nmem[o] = mem[o]
      /\ trans[u].kind = "commit" => trans[u].logged = trans[u].objs
      /\ \A k \in {hdr, nhdr} : InLap(u, k) => Inside(trans[u], k.head, k.tail) /\ Complete(u)
  BY <1>1 DEF Ended
<1>3. \A o \in trans[u].objs : nmem'[o] = mem'[o]
  BY <1>2 DEF Stays
<1>4. ASSUME NEW h \in {hdr', nhdr'}, trans[u].start \in Between(h), Lap(h, trans[u].start) = trans[u].gen
      PROVE  Inside(trans[u], h.head, h.tail) /\ Complete(u)'
  <2>1. Inside(trans[u], h.head, h.tail) /\ Complete(u)
    BY <1>2, <1>4 DEF StillIn
  <2>2. InLap(u, h)
    BY <1>4 DEF InLap
  <2>3. QED
    BY <1>1, <1>2, <2>1, <2>2, CompleteStays
<1>5. Inside(trans'[u], hdr'.head, hdr'.tail) <=> Inside(trans[u], hdr'.head, hdr'.tail)
  BY <1>1 DEF Inside
<1>6. Inside(trans'[u], nhdr'.head, nhdr'.tail) <=> Inside(trans[u], nhdr'.head, nhdr'.tail)
  BY <1>1 DEF Inside
<1>7. QED
  BY <1>1, <1>2, <1>3, <1>4, <1>5, <1>6

\* What has closed stays closed, as long as nobody writes there or reserves it.
LEMMA ClosedStays ==
  ASSUME NEW h, NEW s \in Idx, NEW e \in Idx, Closed(h, s, e),
         \A j \in s .. e : log'[j] = log[j] /\ nlog'[j] \in {nlog[j], log[j]},
         \A u \in Tasks : Active(u)' => Reserved(u)' \cap s .. e = {},
         \A u \in Tasks : trans[u].pc = "end" => Same(u) \/ nlog'[Last(u)] = log'[Last(u)]
  PROVE  Closed(h, s, e)'
<1>1. Run(log, h, s, e) /\ \A j \in s .. e - 1 : nlog[j] = log[j]
  BY DEF Closed
<1>2. /\ Low(h, e) <= s /\ s <= e /\ (s = Low(h, e) \/ StartAt(log, h, s))
      /\ EndAt(log, h, e) /\ \A j \in s .. e : Valid(log, h, j)
      /\ \A j \in s + 1 .. e : ~StartAt(log, h, j)
      /\ \A j \in s .. e - 1 : ~EndAt(log, h, j)
  BY <1>1 DEF Run
<1>3. s \in Nat /\ e \in Nat /\ s <= e
  BY <1>2 DEF Idx
<1>4. /\ s \in s .. e /\ e \in s .. e /\ s + 1 .. e \subseteq s .. e /\ s .. e - 1 \subseteq s .. e
  BY <1>3
<1>5. \A j \in s .. e : /\ StartAt(log', h, j) <=> StartAt(log, h, j)
                        /\ EndAt(log', h, j) <=> EndAt(log, h, j)
                        /\ Valid(log', h, j) <=> Valid(log, h, j)
  BY DEF StartAt, EndAt, Valid
<1>6. Run(log', h, s, e)
  BY <1>2, <1>4, <1>5 DEF Run
<1>7. \A j \in s .. e - 1 : nlog'[j] = log'[j]
  BY <1>1, <1>4
<1>8. \/ nlog'[e] = log'[e]
      \/ \E t \in Tasks : /\ trans'[t].pc = "end" /\ e = Last(t)' /\ log'[e].gen = trans'[t].gen
                          /\ StartAt(log', h, s) => s = trans'[t].start
  <2>1. CASE nlog[e] = log[e]
    BY <1>4, <2>1
  <2>2. ASSUME NEW t \in Tasks, trans[t].pc = "end", e = Last(t), log[e].gen = trans[t].gen,
               StartAt(log, h, s) => s = trans[t].start, nlog'[e] # log'[e]
        PROVE  /\ trans'[t].pc = "end" /\ e = Last(t)' /\ log'[e].gen = trans'[t].gen
               /\ StartAt(log', h, s) => s = trans'[t].start
    <3>1. Same(t)
      BY <2>2
    <3>2. Last(t)' = Last(t)
      BY <3>1, SameSets DEF Same
    <3>3. QED
      BY <1>4, <1>5, <2>2, <3>1, <3>2 DEF Same, Like
  <2>3. QED
    BY <2>1, <2>2 DEF Closed
<1>9. Closed(h, s, e)' <=> /\ Run(log', h, s, e)
                           /\ \A j \in s .. e - 1 : nlog'[j] = log'[j]
                           /\ \A u \in Tasks : Active(u)' => Reserved(u)' \cap s .. e = {}
                           /\ \/ nlog'[e] = log'[e]
                              \/ \E t \in Tasks : /\ trans'[t].pc = "end" /\ e = Last(t)'
                                                  /\ log'[e].gen = trans'[t].gen
                                                  /\ StartAt(log', h, s) => s = trans'[t].start
  BY DEF Closed
<1>10. QED
  BY <1>6, <1>7, <1>8, <1>9

\* What OwnInv says of a mounted volume holds of one that is being unmounted, where nobody is left.
LEMMA Owners ==
  ASSUME IInv, OwnInv, Away, ~past.broken
  PROVE  OneWriter /\ \A t \in Tasks : LogTells(t) /\ Owned(t) /\ Carried(t)
<1>1. CASE phase = "mounted"
  BY <1>1 DEF OwnInv
<1>2. CASE phase # "mounted"
  <2>1. \A t \in Tasks : trans[t].pc = "idle" /\ trans[t].objs = {} /\ Carried(t)
    BY <1>2 DEF IInv, Stages, OwnInv, Carried
  <2>2. \A t \in Tasks : ~Active(t) /\ LogTells(t) /\ Owned(t)
    BY <2>1 DEF Active, LogTells, Owned
  <2>3. OneWriter
    BY <2>1, <2>2 DEF OneWriter
  <2>4. QED
    BY <2>1, <2>2, <2>3
<1>3. QED
  BY <1>1, <1>2

\* While the volume is mounted the head goes on, or the tail, or a lap begins.
LEMMA HeaderOnward ==
  ASSUME IInv, OwnInv, [Next]_vars, ~past'.broken, Early, Away, ~Crash
  PROVE  Onward(hdr, hdr') /\ nhdr' \in {nhdr, hdr'}
<1>1. /\ hdr \in [head : Idx, tail : Idx, gen : 1 .. MaxGen] /\ Idx \subseteq Nat /\ hdr.gen # MaxGen
  BY JournalAssumption DEF IInv, TypeOK, HeaderType, Idx, Early
<1>2. CASE hdr' = hdr /\ nhdr' \in {nhdr, hdr}
  BY <1>2 DEF Onward
<1>3. CASE WrapsTo
  BY <1>1, <1>3 DEF WrapsTo, NextGen, Onward
<1>4. ASSUME NEW n \in Nat \ {0}, TakesTo(n)
      PROVE  Onward(hdr, hdr') /\ nhdr' \in {nhdr, hdr'}
  <2>1. hdr'.head = hdr.head /\ hdr'.tail = hdr.tail + n /\ hdr'.gen = hdr.gen /\ nhdr' = hdr'
    BY <1>1, <1>4 DEF TakesTo
  <2>2. hdr.tail \in Nat /\ (hdr.tail < hdr.head => hdr'.tail < hdr.head)
    BY <1>1, <1>4, <2>1 DEF TakesTo
  <2>3. hdr.tail <= hdr'.tail
    BY <2>1, <2>2
  <2>4. QED
    BY <2>1, <2>2, <2>3 DEF Onward
<1>5. CASE HeadTo
  <2>1. CASE CleanHead
    <3>1. cleaner.pc = "store" /\ ~past.broken
      BY <2>1, StillWhole DEF CleanHead
    <3>2. InOrder(hdr.head, cleaner.head, cleaner.tail) /\ InOrder(hdr.head, cleaner.tail, hdr.tail)
      BY <3>1 DEF IInv, CleanerOnWay
    <3>3. /\ hdr'.head = cleaner.head /\ hdr'.tail = hdr.tail /\ hdr'.gen = hdr.gen /\ nhdr' = nhdr
      BY <1>1, <2>1 DEF CleanHead
    <3>4. \A x, y, z, w \in Nat : InOrder(x, y, z) /\ InOrder(x, z, w) => InOrder(x, y, w)
      BY DEF InOrder
    <3>5. InOrder(hdr.head, cleaner.head, hdr.tail)
      BY <3>2, <3>4, Ranges
    <3>6. QED
      BY <3>3, <3>5 DEF Onward
  <2>2. CASE ForwardHead
    BY <2>2 DEF ForwardHead, Away
  <2>3. QED
    BY <1>5, <2>1, <2>2 DEF HeadTo
<1>6. ~ForwardGen
  BY DEF ForwardGen, Away
<1>7. QED
  BY <1>2, <1>3, <1>4, <1>5, <1>6, HeaderSteps

\* One that has reserved entries finds them where they were, or beyond head and tail.
LEMMA StillInAll ==
  ASSUME IInv, IInv', OwnInv, [Next]_vars, ~past'.broken, Early, Away, ~Crash,
         NEW u \in Tasks, Going(u), AgesOf(u)
  PROVE  StillIn(u)
<1>1. /\ hdr \in Headers /\ hdr' \in Headers /\ nhdr \in Headers /\ Onward(hdr, hdr') /\ nhdr' \in {nhdr, hdr'}
  BY HeaderOnward, Typed DEF IInv, TypeOK, HeaderType, Headers
<1>2. trans[u].start \in Reserved(u) /\ trans[u].start \in Nat /\ trans[u].size \in Nat
  <2>1. trans[u].start \in Nat /\ trans[u].size \in Nat /\ trans[u].size > 0
    BY Typed
  <2>2. QED
    BY <2>1 DEF Reserved
<1>3. /\ trans[u].gen <= Lap(hdr, trans[u].start)
      /\ trans[u].gen \in Nat /\ Lap(hdr, trans[u].start) \in Nat /\ trans[u].start \in Idx
  BY <1>2, Typed DEF AgesOf
<1>4. ASSUME trans[u].start \in Between(hdr'), Lap(hdr', trans[u].start) = trans[u].gen
      PROVE  /\ InLap(u, hdr)
             /\ Inside(trans[u], hdr.head, hdr.tail) => Inside(trans[u], hdr'.head, hdr'.tail)
  <2>1. ~(Lap(hdr, trans[u].start) < Lap(hdr', trans[u].start))
    BY <1>3, <1>4
  <2>2. trans[u].start \in Between(hdr) /\ Lap(hdr', trans[u].start) = Lap(hdr, trans[u].start)
    BY <1>1, <1>4, <2>1, OnwardLap
  <2>3. InLap(u, hdr)
    BY <1>4, <2>2 DEF InLap
  <2>4. QED
    BY <1>1, <1>2, <1>4, <2>2, <2>3, OnwardInside
<1>5. ASSUME trans[u].start \in Between(nhdr), Lap(nhdr, trans[u].start) = trans[u].gen
      PROVE  InLap(u, nhdr)
  BY <1>5 DEF InLap
<1>6. QED
  BY <1>1, <1>4, <1>5 DEF StillIn

\* The headers of the next state account for the entries of this one.
LEMMA AccountedHeaders ==
  ASSUME IInv, IInv', OwnInv, [Next]_vars, ~past'.broken, Early, Away, ~Crash, Ages, AwayInv
  PROVE  \A h \in {hdr', nhdr'} : Accounted(h)
<1>1. /\ hdr \in Headers /\ hdr' \in Headers /\ nhdr \in Headers /\ Onward(hdr, hdr') /\ nhdr' \in {nhdr, hdr'}
      /\ Accounted(hdr) /\ Accounted(nhdr)
  BY HeaderOnward, Typed DEF IInv, TypeOK, HeaderType, Headers, AwayInv
<1>2. \A i \in Idx : log[i].gen \in Nat /\ log[i].gen <= Lap(hdr, i)
  BY Typed DEF Ages
<1>3. Sees(log, hdr', hdr)
  BY <1>1, <1>2, OnwardSees
<1>4. Accounted(hdr')
  BY <1>1, <1>3, OnwardAccounted
<1>5. QED
  BY <1>1, <1>4

\* The ages of the entries of one that takes no step.
LEMMA AgesOfStays ==
  ASSUME IInv, IInv', OwnInv, [Next]_vars, ~past'.broken, Early, Away, ~Crash, Ages,
         NEW u \in Tasks, Like(u), trans[u].skipped => trans'[u].skipped,
         Active(u) => \A i \in Reserved(u) : log'[i] = log[i], AgesOf(u)
  PROVE  AgesOf(u)'
<1>1. /\ hdr \in Headers /\ hdr' \in Headers /\ nhdr \in Headers /\ Onward(hdr, hdr') /\ nhdr' \in {nhdr, hdr'}
      /\ ~past.broken
  BY HeaderOnward, Typed, StillWhole DEF IInv, TypeOK, HeaderType, Headers
<1>2. /\ Active(u)' <=> Active(u)
      /\ Going(u)' <=> Going(u)
      /\ Reserved(u)' = Reserved(u) /\ Written(u)' = Written(u) /\ trans'[u].gen = trans[u].gen
      /\ trans'[u].start = trans[u].start /\ trans'[u].size = trans[u].size
  BY SameSets DEF Like
<1>3. ASSUME Going(u), NEW i \in Reserved(u)
      PROVE  trans[u].gen <= Lap(hdr', i) /\ trans[u].gen <= Lap(nhdr', i)
  <2>1. i \in Idx /\ trans[u].gen \in Nat /\ Lap(hdr, i) \in Nat
    BY <1>3, Typed
  <2>2. trans[u].gen <= Lap(hdr, i) /\ trans[u].gen <= Lap(nhdr, i)
    BY <1>3 DEF AgesOf
  <2>3. Lap(hdr, i) <= Lap(hdr', i) /\ Lap(hdr', i) \in Nat
    <3>1. Lap(hdr', i) \in 0 .. MaxGen
      BY <1>1, <2>1, BetweenIdx
    <3>2. QED
      BY <2>1, <3>1, LapsGrow
  <2>4. trans[u].gen <= Lap(hdr', i)
    BY <2>1, <2>2, <2>3
  <2>5. QED
    BY <1>1, <2>2, <2>4
<1>4. Active(u) => \A i \in Reserved(u) \ Written(u) : log'[i].gen < trans[u].gen
  BY DEF AgesOf
<1>5. ASSUME Live(u)'
      PROVE  \A h \in {hdr', nhdr'} : Lap(h, trans[u].start) = trans[u].gen
  <2>1. Live(u) /\ Active(u)
    BY <1>2, <1>5 DEF Live
  <2>2. /\ Inside(trans[u], hdr.head, hdr.tail) /\ Inside(trans[u], nhdr.head, nhdr.tail)
        /\ Lap(hdr, trans[u].start) = trans[u].gen /\ Lap(nhdr, trans[u].start) = trans[u].gen
    BY <1>1, <2>1 DEF IInv, LiveInFront, AgesOf
  <2>3. Inside(trans'[u], hdr'.head, hdr'.tail)
    BY <1>5 DEF IInv, LiveInFront
  <2>4. Inside(trans[u], hdr'.head, hdr'.tail)
    BY <1>2, <2>3 DEF Inside
  <2>5. /\ trans[u].start \in Nat /\ trans[u].size \in Nat /\ trans[u].size > 0
        /\ trans[u].start + trans[u].size < JSize
    BY <2>1, Typed DEF IInv, EntriesFit, Active
  <2>6. \A h \in Headers : Inside(trans[u], h.head, h.tail) => trans[u].start \in Between(h)
    BY <2>5, JournalAssumption DEF Headers, Inside, Between, Idx
  <2>7. Lap(hdr', trans[u].start) = trans[u].gen
    BY <1>1, <2>2, <2>4, <2>6, OnwardLap
  <2>8. QED
    BY <1>1, <2>2, <2>7
<1>6. QED
  BY <1>2, <1>3, <1>4, <1>5 DEF AgesOf

\* No header cuts its entries.
LEMMA WholeStays ==
  ASSUME NEW u \in Tasks, Like(u), nhdr' \in {nhdr, hdr'}, WholeOf(u),
         Active(u) => \/ hdr'.tail <= trans[u].start
                      \/ trans[u].start + trans[u].size <= hdr'.tail
  PROVE  WholeOf(u)'
<1>1. /\ Active(u)' <=> Active(u)
      /\ trans'[u].start = trans[u].start /\ trans'[u].size = trans[u].size
  BY SameSets DEF Like
<1>2. Active(u) => \/ nhdr.tail <= trans[u].start
                   \/ trans[u].start + trans[u].size <= nhdr.tail
  BY DEF WholeOf
<1>3. ASSUME Active(u)', NEW h \in {hdr', nhdr'}
      PROVE  h.tail <= trans'[u].start \/ trans'[u].start + trans'[u].size <= h.tail
  BY <1>1, <1>2, <1>3
<1>4. QED
  BY <1>3 DEF WholeOf

\* All that is to be shown of one that takes no step.
Apart(u) ==
  /\ Stays(u) /\ (trans[u].skipped => trans'[u].skipped)
  /\ Active(u) => \A i \in Reserved(u) : log'[i] = log[i] /\ nlog'[i] \in {nlog[i], log[i]}
  /\ Complete(u) /\ trans[u].pc = "end" /\ (\E h \in {hdr', nhdr'} : InLap(u, h)) =>
       /\ EntriesStay(u)
       /\ \A v \in Tasks : v # u /\ Active(v)' => Reserved(v)' \cap Written(u) = {}
  /\ Active(u) => \/ hdr'.tail <= trans[u].start
                  \/ trans[u].start + trans[u].size <= hdr'.tail

\* That is enough for the invariant.
LEMMA ApartKeeps ==
  ASSUME IInv, IInv', OwnInv, [Next]_vars, ~past'.broken, Early, Away, ~Crash, Ages, AwayInv,
         NEW u \in Tasks, Apart(u)
  PROVE  AgesOf(u)' /\ WholeOf(u)' /\ Kept(u)' /\ Ended(u)'
<1>1. AgesOf(u) /\ WholeOf(u) /\ Kept(u) /\ Ended(u)
  BY DEF AwayInv
<1>2. nhdr' \in {nhdr, hdr'} /\ Same(u)
  BY HeaderOnward DEF Apart, Stays
<1>3. AgesOf(u)'
  BY <1>1, <1>2, AgesOfStays DEF Apart, Same
<1>4. WholeOf(u)'
  BY <1>1, <1>2, WholeStays DEF Apart, Same
<1>5. Active(u) => EntriesStay(u)
  <2>1. Active(u) => Written(u) \subseteq Reserved(u)
    BY DEF Written
  <2>2. QED
    BY <2>1 DEF Apart, EntriesStay
<1>6. Kept(u)'
  BY <1>1, <1>5, KeptStays DEF Apart
<1>7. Ended(u)'
  <2>1. CASE trans[u].pc = "end"
    <3>1. StillIn(u)
      BY <1>1, <2>1, StillInAll DEF Going
    <3>2. QED
      BY <1>1, <2>1, <3>1, EndedStays DEF Apart
  <2>2. CASE trans[u].pc # "end"
    BY <1>2, <2>2 DEF Ended, Same, Like
  <2>3. QED
    BY <2>1, <2>2
<1>8. QED
  BY <1>3, <1>4, <1>6, <1>7

\* Where nothing is written, what was accounted for is so still.
LEMMA AccountedLeaves ==
  ASSUME IInv, NEW h, Accounted(h), Leaves,
         \A u \in Tasks : trans[u].pc = "end" => Same(u) \/ nlog'[Last(u)] = log'[Last(u)],
         \A u \in Tasks : Active(u) => Active(u)' /\ Written(u)' = Written(u),
         \A u \in Tasks : Active(u)' =>
           \/ Active(u) /\ Reserved(u)' = Reserved(u)
           \/ \A i \in Reserved(u)' : ~Valid(log, h, i)
  PROVE  Accounted(h)'
<1>1. ASSUME NEW s \in Idx, NEW e \in Idx, Closed(h, s, e)
      PROVE  Closed(h, s, e)'
  <2>1. s .. e \subseteq Idx
    BY JournalAssumption DEF Idx
  <2>2. \A j \in s .. e : log'[j] = log[j] /\ nlog'[j] \in {nlog[j], log[j]}
    BY <2>1 DEF Leaves
  <2>3. \A j \in s .. e : Valid(log, h, j)
    BY <1>1 DEF Closed, Run
  <2>4. \A u \in Tasks : Active(u)' => Reserved(u)' \cap s .. e = {}
    BY <1>1, <2>3 DEF Closed
  <2>5. QED
    BY <1>1, <2>2, <2>4, ClosedStays
<1>2. ASSUME NEW i \in Idx, Valid(log', h, i)
      PROVE  \/ \E t \in Tasks : Active(t)' /\ i \in Written(t)'
             \/ \E s, e \in Idx : s <= i /\ i <= e /\ Closed(h, s, e)'
  <2>1. Valid(log, h, i)
    BY <1>2 DEF Valid, Leaves
  <2>2. \/ \E t \in Tasks : Active(t) /\ i \in Written(t)
        \/ \E s, e \in Idx : s <= i /\ i <= e /\ Closed(h, s, e)
    BY <2>1 DEF Accounted
  <2>3. QED
    BY <1>1, <2>2
<1>3. QED
  BY <1>2 DEF Accounted

(***************************************************************************)
(* The steps of a mounted volume, but for the failure.                     *)
(***************************************************************************)
\* A step that begins and ends with a volume in use, and before the last generation.
InUse ==
  /\ IInv /\ IInv' /\ OwnInv /\ OwnInv' /\ [Next]_vars /\ ~past'.broken /\ Early
  /\ Ages /\ CleanerLap /\ RecInv /\ AwayInv /\ Away /\ ~Crash

\* Steps in which nothing is written, and nobody gets entries.
LEMMA LeavesKeeps ==
  ASSUME InUse, Leaves, NEW t, hdr'.tail = hdr.tail,
         \A u \in Tasks : u # t => Stays(u) /\ (trans[u].skipped => trans'[u].skipped),
         t \in Tasks =>
           /\ trans[t].pc = "end" => Same(t) \/ nlog'[Last(t)] = log'[Last(t)]
           /\ Active(t)' <=> Active(t)
           /\ Active(t) => Written(t)' = Written(t) /\ Reserved(t)' = Reserved(t)
  PROVE  /\ Accounted(hdr)' /\ Accounted(nhdr)'
         /\ \A u \in Tasks : u # t => AgesOf(u)' /\ WholeOf(u)' /\ Kept(u)' /\ Ended(u)'
         /\ \A i \in Idx : nlog'[i] # log'[i] => nlog'[i] = nlog[i] /\ nlog[i] # log[i]
<1>1. \A u \in Tasks : /\ Active(u)' <=> Active(u)
                       /\ Active(u) => Written(u)' = Written(u) /\ Reserved(u)' = Reserved(u)
  BY SameSets DEF Stays, Same
<1>2. \A u \in Tasks : trans[u].pc = "end" => Same(u) \/ nlog'[Last(u)] = log'[Last(u)]
  BY DEF Stays
<1>3. \A h \in {hdr', nhdr'} : Accounted(h)
  BY AccountedHeaders DEF InUse
<1>4. \A h \in {hdr', nhdr'} : Accounted(h)'
  BY <1>1, <1>2, <1>3, AccountedLeaves DEF InUse
<1>5. ASSUME NEW u \in Tasks, u # t
      PROVE  AgesOf(u)' /\ WholeOf(u)' /\ Kept(u)' /\ Ended(u)'
  <2>1. Active(u) => \A i \in Reserved(u) : log'[i] = log[i] /\ nlog'[i] \in {nlog[i], log[i]}
    BY Typed DEF InUse, Leaves, Going, Active
  <2>2. Complete(u) /\ trans[u].pc = "end" =>
          /\ EntriesStay(u)
          /\ \A v \in Tasks : v # u /\ Active(v)' => Reserved(v)' \cap Written(u) = {}
    <3>1. trans[u].pc = "end" => Written(u) \subseteq Idx
      BY Typed DEF InUse, Going
    <3>2. QED
      BY <1>1, <3>1 DEF Complete, EntriesStay, Leaves
  <2>3. Active(u) => \/ hdr'.tail <= trans[u].start
                     \/ trans[u].start + trans[u].size <= hdr'.tail
    BY DEF InUse, AwayInv, WholeOf
  <2>4. Apart(u)
    BY <1>5, <2>1, <2>2, <2>3 DEF Apart
  <2>5. QED
    BY <2>4, ApartKeeps DEF InUse
<1>6. \A i \in Idx : nlog'[i] # log'[i] => nlog'[i] = nlog[i] /\ nlog[i] # log[i]
  BY DEF Leaves
<1>7. QED
  BY <1>4, <1>5, <1>6

\* Steps of the cleaner, of the unmount and of the cache.
LEMMA QuietAway ==
  ASSUME InUse, Leaves, hdr'.tail = hdr.tail, mem' = mem, nmem' = nmem, PromisesKept,
         \A u \in Tasks : Same(u) /\ (trans[u].skipped => trans'[u].skipped),
         phase' = "unmounted" => nhdr' = hdr'
  PROVE  AwayInv'
<1>1. \A u \in Tasks : Stays(u) /\ (trans[u].skipped => trans'[u].skipped)
  BY DEF Stays, PromisesKept
<1>2. NoDoubt /\ Unowned /\ Unwritten
  BY DEF InUse, AwayInv
<1>3. PICK t : t \notin Tasks
  BY NoSetContainsEverything
<1>4. /\ Accounted(hdr)' /\ Accounted(nhdr)'
      /\ \A u \in Tasks : AgesOf(u)' /\ WholeOf(u)' /\ Kept(u)' /\ Ended(u)'
      /\ \A i \in Idx : nlog'[i] # log'[i] => nlog'[i] = nlog[i] /\ nlog[i] # log[i]
  <2>1. \A u \in Tasks : u # t
    BY <1>3
  <2>2. QED
    BY <1>1, <1>3, <2>1, LeavesKeeps
<1>5. NoDoubt'
  BY <1>2 DEF NoDoubt, PromisesKept
<1>6. Unowned'
  BY <1>2 DEF Unowned, PromisesKept, Same, Like
<1>7. Unwritten'
  <2>1. ASSUME NEW i \in Idx, nlog'[i] # log'[i]
        PROVE  \E u \in Tasks : trans'[u].pc \in {"log", "end"} /\ i \in Written(u)'
    <3>1. PICK u \in Tasks : trans[u].pc \in {"log", "end"} /\ i \in Written(u)
      BY <1>2, <1>4, <2>1 DEF Unwritten
    <3>2. Same(u) /\ Written(u)' = Written(u)
      BY SameSets DEF Same
    <3>3. QED
      BY <3>1, <3>2 DEF Same
  <2>2. QED
    BY <2>1 DEF Unwritten
<1>8. QED
  BY <1>4, <1>5, <1>6, <1>7 DEF AwayInv

\* They keep the invariant of a volume in use.
LEMMA CleanerKeeps ==
  ASSUME InUse, Cleaning \/ Unmount \/ WriteBackHeader \/ UNCHANGED vars
  PROVE  AwayInv'
<1>0. TypeOK /\ CleanerLap /\ hdr.gen \in Nat /\ MaxGen \in Nat /\ hdr.gen < MaxGen
  <2>1. hdr.gen \in 1 .. MaxGen /\ hdr.gen # MaxGen
    BY DEF InUse, IInv, TypeOK, HeaderType, Early
  <2>2. QED
    BY <2>1, JournalAssumption DEF InUse, IInv
<1>1. nlog \in [Idx -> Entries] /\ nlog' \in [Idx -> Entries] /\ log \in [Idx -> Entries]
  BY DEF InUse, IInv, TypeOK, LogType
<1>2. CASE CleanStart \/ CleanEnd \/ Unmount \/ WriteBackHeader \/ UNCHANGED vars
  <2>1. /\ UNCHANGED <<hdr, log, nlog, mem, nmem, trans, past>>
    BY <1>2 DEF CleanStart, CleanEnd, Unmount, WriteBackHeader, vars, journal, data
  <2>2. Leaves /\ PromisesKept
    BY <1>1, <2>1 DEF Leaves, PromisesKept
  <2>3. \A u \in Tasks : Same(u) /\ (trans[u].skipped => trans'[u].skipped)
    BY <2>1 DEF Same, Like
  <2>4. phase' = "unmounted" => nhdr' = hdr'
    BY <1>2, <2>1 DEF CleanStart, CleanEnd, Unmount, WriteBackHeader, vars, journal, InUse, AwayInv
  <2>5. QED
    BY <2>1, <2>2, <2>3, <2>4, QuietAway
<1>3. CASE CleanStep
  <2>1. /\ UNCHANGED <<phase, hdr, nhdr, mem, nmem>> /\ PromisesKept
        /\ phase # "unmounted"
    BY <1>0, <1>3, CleanerPast DEF CleanStep, data
  <2>2. Leaves /\ \A u \in Tasks : Same(u) /\ (trans[u].skipped => trans'[u].skipped)
    <3>1. CASE UNCHANGED <<log, nlog, trans>>
      BY <1>1, <3>1 DEF Leaves, Same, Like
    <3>2. ASSUME NEW e \in Idx, cleaner.pc = "scan",
                 trans' = [t \in Tasks |-> [trans[t] EXCEPT !.skipped =
                      @ \/ (Active(t) /\ Reserved(t) \cap (cleaner.head .. e) # {})]],
                 \/ UNCHANGED <<log, nlog>>
                 \/ /\ log' = Invalidated(cleaner.head .. e, cleaner.gen)
                    /\ nlog' \in {FirstFenced(cleaner.head .. e, cleaner.gen), nlog}
          PROVE  Leaves /\ \A u \in Tasks : Same(u) /\ (trans[u].skipped => trans'[u].skipped)
      <4>1. cleaner.gen # MaxGen
        <5>1. cleaner.gen <= hdr.gen
          BY <1>0, <3>2 DEF CleanerLap
        <5>2. QED
          BY <1>0, <5>1
      <4>2. Leaves
        BY <1>0, <1>1, <3>2, <4>1, NotInvalidated DEF Leaves
      <4>3. ASSUME NEW u \in Tasks
            PROVE  Same(u) /\ (trans[u].skipped => trans'[u].skipped)
        <5> DEFINE sk == trans[u].skipped \/ (Active(u) /\ Reserved(u) \cap (cleaner.head .. e) # {})
        <5>1. trans'[u] = [trans[u] EXCEPT !.skipped = sk] /\ (trans[u].skipped => sk)
          BY <3>2
        <5> HIDE DEF sk
        <5>2. trans[u] \in TransType
          BY <1>0 DEF TypeOK
        <5>3. QED
          BY <5>1, <5>2 DEF TransType, Same, Like
      <4>4. QED
        BY <4>2, <4>3
    <3>3. QED
      BY <1>0, <1>3, <3>1, <3>2, CleanerSteps
  <2>3. QED
    BY <2>1, <2>2, QuietAway
<1>4. CASE CleanHead
  <2>1. /\ UNCHANGED <<phase, mem, nmem, trans, past>> /\ phase # "unmounted"
        /\ hdr'.tail = hdr.tail /\ log' = log
        /\ nlog' = [i \in Idx |-> IF log[i].gen = 0 THEN log[i] ELSE nlog[i]]
    BY <1>0, <1>4 DEF CleanHead, data, TypeOK, HeaderType
  <2>2. Leaves /\ PromisesKept
    BY <1>1, <2>1 DEF Leaves, PromisesKept
  <2>3. \A u \in Tasks : Same(u) /\ (trans[u].skipped => trans'[u].skipped)
    BY <2>1 DEF Same, Like
  <2>4. QED
    BY <2>1, <2>2, <2>3, QuietAway
<1>5. QED
  BY <1>2, <1>3, <1>4 DEF Cleaning

(***************************************************************************)
(* The steps of transactions that write no entry.                          *)
(***************************************************************************)
\* Who takes no step stays as it is, if its objects do.
LEMMA OtherStays ==
  ASSUME NEW u \in Tasks, trans'[u] = trans[u],
         \A o \in trans[u].objs : /\ mem'[o] = mem[o] /\ nmem'[o] = nmem[o]
                                  /\ past'.settled[o] = past.settled[o]
  PROVE  Stays(u) /\ (trans[u].skipped => trans'[u].skipped)
BY DEF Stays, Same, Like

\* What only the others have not made persistent is theirs.
LEMMA UnwrittenStays ==
  ASSUME NEW t, Unwritten, \A u \in Tasks : u # t => trans'[u] = trans[u],
         \A i \in Idx : nlog'[i] # log'[i] =>
           \/ nlog[i] # log[i] /\ (t \in Tasks /\ trans[t].pc \in {"log", "end"} => i \notin Written(t))
           \/ t \in Tasks /\ trans'[t].pc \in {"log", "end"} /\ i \in Written(t)'
  PROVE  Unwritten'
<1>1. ASSUME NEW i \in Idx, nlog'[i] # log'[i]
      PROVE  \E u \in Tasks : trans'[u].pc \in {"log", "end"} /\ i \in Written(u)'
  <2>1. CASE t \in Tasks /\ trans'[t].pc \in {"log", "end"} /\ i \in Written(t)'
    BY <2>1
  <2>2. CASE nlog[i] # log[i] /\ (t \in Tasks /\ trans[t].pc \in {"log", "end"} => i \notin Written(t))
    <3>1. PICK u \in Tasks : trans[u].pc \in {"log", "end"} /\ i \in Written(u)
      BY <2>2 DEF Unwritten
    <3>2. u # t
      BY <2>2, <3>1
    <3>3. trans'[u] = trans[u]
      BY <3>2
    <3>4. Written(u)' = Written(u)
      BY <3>3 DEF Written, Reserved
    <3>5. QED
      BY <3>1, <3>3, <3>4
  <2>3. QED
    BY <1>1, <2>1, <2>2
<1>2. QED
  BY <1>1 DEF Unwritten

\* The fence behind entries.
LEMMA FenceKeeps ==
  ASSUME InUse, NEW t \in Tasks, LogFence(t)
  PROVE  AwayInv'
<1>1. /\ IInv /\ IInv' /\ OwnInv /\ [Next]_vars /\ ~past'.broken /\ Early /\ Away /\ ~Crash /\ Ages
      /\ NoDoubt /\ Unowned /\ Unwritten /\ AgesOf(t) /\ WholeOf(t) /\ Kept(t)
  BY DEF InUse, AwayInv
<1>2. /\ phase = "mounted" /\ trans[t].pc = "log" /\ nlog' = LogFlushed(t)
      /\ UNCHANGED <<phase, hdr, nhdr, log, mem, nmem, past>>
  BY DEF LogFence, data
<1>3. /\ \A u \in Tasks : u # t => trans'[u] = trans[u]
      /\ Like(t) /\ trans'[t].pc = "run" /\ (trans[t].skipped => trans'[t].skipped)
  <2>1. trans \in [Tasks -> TransType] /\ trans' = [trans EXCEPT ![t].pc = "run"]
    BY <1>1 DEF LogFence, IInv, TypeOK
  <2>2. trans'[t] = [trans[t] EXCEPT !.pc = "run"] /\ trans[t] \in TransType
    BY <2>1
  <2>3. QED
    BY <1>2, <2>1, <2>2 DEF Like, TransType
<1>4. /\ Active(t) /\ Active(t)' /\ Written(t)' = Written(t) /\ Reserved(t)' = Reserved(t)
      /\ trans'[t].objs = trans[t].objs /\ trans'[t].start = trans[t].start
      /\ trans'[t].used = trans[t].used
  BY <1>2, <1>3, SameSets DEF Active, Like
<1>5. \A i \in Idx : nlog'[i] = IF i \in Written(t) THEN log[i] ELSE nlog[i]
  BY <1>2 DEF LogFlushed
<1>6. Leaves
  BY <1>1, <1>2, <1>5 DEF Leaves, IInv, TypeOK, LogType
<1>7. \A u \in Tasks : u # t => Stays(u) /\ (trans[u].skipped => trans'[u].skipped)
  BY <1>2, <1>3, OtherStays
<1>8. /\ Accounted(hdr)' /\ Accounted(nhdr)'
      /\ \A u \in Tasks : u # t => AgesOf(u)' /\ WholeOf(u)' /\ Kept(u)' /\ Ended(u)'
      /\ \A i \in Idx : nlog'[i] # log'[i] => nlog'[i] = nlog[i] /\ nlog[i] # log[i]
  BY <1>2, <1>4, <1>6, <1>7, LeavesKeeps
<1>9. AgesOf(t)'
  BY <1>1, <1>2, <1>3, AgesOfStays
<1>10. WholeOf(t)'
  <2>1. nhdr' \in {nhdr, hdr'}
    BY <1>2
  <2>2. Active(t) => hdr'.tail <= trans[t].start \/ trans[t].start + trans[t].size <= hdr'.tail
    BY <1>1, <1>2 DEF WholeOf
  <2>3. QED
    BY <1>1, <1>3, <2>1, <2>2, WholeStays
<1>11. Kept(t)'
  <2>1. Written(t) \subseteq Idx
    BY <1>1, <1>4, Typed DEF Going, Active
  <2>2. \A i \in Written(t) : log'[i] = log[i] /\ nlog'[i] = log'[i]
    BY <1>2, <1>5, <2>1
  <2>3. Plain(t)'
    <3>1. \A i \in Written(t) : i < trans[t].start + trans[t].used - 0 =>
               log[i].kind = IF i = trans[t].start THEN {"start"} ELSE {}
      BY <1>1, <1>4 DEF Kept, Plain
    <3>2. \A i \in Written(t)' : i < trans'[t].start + trans'[t].used - 0 =>
               log'[i].kind = IF i = trans'[t].start THEN {"start"} ELSE {}
      BY <1>4, <2>2, <3>1
    <3>3. QED
      BY <1>4, <3>2 DEF Plain
  <2>4. ASSUME NEW o \in trans[t].objs
        PROVE  \/ Fresh(t, o)'
               \/ \E i \in Written(t)' : First(t, o, i)' /\ nlog'[i] = log'[i]
                                         /\ nlog'[trans'[t].start] = log'[trans'[t].start]
    <3>1. CASE Fresh(t, o)
      BY <1>2, <1>4, <2>2, <3>1 DEF Fresh
    <3>2. ASSUME NEW i \in Written(t), First(t, o, i)
          PROVE  /\ First(t, o, i)' /\ nlog'[i] = log'[i]
                 /\ nlog'[trans'[t].start] = log'[trans'[t].start]
      <4>1. trans[t].start \in Written(t)
        BY <1>1, <1>4, StartWritten DEF Going, Active
      <4>2. First(t, o, i)'
        BY <1>2, <1>4, <3>2 DEF First, LeastFor
      <4>3. QED
        BY <1>4, <2>2, <4>1, <4>2
    <3>3. QED
      BY <1>1, <1>4, <3>1, <3>2 DEF Kept
  <2>5. QED
    BY <1>3, <1>4, <2>2, <2>3, <2>4 DEF Kept
<1>12. Ended(t)'
  BY <1>3 DEF Ended
<1>13. Unwritten'
  BY <1>1, <1>2, <1>3, <1>5, <1>8, UnwrittenStays
<1>14. Unowned'
  <2>1. \A u \in Tasks : trans'[u].objs = trans[u].objs
    BY <1>3, <1>4
  <2>2. QED
    BY <1>1, <1>2, <2>1 DEF Unowned
<1>15. NoDoubt' /\ phase' # "unmounted"
  BY <1>1, <1>2 DEF NoDoubt
<1>16. QED
  BY <1>8, <1>9, <1>10, <1>11, <1>12, <1>13, <1>14, <1>15 DEF AwayInv

\* The caller's stores.
LEMMA StoreKeeps ==
  ASSUME InUse, NEW t \in Tasks, Store(t)
  PROVE  AwayInv'
<1>1. /\ IInv /\ IInv' /\ OwnInv /\ [Next]_vars /\ ~past'.broken /\ Early /\ Away /\ ~Crash /\ Ages
      /\ NoDoubt /\ Unowned /\ Unwritten /\ AgesOf(t) /\ WholeOf(t) /\ Kept(t) /\ Ended(t)
      /\ ~past.broken
  BY StillWhole DEF InUse, AwayInv
<1>2. /\ phase = "mounted" /\ trans[t].pc = "run"
      /\ mem' = [o \in Objs |-> IF o \in trans[t].logged THEN trans[t].tid ELSE mem[o]]
      /\ UNCHANGED <<phase, hdr, nhdr, log, nlog, nmem, trans, past>>
  BY DEF Store, Running, journal
<1>3. OneWriter /\ LogTells(t) /\ Carried(t) /\ \A u \in Tasks : trans[u].objs \subseteq Objs
  BY <1>1, Owners, Typed
<1>4. Active(t) /\ Same(t) /\ Like(t)
  BY <1>2 DEF Active, Same, Like
<1>5. Leaves
  BY <1>1, <1>2 DEF Leaves, IInv, TypeOK, LogType
<1>6. ASSUME NEW u \in Tasks, u # t
      PROVE  Stays(u) /\ (trans[u].skipped => trans'[u].skipped)
  <2>1. trans[u].objs \cap trans[t].logged = {}
    BY <1>3, <1>6 DEF OneWriter, Carried
  <2>2. \A o \in trans[u].objs : /\ mem'[o] = mem[o] /\ nmem'[o] = nmem[o]
                                 /\ past'.settled[o] = past.settled[o]
    BY <1>2, <1>3, <2>1
  <2>3. QED
    BY <1>2, <2>2, OtherStays
<1>7. /\ Accounted(hdr)' /\ Accounted(nhdr)'
      /\ \A u \in Tasks : u # t => AgesOf(u)' /\ WholeOf(u)' /\ Kept(u)' /\ Ended(u)'
      /\ \A i \in Idx : nlog'[i] # log'[i] => nlog'[i] = nlog[i] /\ nlog[i] # log[i]
  <2>1. Active(t)' /\ Written(t)' = Written(t) /\ Reserved(t)' = Reserved(t)
    BY <1>4, SameSets
  <2>2. QED
    BY <1>2, <1>4, <1>5, <1>6, <2>1, LeavesKeeps
<1>8. AgesOf(t)' /\ WholeOf(t)' /\ Ended(t)'
  BY <1>1, <1>2 DEF AgesOf, Going, Active, Live, Reserved, Written, WholeOf, Ended
<1>9. Kept(t)'
  <2>1. Plain(t)' /\ trans'[t].pc = "run"
    BY <1>1, <1>2, <1>4 DEF Kept, Plain, Active, Written, Reserved
  <2>2. \A i \in Written(t) : nlog[i] = log[i]
    BY <1>1, <1>2 DEF Kept
  <2>3. Written(t)' = Written(t)
    BY <1>2 DEF Written, Reserved
  <2>4. ASSUME NEW o \in trans[t].objs
        PROVE  \/ Fresh(t, o)'
               \/ \E i \in Written(t)' : First(t, o, i)' /\ nlog'[i] = log'[i]
                                         /\ nlog'[trans'[t].start] = log'[trans'[t].start]
    <3>1. CASE o \in trans[t].logged
      <4>1. PICK i \in Written(t) :
           /\ log[i].obj = o /\ log[i].old = past.settled[o]
           /\ \A j \in Written(t) : log[j].obj = o => i <= j
        BY <1>3, <1>4, <3>1 DEF LogTells
      <4>2. trans[t].start \in Written(t)
        BY <1>1, <1>4, <4>1, StartWritten DEF Going, Active
      <4>3. First(t, o, i)'
        BY <1>2, <2>3, <4>1 DEF First, LeastFor
      <4>4. QED
        BY <1>2, <2>2, <2>3, <4>1, <4>2, <4>3
    <3>2. CASE o \notin trans[t].logged
      <4>1. mem'[o] = mem[o]
        BY <1>2, <1>3, <3>2
      <4>2. Fresh(t, o) => Fresh(t, o)'
        BY <1>2, <2>3, <4>1 DEF Fresh
      <4>3. \A i : First(t, o, i) => First(t, o, i)'
        BY <1>2, <2>3 DEF First, LeastFor
      <4>4. QED
        BY <1>1, <1>2, <1>4, <2>3, <4>2, <4>3 DEF Kept
    <3>3. QED
      BY <3>1, <3>2
  <2>5. QED
    BY <1>2, <2>1, <2>2, <2>3, <2>4 DEF Kept
<1>10. Unwritten'
  BY <1>1, <1>2 DEF Unwritten, Written, Reserved
<1>11. Unowned'
  <2>1. \A o \in Objs : o \notin trans[t].objs => mem'[o] = mem[o]
    BY <1>2, <1>3 DEF Carried
  <2>2. QED
    BY <1>1, <1>2, <2>1 DEF Unowned
<1>12. NoDoubt' /\ phase' # "unmounted"
  BY <1>1, <1>2 DEF NoDoubt
<1>13. QED
  BY <1>7, <1>8, <1>9, <1>10, <1>11, <1>12 DEF AwayInv

\* A transaction that is not there keeps all that is to be kept.
LEMMA IdleKeeps ==
  ASSUME NEW t \in Tasks, trans'[t].pc = "idle"
  PROVE  AgesOf(t)' /\ WholeOf(t)' /\ Kept(t)' /\ Ended(t)'
BY DEF AgesOf, WholeOf, Kept, Ended, Going, Live, Active

\* The last entry lies with the others.
LEMMA LastWritten ==
  ASSUME IInv, NEW u \in Tasks, trans[u].pc = "end", trans[u].used > 0
  PROVE  /\ Last(u) \in Written(u) /\ Written(u) \subseteq Idx
         /\ \A i \in Written(u) : i <= Last(u)
<1>1. /\ trans[u].start \in Nat /\ trans[u].size \in Nat /\ trans[u].used \in Nat
      /\ trans[u].used <= trans[u].size /\ Written(u) \subseteq Reserved(u) /\ Reserved(u) \subseteq Idx
  BY Typed DEF IInv, EntriesFit, Going
<1>2. QED
  BY <1>1 DEF Written, Reserved, Last

\* What an ended transaction has settled.
LEMMA LastFenceKeeps ==
  ASSUME InUse, NEW t \in Tasks, LastFence(t)
  PROVE  AwayInv'
<1>1. /\ IInv /\ IInv' /\ OwnInv /\ [Next]_vars /\ ~past'.broken /\ Early /\ Away /\ ~Crash /\ Ages
      /\ NoDoubt /\ Unowned /\ Unwritten /\ Ended(t) /\ ~past.broken
  BY StillWhole DEF InUse, AwayInv
<1>2. /\ phase = "mounted" /\ trans[t].pc = "end" /\ nlog' = LogFlushed(t)
      /\ past' = [past EXCEPT !.settled =
           [o \in Objs |-> IF trans[t].kind = "commit" /\ o \in trans[t].objs
                           THEN trans[t].tid ELSE @[o]]]
      /\ trans' = [trans EXCEPT ![t] = NoTrans]
      /\ UNCHANGED <<phase, hdr, nhdr, log, mem, nmem>>
  BY DEF LastFence, data
<1>3. /\ OneWriter /\ Owned(t) /\ \A u \in Tasks : trans[u].objs \subseteq Objs
      /\ trans[t].kind \in {"commit", "abort"}
  BY <1>1, <1>2, Owners, Typed DEF Carried
<1>4. /\ trans'[t].pc = "idle" /\ trans'[t].objs = {} /\ \A u \in Tasks : u # t => trans'[u] = trans[u]
      /\ ~Active(t) /\ ~Active(t)'
  BY <1>1, <1>2, Typed DEF NoTrans, Active
<1>5. /\ \A o \in Objs : past'.settled[o] = IF trans[t].kind = "commit" /\ o \in trans[t].objs
                                            THEN trans[t].tid ELSE past.settled[o]
      /\ past'.doubt = past.doubt /\ past'.excused = past.excused
  BY <1>1, <1>2 DEF IInv, TypeOK, PastType
<1>6. \A i \in Idx : nlog'[i] = IF i \in Written(t) THEN log[i] ELSE nlog[i]
  BY <1>2 DEF LogFlushed
<1>7. Leaves
  BY <1>1, <1>2, <1>6 DEF Leaves, IInv, TypeOK, LogType
<1>8. ASSUME NEW u \in Tasks, u # t
      PROVE  Stays(u) /\ (trans[u].skipped => trans'[u].skipped)
  <2>1. trans[u].objs \cap trans[t].objs = {} /\ trans[u].objs \subseteq Objs
    BY <1>3, <1>8 DEF OneWriter
  <2>2. \A o \in trans[u].objs : /\ mem'[o] = mem[o] /\ nmem'[o] = nmem[o]
                                 /\ past'.settled[o] = past.settled[o]
    BY <1>2, <1>5, <2>1
  <2>3. QED
    BY <1>4, <1>8, <2>2, OtherStays
<1>9. nlog'[Last(t)] = log'[Last(t)]
  <2>1. Last(t) \in Written(t) /\ Written(t) \subseteq Idx
    BY <1>1, <1>2, LastWritten DEF Ended
  <2>2. QED
    BY <1>2, <1>6, <2>1
<1>10. /\ Accounted(hdr)' /\ Accounted(nhdr)'
       /\ \A u \in Tasks : u # t => AgesOf(u)' /\ WholeOf(u)' /\ Kept(u)' /\ Ended(u)'
       /\ \A i \in Idx : nlog'[i] # log'[i] => nlog'[i] = nlog[i] /\ nlog[i] # log[i]
  BY <1>2, <1>4, <1>7, <1>8, <1>9, LeavesKeeps
<1>11. AgesOf(t)' /\ WholeOf(t)' /\ Kept(t)' /\ Ended(t)'
  BY <1>4, IdleKeeps
<1>12. Unwritten'
  BY <1>1, <1>2, <1>4, <1>6, <1>10, UnwrittenStays
<1>13. Unowned'
  <2>1. ASSUME NEW o \in Objs, \A u \in Tasks : o \notin trans'[u].objs
        PROVE  mem'[o] = past'.settled[o] /\ nmem'[o] = past'.settled[o]
    <3>1. CASE o \in trans[t].objs
      <4>1. nmem[o] = mem[o]
        BY <1>1, <1>2, <3>1 DEF Ended
      <4>2. mem[o] = IF trans[t].kind = "commit" THEN trans[t].tid ELSE past.settled[o]
        BY <1>2, <1>3, <3>1 DEF Owned
      <4>3. QED
        BY <1>2, <1>3, <1>5, <3>1, <4>1, <4>2
    <3>2. CASE o \notin trans[t].objs
      <4>1. \A u \in Tasks : o \notin trans[u].objs
        BY <1>4, <2>1, <3>2
      <4>2. QED
        BY <1>1, <1>2, <1>5, <3>2, <4>1 DEF Unowned
    <3>3. QED
      BY <3>1, <3>2
  <2>2. QED
    BY <2>1 DEF Unowned
<1>14. NoDoubt' /\ phase' # "unmounted"
  BY <1>1, <1>2, <1>5 DEF NoDoubt
<1>15. QED
  BY <1>10, <1>11, <1>12, <1>13, <1>14 DEF AwayInv

\* The mount after recovery.
LEMMA MountedKeeps ==
  ASSUME IInv, OwnInv, RecInv, Mounted
  PROVE  AwayInv'
<1>1. /\ phase = "recovered" /\ phase' = "mounted"
      /\ past' = [past EXCEPT !.settled = mem, !.doubt = {}, !.excused = {}]
      /\ UNCHANGED <<hdr, nhdr, log, nlog, mem, nmem, trans>>
  BY DEF Mounted, journal, data
<1>2. nlog = log /\ hdr = nhdr /\ hdr.head = hdr.tail /\ mem = nmem
  BY <1>1 DEF RecInv, Paused, Away
<1>3. \A t \in Tasks : trans'[t].pc = "idle"
  BY <1>1 DEF IInv, Stages
<1>4. past'.settled = mem /\ past'.doubt = {} /\ past'.excused = {}
  BY <1>1 DEF IInv, TypeOK, PastType
<1>5. hdr \in Headers
  BY Typed
<1>6. \A i \in Idx : ~Valid(log, hdr, i)
  BY <1>2, <1>5, EmptyJournal
<1>7. Accounted(hdr)' /\ Accounted(nhdr)'
  BY <1>1, <1>2, <1>6 DEF Accounted
<1>8. \A t \in Tasks : AgesOf(t)' /\ WholeOf(t)' /\ Kept(t)' /\ Ended(t)'
  BY <1>3, IdleKeeps
<1>9. Unwritten' /\ Unowned' /\ NoDoubt'
  BY <1>1, <1>2, <1>4 DEF Unwritten, Unowned, NoDoubt
<1>10. QED
  BY <1>1, <1>7, <1>8, <1>9 DEF AwayInv

(***************************************************************************)
(* Reservations.                                                           *)
(***************************************************************************)
\* What an ended transaction has left in the journal ahead it has in the journal now.
LEMMA InLapBefore ==
  ASSUME InUse, NEW u \in Tasks, trans[u].pc = "end", InLap(u, hdr')
  PROVE  InLap(u, hdr) /\ Inside(trans[u], hdr.head, hdr.tail) /\ Complete(u)
<1>1. /\ IInv /\ IInv' /\ OwnInv /\ [Next]_vars /\ ~past'.broken /\ Early /\ Away /\ ~Crash
      /\ AgesOf(u) /\ Ended(u)
  BY DEF InUse, AwayInv
<1>2. hdr \in Headers /\ hdr' \in Headers /\ Onward(hdr, hdr')
  BY <1>1, HeaderOnward, Typed DEF IInv, TypeOK, HeaderType, Headers
<1>3. trans[u].start \in Between(hdr') /\ Lap(hdr', trans[u].start) = trans[u].gen
  BY DEF InLap
<1>4. /\ trans[u].gen <= Lap(hdr, trans[u].start)
      /\ trans[u].gen \in Nat /\ Lap(hdr, trans[u].start) \in Nat
  <2>1. trans[u].start \in Nat /\ trans[u].size \in Nat /\ trans[u].size > 0 /\ Reserved(u) \subseteq Idx
    BY <1>1, Typed DEF Going
  <2>2. trans[u].start \in Reserved(u)
    BY <2>1 DEF Reserved
  <2>3. QED
    BY <1>1, <2>1, <2>2, Typed DEF AgesOf, Going
<1>5. ~(Lap(hdr, trans[u].start) < Lap(hdr', trans[u].start))
  BY <1>3, <1>4
<1>6. trans[u].start \in Between(hdr) /\ Lap(hdr', trans[u].start) = Lap(hdr, trans[u].start)
  BY <1>2, <1>3, <1>5, OnwardLap
<1>7. InLap(u, hdr)
  BY <1>3, <1>6 DEF InLap
<1>8. QED
  BY <1>1, <1>7 DEF Ended

\* A failed reservation.
LEMMA FailsKeeps ==
  ASSUME InUse, NEW t \in Tasks, NewTransaction(t) \/ Again(t), trans'[t] = NoTrans,
         UNCHANGED <<hdr, nhdr>>
  PROVE  AwayInv'
<1>1. /\ IInv /\ IInv' /\ OwnInv /\ [Next]_vars /\ ~past'.broken /\ Early /\ Away /\ ~Crash /\ Ages
      /\ NoDoubt /\ Unowned /\ Unwritten /\ Kept(t) /\ ~past.broken
  BY StillWhole DEF InUse, AwayInv
<1>2. /\ phase = "mounted" /\ PromisesKept /\ UNCHANGED <<phase, log, nlog, mem, nmem>>
      /\ \A u \in Tasks : u # t => trans'[u] = trans[u]
      /\ trans[t].pc \in {"idle", "wrapped"}
  BY <1>1, Reserving
<1>3. Leaves
  BY <1>1, <1>2 DEF Leaves, IInv, TypeOK, LogType
<1>4. \A u \in Tasks : u # t => Stays(u) /\ (trans[u].skipped => trans'[u].skipped)
  BY <1>2, OtherStays DEF PromisesKept
<1>5. trans'[t].pc = "idle" /\ ~Active(t) /\ ~Active(t)'
  BY <1>2 DEF NoTrans, Active
<1>6. /\ Accounted(hdr)' /\ Accounted(nhdr)'
      /\ \A u \in Tasks : u # t => AgesOf(u)' /\ WholeOf(u)' /\ Kept(u)' /\ Ended(u)'
      /\ \A i \in Idx : nlog'[i] # log'[i] => nlog'[i] = nlog[i] /\ nlog[i] # log[i]
  BY <1>2, <1>3, <1>4, <1>5, LeavesKeeps
<1>7. AgesOf(t)' /\ WholeOf(t)' /\ Kept(t)' /\ Ended(t)'
  BY <1>5, IdleKeeps
<1>8. Unwritten'
  BY <1>1, <1>2, <1>6, UnwrittenStays
<1>9. Unowned'
  <2>1. ASSUME NEW o \in Objs, \A u \in Tasks : o \notin trans'[u].objs
        PROVE  mem[o] = past.settled[o] /\ nmem[o] = past.settled[o]
    <3>1. CASE o \in trans[t].objs
      <4>1. trans[t].pc = "wrapped"
        BY <1>1, <1>2, <3>1 DEF OwnInv, Carried
      <4>2. QED
        BY <1>1, <3>1, <4>1 DEF Kept
    <3>2. CASE o \notin trans[t].objs
      <4>1. \A u \in Tasks : o \notin trans[u].objs
        BY <1>2, <2>1, <3>2
      <4>2. QED
        BY <1>1, <4>1 DEF Unowned
    <3>3. QED
      BY <3>1, <3>2
  <2>2. QED
    BY <1>2, <2>1 DEF Unowned, PromisesKept
<1>10. NoDoubt' /\ phase' # "unmounted"
  BY <1>1, <1>2 DEF NoDoubt, PromisesKept
<1>11. QED
  BY <1>6, <1>7, <1>8, <1>9, <1>10 DEF AwayInv

\* Nobody else's objects are those of a transaction that begins, or goes on.
LEMMA ObjsOfReserving ==
  ASSUME InUse, NEW t \in Tasks,
         phase = "mounted", PromisesKept, UNCHANGED <<mem, nmem>>,
         \A u \in Tasks : u # t => trans'[u] = trans[u], trans'[t].objs \subseteq Objs,
         \/ trans[t].pc = "idle" /\ trans'[t].objs \cap Busy = {}
         \/ trans[t].pc = "wrapped" /\ trans'[t].objs = trans[t].objs
  PROVE  /\ \A o \in trans'[t].objs : mem[o] = past.settled[o] /\ nmem[o] = past.settled[o]
         /\ Unowned'
<1>1. OwnInv /\ Unowned /\ Kept(t)
  BY DEF InUse, AwayInv
<1>2. ASSUME NEW o \in trans'[t].objs
      PROVE  mem[o] = past.settled[o] /\ nmem[o] = past.settled[o]
  <2>1. CASE trans[t].pc = "idle" /\ trans'[t].objs \cap Busy = {}
    <3>1. \A u \in Tasks : o \notin trans[u].objs
      BY <1>2, <2>1 DEF Busy
    <3>2. QED
      BY <1>1, <1>2, <3>1 DEF Unowned
  <2>2. CASE trans[t].pc = "wrapped" /\ trans'[t].objs = trans[t].objs
    BY <1>1, <1>2, <2>2 DEF Kept
  <2>3. QED
    BY <2>1, <2>2
<1>3. trans[t].objs \subseteq trans'[t].objs
  BY <1>1 DEF OwnInv, Carried
<1>4. Unowned'
  <2>1. ASSUME NEW o \in Objs, \A u \in Tasks : o \notin trans'[u].objs
        PROVE  mem[o] = past.settled[o] /\ nmem[o] = past.settled[o]
    <3>1. \A u \in Tasks : o \notin trans[u].objs
      BY <1>3, <2>1
    <3>2. QED
      BY <1>1, <3>1 DEF Unowned
  <2>2. QED
    BY <2>1 DEF Unowned, PromisesKept
<1>5. QED
  BY <1>2, <1>4

\* The tail goes back to the beginning.
LEMMA WrapsKeeps ==
  ASSUME InUse, NEW t \in Tasks, NewTransaction(t) \/ Again(t), trans'[t].pc = "wrapped",
         trans[t].pc = "idle", trans'[t].objs \cap Busy = {},
         hdr' = [hdr EXCEPT !.tail = 0, !.gen = NextGen(@)], nhdr' = nhdr
  PROVE  AwayInv'
<1>1. /\ IInv /\ IInv' /\ OwnInv /\ [Next]_vars /\ ~past'.broken /\ Early /\ Away /\ ~Crash /\ Ages
      /\ NoDoubt /\ Unowned /\ Unwritten /\ AwayInv
  BY DEF InUse, AwayInv
<1>2. /\ phase = "mounted" /\ PromisesKept /\ UNCHANGED <<phase, log, nlog, mem, nmem>>
      /\ \A u \in Tasks : u # t => trans'[u] = trans[u]
  BY <1>1, Reserving
<1>3. hdr'.tail = 0 /\ \A u \in Tasks : trans[u].start \in Nat
  BY <1>1, Typed DEF Headers
<1>4. Leaves
  BY <1>1, <1>2 DEF Leaves, IInv, TypeOK, LogType
<1>5. \A u \in Tasks : u # t => Stays(u) /\ (trans[u].skipped => trans'[u].skipped)
  BY <1>2, OtherStays DEF PromisesKept
<1>6. ~Active(t) /\ ~Active(t)' /\ trans[t].pc # "end"
  BY DEF Active
<1>7. \A u \in Tasks : /\ Active(u)' <=> Active(u)
                       /\ Active(u) => Written(u)' = Written(u) /\ Reserved(u)' = Reserved(u)
  BY <1>5, <1>6, SameSets DEF Stays, Same
<1>8. \A u \in Tasks : trans[u].pc = "end" => Same(u) \/ nlog'[Last(u)] = log'[Last(u)]
  BY <1>5, <1>6 DEF Stays
<1>9. \A h \in {hdr', nhdr'} : Accounted(h)
  BY <1>1, AccountedHeaders
<1>10. \A h \in {hdr', nhdr'} : Accounted(h)'
  BY <1>1, <1>4, <1>7, <1>8, <1>9, AccountedLeaves
<1>11. ASSUME NEW u \in Tasks, u # t
       PROVE  AgesOf(u)' /\ WholeOf(u)' /\ Kept(u)' /\ Ended(u)'
  <2>1. Active(u) => \A i \in Reserved(u) : log'[i] = log[i] /\ nlog'[i] \in {nlog[i], log[i]}
    BY <1>2
  <2>2. Complete(u) => /\ EntriesStay(u)
                       /\ \A v \in Tasks : v # u /\ Active(v)' => Reserved(v)' \cap Written(u) = {}
    BY <1>2, <1>7 DEF Complete, EntriesStay
  <2>3. Apart(u)
    BY <1>3, <1>5, <1>11, <2>1, <2>2 DEF Apart
  <2>4. QED
    BY <1>1, <2>3, ApartKeeps
<1>12. trans'[t].objs \subseteq Objs
  BY <1>1 DEF IInv, TypeOK, TransType
<1>13. Unowned' /\ \A o \in trans'[t].objs : mem[o] = past.settled[o] /\ nmem[o] = past.settled[o]
  BY <1>2, <1>12, ObjsOfReserving
<1>14. AgesOf(t)' /\ WholeOf(t)' /\ Ended(t)'
  BY DEF AgesOf, WholeOf, Ended, Going, Live, Active
<1>15. Kept(t)'
  BY <1>2, <1>13 DEF Kept, Active, PromisesKept
<1>16. Unwritten'
  BY <1>1, <1>2, UnwrittenStays
<1>17. NoDoubt' /\ phase' # "unmounted"
  BY <1>1, <1>2 DEF NoDoubt, PromisesKept
<1>18. QED
  BY <1>10, <1>11, <1>13, <1>14, <1>15, <1>16, <1>17 DEF AwayInv

\* The entries that a reservation takes have been left over by the lap before.
LEMMA TakenAges ==
  ASSUME InUse, NEW n \in Nat \ {0}, hdr.tail + n < JSize, hdr' = [hdr EXCEPT !.tail = @ + n],
         NEW i \in hdr.tail .. hdr.tail + n - 1
  PROVE  /\ i \in Idx /\ log[i].gen < hdr.gen /\ Lap(hdr', i) = hdr.gen /\ ~Valid(log, hdr', i)
         /\ Lap(hdr, i) < hdr.gen
<1>1. IInv /\ Ages
  BY DEF InUse
<1>2. /\ hdr.tail \in Nat /\ hdr.gen \in Nat /\ JSize \in Nat
      /\ hdr'.tail = hdr.tail + n /\ hdr'.gen = hdr.gen
  <2>1. hdr \in [head : Idx, tail : Idx, gen : 1 .. MaxGen]
    BY <1>1 DEF IInv, TypeOK, HeaderType
  <2>2. hdr.tail \in Nat /\ hdr.gen \in Nat /\ JSize \in Nat
    BY <2>1, JournalAssumption DEF Idx
  <2>3. QED
    BY <2>1, <2>2
<1>3. i \in Nat /\ hdr.tail <= i /\ i < hdr.tail + n /\ i \in Idx
  BY <1>2 DEF Idx
<1>4. Lap(hdr, i) = hdr.gen - 1 /\ Lap(hdr', i) = hdr.gen
  BY <1>2, <1>3 DEF Lap
<1>5. log[i].gen \in Nat /\ log[i].gen <= Lap(hdr, i)
  BY <1>1, <1>3, Typed DEF Ages
<1>6. log[i].gen < hdr.gen
  BY <1>2, <1>4, <1>5
<1>7. log[i].gen # Lap(hdr', i) /\ Lap(hdr, i) < hdr.gen
  BY <1>2, <1>4, <1>5, <1>6
<1>8. QED
  BY <1>3, <1>4, <1>6, <1>7 DEF Valid

\* The tail goes on over the entries that are taken.
LEMMA TakesKeeps ==
  ASSUME InUse, NEW t \in Tasks, NewTransaction(t) \/ Again(t),
         hdr.tail < hdr.head => hdr.tail + trans'[t].size < hdr.head,
         hdr.tail + trans'[t].size < JSize,
         hdr' = [hdr EXCEPT !.tail = @ + trans'[t].size], nhdr' = hdr',
         trans'[t].pc = "run", trans'[t].start = hdr.tail, trans'[t].size \in Nat \ {0},
         trans'[t].gen = hdr.gen, Blank0(trans'[t]),
         \/ trans[t].pc = "idle" /\ trans'[t].objs \cap Busy = {}
         \/ trans[t].pc = "wrapped" /\ trans'[t].objs = trans[t].objs
  PROVE  AwayInv'
<1> DEFINE n == trans'[t].size
           R == hdr.tail .. hdr.tail + n - 1
<1>1. /\ IInv /\ IInv' /\ OwnInv /\ OwnInv' /\ [Next]_vars /\ ~past'.broken /\ Early /\ Away /\ ~Crash
      /\ Ages /\ NoDoubt /\ Unowned /\ Unwritten /\ AwayInv
  BY DEF InUse, AwayInv
<1>2. /\ phase = "mounted" /\ PromisesKept /\ UNCHANGED <<phase, log, nlog, mem, nmem>>
      /\ \A u \in Tasks : u # t => trans'[u] = trans[u]
  BY <1>1, Reserving
<1>3. /\ hdr.tail \in Nat /\ hdr.head \in Nat /\ hdr.gen \in Nat /\ JSize \in Nat
      /\ n \in Nat /\ n > 0 /\ hdr'.tail = hdr.tail + n /\ hdr'.gen = hdr.gen
  <2>1. hdr \in [head : Idx, tail : Idx, gen : 1 .. MaxGen]
    BY <1>1 DEF IInv, TypeOK, HeaderType
  <2>2. hdr.tail \in Nat /\ hdr.head \in Nat /\ hdr.gen \in Nat /\ JSize \in Nat
    BY <2>1, JournalAssumption DEF Idx
  <2>3. QED
    BY <2>1, <2>2
<1>4. Leaves
  BY <1>1, <1>2 DEF Leaves, IInv, TypeOK, LogType
<1>5. \A u \in Tasks : u # t => Stays(u) /\ (trans[u].skipped => trans'[u].skipped)
  BY <1>2, OtherStays DEF PromisesKept
<1>6. ~Active(t) /\ Active(t)' /\ trans[t].pc # "end"
  BY DEF Active
<1>7. \A u \in Tasks : u # t => /\ Active(u)' <=> Active(u)
                                /\ Written(u)' = Written(u) /\ Reserved(u)' = Reserved(u)
  BY <1>5, SameSets DEF Stays, Same
<1>8. Reserved(t)' = R /\ Written(t)' = {}
  BY <1>3 DEF Reserved, Written, Blank0
<1>9. \A i \in R : /\ i \in Idx /\ log[i].gen < hdr.gen /\ Lap(hdr', i) = hdr.gen
                   /\ ~Valid(log, hdr', i) /\ Lap(hdr, i) < hdr.gen
  BY TakenAges
<1>10. /\ Accounted(hdr)' /\ Accounted(nhdr)'
  <2>1. Accounted(hdr')
    BY <1>1, AccountedHeaders
  <2>2. \A u \in Tasks : trans[u].pc = "end" => Same(u) \/ nlog'[Last(u)] = log'[Last(u)]
    BY <1>5, <1>6 DEF Stays
  <2>3. \A u \in Tasks : Active(u) => Active(u)' /\ Written(u)' = Written(u)
    BY <1>6, <1>7
  <2>4. \A u \in Tasks : Active(u)' =>
           \/ Active(u) /\ Reserved(u)' = Reserved(u)
           \/ \A i \in Reserved(u)' : ~Valid(log, hdr', i)
    BY <1>7, <1>8, <1>9
  <2>5. \A h : h = hdr' => Accounted(h)'
    BY <1>1, <1>4, <2>1, <2>2, <2>3, <2>4, AccountedLeaves
  <2>6. QED
    BY <2>5
<1>11. ASSUME NEW u \in Tasks, u # t
       PROVE  AgesOf(u)' /\ WholeOf(u)' /\ Kept(u)' /\ Ended(u)'
  <2>1. Active(u) => \A i \in Reserved(u) : log'[i] = log[i] /\ nlog'[i] \in {nlog[i], log[i]}
    BY <1>2
  <2>2. ASSUME Complete(u), trans[u].pc = "end", NEW h \in {hdr', nhdr'}, InLap(u, h)
        PROVE  /\ EntriesStay(u)
               /\ \A v \in Tasks : v # u /\ Active(v)' => Reserved(v)' \cap Written(u) = {}
    <3>1. Inside(trans[u], hdr.head, hdr.tail)
      BY <2>2, InLapBefore
    <3>2. R \cap Written(u) = {}
      <4>1. /\ trans[u].start \in Nat /\ trans[u].size \in Nat
        BY <1>1, Typed
      <4>2. \A i \in Written(u) : i \in Nat /\ trans[u].start <= i /\ i < trans[u].start + trans[u].size
        BY <4>1 DEF Written, Reserved
      <4>3. \A i \in R : i \in Nat /\ hdr.tail <= i /\ i < hdr.tail + n
        BY <1>3
      <4>4. ASSUME NEW i \in Nat, trans[u].start <= i, i < trans[u].start + trans[u].size,
                   hdr.tail <= i, i < hdr.tail + n
            PROVE  FALSE
        BY <1>3, <3>1, <4>1, <4>4 DEF Inside
      <4>5. QED
        BY <4>2, <4>3, <4>4
    <3>3. EntriesStay(u)
      BY <1>2 DEF EntriesStay
    <3>4. \A v \in Tasks : v # u /\ Active(v)' => Reserved(v)' \cap Written(u) = {}
      BY <1>7, <1>8, <2>2, <3>2 DEF Complete
    <3>5. QED
      BY <3>3, <3>4
  <2>3. Active(u) => \/ hdr'.tail <= trans[u].start
                     \/ trans[u].start + trans[u].size <= hdr'.tail
    <3>1. SUFFICES ASSUME Active(u)
                   PROVE  \/ hdr'.tail <= trans[u].start
                          \/ trans[u].start + trans[u].size <= hdr'.tail
      OBVIOUS
    <3>2. hdr.tail <= trans[u].start \/ trans[u].start + trans[u].size <= hdr.tail
      BY <1>1, <3>1 DEF AwayInv, WholeOf
    <3>3. OneWriter'
      BY <1>1, <1>2 DEF OwnInv
    <3>4. Reserved(u) \cap R = {}
      <4>1. Reserved(t)' \cap Reserved(u)' = {}
        BY <1>6, <1>7, <1>11, <3>1, <3>3 DEF OneWriter
      <4>2. QED
        BY <1>7, <1>8, <1>11, <4>1
    <3>5. trans[u].start \in Nat /\ trans[u].size \in Nat /\ trans[u].size > 0
      BY <1>1, <3>1, Typed DEF Going, Active
    <3>6. trans[u].start \notin R
      <4>1. trans[u].start \in Reserved(u)
        BY <3>5 DEF Reserved
      <4>2. QED
        BY <3>4, <4>1
    <3>7. ~(hdr.tail <= trans[u].start /\ trans[u].start < hdr.tail + n)
      BY <1>3, <3>5, <3>6
    <3> HIDE DEF n, R
    <3>8. QED
      BY <1>3, <3>2, <3>5, <3>7
  <2>4. Apart(u)
    BY <1>5, <1>11, <2>1, <2>2, <2>3 DEF Apart
  <2>5. QED
    BY <1>1, <2>4, ApartKeeps
<1>12. trans'[t].objs \subseteq Objs
  BY <1>1 DEF IInv, TypeOK, TransType
<1>13. Unowned' /\ \A o \in trans'[t].objs : mem[o] = past.settled[o] /\ nmem[o] = past.settled[o]
  BY <1>2, <1>12, ObjsOfReserving
<1>14. AgesOf(t)'
  <2>1. \A i \in Reserved(t)' : trans'[t].gen <= Lap(hdr', i) /\ trans'[t].gen <= Lap(nhdr', i)
    BY <1>3, <1>8, <1>9
  <2>2. \A i \in Reserved(t)' \ Written(t)' : log'[i].gen < trans'[t].gen
    BY <1>2, <1>8, <1>9
  <2>3. \A h \in {hdr', nhdr'} : Lap(h, trans'[t].start) = trans'[t].gen
    BY <1>3, <1>9
  <2>4. QED
    BY <2>1, <2>2, <2>3 DEF AgesOf
<1>15. WholeOf(t)'
  <2>1. \A h \in {hdr', nhdr'} : trans'[t].start + trans'[t].size <= h.tail
    <3>1. nhdr'.tail = hdr.tail + n /\ hdr'.tail = hdr.tail + n /\ trans'[t].start + n = hdr.tail + n
      BY <1>3
    <3>2. hdr.tail + n <= hdr.tail + n
      BY <1>3
    <3>3. QED
      BY <3>1, <3>2
  <2>2. QED
    BY <2>1 DEF WholeOf
<1>16. Kept(t)'
  <2>1. Plain(t)'
    BY <1>8 DEF Plain
  <2>2. \A o \in trans'[t].objs : Fresh(t, o)'
    BY <1>2, <1>8, <1>13 DEF Fresh, PromisesKept
  <2>3. QED
    BY <1>8, <2>1, <2>2 DEF Kept
<1>17. Ended(t)'
  BY DEF Ended
<1>18. Unwritten'
  BY <1>1, <1>2, <1>6, UnwrittenStays DEF Active
<1>19. NoDoubt' /\ phase' # "unmounted"
  BY <1>1, <1>2 DEF NoDoubt, PromisesKept
<1>20. QED
  BY <1>10, <1>11, <1>13, <1>14, <1>15, <1>16, <1>17, <1>18, <1>19 DEF AwayInv

\* A reservation, whatever comes of it.
LEMMA ReservesKeeps ==
  ASSUME InUse, NEW t \in Tasks, NewTransaction(t) \/ Again(t)
  PROVE  AwayInv'
<1>1. IInv /\ OwnInv /\ ~past'.broken
  BY DEF InUse
<1>2. CASE trans'[t] = NoTrans /\ UNCHANGED <<hdr, nhdr, cleaner>>
  BY <1>2, FailsKeeps
<1>3. CASE /\ 0 < hdr.head /\ hdr.head <= hdr.tail
           /\ hdr' = [hdr EXCEPT !.tail = 0, !.gen = NextGen(@)] /\ UNCHANGED <<nhdr, cleaner>>
           /\ trans'[t].pc = "wrapped" /\ Blank0(trans'[t])
           /\ trans[t].pc = "idle" /\ trans'[t].objs \cap Busy = {}
  BY <1>3, WrapsKeeps
<1>4. CASE /\ hdr.tail < hdr.head => hdr.tail + trans'[t].size < hdr.head
           /\ hdr.tail + trans'[t].size < JSize
           /\ hdr' = [hdr EXCEPT !.tail = @ + trans'[t].size] /\ nhdr' = hdr'
           /\ trans'[t].pc = "run" /\ trans'[t].start = hdr.tail /\ trans'[t].size \in Nat \ {0}
           /\ trans'[t].gen = hdr.gen /\ Blank0(trans'[t])
           /\ \/ trans[t].pc = "idle" /\ trans'[t].objs \cap Busy = {}
              \/ trans[t].pc = "wrapped" /\ trans'[t].objs = trans[t].objs
  BY <1>4, TakesKeeps
<1>5. QED
  BY <1>1, <1>2, <1>3, <1>4, Reserving

(***************************************************************************)
(* The steps that write entries.                                           *)
(***************************************************************************)
\* The others stay as they are while one writes.
LEMMA WritingOthers ==
  ASSUME InUse, NEW t \in Tasks, AddLogEntry(t) \/ Commit(t) \/ Abort(t),
         \A o \in Objs \ trans[t].objs : mem'[o] = mem[o] /\ nmem'[o] = nmem[o]
  PROVE  /\ \A u \in Tasks : u # t => Stays(u) /\ AgesOf(u)' /\ WholeOf(u)' /\ Kept(u)' /\ Ended(u)'
         /\ Unowned' /\ NoDoubt' /\ Unwritten' /\ phase' = "mounted"
<1>1. /\ IInv /\ IInv' /\ OwnInv /\ [Next]_vars /\ ~past'.broken /\ Early /\ Away /\ ~Crash /\ Ages
      /\ NoDoubt /\ Unowned /\ Unwritten /\ AwayInv /\ ~past.broken
  BY StillWhole DEF InUse, AwayInv
<1>2. /\ Active(t) /\ phase = "mounted" /\ UNCHANGED <<phase, hdr, nhdr, nlog, past>>
      /\ \A u \in Tasks : u # t => trans'[u] = trans[u]
      /\ trans'[t].pc \in {"log", "end"} /\ trans'[t].objs = trans[t].objs
      /\ trans'[t].start = trans[t].start /\ trans'[t].size = trans[t].size
      /\ Written(t) \subseteq Written(t)'
      /\ \A i \in Idx : i \notin Written(t)' \ Written(t) => log'[i] = log[i]
      /\ \A i \in Written(t)' \ Written(t) : i \in Reserved(t)
  BY <1>1, Writing
<1>3. OneWriter /\ \A u \in Tasks : trans[u].objs \subseteq Objs
  BY <1>1, Owners, Typed
<1>4. \A i \in Idx : i \notin Reserved(t) => log'[i] = log[i]
  BY <1>2
<1>5. ASSUME NEW u \in Tasks, u # t
      PROVE  Stays(u) /\ AgesOf(u)' /\ WholeOf(u)' /\ Kept(u)' /\ Ended(u)'
  <2>1. Stays(u) /\ (trans[u].skipped => trans'[u].skipped)
    <3>1. \A o \in trans[u].objs : /\ mem'[o] = mem[o] /\ nmem'[o] = nmem[o]
                                   /\ past'.settled[o] = past.settled[o]
      BY <1>2, <1>3, <1>5 DEF OneWriter
    <3>2. QED
      BY <1>2, <1>5, <3>1, OtherStays
  <2>2. Active(u) => \A i \in Reserved(u) : log'[i] = log[i] /\ nlog'[i] \in {nlog[i], log[i]}
    <3>1. Active(u) => Reserved(u) \subseteq Idx /\ Reserved(u) \cap Reserved(t) = {}
      BY <1>1, <1>2, <1>3, <1>5, Typed DEF OneWriter, Going, Active
    <3>2. QED
      BY <1>2, <1>4, <3>1
  <2>3. Complete(u) /\ trans[u].pc = "end" =>
          /\ EntriesStay(u)
          /\ \A v \in Tasks : v # u /\ Active(v)' => Reserved(v)' \cap Written(u) = {}
    <3>1. SUFFICES ASSUME Complete(u), trans[u].pc = "end"
                   PROVE  /\ EntriesStay(u)
                          /\ \A v \in Tasks : v # u /\ Active(v)' => Reserved(v)' \cap Written(u) = {}
      OBVIOUS
    <3>2. Written(u) \subseteq Idx
      BY <1>1, <3>1, Typed DEF Going
    <3>3. Reserved(t) \cap Written(u) = {}
      BY <1>2, <1>5, <3>1 DEF Complete
    <3>4. EntriesStay(u)
      BY <1>2, <1>4, <3>2, <3>3 DEF EntriesStay
    <3>5. Reserved(t)' = Reserved(t)
      BY <1>2 DEF Reserved
    <3>6. \A v \in Tasks : v # t => Active(v)' = Active(v) /\ Reserved(v)' = Reserved(v)
      BY <1>2 DEF Active, Reserved
    <3>7. QED
      BY <3>1, <3>3, <3>4, <3>5, <3>6 DEF Complete
  <2>4. Active(u) => \/ hdr'.tail <= trans[u].start
                     \/ trans[u].start + trans[u].size <= hdr'.tail
    BY <1>1, <1>2 DEF AwayInv, WholeOf
  <2>5. Apart(u)
    BY <2>1, <2>2, <2>3, <2>4 DEF Apart
  <2>6. QED
    BY <1>1, <2>1, <2>5, ApartKeeps
<1>6. Unowned'
  <2>1. \A u \in Tasks : trans'[u].objs = trans[u].objs
    BY <1>2
  <2>2. QED
    BY <1>1, <1>2, <2>1 DEF Unowned
<1>7. Unwritten'
  <2>1. ASSUME NEW i \in Idx, nlog'[i] # log'[i]
        PROVE  \E u \in Tasks : trans'[u].pc \in {"log", "end"} /\ i \in Written(u)'
    <3>1. CASE i \in Written(t)'
      BY <1>2, <3>1
    <3>2. CASE i \notin Written(t)'
      <4>1. nlog[i] # log[i]
        BY <1>2, <2>1, <3>2
      <4>2. PICK u \in Tasks : trans[u].pc \in {"log", "end"} /\ i \in Written(u)
        BY <1>1, <4>1 DEF Unwritten
      <4>3. u # t
        BY <1>2, <3>2, <4>2
      <4>4. Written(u)' = Written(u) /\ trans'[u] = trans[u]
        BY <1>2, <4>3 DEF Written, Reserved
      <4>5. QED
        BY <4>2, <4>4
    <3>3. QED
      BY <3>1, <3>2
  <2>2. QED
    BY <2>1 DEF Unwritten
<1>8. QED
  BY <1>1, <1>2, <1>5, <1>6, <1>7 DEF NoDoubt

\* What was accounted for without the one that writes is so still.
LEMMA WritingAccounts ==
  ASSUME InUse, NEW t \in Tasks, AddLogEntry(t) \/ Commit(t) \/ Abort(t),
         \A u \in Tasks : u # t => Stays(u), NEW h \in {hdr, nhdr}, NEW i \in Idx,
         i \notin Written(t)', Valid(log', h, i)
  PROVE  \/ \E u \in Tasks : Active(u)' /\ i \in Written(u)'
         \/ \E s, e \in Idx : s <= i /\ i <= e /\ Closed(h, s, e)'
<1>1. /\ IInv /\ OwnInv /\ Accounted(h)
  BY DEF InUse, AwayInv
<1>2. /\ Active(t) /\ UNCHANGED <<hdr, nhdr, nlog>>
      /\ trans'[t].start = trans[t].start /\ trans'[t].size = trans[t].size
      /\ Written(t) \subseteq Written(t)'
      /\ \A j \in Idx : j \notin Written(t)' \ Written(t) => log'[j] = log[j]
      /\ \A j \in Written(t)' \ Written(t) : j \in Reserved(t)
  BY <1>1, Writing
<1>3. log'[i] = log[i] /\ Valid(log, h, i)
  BY <1>2 DEF Valid
<1>4. ASSUME NEW u \in Tasks, Active(u), i \in Written(u)
      PROVE  Active(u)' /\ i \in Written(u)'
  <2>1. u # t
    BY <1>2, <1>4
  <2>2. Same(u)
    BY <2>1 DEF Stays
  <2>3. QED
    BY <1>4, <2>2, SameSets DEF Same
<1>5. ASSUME NEW s \in Idx, NEW e \in Idx, Closed(h, s, e)
      PROVE  Closed(h, s, e)'
  <2>1. s .. e \subseteq Idx
    BY JournalAssumption DEF Idx
  <2>2. \A u \in Tasks : Active(u) => Reserved(u) \cap s .. e = {}
    BY <1>5 DEF Closed
  <2>3. \A j \in s .. e : log'[j] = log[j] /\ nlog'[j] \in {nlog[j], log[j]}
    BY <1>2, <2>1, <2>2
  <2>4. \A u \in Tasks : Active(u)' => Reserved(u)' \cap s .. e = {}
    <3>1. Reserved(t)' = Reserved(t)
      BY <1>2 DEF Reserved
    <3>2. \A u \in Tasks : u # t => (Active(u)' <=> Active(u)) /\ Reserved(u)' = Reserved(u)
      BY SameSets DEF Stays, Same
    <3>3. QED
      BY <1>2, <2>2, <3>1, <3>2
  <2>5. \A u \in Tasks : trans[u].pc = "end" => Same(u) \/ nlog'[Last(u)] = log'[Last(u)]
    BY <1>2 DEF Active, Stays
  <2>6. QED
    BY <1>5, <2>3, <2>4, <2>5, ClosedStays
<1>6. \/ \E u \in Tasks : Active(u) /\ i \in Written(u)
      \/ \E s, e \in Idx : s <= i /\ i <= e /\ Closed(h, s, e)
  BY <1>1, <1>3 DEF Accounted
<1>7. QED
  BY <1>4, <1>5, <1>6

\* What AddLogEntry writes.
LEMMA LogsEntries ==
  ASSUME InUse, NEW t \in Tasks, AddLogEntry(t)
  PROVE  /\ trans[t].pc = "run" /\ trans'[t].pc = "log" /\ UNCHANGED <<mem, nmem>>
         /\ Written(t) \subseteq Idx /\ Reserved(t) \subseteq Idx
         /\ \A i \in Written(t) : log'[i] = log[i]
         /\ \A i \in Written(t)' \ Written(t) :
              /\ log'[i].obj \in trans[t].objs /\ log'[i].old = mem[log'[i].obj]
              /\ log'[i].kind = IF i = trans[t].start THEN {"start"} ELSE {}
              /\ \A j \in Written(t) : j <= i
<1>1. IInv /\ OwnInv
  BY DEF InUse
<1>2. /\ trans[t].pc = "run" /\ UNCHANGED <<mem, nmem>> /\ trans[t] \in TransType /\ DOMAIN trans = Tasks
  BY <1>1, Typed DEF AddLogEntry, Running, data, IInv, TypeOK
<1>3. /\ EntryAt(t) = trans[t].start + trans[t].used
      /\ Reserved(t) \subseteq Idx /\ Written(t) \subseteq Reserved(t) /\ Idx \subseteq Nat
      /\ trans[t].used \in Nat /\ trans[t].start \in Nat /\ trans[t].size \in Nat
      /\ trans[t].objs \subseteq Objs
  BY <1>1, <1>2, OwnEntries, Typed DEF Active
<1>4. PICK objs \in SUBSET Objs, n \in Nat :
        \E ord \in [0 .. n - 1 -> objs] :
           /\ trans[t].used + n < trans[t].size /\ objs \subseteq trans[t].objs
           /\ \A o \in objs : \E k \in 0 .. n - 1 : ord[k] = o
           /\ log' = [i \in Idx |->
                IF i - EntryAt(t) \in 0 .. n - 1
                THEN EntryOf(t, i - trans[t].start, {}, ord[i - EntryAt(t)]) ELSE log[i]]
           /\ trans' = [trans EXCEPT ![t].pc = "log", ![t].logged = @ \cup objs,
                                     ![t].used = @ + n]
  BY <1>1, Logs
<1>5. PICK ord \in [0 .. n - 1 -> objs] :
           /\ objs \subseteq trans[t].objs
           /\ log' = [i \in Idx |->
                IF i - EntryAt(t) \in 0 .. n - 1
                THEN EntryOf(t, i - trans[t].start, {}, ord[i - EntryAt(t)]) ELSE log[i]]
  BY <1>4
<1>6. /\ trans'[t] = [trans[t] EXCEPT !.pc = "log", !.logged = @ \cup objs, !.used = @ + n]
      /\ trans[t].used + n < trans[t].size
  BY <1>2, <1>4
<1>7. /\ trans'[t].pc = "log" /\ trans'[t].used = trans[t].used + n
      /\ trans'[t].start = trans[t].start /\ trans'[t].size = trans[t].size
  BY <1>2, <1>6 DEF TransType
<1>8. \A i \in Nat : i \in Written(t) <=> trans[t].start <= i /\ i < trans[t].start + trans[t].used
  BY <1>3, <1>4 DEF Written, Reserved
<1>9. \A i \in Nat : i \in Written(t)' <=> trans[t].start <= i /\ i < trans[t].start + (trans[t].used + n)
  <2>1. n \in Nat /\ trans[t].used + n < trans[t].size
    BY <1>4
  <2>2. \A i : i \in Written(t)' <=>
          /\ i \in trans[t].start .. trans[t].start + trans[t].size - 1
          /\ i < trans[t].start + (trans[t].used + n)
    <3>1. Reserved(t)' = trans[t].start .. trans[t].start + trans[t].size - 1
      BY <1>7 DEF Reserved
    <3>2. QED
      BY <1>7, <3>1 DEF Written
  <2>3. PICK a \in Nat, u \in Nat, z \in Nat : a = trans[t].start /\ u = trans[t].used /\ z = trans[t].size
    BY <1>3
  <2>4. \A i \in Nat : i \in a .. a + z - 1 /\ i < a + (u + n) <=> a <= i /\ i < a + (u + n)
    <3>1. u + n < z
      BY <2>1, <2>3
    <3>2. QED
      BY <2>1, <3>1
  <2>5. QED
    BY <2>2, <2>3, <2>4
<1>10. ASSUME NEW i \in Written(t)' \ Written(t)
       PROVE  /\ i \in Idx /\ i - EntryAt(t) \in 0 .. n - 1 /\ i \in Nat
              /\ \A j \in Written(t) : j <= i
  <2>1. i \in Nat /\ i \in Idx
    <3>1. Reserved(t)' = Reserved(t)
      BY <1>7 DEF Reserved
    <3>2. i \in Reserved(t)
      BY <1>10, <3>1 DEF Written
    <3>3. QED
      BY <1>3, <3>2
  <2>2. trans[t].start + trans[t].used <= i /\ i < trans[t].start + (trans[t].used + n)
    BY <1>3, <1>8, <1>9, <1>10, <2>1
  <2>3. i - EntryAt(t) \in 0 .. n - 1
    BY <1>3, <2>1, <2>2
  <2>4. \A j \in Written(t) : j \in Nat /\ j < trans[t].start + trans[t].used
    BY <1>3, <1>8
  <2>5. QED
    BY <1>3, <2>1, <2>2, <2>3, <2>4
<1>11. ASSUME NEW i \in Written(t)' \ Written(t)
       PROVE  /\ log'[i].obj \in trans[t].objs /\ log'[i].old = mem[log'[i].obj]
              /\ log'[i].kind = IF i = trans[t].start THEN {"start"} ELSE {}
  <2> DEFINE k == i - trans[t].start
             o == ord[i - EntryAt(t)]
  <2>1. log'[i] = EntryOf(t, k, {}, o)
    BY <1>5, <1>10, <1>11
  <2>2. o \in objs /\ o \in trans[t].objs /\ o # None
    BY <1>3, <1>5, <1>10, <1>11, JournalAssumption
  <2>3. k = 0 <=> i = trans[t].start
    BY <1>3, <1>10, <1>11
  <2> HIDE DEF k, o
  <2>4. log'[i].obj = o /\ log'[i].old = mem[o] /\ log'[i].kind = {} \cup (IF k = 0 THEN {"start"} ELSE {})
    BY <2>1, <2>2 DEF EntryOf
  <2>5. QED
    BY <2>2, <2>3, <2>4
<1>12. \A i \in Written(t) : log'[i] = log[i]
  <2>1. \A i \in Written(t) : i \in Idx /\ i \notin Written(t)' \ Written(t)
    BY <1>3
  <2>2. QED
    BY <1>1, <2>1, Writing
<1>13. QED
  BY <1>2, <1>3, <1>7, <1>10, <1>11, <1>12

\* More of its entries, which no failure leaves before they are flushed, or which one may.
LEMMA AddKeeps ==
  ASSUME InUse, NEW t \in Tasks, AddLogEntry(t)
  PROVE  AwayInv'
<1>1. /\ IInv /\ IInv' /\ OwnInv /\ [Next]_vars /\ ~past'.broken /\ Early /\ Away /\ ~Crash /\ Ages
      /\ AgesOf(t) /\ WholeOf(t) /\ Kept(t)
  BY DEF InUse, AwayInv
<1>2. /\ Active(t) /\ UNCHANGED <<phase, hdr, nhdr, nlog, past>>
      /\ trans'[t].objs = trans[t].objs /\ Active(t)'
      /\ trans'[t].start = trans[t].start /\ trans'[t].size = trans[t].size
      /\ trans'[t].gen = trans[t].gen /\ trans'[t].skipped = trans[t].skipped
      /\ Written(t) \subseteq Written(t)'
      /\ \A i \in Idx : i \notin Written(t)' \ Written(t) => log'[i] = log[i]
  BY <1>1, Writing
<1>3. /\ trans[t].pc = "run" /\ trans'[t].pc = "log" /\ UNCHANGED <<mem, nmem>>
      /\ Written(t) \subseteq Idx /\ Reserved(t) \subseteq Idx
      /\ \A i \in Written(t) : log'[i] = log[i]
      /\ \A i \in Written(t)' \ Written(t) :
              /\ log'[i].obj \in trans[t].objs /\ log'[i].old = mem[log'[i].obj]
              /\ log'[i].kind = IF i = trans[t].start THEN {"start"} ELSE {}
              /\ \A j \in Written(t) : j <= i
  BY LogsEntries
<1>4. /\ \A u \in Tasks : u # t => Stays(u) /\ AgesOf(u)' /\ WholeOf(u)' /\ Kept(u)' /\ Ended(u)'
      /\ Unowned' /\ NoDoubt' /\ Unwritten' /\ phase' = "mounted"
  BY <1>3, WritingOthers
<1>5. Reserved(t)' = Reserved(t)
  BY <1>2 DEF Reserved
<1>6. \A h \in {hdr, nhdr} : Accounted(h)'
  <2>1. ASSUME NEW h \in {hdr, nhdr}, NEW i \in Idx, Valid(log', h, i)
        PROVE  \/ \E u \in Tasks : Active(u)' /\ i \in Written(u)'
               \/ \E s, e \in Idx : s <= i /\ i <= e /\ Closed(h, s, e)'
    <3>1. CASE i \in Written(t)'
      BY <1>2, <3>1
    <3>2. CASE i \notin Written(t)'
      BY <1>4, <2>1, <3>2, WritingAccounts
    <3>3. QED
      BY <3>1, <3>2
  <2>2. QED
    BY <2>1 DEF Accounted
<1>7. Accounted(hdr)' /\ Accounted(nhdr)'
  <2>1. \A h : h \in {hdr', nhdr'} => Accounted(h)'
    BY <1>2, <1>6
  <2>2. QED
    BY <2>1
<1>8. AgesOf(t)'
  <2>1. Going(t) /\ (Live(t)' <=> Live(t)) /\ (Going(t)' <=> Going(t))
    BY <1>2, <1>3 DEF Going, Active, Live
  <2>2. \A i \in Reserved(t)' \ Written(t)' : log'[i].gen < trans'[t].gen
    BY <1>1, <1>2, <1>3, <1>5 DEF AgesOf
  <2>3. \A i \in Reserved(t)' : trans'[t].gen <= Lap(hdr', i) /\ trans'[t].gen <= Lap(nhdr', i)
    BY <1>1, <1>2, <1>5, <2>1 DEF AgesOf
  <2>4. Live(t)' => \A h \in {hdr', nhdr'} : Lap(h, trans'[t].start) = trans'[t].gen
    BY <1>1, <1>2, <2>1 DEF AgesOf
  <2>5. QED
    BY <2>2, <2>3, <2>4 DEF AgesOf
<1>9. WholeOf(t)'
  BY <1>1, <1>2 DEF WholeOf
<1>10. Plain(t)'
  <2>1. \A i \in Written(t) : i < trans[t].start + trans[t].used
    BY DEF Written
  <2>2. trans[t].start \in Nat /\ trans[t].used \in Nat
    BY <1>1, Typed
  <2>3. \A i \in Written(t) : i < trans[t].start + trans[t].used - 0
    BY <2>1, <2>2
  <2>4. \A i \in Written(t) : log[i].kind = IF i = trans[t].start THEN {"start"} ELSE {}
    BY <1>1, <1>2, <2>3 DEF Kept, Plain
  <2>5. \A i \in Written(t)' : log'[i].kind = IF i = trans'[t].start THEN {"start"} ELSE {}
    BY <1>2, <1>3, <2>4
  <2>6. QED
    BY <2>5 DEF Plain
<1>11. Kept(t)'
  <2>1. ASSUME NEW o \in trans[t].objs
        PROVE  \/ Fresh(t, o)'
               \/ \E i \in Written(t)' : First(t, o, i)' /\ nlog'[i] = log'[i]
                                         /\ nlog'[trans'[t].start] = log'[trans'[t].start]
    <3>1. CASE Fresh(t, o)
      <4>1. mem[o] = past.settled[o] /\ nmem[o] = past.settled[o]
            /\ \A i \in Written(t) : log[i].obj = o => log[i].old = past.settled[o]
        BY <3>1 DEF Fresh
      <4>2. \A i \in Written(t)' : log'[i].obj = o => log'[i].old = past.settled[o]
        BY <1>3, <4>1
      <4>3. QED
        BY <1>2, <1>3, <4>1, <4>2 DEF Fresh
    <3>2. ASSUME NEW i \in Written(t), First(t, o, i), nlog[i] = log[i],
                 nlog[trans[t].start] = log[trans[t].start]
          PROVE  /\ i \in Written(t)' /\ First(t, o, i)' /\ nlog'[i] = log'[i]
                 /\ nlog'[trans'[t].start] = log'[trans'[t].start]
      <4>1. trans[t].start \in Written(t)
        BY <1>1, <1>2, StartWritten DEF Going, Active
      <4>2. /\ log[i].obj = o /\ log[i].old = past.settled[o]
            /\ \A j \in Written(t) : log[j].obj = o => i <= j
        BY <3>2 DEF First, LeastFor
      <4>3. \A j \in Written(t)' : log'[j].obj = o => i <= j
        BY <1>3, <4>2
      <4>4. First(t, o, i)'
        BY <1>2, <1>3, <4>2, <4>3 DEF First, LeastFor
      <4>5. QED
        BY <1>2, <1>3, <3>2, <4>1, <4>4
    <3>3. QED
      BY <1>1, <1>2, <3>1, <3>2 DEF Kept
  <2>2. QED
    BY <1>2, <1>3, <1>10, <2>1 DEF Kept
<1>12. Ended(t)'
  BY <1>3 DEF Ended
<1>13. QED
  BY <1>4, <1>7, <1>8, <1>9, <1>11, <1>12 DEF AwayInv

\* What the end of a transaction writes.
LEMMA EndEntry ==
  ASSUME InUse, NEW t \in Tasks, Commit(t) \/ Abort(t)
  PROVE  /\ trans[t].pc = "run" /\ trans'[t].pc = "end" /\ Active(t) /\ ~Active(t)'
         /\ trans'[t].used = trans[t].used + 1 /\ trans'[t].logged = trans[t].logged
         /\ trans'[t].kind = IF Commit(t) THEN "commit" ELSE "abort"
         /\ trans'[t].start = trans[t].start /\ trans'[t].size = trans[t].size
         /\ trans'[t].gen = trans[t].gen /\ trans'[t].objs = trans[t].objs
         /\ EntryAt(t) \in Reserved(t) /\ EntryAt(t) \notin Written(t) /\ Reserved(t) \subseteq Idx
         /\ Written(t)' = Written(t) \cup {EntryAt(t)} /\ Last(t)' = EntryAt(t)
         /\ \A i \in Idx : i # EntryAt(t) => log'[i] = log[i]
         /\ log'[EntryAt(t)].gen = trans[t].gen /\ log'[EntryAt(t)].obj = None
         /\ log'[EntryAt(t)].kind =
              {trans'[t].kind} \cup (IF trans[t].used = 0 THEN {"start"} ELSE {})
         /\ trans[t].start \in Nat /\ trans[t].size \in Nat /\ trans[t].used \in Nat
         /\ trans[t].used < trans[t].size /\ EntryAt(t) = trans[t].start + trans[t].used
         /\ Written(t) = trans[t].start .. EntryAt(t) - 1
<1>1. IInv /\ OwnInv
  BY DEF InUse
<1>2. /\ trans[t].pc = "run" /\ Active(t) /\ trans[t] \in TransType /\ DOMAIN trans = Tasks
      /\ DOMAIN log = Idx
  BY <1>1, Typed DEF Commit, Abort, Running, Active, IInv, TypeOK
<1>3. /\ EntryAt(t) = trans[t].start + trans[t].used /\ EntryAt(t) \in Reserved(t)
      /\ Reserved(t) \subseteq Idx /\ EntryAt(t) \notin Written(t)
      /\ trans[t].used \in Nat /\ trans[t].start \in Nat /\ trans[t].size \in Nat
      /\ trans[t].used < trans[t].size
  BY <1>1, <1>2, OwnEntries
<1>4. PICK kind \in {"commit", "abort"} :
        LastEntry(t, kind) /\ kind = IF Commit(t) THEN "commit" ELSE "abort"
  BY DEF Commit, Abort
<1>5. /\ trans'[t] = [trans[t] EXCEPT !.pc = "end", !.used = @ + 1, !.kind = kind]
      /\ log' = [log EXCEPT ![EntryAt(t)] = EntryOf(t, trans[t].used, {kind}, None)]
  BY <1>2, <1>4 DEF LastEntry
<1>6. /\ trans'[t].pc = "end" /\ trans'[t].used = trans[t].used + 1 /\ trans'[t].kind = kind
      /\ trans'[t].start = trans[t].start /\ trans'[t].size = trans[t].size
      /\ trans'[t].gen = trans[t].gen /\ trans'[t].objs = trans[t].objs
      /\ trans'[t].logged = trans[t].logged
  BY <1>2, <1>5 DEF TransType
<1>7. /\ Written(t) = trans[t].start .. EntryAt(t) - 1
      /\ Written(t)' = trans[t].start .. EntryAt(t)
  BY <1>3, <1>6 DEF Written, Reserved
<1>8. Written(t)' = Written(t) \cup {EntryAt(t)} /\ Last(t)' = EntryAt(t)
  <2>1. Last(t)' = EntryAt(t)
    BY <1>3, <1>6 DEF Last
  <2>2. EntryAt(t) \in Nat /\ trans[t].start <= EntryAt(t) /\ trans[t].start \in Nat
    BY <1>3
  <2>3. QED
    BY <1>7, <2>1, <2>2
<1>9. /\ \A i \in Idx : i # EntryAt(t) => log'[i] = log[i]
      /\ log'[EntryAt(t)].gen = trans[t].gen /\ log'[EntryAt(t)].obj = None
      /\ log'[EntryAt(t)].kind = {kind} \cup (IF trans[t].used = 0 THEN {"start"} ELSE {})
  BY <1>2, <1>3, <1>5 DEF EntryOf
<1>10. ~Active(t)'
  BY <1>6 DEF Active
<1>11. QED
  BY <1>2, <1>3, <1>4, <1>6, <1>7, <1>8, <1>9, <1>10

\* Entries of a transaction that is ending, those that lie in the journal, are its last ones there.
LEMMA OneSide ==
  ASSUME NEW h \in Headers, NEW s \in Nat, NEW n \in Nat, s + n < JSize,
         h.tail <= s \/ s + n <= h.tail, NEW e \in s .. s + n - 1, NEW i \in s .. e, i \in Between(h)
  PROVE  e \in Between(h) /\ Low(h, e) <= i /\ Lap(h, e) = Lap(h, i) /\ e \in Idx /\ i \in Idx
<1>1. /\ h.head \in Nat /\ h.tail \in Nat /\ h.head < JSize /\ h.tail < JSize /\ JSize \in Nat
      /\ i \in Nat /\ e \in Nat /\ s <= i /\ i <= e /\ e < s + n
  BY JournalAssumption DEF Headers, Idx
<1>2. \A j \in Nat : j < JSize =>
        (j \in Between(h) <=>
           IF h.head <= h.tail THEN h.head <= j /\ j < h.tail ELSE h.head <= j \/ j < h.tail)
  BY <1>1 DEF Between
<1>3. i < JSize /\ e < JSize
  BY <1>1
<1>4. IF h.head <= h.tail THEN h.head <= i /\ i < h.tail ELSE h.head <= i \/ i < h.tail
  BY <1>1, <1>2, <1>3
<1>5. /\ IF h.head <= h.tail THEN h.head <= e /\ e < h.tail ELSE h.head <= e \/ e < h.tail
      /\ i < h.tail <=> e < h.tail
      /\ h.head <= e => h.head <= i
  BY <1>1, <1>4
<1>6. e \in Between(h)
  BY <1>1, <1>2, <1>3, <1>5
<1>7. Low(h, e) <= i /\ Lap(h, e) = Lap(h, i)
  BY <1>1, <1>5 DEF Low, Lap
<1>8. QED
  BY <1>1, <1>3, <1>6, <1>7 DEF Idx

\* What it leaves in the journal is a run of entries that ends with its last one.
LEMMA EndCloses ==
  ASSUME InUse, NEW t \in Tasks, Commit(t) \/ Abort(t), NEW h \in {hdr, nhdr},
         NEW i \in Written(t)', Valid(log', h, i),
         \A u \in Tasks : u # t => Stays(u)
  PROVE  \E s, e \in Idx : s <= i /\ i <= e /\ Closed(h, s, e)'
<1>a. PICK e : e = EntryAt(t)
  OBVIOUS
<1>b. PICK b : b = trans[t].start
  OBVIOUS
<1>c. PICK s : s = IF Low(h, e) <= b THEN b ELSE Low(h, e)
  OBVIOUS
<1>1. /\ IInv /\ OwnInv /\ WholeOf(t) /\ Kept(t) /\ Away /\ ~past.broken
  BY StillWhole DEF InUse, AwayInv
<1>2. /\ trans[t].pc = "run" /\ trans'[t].pc = "end" /\ Active(t) /\ ~Active(t)'
      /\ trans'[t].kind \in {"commit", "abort"}
      /\ trans'[t].start = b /\ trans'[t].size = trans[t].size /\ trans'[t].gen = trans[t].gen
      /\ e \in Reserved(t) /\ e \notin Written(t) /\ Reserved(t) \subseteq Idx
      /\ Written(t)' = Written(t) \cup {e} /\ Last(t)' = e
      /\ \A j \in Idx : j # e => log'[j] = log[j]
      /\ log'[e].gen = trans[t].gen
      /\ log'[e].kind = {trans'[t].kind} \cup (IF trans[t].used = 0 THEN {"start"} ELSE {})
      /\ b \in Nat /\ trans[t].size \in Nat /\ trans[t].used \in Nat
      /\ trans[t].used < trans[t].size /\ e = b + trans[t].used
      /\ Written(t) = b .. e - 1
  BY <1>a, <1>b, EndEntry
<1>3. OneWriter /\ LogTells(t) /\ UNCHANGED nlog /\ b + trans[t].size < JSize /\ h \in Headers
  BY <1>1, <1>2, <1>b, Owners, Writing, Typed DEF IInv, EntriesFit
<1>4. e \in Nat /\ b <= e /\ e < b + trans[t].size /\ i \in b .. e /\ i \in Nat /\ e \in Idx
  BY <1>2
<1>5. i \in Between(h) /\ log'[i].gen = Lap(h, i)
  BY DEF Valid
<1>6. \A j \in b .. e : log'[j].gen = trans[t].gen
  <2>1. \A j \in Written(t) : log[j].gen = trans[t].gen
    BY <1>2, <1>3 DEF LogTells
  <2>2. \A j \in b .. e : j \in Written(t) \/ j = e
    BY <1>2, <1>4
  <2>3. \A j \in Written(t) : j \in Idx
    BY <1>2 DEF Written
  <2>4. QED
    BY <1>2, <2>1, <2>2, <2>3
<1>7. e \in Between(h) /\ Low(h, e) <= i /\ Lap(h, e) = Lap(h, i)
  <2>1. h.tail <= b \/ b + trans[t].size <= h.tail
    BY <1>1, <1>2, <1>b DEF WholeOf
  <2>2. e \in b .. b + trans[t].size - 1
    BY <1>2, <1>4
  <2>3. PICK n : n = trans[t].size
    OBVIOUS
  <2>4. /\ b \in Nat /\ n \in Nat /\ b + n < JSize /\ h \in Headers
        /\ i \in b .. e /\ i \in Between(h)
    BY <1>2, <1>3, <1>4, <1>5, <2>3
  <2>5. (h.tail <= b \/ b + n <= h.tail) /\ e \in b .. b + n - 1
    BY <2>1, <2>2, <2>3
  <2>6. QED
    BY <2>4, <2>5, OneSide
<1>8. Low(h, e) \in Idx /\ Low(h, e) <= e
  BY <1>3, <1>4, BetweenIdx
<1>9. /\ s \in Nat /\ s \in Idx /\ s <= i /\ i <= e /\ Low(h, e) <= s /\ b <= s /\ s <= e
      /\ s = Low(h, e) \/ s = b
  <2>1. Low(h, e) \in Nat /\ b \in Idx
    BY <1>2, <1>3, <1>8, JournalAssumption DEF Idx
  <2>2. QED
    BY <1>2, <1>4, <1>7, <1>8, <1>c, <2>1
<1>10. \A j \in s .. e : j \in b .. e /\ j \in Idx /\ Valid(log', h, j)
  <2>1. ASSUME NEW j \in s .. e
        PROVE  j \in b .. e /\ j \in Idx /\ Low(h, e) <= j /\ j <= e
    <3>1. j \in Nat /\ s <= j /\ j <= e
      BY <1>4, <1>9
    <3>2. Low(h, e) \in Nat
      BY <1>8 DEF Idx
    <3>3. b <= j /\ Low(h, e) <= j
      BY <1>2, <1>9, <3>1, <3>2
    <3>4. j < JSize
      BY <1>4, <3>1, JournalAssumption DEF Idx
    <3>5. QED
      BY <1>2, <1>4, <3>1, <3>3, <3>4, JournalAssumption DEF Idx
  <2>2. ASSUME NEW j \in s .. e
        PROVE  Valid(log', h, j)
    <3>1. j \in Between(h) /\ Lap(h, j) = Lap(h, e)
      BY <1>3, <1>7, <2>1, Sides
    <3>2. log'[j].gen = Lap(h, j)
      BY <1>4, <1>5, <1>6, <1>7, <2>1, <3>1
    <3>3. QED
      BY <3>1, <3>2 DEF Valid
  <2>3. QED
    BY <2>1, <2>2
<1>11. /\ \A j \in b .. e - 1 : log'[j].kind = IF j = b THEN {"start"} ELSE {}
       /\ b = e <=> trans[t].used = 0
  <2>1. \A j \in Written(t) : j < b + trans[t].used - 0
    BY <1>2
  <2>2. \A j \in Written(t) : log[j].kind = IF j = b THEN {"start"} ELSE {}
    BY <1>1, <1>2, <1>b, <2>1 DEF Kept, Plain
  <2>3. \A j \in Written(t) : j \in Idx /\ j # e
    BY <1>2 DEF Written
  <2>4. QED
    BY <1>2, <2>2, <2>3
<1>12. /\ "start" \in log'[b].kind
       /\ \A j \in b .. e : "start" \in log'[j].kind => j = b
       /\ \A j \in b .. e - 1 : log'[j].kind \cap {"commit", "abort"} = {}
       /\ log'[e].kind \cap {"commit", "abort"} # {}
  <2>1. \A j \in b .. e : j \in b .. e - 1 \/ j = e
    BY <1>2, <1>4
  <2>2. \A j \in b .. e - 1 : /\ "start" \in log'[j].kind <=> j = b
                              /\ log'[j].kind \cap {"commit", "abort"} = {}
    BY <1>11
  <2>3. /\ "start" \in log'[e].kind <=> e = b
        /\ log'[e].kind \cap {"commit", "abort"} # {}
    BY <1>2, <1>11
  <2>4. b \in b .. e
    BY <1>2, <1>4
  <2>5. QED
    BY <2>1, <2>2, <2>3, <2>4
<1>13. /\ \A j \in s .. e : j \in b .. e
       /\ \A j \in s + 1 .. e : j \in s .. e /\ j # b
       /\ \A j \in s .. e - 1 : j \in s .. e /\ j \in b .. e - 1
       /\ s \in s .. e /\ e \in s .. e
  BY <1>2, <1>4, <1>9
<1>14. Run(log', h, s, e)
  <2>1. EndAt(log', h, e)
    BY <1>10, <1>12, <1>13 DEF EndAt
  <2>2. \A j \in s + 1 .. e : ~StartAt(log', h, j)
    BY <1>12, <1>13 DEF StartAt
  <2>3. \A j \in s .. e - 1 : ~EndAt(log', h, j)
    BY <1>12, <1>13 DEF EndAt
  <2>4. s = Low(h, e) \/ StartAt(log', h, s)
    BY <1>9, <1>10, <1>12, <1>13 DEF StartAt
  <2>5. QED
    BY <1>9, <1>10, <2>1, <2>2, <2>3, <2>4 DEF Run
<1>15. \A j \in s .. e - 1 : nlog'[j] = log'[j]
  <2>1. \A j \in b .. e - 1 : nlog[j] = log[j] /\ j \in Idx /\ j # e
    BY <1>1, <1>2 DEF Kept, Written
  <2>2. QED
    BY <1>2, <1>3, <1>13, <2>1
<1>16. \A u \in Tasks : Active(u)' => Reserved(u)' \cap s .. e = {}
  <2>1. s .. e \subseteq Reserved(t)
    <3>1. \A j \in b .. e : j \in Reserved(t)
      BY <1>2, <1>4, <1>b DEF Reserved
    <3>2. QED
      BY <1>13, <3>1
  <2>2. ASSUME NEW u \in Tasks, Active(u)'
        PROVE  Reserved(u)' \cap s .. e = {}
    <3>1. u # t
      BY <1>2, <2>2
    <3>2. Active(u) /\ Reserved(u)' = Reserved(u)
      BY <2>2, <3>1, SameSets DEF Stays, Same
    <3>3. Reserved(u) \cap Reserved(t) = {}
      BY <1>2, <1>3, <3>1, <3>2 DEF OneWriter
    <3>4. QED
      BY <2>1, <3>2, <3>3
  <2>3. QED
    BY <2>2
<1>17. /\ trans'[t].pc = "end" /\ e = Last(t)' /\ log'[e].gen = trans'[t].gen
       /\ StartAt(log', h, s) => s = trans'[t].start
  BY <1>2, <1>12, <1>13 DEF StartAt
<1>18. Closed(h, s, e)' <=> /\ Run(log', h, s, e)
                            /\ \A j \in s .. e - 1 : nlog'[j] = log'[j]
                            /\ \A u \in Tasks : Active(u)' => Reserved(u)' \cap s .. e = {}
                            /\ \/ nlog'[e] = log'[e]
                               \/ \E u \in Tasks : /\ trans'[u].pc = "end" /\ e = Last(u)'
                                                   /\ log'[e].gen = trans'[u].gen
                                                   /\ StartAt(log', h, s) => s = trans'[u].start
  BY DEF Closed
<1>19. QED
  BY <1>4, <1>9, <1>14, <1>15, <1>16, <1>17, <1>18

\* What the end of a transaction leaves of its objects.
LEMMA EndedObjs ==
  ASSUME InUse, NEW t \in Tasks, Commit(t) \/ Abort(t)
  PROVE  /\ \A o \in Objs \ trans[t].objs : mem'[o] = mem[o] /\ nmem'[o] = nmem[o]
         /\ \A o \in trans[t].objs : nmem'[o] = mem'[o]
         /\ Commit(t) => trans[t].logged = trans[t].objs
<1>1. IInv /\ OwnInv /\ ~past.broken /\ Away /\ Kept(t)
  BY StillWhole DEF InUse, AwayInv
<1>2. phase = "mounted" /\ trans[t].pc = "run" /\ Active(t)
  BY DEF Commit, Abort, Running, Active
<1>3. LogTells(t) /\ trans[t].logged \subseteq trans[t].objs /\ trans[t].objs \subseteq Objs
  BY <1>1, Owners, Typed DEF Carried
<1>4. CASE Commit(t)
  <2>1. /\ mem' = mem /\ nmem' = CommittedData(t) /\ trans[t].logged = trans[t].objs
    BY <1>4 DEF Commit
  <2>2. \A o \in Objs : nmem'[o] = IF o \in trans[t].objs THEN mem[o] ELSE nmem[o]
    BY <2>1 DEF CommittedData
  <2>3. QED
    BY <1>3, <2>1, <2>2
<1>5. CASE Abort(t)
  <2>1. /\ mem' = Undone(Written(t), trans[t].gen)
        /\ nmem' = [o \in Objs |-> IF o \in trans[t].logged THEN mem'[o] ELSE nmem[o]]
    BY <1>5 DEF Abort
  <2>2. \A o \in Objs : mem'[o] = IF o \in trans[t].objs THEN past.settled[o] ELSE mem[o]
    BY <1>1, <1>2, <2>1, UndoneOwn
  <2>3. ASSUME NEW o \in trans[t].objs, o \notin trans[t].logged
        PROVE  nmem[o] = past.settled[o]
    <3>1. Fresh(t, o) \/ \E i \in Written(t) : First(t, o, i)
      BY <1>1, <1>2, <2>3 DEF Kept
    <3>2. ~\E i \in Written(t) : First(t, o, i)
      BY <1>2, <1>3, <2>3 DEF First, LeastFor, LogTells
    <3>3. QED
      BY <3>1, <3>2 DEF Fresh
  <2>4. \A o \in trans[t].objs : nmem'[o] = mem'[o]
    BY <1>3, <2>1, <2>2, <2>3
  <2>5. ~Commit(t) \/ trans[t].logged = trans[t].objs
    BY DEF Commit
  <2>6. QED
    BY <1>3, <2>1, <2>2, <2>4, <2>5
<1>6. QED
  BY <1>4, <1>5

\* With its last entry a transaction is complete.
LEMMA EndCompletes ==
  ASSUME InUse, NEW t \in Tasks, Commit(t) \/ Abort(t)
  PROVE  Complete(t)'
<1>1. /\ IInv /\ OwnInv /\ Kept(t) /\ Away /\ ~past.broken
  BY StillWhole DEF InUse, AwayInv
<1>2. /\ trans[t].pc = "run" /\ trans'[t].pc = "end" /\ Active(t) /\ ~Active(t)'
      /\ trans'[t].used = trans[t].used + 1 /\ trans'[t].logged = trans[t].logged
      /\ trans'[t].start = trans[t].start /\ trans'[t].size = trans[t].size
      /\ trans'[t].gen = trans[t].gen /\ trans'[t].objs = trans[t].objs
      /\ EntryAt(t) \in Reserved(t) /\ EntryAt(t) \notin Written(t) /\ Reserved(t) \subseteq Idx
      /\ Written(t)' = Written(t) \cup {EntryAt(t)} /\ Last(t)' = EntryAt(t)
      /\ \A i \in Idx : i # EntryAt(t) => log'[i] = log[i]
      /\ log'[EntryAt(t)].gen = trans[t].gen /\ log'[EntryAt(t)].obj = None
      /\ log'[EntryAt(t)].kind =
              {trans'[t].kind} \cup (IF trans[t].used = 0 THEN {"start"} ELSE {})
      /\ trans[t].start \in Nat /\ trans[t].size \in Nat /\ trans[t].used \in Nat
      /\ EntryAt(t) = trans[t].start + trans[t].used
      /\ Written(t) = trans[t].start .. EntryAt(t) - 1
  BY EndEntry
<1>3. /\ OneWriter /\ LogTells(t) /\ UNCHANGED <<nlog, past>> /\ trans[t].logged \subseteq Objs
      /\ \A u \in Tasks : u # t => trans'[u] = trans[u]
  BY <1>1, Owners, Writing, Typed
<1>4. \A i \in Written(t) : i \in Idx /\ i # EntryAt(t) /\ log'[i] = log[i] /\ i < EntryAt(t)
  BY <1>2 DEF Written
<1>5. Plain(t)'
  <2>1. \A i \in Written(t) : i < trans[t].start + trans[t].used - 0
    BY <1>2, <1>4
  <2>2. \A i \in Written(t) : log[i].kind = IF i = trans[t].start THEN {"start"} ELSE {}
    BY <1>1, <1>2, <2>1 DEF Kept, Plain
  <2>3. trans'[t].start + trans'[t].used - 1 = EntryAt(t)
    BY <1>2
  <2>4. \A i \in Written(t)' : i < EntryAt(t) => i \in Written(t)
    BY <1>2
  <2>5. \A i \in Written(t)' : i < trans'[t].start + trans'[t].used - 1 =>
          log'[i].kind = IF i = trans'[t].start THEN {"start"} ELSE {}
    BY <1>2, <1>4, <2>2, <2>3, <2>4
  <2>6. QED
    BY <1>2, <2>5 DEF Plain
<1>6. \A i \in Written(t)' : log'[i].gen = trans'[t].gen
  BY <1>2, <1>3, <1>4 DEF LogTells
<1>7. \A i \in Written(t)' \ {Last(t)'} : log'[i].obj \in trans'[t].logged /\ nlog'[i] = log'[i]
  <2>1. \A i \in Written(t) : log[i].obj \in trans[t].logged /\ nlog[i] = log[i]
    BY <1>1, <1>2, <1>3 DEF LogTells, Kept
  <2>2. QED
    BY <1>2, <1>3, <1>4, <2>1
<1>8. trans'[t].used = 1 <=> trans[t].used = 0
  BY <1>2
<1>9. ASSUME NEW o \in trans'[t].logged
      PROVE  \E i \in Written(t)' : First(t, o, i)'
  <2>1. PICK i \in Written(t) :
           /\ log[i].obj = o /\ log[i].old = past.settled[o]
           /\ \A j \in Written(t) : log[j].obj = o => i <= j
    BY <1>2, <1>3, <1>9 DEF LogTells
  <2>2. o # None
    BY <1>2, <1>3, <1>9, JournalAssumption
  <2>3. \A j \in Written(t)' : log'[j].obj = o => i <= j
    BY <1>2, <1>4, <2>1, <2>2
  <2>4. First(t, o, i)'
    BY <1>2, <1>3, <1>4, <2>1, <2>3 DEF First, LeastFor
  <2>5. QED
    BY <1>2, <2>1, <2>4
<1>10. \A u \in Tasks : u # t /\ Active(u)' => Reserved(u)' \cap Written(t)' = {}
  <2>1. Written(t)' \subseteq Reserved(t)
    BY <1>2 DEF Written
  <2>2. \A u \in Tasks : u # t => Active(u)' = Active(u) /\ Reserved(u)' = Reserved(u)
    BY <1>3 DEF Active, Reserved
  <2>3. QED
    BY <1>2, <1>3, <2>1, <2>2 DEF OneWriter
<1>11. QED
  BY <1>2, <1>5, <1>6, <1>7, <1>8, <1>9, <1>10 DEF Complete

\* The end of a transaction, but for the fence.
LEMMA EndKeeps ==
  ASSUME InUse, NEW t \in Tasks, Commit(t) \/ Abort(t)
  PROVE  AwayInv'
<1>1. /\ IInv /\ OwnInv /\ Away /\ Ages /\ AgesOf(t) /\ WholeOf(t) /\ Kept(t)
  BY DEF InUse, AwayInv
<1>2. /\ trans[t].pc = "run" /\ trans'[t].pc = "end" /\ Active(t) /\ ~Active(t)'
      /\ trans'[t].used = trans[t].used + 1 /\ trans'[t].logged = trans[t].logged
      /\ trans'[t].kind = IF Commit(t) THEN "commit" ELSE "abort"
      /\ trans'[t].start = trans[t].start /\ trans'[t].size = trans[t].size
      /\ trans'[t].gen = trans[t].gen /\ trans'[t].objs = trans[t].objs
      /\ trans[t].used \in Nat
  BY EndEntry
<1>3. UNCHANGED <<hdr, nhdr>>
  BY <1>1, Writing
<1>4. /\ \A o \in Objs \ trans[t].objs : mem'[o] = mem[o] /\ nmem'[o] = nmem[o]
      /\ \A o \in trans[t].objs : nmem'[o] = mem'[o]
      /\ Commit(t) => trans[t].logged = trans[t].objs
  BY EndedObjs
<1>5. /\ \A u \in Tasks : u # t => Stays(u) /\ AgesOf(u)' /\ WholeOf(u)' /\ Kept(u)' /\ Ended(u)'
      /\ Unowned' /\ NoDoubt' /\ Unwritten' /\ phase' = "mounted"
  BY <1>4, WritingOthers
<1>6. \A h \in {hdr, nhdr} : Accounted(h)'
  <2>1. ASSUME NEW h \in {hdr, nhdr}, NEW i \in Idx, Valid(log', h, i)
        PROVE  \/ \E u \in Tasks : Active(u)' /\ i \in Written(u)'
               \/ \E s, e \in Idx : s <= i /\ i <= e /\ Closed(h, s, e)'
    <3>1. CASE i \in Written(t)'
      BY <1>5, <2>1, <3>1, EndCloses
    <3>2. CASE i \notin Written(t)'
      BY <1>5, <2>1, <3>2, WritingAccounts
    <3>3. QED
      BY <3>1, <3>2
  <2>2. QED
    BY <2>1 DEF Accounted
<1>7. Accounted(hdr)' /\ Accounted(nhdr)'
  <2>1. \A h : h \in {hdr', nhdr'} => Accounted(h)'
    BY <1>3, <1>6
  <2>2. QED
    BY <2>1
<1>8. AgesOf(t)'
  <2>1. Reserved(t)' = Reserved(t) /\ Going(t)
    BY <1>2 DEF Reserved, Going
  <2>2. \A i \in Reserved(t)' : trans'[t].gen <= Lap(hdr', i) /\ trans'[t].gen <= Lap(nhdr', i)
    BY <1>1, <1>2, <1>3, <2>1 DEF AgesOf
  <2>3. QED
    BY <1>2, <2>2 DEF AgesOf, Live
<1>9. WholeOf(t)'
  BY <1>2 DEF WholeOf
<1>10. Kept(t)'
  BY <1>2 DEF Kept
<1>11. Ended(t)'
  <2>1. Complete(t)'
    BY EndCompletes
  <2>2. ASSUME NEW h \in {hdr, nhdr}, trans[t].start \in Between(h)
        PROVE  Inside(trans[t], h.head, h.tail)
    <3>1. h.tail <= trans[t].start \/ trans[t].start + trans[t].size <= h.tail
      BY <1>1, <1>2 DEF WholeOf
    <3>2. /\ h.head \in Nat /\ h.tail \in Nat /\ h.head < JSize /\ h.tail < JSize /\ JSize \in Nat
          /\ trans[t].start \in Nat /\ trans[t].size \in Nat
      <4>1. h \in Headers /\ trans[t].start \in Nat /\ trans[t].size \in Nat
        BY <1>1, Typed
      <4>2. QED
        BY <4>1, JournalAssumption DEF Headers, Idx
    <3>3. IF h.head <= h.tail THEN h.head <= trans[t].start /\ trans[t].start < h.tail
          ELSE h.head <= trans[t].start \/ trans[t].start < h.tail
      BY <2>2, <3>2 DEF Between
    <3>4. QED
      BY <3>1, <3>2, <3>3 DEF Inside
  <2>3. \A h \in {hdr', nhdr'} : trans'[t].start \in Between(h) /\ Lap(h, trans'[t].start) = trans'[t].gen
          => Inside(trans'[t], h.head, h.tail)
    <3>1. \A h \in {hdr', nhdr'} : Inside(trans'[t], h.head, h.tail) <=> Inside(trans[t], h.head, h.tail)
      BY <1>2 DEF Inside
    <3>2. QED
      BY <1>2, <1>3, <2>2, <3>1
  <2>4. /\ trans'[t].used > 0 /\ \A o \in trans'[t].objs : nmem'[o] = mem'[o]
        /\ trans'[t].kind = "commit" => trans'[t].logged = trans'[t].objs
    BY <1>2, <1>4
  <2>5. QED
    BY <2>1, <2>3, <2>4 DEF Ended, InLap
<1>12. QED
  BY <1>5, <1>7, <1>8, <1>9, <1>10, <1>11 DEF AwayInv

\* All steps of a volume in use, but for the failure.
LEMMA AwayKeeps ==
  ASSUME InUse, ~Mount
  PROVE  AwayInv'
<1>1. [Next]_vars /\ Away /\ ~Crash
  BY DEF InUse
<1>2. ASSUME NEW t \in Tasks, TaskStep(t)
      PROVE  AwayInv'
  BY <1>2, ReservesKeeps, AddKeeps, FenceKeeps, StoreKeeps, EndKeeps, LastFenceKeeps DEF TaskStep
<1>3. CASE Cleaning \/ Unmount \/ WriteBackHeader \/ UNCHANGED vars
  BY <1>3, CleanerKeeps
<1>4. ~Recovery
  BY <1>1 DEF Recovery, RecoverStep, ForwardInvalidate, ForwardGen, ForwardHead, ForwardFence, Mounted,
              Away
<1>5. QED
  BY <1>1, <1>2, <1>3, <1>4 DEF Next

(***************************************************************************)
(* What a failure leaves of a volume in use.                               *)
(***************************************************************************)
\* A volume in use, between two steps.
Sound == IInv /\ OwnInv /\ Ages /\ AwayInv /\ Away /\ ~past.broken
\* One of the logs that a failure may leave.
Left(L) == \A i \in Idx : L[i] \in {log[i], nlog[i]}
\* The failure has taken the last entry of t.
Lost(t, L) == trans[t].pc = "end" /\ InLap(t, nhdr) /\ L[Last(t)] # log[Last(t)]
\* The entries of t but for its end.
Body(t) == IF Active(t) THEN Written(t) ELSE Written(t) \ {Last(t)}
\* A transaction that recovery is to undo, from its start.
Opens(t, L) == trans[t].start \in Body(t) /\ (Active(t) \/ Lost(t, L))
\* What the objects are to be after recovery.
Settles(T, L) ==
  \A o \in Objs :
    T[o] = IF \E t \in Tasks : /\ trans[t].pc = "end" /\ trans[t].kind = "commit"
                               /\ o \in trans[t].objs /\ ~Lost(t, L)
           THEN mem[o] ELSE past.settled[o]

\* An entry that is of the lap it lies in is the one that the CPUs see.
LEMMA ValidIsLast ==
  ASSUME Sound, NEW L, Left(L), NEW i \in Idx, Valid(L, nhdr, i)
  PROVE  L[i] = log[i] /\ Valid(log, nhdr, i)
<1>1. /\ log[i].gen <= Lap(nhdr, i) /\ (nlog[i] = log[i] \/ nlog[i].gen < log[i].gen)
      /\ L[i] \in {log[i], nlog[i]}
  BY DEF Sound, Ages, Left
<1>2. log[i].gen \in Nat /\ nlog[i].gen \in Nat /\ Lap(nhdr, i) \in Nat
  BY Typed DEF Sound
<1>3. L[i].gen = Lap(nhdr, i)
  BY DEF Valid
<1>4. L[i] = log[i]
  BY <1>1, <1>2, <1>3
<1>5. QED
  BY <1>4 DEF Valid

\* The entries of a reservation that lies between head and tail.
LEMMA InsideAll ==
  ASSUME NEW h \in Headers, NEW r, r.start \in Nat, r.size \in Nat, r.start + r.size < JSize,
         Inside(r, h.head, h.tail), NEW j \in r.start .. r.start + r.size - 1
  PROVE  /\ j \in Between(h) /\ Lap(h, j) = Lap(h, r.start) /\ Low(h, j) <= r.start /\ j \in Idx
<1>1. /\ h.head \in Nat /\ h.tail \in Nat /\ h.head < JSize /\ h.tail < JSize /\ JSize \in Nat
      /\ j \in Nat /\ r.start <= j /\ j < r.start + r.size
  BY JournalAssumption DEF Headers, Idx
<1>2. IF h.head <= h.tail THEN h.head <= r.start /\ r.start + r.size <= h.tail
      ELSE h.head <= r.start \/ r.start + r.size <= h.tail
  BY DEF Inside
<1>3. j < JSize
  BY <1>1
<1>4. IF h.head <= h.tail THEN h.head <= j /\ j < h.tail ELSE h.head <= j \/ j < h.tail
  BY <1>1, <1>2
<1>5. j \in Between(h)
  BY <1>1, <1>3, <1>4 DEF Between
<1>6. (j < h.tail <=> r.start < h.tail) /\ (h.head <= j => h.head <= r.start)
  BY <1>1, <1>2
<1>7. QED
  BY <1>1, <1>3, <1>5, <1>6 DEF Lap, Low, Idx

\* What is to be known of the entries that are not an end.
LEMMA BodyIs ==
  ASSUME Sound, NEW L, NEW t \in Tasks, Active(t) \/ Lost(t, L)
  PROVE  /\ Body(t) \subseteq Written(t) /\ Written(t) \subseteq Reserved(t) /\ Reserved(t) \subseteq Idx
         /\ \A i \in Written(t) : log[i].gen = trans[t].gen /\ trans[t].start <= i
         /\ \A i \in Body(t) : /\ log[i].obj \in trans[t].logged
                               /\ log[i].kind = IF i = trans[t].start THEN {"start"} ELSE {}
         /\ \A i \in Idx, j \in Body(t) : trans[t].start <= i /\ i <= j => i \in Body(t)
         /\ trans[t].logged \subseteq trans[t].objs /\ trans[t].objs \subseteq Objs
<1>1. /\ IInv /\ OwnInv /\ Away /\ ~past.broken /\ Kept(t) /\ Ended(t)
  BY DEF Sound, AwayInv
<1>2. /\ trans[t].start \in Nat /\ trans[t].size \in Nat /\ trans[t].used \in Nat
      /\ Written(t) \subseteq Reserved(t) /\ Reserved(t) \subseteq Idx
      /\ trans[t].objs \subseteq Objs /\ trans[t].logged \subseteq trans[t].objs
  BY <1>1, Owners, Typed DEF Lost, Going, Active, Carried
<1>3. \A i \in Written(t) : trans[t].start <= i /\ i < trans[t].start + trans[t].used /\ i \in Nat
  BY <1>2 DEF Written, Reserved
<1>4. CASE Active(t)
  <2>1. \A i \in Written(t) : i < trans[t].start + trans[t].used - 0
    BY <1>2, <1>3
  <2>2. \A i \in Written(t) : log[i].kind = IF i = trans[t].start THEN {"start"} ELSE {}
    BY <1>1, <1>4, <2>1 DEF Kept, Plain
  <2>3. \A i \in Written(t) : log[i].gen = trans[t].gen /\ log[i].obj \in trans[t].logged
    BY <1>1, <1>4, Owners DEF LogTells
  <2>4. \A i \in Idx, j \in Written(t) : trans[t].start <= i /\ i <= j => i \in Written(t)
    BY <1>2, <1>3 DEF Written, Reserved, Idx
  <2>5. Body(t) = Written(t)
    BY <1>4 DEF Body
  <2>6. QED
    BY <1>2, <1>3, <2>2, <2>3, <2>4, <2>5
<1>5. CASE ~Active(t)
  <2>1. Lost(t, L) /\ trans[t].pc = "end" /\ Complete(t) /\ trans[t].used > 0
    BY <1>1, <1>5 DEF Lost, Ended
  <2>2. Body(t) = Written(t) \ {Last(t)} /\ Last(t) = trans[t].start + trans[t].used - 1
    BY <1>5 DEF Body, Last
  <2>3. \A i \in Body(t) : i \in Nat /\ i < Last(t) /\ i < trans[t].start + trans[t].used - 1
    BY <1>2, <1>3, <2>1, <2>2
  <2>4. \A i \in Body(t) : log[i].kind = IF i = trans[t].start THEN {"start"} ELSE {}
    BY <1>5, <2>1, <2>2, <2>3 DEF Complete, Plain
  <2>5. \A i \in Idx, j \in Body(t) : trans[t].start <= i /\ i <= j => i \in Body(t)
    <3>1. \A i \in Idx, j \in Body(t) : trans[t].start <= i /\ i <= j => i \in Written(t) /\ i # Last(t)
      BY <1>2, <2>1, <2>2, <2>3 DEF Written, Reserved, Idx
    <3>2. QED
      BY <2>2, <3>1
  <2>6. QED
    BY <1>2, <1>3, <2>1, <2>2, <2>4, <2>5 DEF Complete
<1>6. QED
  BY <1>4, <1>5

\* A run that has closed as a whole is closed in what a failure leaves, or its end is lost.
LEMMA ClosedInLeft ==
  ASSUME Sound, NEW L, Left(L), NEW s \in Idx, NEW e \in Idx, Closed(nhdr, s, e)
  PROVE  /\ \A j \in s .. e - 1 : L[j] = log[j]
         /\ s <= e /\ Low(nhdr, e) <= s /\ e \in Between(nhdr)
         /\ \A j \in s .. e : Valid(log, nhdr, j) /\ j \in Idx
         /\ \A j \in s + 1 .. e : ~StartAt(log, nhdr, j)
         /\ \A j \in s .. e - 1 : ~EndAt(log, nhdr, j)
         /\ EndAt(log, nhdr, e) /\ (s = Low(nhdr, e) \/ StartAt(log, nhdr, s))
         /\ L[e] # log[e] /\ StartAt(log, nhdr, s) =>
              \E t \in Tasks : Lost(t, L) /\ e = Last(t) /\ s = trans[t].start
<1>1. /\ Low(nhdr, e) <= s /\ s <= e /\ (s = Low(nhdr, e) \/ StartAt(log, nhdr, s))
      /\ EndAt(log, nhdr, e) /\ \A j \in s .. e : Valid(log, nhdr, j)
      /\ \A j \in s + 1 .. e : ~StartAt(log, nhdr, j)
      /\ \A j \in s .. e - 1 : ~EndAt(log, nhdr, j)
      /\ \A j \in s .. e - 1 : nlog[j] = log[j]
      /\ \/ nlog[e] = log[e]
         \/ \E t \in Tasks : /\ trans[t].pc = "end" /\ e = Last(t) /\ log[e].gen = trans[t].gen
                             /\ StartAt(log, nhdr, s) => s = trans[t].start
  BY DEF Closed, Run
<1>2. /\ nhdr \in Headers /\ s .. e \subseteq Idx /\ s .. e - 1 \subseteq Idx /\ s \in s .. e /\ e \in s .. e
  BY <1>1, Typed, JournalAssumption DEF Sound, Idx
<1>3. \A j \in s .. e - 1 : L[j] = log[j]
  BY <1>1, <1>2 DEF Left
<1>4. e \in Between(nhdr) /\ Lap(nhdr, e) = log[e].gen
  BY <1>1, <1>2 DEF Valid
<1>5. ASSUME L[e] # log[e], StartAt(log, nhdr, s)
      PROVE  \E t \in Tasks : Lost(t, L) /\ e = Last(t) /\ s = trans[t].start
  <2>1. PICK t \in Tasks : /\ trans[t].pc = "end" /\ e = Last(t) /\ log[e].gen = trans[t].gen
                           /\ s = trans[t].start
    BY <1>1, <1>5 DEF Left
  <2>2. s \in Between(nhdr) /\ Lap(nhdr, s) = Lap(nhdr, e)
    BY <1>1, <1>2, <1>4, Sides
  <2>3. InLap(t, nhdr)
    BY <1>4, <2>1, <2>2 DEF InLap
  <2>4. QED
    BY <1>5, <2>1, <2>3 DEF Lost
<1>6. QED
  BY <1>1, <1>2, <1>3, <1>4, <1>5

\* What has been left open is a transaction's that has not ended, or whose end is lost.
LEMMA OpenIsOwned ==
  ASSUME Sound, NEW L, Left(L), NEW b \in Idx, LeftOpen(L, nhdr, b)
  PROVE  \E t \in Tasks : b = trans[t].start /\ Opens(t, L)
<1>1. StartAt(L, nhdr, b) /\ \A i \in Reach(L, nhdr, b) : ~EndAt(L, nhdr, i)
  BY DEF LeftOpen
<1>2. L[b] = log[b] /\ Valid(log, nhdr, b) /\ StartAt(log, nhdr, b)
  BY <1>1, ValidIsLast DEF StartAt
<1>3. CASE \E t \in Tasks : Active(t) /\ b \in Written(t)
  <2>1. PICK t \in Tasks : Active(t) /\ b \in Written(t)
    BY <1>3
  <2>2. Body(t) = Written(t)
    BY <2>1 DEF Body
  <2>3. b = trans[t].start
    <3>1. log[b].kind = IF b = trans[t].start THEN {"start"} ELSE {}
      BY <2>1, <2>2, BodyIs
    <3>2. QED
      BY <1>2, <3>1 DEF StartAt
  <2>4. QED
    BY <2>1, <2>2, <2>3 DEF Opens
<1>4. ASSUME NEW s \in Idx, NEW e \in Idx, s <= b, b <= e, Closed(nhdr, s, e)
      PROVE  \E t \in Tasks : b = trans[t].start /\ Opens(t, L)
  <2>1. /\ \A j \in s .. e - 1 : L[j] = log[j]
        /\ s <= e /\ Low(nhdr, e) <= s /\ e \in Between(nhdr)
        /\ \A j \in s .. e : Valid(log, nhdr, j) /\ j \in Idx
        /\ \A j \in s + 1 .. e : ~StartAt(log, nhdr, j)
        /\ \A j \in s .. e - 1 : ~EndAt(log, nhdr, j)
        /\ EndAt(log, nhdr, e) /\ (s = Low(nhdr, e) \/ StartAt(log, nhdr, s))
        /\ L[e] # log[e] /\ StartAt(log, nhdr, s) =>
              \E t \in Tasks : Lost(t, L) /\ e = Last(t) /\ s = trans[t].start
    BY <1>4, ClosedInLeft
  <2>2. s \in Nat /\ b \in Nat /\ e \in Nat
    BY DEF Idx
  <2>3. s = b
    <3>1. b \notin s + 1 .. e
      BY <1>2, <2>1
    <3>2. QED
      BY <1>4, <2>2, <3>1
  <2>4. L[e] # log[e]
    <3>1. SUFFICES ASSUME L[e] = log[e]
                   PROVE  FALSE
      OBVIOUS
    <3>2. EndAt(L, nhdr, e) /\ Valid(L, nhdr, e)
      BY <2>1, <3>1 DEF EndAt, Valid
    <3>3. e \in Reach(L, nhdr, b)
      <4>1. \A j \in b + 1 .. e : ~StartAt(L, nhdr, j)
        <5>1. ASSUME NEW j \in b + 1 .. e, StartAt(L, nhdr, j)
              PROVE  FALSE
          <6>1. j \in s .. e /\ j \in s + 1 .. e
            BY <2>2, <2>3, <5>1
          <6>2. StartAt(log, nhdr, j)
            BY <2>1, <5>1, <6>1, ValidIsLast DEF StartAt
          <6>3. QED
            BY <2>1, <6>1, <6>2
        <5>2. QED
          BY <5>1
      <4>2. \A j \in b .. e - 1 : ~EndAt(L, nhdr, j)
        <5>1. ASSUME NEW j \in b .. e - 1, EndAt(L, nhdr, j)
              PROVE  FALSE
          <6>1. j \in s .. e /\ j \in s .. e - 1
            BY <2>2, <2>3, <5>1
          <6>2. EndAt(log, nhdr, j)
            BY <2>1, <5>1, <6>1, ValidIsLast DEF EndAt
          <6>3. QED
            BY <2>1, <6>1, <6>2
        <5>2. QED
          BY <5>1
      <4>3. QED
        BY <1>4, <2>1, <2>3, <3>2, <4>1, <4>2 DEF Reach
    <3>4. QED
      BY <1>1, <3>2, <3>3
  <2>5. PICK t \in Tasks : Lost(t, L) /\ e = Last(t) /\ s = trans[t].start
    BY <1>2, <2>1, <2>3, <2>4
  <2>6. b # e
    BY <1>2, <2>4
  <2>7. b \in Body(t)
    <3>1. trans[t].pc = "end" /\ IInv /\ Ended(t) /\ ~Active(t)
      BY <2>5 DEF Lost, Active, Sound, AwayInv
    <3>2. Last(t) \in Written(t) /\ Written(t) \subseteq Idx
      BY <3>1, LastWritten DEF Ended
    <3>3. trans[t].start \in Written(t)
      BY <3>1, <3>2, StartWritten DEF Going
    <3>4. QED
      BY <2>3, <2>5, <2>6, <3>1, <3>3 DEF Body
  <2>8. QED
    BY <2>3, <2>5, <2>7 DEF Opens
<1>5. QED
  BY <1>2, <1>3, <1>4 DEF Sound, AwayInv, Accounted

\* Whose entries recovery takes for those of a transaction that it is to undo: besides its
\* own those of one whose first entry the failure has taken.
LEMMA ReachIs ==
  ASSUME Sound, NEW L, Left(L), NEW t \in Tasks, Opens(t, L), NEW i \in Reach(L, nhdr, trans[t].start)
  PROVE  /\ ~EndAt(L, nhdr, i) /\ L[i] = log[i]
         /\ \/ i \in Body(t)
            \/ \E u \in Tasks : /\ u # t /\ Active(u) /\ i \in Written(u)
                                /\ L[trans[u].start] # log[trans[u].start]
<1> DEFINE b == trans[t].start
<1>1. /\ i \in Idx /\ b <= i /\ Low(nhdr, i) <= b /\ Valid(L, nhdr, i)
      /\ \A j \in b + 1 .. i : ~StartAt(L, nhdr, j)
      /\ \A j \in b .. i - 1 : ~EndAt(L, nhdr, j)
  BY DEF Reach
<1>2. L[i] = log[i] /\ Valid(log, nhdr, i) /\ i \in Between(nhdr)
  BY <1>1, ValidIsLast DEF Valid
<1>3. /\ b \in Body(t) /\ (Active(t) \/ Lost(t, L)) /\ IInv /\ OwnInv /\ Away /\ ~past.broken
      /\ nhdr \in Headers /\ Idx \subseteq Nat /\ Accounted(nhdr) /\ Ended(t)
  BY Typed DEF Opens, Sound, AwayInv
<1>4. \A u \in Tasks : Active(u) \/ Lost(u, L) =>
        /\ Body(u) \subseteq Written(u) /\ Written(u) \subseteq Reserved(u) /\ Reserved(u) \subseteq Idx
        /\ \A j \in Written(u) : log[j].gen = trans[u].gen /\ trans[u].start <= j
        /\ \A j \in Body(u) : log[j].kind = IF j = trans[u].start THEN {"start"} ELSE {}
        /\ \A k \in Idx, j \in Body(u) : trans[u].start <= k /\ k <= j => k \in Body(u)
  BY BodyIs
<1>5. ASSUME NEW u \in Tasks, Active(u) \/ Lost(u, L), i \in Body(u)
      PROVE  ~EndAt(L, nhdr, i)
  BY <1>2, <1>4, <1>5 DEF EndAt
<1>6. b \in Written(t) /\ b \in Reserved(t) /\ b \in Idx /\ b \in Nat /\ i \in Nat
  BY <1>1, <1>3, <1>4
<1>7. CASE i = b
  BY <1>2, <1>3, <1>5, <1>7
<1>8. ASSUME NEW u \in Tasks, Active(u), i \in Written(u), u # t, b < i
      PROVE  ~EndAt(L, nhdr, i) /\ L[trans[u].start] # log[trans[u].start]
  <2>1. Body(u) = Written(u)
    BY <1>8 DEF Body
  <2>2. b \notin Reserved(u)
    <3>1. CASE Active(t)
      BY <1>3, <1>6, <1>8, <3>1, Owners DEF OneWriter
    <3>2. CASE Lost(t, L)
      <4>1. Complete(t)
        BY <1>3, <3>2 DEF Lost, Ended
      <4>2. QED
        BY <1>6, <1>8, <4>1 DEF Complete
    <3>3. QED
      BY <1>3, <3>1, <3>2
  <2>3. trans[u].start \in Written(u) /\ trans[u].start <= i
    BY <1>3, <1>8, StartWritten DEF Going, Active
  <2>4. trans[u].start \in Idx /\ trans[u].start \in Nat
    BY <1>4, <1>8, <2>3, <1>3
  <2>5. b < trans[u].start
    <3>1. SUFFICES ASSUME trans[u].start <= b
                   PROVE  FALSE
      BY <1>6, <2>4
    <3>2. b \in Body(u)
      BY <1>4, <1>6, <1>8, <2>1, <3>1
    <3>3. QED
      BY <1>4, <1>8, <2>1, <2>2, <3>2
  <2>6. StartAt(log, nhdr, trans[u].start)
    <3>1. /\ trans[u].start \in Between(nhdr) /\ Lap(nhdr, trans[u].start) = Lap(nhdr, i)
      <4>1. Low(nhdr, i) \in Nat
        BY <1>1, <1>3, BetweenIdx
      <4>2. Low(nhdr, i) <= trans[u].start
        BY <1>1, <1>6, <2>4, <2>5, <4>1
      <4>3. QED
        BY <1>2, <1>3, <2>3, <2>4, <4>2, Sides
    <3>2. log[trans[u].start].gen = log[i].gen
      BY <1>4, <1>8, <2>3
    <3>3. log[trans[u].start].kind = {"start"}
      BY <1>4, <1>8, <2>1, <2>3
    <3>4. QED
      BY <1>2, <3>1, <3>2, <3>3 DEF Valid, StartAt
  <2>7. L[trans[u].start] # log[trans[u].start]
    <3>1. trans[u].start \in b + 1 .. i
      BY <1>6, <2>3, <2>4, <2>5
    <3>2. ~StartAt(L, nhdr, trans[u].start)
      BY <1>1, <3>1
    <3>3. QED
      BY <2>6, <3>2 DEF StartAt, Valid
  <2>8. QED
    BY <1>5, <1>8, <2>1, <2>7
<1>9. ASSUME NEW s \in Idx, NEW e \in Idx, s <= i, i <= e, Closed(nhdr, s, e), b < i
      PROVE  i \in Body(t)
  <2>1. /\ \A j \in s .. e - 1 : L[j] = log[j]
        /\ s <= e /\ Low(nhdr, e) <= s /\ e \in Between(nhdr)
        /\ \A j \in s .. e : Valid(log, nhdr, j) /\ j \in Idx
        /\ \A j \in s + 1 .. e : ~StartAt(log, nhdr, j)
        /\ \A j \in s .. e - 1 : ~EndAt(log, nhdr, j)
        /\ EndAt(log, nhdr, e) /\ (s = Low(nhdr, e) \/ StartAt(log, nhdr, s))
    BY <1>9, ClosedInLeft
  <2>2. s \in Nat /\ e \in Nat
    BY <1>3
  <2>3. CASE s <= b
    <3>1. b \in s .. e
      BY <1>6, <1>9, <2>2, <2>3
    <3>2. ~Active(t)
      BY <1>6, <1>9, <3>1 DEF Closed
    <3>3. /\ Lost(t, L) /\ trans[t].pc = "end" /\ trans[t].used > 0
          /\ InLap(t, nhdr) /\ L[Last(t)] # log[Last(t)]
          /\ Inside(trans[t], nhdr.head, nhdr.tail) /\ Complete(t)
      BY <1>3, <3>2 DEF Lost, Ended
    <3>4. Last(t) \in Written(t) /\ \A j \in Written(t) : j <= Last(t)
      BY <1>3, <3>3, LastWritten
    <3>5. /\ trans[t].start \in Nat /\ trans[t].size \in Nat /\ trans[t].used \in Nat
          /\ trans[t].start + trans[t].size < JSize
      BY <1>3, <3>3, Typed DEF IInv, EntriesFit
    <3>6. Last(t) \in trans[t].start .. trans[t].start + trans[t].size - 1 /\ Last(t) \in Nat /\ Last(t) \in Idx
      BY <1>3, <1>4, <3>3, <3>4 DEF Reserved
    <3>7. Last(t) \in Between(nhdr) /\ Lap(nhdr, Last(t)) = Lap(nhdr, b)
      <4>1. trans[t].start + trans[t].size < JSize /\ Inside(trans[t], nhdr.head, nhdr.tail)
        BY <3>3, <3>5
      <4>2. QED
        BY <1>3, <3>5, <3>6, <4>1, InsideAll
    <3>8. log[Last(t)].gen = Lap(nhdr, Last(t))
      BY <3>3, <3>4, <3>7 DEF Complete, InLap
    <3>9. EndAt(log, nhdr, Last(t))
      <4>1. trans[t].kind \in {"commit", "abort"}
        BY <1>3, <3>3, Owners DEF Carried
      <4>2. trans[t].kind \in log[Last(t)].kind
        BY <3>3 DEF Complete
      <4>3. QED
        BY <3>7, <3>8, <4>1, <4>2 DEF EndAt, Valid
    <3>10. b <= Last(t)
      BY <1>6, <3>4
    <3>11. e <= Last(t)
      <4>1. Last(t) \notin s .. e - 1
        BY <2>1, <3>9
      <4>2. QED
        BY <1>6, <2>2, <2>3, <3>6, <3>10, <4>1
    <3>12. i # Last(t) /\ i <= Last(t)
      BY <1>2, <1>6, <1>9, <2>2, <3>3, <3>6, <3>11
    <3>13. i \in Written(t)
      <4>1. i < trans[t].start + trans[t].used /\ i <= trans[t].start + trans[t].size - 1
        BY <1>6, <3>5, <3>6, <3>12 DEF Last
      <4>2. QED
        BY <1>1, <1>6, <3>5, <4>1 DEF Written, Reserved
    <3>14. QED
      BY <3>2, <3>12, <3>13 DEF Body
  <2>4. CASE b < s
    <3>1. s # Low(nhdr, e)
      <4>1. Low(nhdr, i) = Low(nhdr, e)
        <5>1. Low(nhdr, e) \in Nat /\ Low(nhdr, e) <= i
          BY <1>3, <1>6, <1>9, <2>1, <2>2, BetweenIdx
        <5>2. QED
          BY <1>1, <1>3, <1>9, <2>1, <5>1, Sides
      <4>2. QED
        BY <1>1, <1>6, <2>2, <2>4, <4>1
    <3>2. StartAt(log, nhdr, s)
      BY <2>1, <3>1
    <3>3. s \in b + 1 .. i
      BY <1>6, <1>9, <2>2, <2>4
    <3>4. L[s] = log[s]
      <4>1. CASE s = i
        BY <1>2, <4>1
      <4>2. CASE s # i
        <5>1. s \in s .. e - 1
          BY <1>6, <1>9, <2>2, <4>2
        <5>2. QED
          BY <2>1, <5>1
      <4>3. QED
        BY <4>1, <4>2
    <3>5. StartAt(L, nhdr, s)
      BY <3>2, <3>4 DEF StartAt, Valid
    <3>6. QED
      BY <1>1, <3>3, <3>5
  <2>5. QED
    BY <1>6, <2>2, <2>3, <2>4
<1>10. CASE b < i
  <2>1. \/ \E u \in Tasks : Active(u) /\ i \in Written(u)
        \/ \E s, e \in Idx : s <= i /\ i <= e /\ Closed(nhdr, s, e)
    BY <1>1, <1>2, <1>3 DEF Accounted
  <2>2. ASSUME NEW u \in Tasks, Active(u), i \in Written(u), u = t
        PROVE  i \in Body(t)
    BY <2>2 DEF Body
  <2>3. QED
    BY <1>2, <1>3, <1>5, <1>8, <1>9, <1>10, <2>1, <2>2
<1>11. QED
  BY <1>1, <1>6, <1>7, <1>10

\* A transaction whose first entry is still there is left open.
LEMMA OpensIsOpen ==
  ASSUME Sound, NEW L, Left(L), NEW t \in Tasks, Opens(t, L), StartAt(L, nhdr, trans[t].start)
  PROVE  LeftOpen(L, nhdr, trans[t].start)
BY ReachIs DEF LeftOpen

\* What the objects of a transaction are to be.
LEMMA SettledIs ==
  ASSUME Sound, NEW L, NEW T, Settles(T, L), NEW t \in Tasks, NEW o \in trans[t].objs
  PROVE  /\ o \in Objs
         /\ trans[t].pc = "end" /\ trans[t].kind = "commit" /\ ~Lost(t, L) => T[o] = mem[o]
         /\ ~(trans[t].pc = "end" /\ trans[t].kind = "commit" /\ ~Lost(t, L)) => T[o] = past.settled[o]
<1>1. OneWriter /\ o \in Objs
  BY Owners, Typed DEF Sound
<1>2. \A u \in Tasks : o \in trans[u].objs => u = t
  BY <1>1 DEF OneWriter
<1>3. T[o] = IF \E u \in Tasks : /\ trans[u].pc = "end" /\ trans[u].kind = "commit"
                                 /\ o \in trans[u].objs /\ ~Lost(u, L)
             THEN mem[o] ELSE past.settled[o]
  BY <1>1 DEF Settles
<1>4. QED
  BY <1>1, <1>2, <1>3

\* Where the first entry of an object is still there, it is the one that recovery undoes last.
LEMMA FirstIsLeast ==
  ASSUME Sound, NEW L, Left(L), NEW t \in Tasks, Opens(t, L), NEW o, NEW i \in Body(t),
         LeastFor(Reach(L, nhdr, trans[t].start), L, o, i),
         NEW j \in Body(t), First(t, o, j), nlog[j] = log[j]
  PROVE  i = j
<1> DEFINE b == trans[t].start
<1>1. /\ i \in Idx /\ b <= i /\ Low(nhdr, i) <= b /\ Valid(L, nhdr, i) /\ L[i].obj = o
      /\ \A k \in b + 1 .. i : ~StartAt(L, nhdr, k)
      /\ \A k \in b .. i - 1 : ~EndAt(L, nhdr, k)
      /\ \A k \in Reach(L, nhdr, b) : L[k].obj = o => i <= k
  BY DEF Reach, LeastFor
<1>2. L[i] = log[i] /\ Valid(log, nhdr, i) /\ i \in Between(nhdr)
  BY <1>1, ValidIsLast DEF Valid
<1>3. /\ Active(t) \/ Lost(t, L)
      /\ nhdr \in Headers /\ Idx \subseteq Nat
  BY Typed DEF Opens, Sound
<1>4. /\ Body(t) \subseteq Written(t) /\ Written(t) \subseteq Reserved(t) /\ Reserved(t) \subseteq Idx
      /\ \A k \in Written(t) : log[k].gen = trans[t].gen /\ trans[t].start <= k
      /\ b \in Body(t)
  BY <1>3, BodyIs DEF Opens
<1>5. j \in Idx /\ j \in Nat /\ i \in Nat /\ b <= j /\ j <= i /\ b \in Nat /\ log[j].obj = o
      /\ log[j].gen = log[i].gen
  BY <1>1, <1>2, <1>3, <1>4 DEF First, LeastFor
<1>6. L[j] = log[j]
  BY <1>4, <1>5 DEF Left
<1>7. Low(nhdr, i) \in Nat /\ Low(nhdr, i) <= j
  <2>1. Low(nhdr, i) \in Nat /\ Low(nhdr, i) <= b
    BY <1>1, <1>3, BetweenIdx
  <2>2. QED
    BY <1>5, <2>1
<1>8. j \in Between(nhdr) /\ Low(nhdr, j) = Low(nhdr, i) /\ Lap(nhdr, j) = Lap(nhdr, i)
  BY <1>2, <1>3, <1>5, <1>7, Sides
<1>9. Valid(L, nhdr, j)
  BY <1>2, <1>5, <1>6, <1>8 DEF Valid
<1>10. \A k \in b + 1 .. j : k \in b + 1 .. i
  BY <1>5
<1>11. \A k \in b .. j - 1 : k \in b .. i - 1
  BY <1>5
<1>12. j \in Reach(L, nhdr, b)
  BY <1>1, <1>5, <1>8, <1>9, <1>10, <1>11 DEF Reach
<1>13. i <= j
  BY <1>1, <1>5, <1>6, <1>12
<1>14. QED
  BY <1>5, <1>13

\* What recovery is to undo.
LEMMA OwnReach ==
  ASSUME Sound, NEW L, Left(L), NEW t \in Tasks, Opens(t, L),
         Inside(trans[t], nhdr.head, nhdr.tail), Lap(nhdr, trans[t].start) = trans[t].gen,
         L[trans[t].start] = log[trans[t].start], NEW i \in Body(t), L[i] = log[i]
  PROVE  LeftOpen(L, nhdr, trans[t].start) /\ i \in Reach(L, nhdr, trans[t].start)
<1> DEFINE b == trans[t].start
<1>1. /\ Active(t) \/ Lost(t, L)
      /\ nhdr \in Headers /\ Idx \subseteq Nat /\ IInv /\ Going(t)
  BY Typed DEF Opens, Sound, Going, Active, Lost
<1>2. /\ Body(t) \subseteq Written(t) /\ Written(t) \subseteq Reserved(t) /\ Reserved(t) \subseteq Idx
      /\ \A k \in Written(t) : log[k].gen = trans[t].gen /\ trans[t].start <= k
      /\ \A k \in Body(t) : log[k].kind = IF k = trans[t].start THEN {"start"} ELSE {}
      /\ \A k \in Idx, j \in Body(t) : trans[t].start <= k /\ k <= j => k \in Body(t)
      /\ b \in Body(t)
  BY <1>1, BodyIs DEF Opens
<1>3. /\ trans[t].start \in Nat /\ trans[t].size \in Nat /\ trans[t].start + trans[t].size < JSize
  BY <1>1, Typed DEF IInv, EntriesFit, Going
<1>4. \A j \in Body(t) : j \in Between(nhdr) /\ Lap(nhdr, j) = Lap(nhdr, b) /\ Low(nhdr, j) <= b /\ j \in Idx
  <2>1. \A j \in Body(t) : j \in trans[t].start .. trans[t].start + trans[t].size - 1
    BY <1>2 DEF Reserved
  <2>2. QED
    BY <1>1, <1>3, <2>1, InsideAll
<1>5. \A j \in Body(t) : L[j] = log[j] => Valid(L, nhdr, j)
  BY <1>2, <1>4 DEF Valid
<1>6. StartAt(L, nhdr, b)
  BY <1>2, <1>5 DEF StartAt
<1>7. LeftOpen(L, nhdr, b)
  BY <1>6, OpensIsOpen
<1>8. \A j \in b .. i : j \in Body(t)
  <2>1. i \in Idx /\ i \in Nat /\ b \in Nat
    BY <1>1, <1>2, <1>4
  <2>2. ASSUME NEW j \in b .. i
        PROVE  j \in Idx /\ b <= j /\ j <= i
    BY <2>1, <2>2, JournalAssumption DEF Idx
  <2>3. QED
    BY <1>2, <2>2
<1>9. ASSUME NEW j \in Body(t), Valid(L, nhdr, j)
      PROVE  L[j].kind = IF j = b THEN {"start"} ELSE {}
  BY <1>2, <1>4, <1>9, ValidIsLast
<1>10. \A j \in b + 1 .. i : ~StartAt(L, nhdr, j)
  <2>1. \A j \in b + 1 .. i : j \in Body(t) /\ j # b
    BY <1>3, <1>8
  <2>2. QED
    BY <1>9, <2>1 DEF StartAt
<1>11. \A j \in b .. i - 1 : ~EndAt(L, nhdr, j)
  <2>1. \A j \in b .. i - 1 : j \in Body(t)
    <3>1. i \in Nat /\ b \in Nat
      BY <1>1, <1>3, <1>4
    <3>2. QED
      BY <1>8, <3>1
  <2>2. QED
    BY <1>9, <2>1 DEF EndAt
<1>12. QED
  BY <1>2, <1>4, <1>5, <1>7, <1>10, <1>11 DEF Reach

\* What recovery is to put back is what the objects are to be.
LEMMA PutsBack ==
  ASSUME Sound, NEW L, Left(L), NEW T, Settles(T, L), NEW b \in Idx, LeftOpen(L, nhdr, b),
         NEW o \in Objs, NEW i \in Idx, LeastFor(Reach(L, nhdr, b), L, o, i)
  PROVE  L[i].old = T[o]
<1>1. PICK t \in Tasks : b = trans[t].start /\ Opens(t, L)
  BY OpenIsOwned
<1>2. /\ i \in Reach(L, nhdr, trans[t].start) /\ L[i].obj = o
  BY <1>1 DEF LeastFor
<1>3. /\ L[i] = log[i]
      /\ \/ i \in Body(t)
         \/ \E u \in Tasks : /\ u # t /\ Active(u) /\ i \in Written(u)
                             /\ L[trans[u].start] # log[trans[u].start]
  BY <1>1, <1>2, ReachIs
<1>4. \A u \in Tasks : Active(u) \/ Lost(u, L) =>
        /\ Body(u) \subseteq Written(u) /\ Written(u) \subseteq Reserved(u) /\ Reserved(u) \subseteq Idx
        /\ \A j \in Body(u) : log[j].obj \in trans[u].logged
        /\ trans[u].logged \subseteq trans[u].objs
  BY BodyIs
<1>5. \A u \in Tasks : Kept(u) /\ Ended(u)
  BY DEF Sound, AwayInv
<1>6. o # None
  BY JournalAssumption
<1>7. ASSUME NEW u \in Tasks, Active(u), i \in Written(u), L[trans[u].start] # log[trans[u].start]
      PROVE  L[i].old = T[o]
  <2>1. Body(u) = Written(u)
    BY <1>7 DEF Body
  <2>2. o \in trans[u].objs
    BY <1>2, <1>3, <1>4, <1>7, <2>1
  <2>3. nlog[trans[u].start] # log[trans[u].start]
    <3>1. trans[u].start \in Written(u)
      BY <1>7, StartWritten DEF Sound, Going, Active
    <3>2. trans[u].start \in Idx
      BY <1>4, <1>7, <3>1
    <3>3. QED
      BY <1>7, <3>2 DEF Left
  <2>4. Fresh(u, o)
    BY <1>5, <1>7, <2>2, <2>3 DEF Kept
  <2>5. log[i].old = past.settled[o]
    BY <1>2, <1>3, <1>7, <2>4 DEF Fresh
  <2>6. T[o] = past.settled[o]
    BY <1>7, <2>2, SettledIs DEF Active
  <2>7. QED
    BY <1>3, <2>5, <2>6
<1>8. CASE i \in Body(t)
  <2>1. (Active(t) \/ Lost(t, L)) /\ o \in trans[t].logged /\ o \in trans[t].objs
    BY <1>1, <1>2, <1>3, <1>4, <1>8 DEF Opens
  <2>2. T[o] = past.settled[o]
    BY <2>1, SettledIs DEF Active
  <2>3. ASSUME NEW j \in Body(t), First(t, o, j), nlog[j] = log[j]
        PROVE  L[i].old = T[o]
    <3>1. i = j
      BY <1>1, <1>8, <2>3, FirstIsLeast
    <3>2. QED
      BY <1>3, <2>2, <2>3, <3>1 DEF First
  <2>4. CASE Active(t)
    <3>1. Body(t) = Written(t)
      BY <2>4 DEF Body
    <3>2. CASE Fresh(t, o)
      BY <1>2, <1>3, <1>8, <2>2, <3>1, <3>2 DEF Fresh
    <3>3. CASE \E j \in Written(t) : First(t, o, j) /\ nlog[j] = log[j]
      BY <2>3, <3>1, <3>3
    <3>4. QED
      BY <1>5, <2>1, <2>4, <3>2, <3>3 DEF Kept
  <2>5. CASE ~Active(t)
    <3>1. Lost(t, L) /\ Complete(t) /\ Body(t) = Written(t) \ {Last(t)}
      BY <1>5, <2>1, <2>5 DEF Lost, Ended, Body
    <3>2. PICK j \in Written(t) : First(t, o, j)
      BY <2>1, <3>1 DEF Complete
    <3>3. j \in Body(t) /\ nlog[j] = log[j]
      BY <1>6, <3>1, <3>2 DEF Complete, First, LeastFor
    <3>4. QED
      BY <2>3, <3>2, <3>3
  <2>6. QED
    BY <2>4, <2>5
<1>9. QED
  BY <1>3, <1>7, <1>8

\* An object that is not yet what it is to be is put back.
LEMMA IsPutBack ==
  ASSUME Sound, NEW L, Left(L), NEW T, Settles(T, L), NEW M, NEW o \in Objs, M[o] \in {mem[o], nmem[o]},
         \A t \in Tasks : trans[t].skipped => o \notin trans[t].objs
  PROVE  \/ M[o] = T[o]
         \/ \E b \in Idx : LeftOpen(L, nhdr, b) /\ \E i \in Reach(L, nhdr, b) : L[i].obj = o
<1>1. /\ Unowned /\ IInv /\ OwnInv /\ ~past.broken /\ Away
      /\ \A t \in Tasks : Kept(t) /\ Ended(t) /\ AgesOf(t) /\ Carried(t) /\ Owned(t)
  BY Owners DEF Sound, AwayInv
<1>2. CASE \A t \in Tasks : o \notin trans[t].objs
  <2>1. T[o] = past.settled[o]
    BY <1>2 DEF Settles
  <2>2. QED
    BY <1>1, <1>2, <2>1 DEF Unowned
<1>3. ASSUME NEW t \in Tasks, o \in trans[t].objs
      PROVE  \/ M[o] = T[o]
             \/ \E b \in Idx : LeftOpen(L, nhdr, b) /\ \E i \in Reach(L, nhdr, b) : L[i].obj = o
  <2>1. ~trans[t].skipped
    BY <1>3
  <2>2. trans[t].pc \in {"wrapped", "run", "log", "end"}
    <3>1. trans[t].pc \in {"idle", "wrapped", "run", "log", "end"}
      BY <1>1 DEF IInv, TypeOK, TransType
    <3>2. QED
      BY <1>1, <1>3, <3>1 DEF Carried
  <2>3. ASSUME Opens(t, L), Inside(trans[t], nhdr.head, nhdr.tail), Lap(nhdr, trans[t].start) = trans[t].gen,
               nlog[trans[t].start] = log[trans[t].start],
               NEW i \in Body(t), First(t, o, i), nlog[i] = log[i]
        PROVE  \E b \in Idx : LeftOpen(L, nhdr, b) /\ \E j \in Reach(L, nhdr, b) : L[j].obj = o
    <3>1. Body(t) \subseteq Idx /\ trans[t].start \in Body(t)
      BY <2>3, BodyIs DEF Opens
    <3>2. L[trans[t].start] = log[trans[t].start] /\ L[i] = log[i]
      BY <2>3, <3>1 DEF Left
    <3>3. LeftOpen(L, nhdr, trans[t].start) /\ i \in Reach(L, nhdr, trans[t].start)
      BY <2>3, <3>2, OwnReach
    <3>4. L[i].obj = o
      BY <2>3, <3>2 DEF First, LeastFor
    <3>5. QED
      BY <3>1, <3>3, <3>4
  <2>4. CASE trans[t].pc = "wrapped"
    <3>1. mem[o] = past.settled[o] /\ nmem[o] = past.settled[o]
      BY <1>1, <1>3, <2>4 DEF Kept
    <3>2. T[o] = past.settled[o]
      BY <1>3, <2>4, SettledIs
    <3>3. QED
      BY <3>1, <3>2
  <2>5. CASE Active(t)
    <3>1. T[o] = past.settled[o]
      BY <1>3, <2>5, SettledIs DEF Active
    <3>2. CASE Fresh(t, o)
      BY <3>1, <3>2 DEF Fresh
    <3>3. ASSUME NEW i \in Written(t), First(t, o, i), nlog[i] = log[i],
                 nlog[trans[t].start] = log[trans[t].start]
          PROVE  \E b \in Idx : LeftOpen(L, nhdr, b) /\ \E j \in Reach(L, nhdr, b) : L[j].obj = o
      <4>1. Body(t) = Written(t) /\ trans[t].start \in Written(t) /\ Live(t)
        BY <1>1, <2>1, <2>5, <3>3, StartWritten DEF Body, Going, Active, Live
      <4>2. Opens(t, L)
        BY <2>5, <4>1 DEF Opens
      <4>3. Inside(trans[t], nhdr.head, nhdr.tail) /\ Lap(nhdr, trans[t].start) = trans[t].gen
        BY <1>1, <4>1 DEF IInv, LiveInFront, AgesOf
      <4>4. QED
        BY <2>3, <3>3, <4>1, <4>2, <4>3
    <3>4. QED
      BY <1>1, <1>3, <2>5, <3>2, <3>3 DEF Kept
  <2>6. CASE trans[t].pc = "end"
    <3>1. M[o] = mem[o] /\ trans[t].used > 0
      BY <1>1, <1>3, <2>6 DEF Ended
    <3>2. CASE trans[t].kind # "commit"
      <4>1. T[o] = past.settled[o]
        BY <1>3, <3>2, SettledIs
      <4>2. mem[o] = past.settled[o]
        BY <1>1, <1>3, <2>6, <3>2 DEF Owned
      <4>3. QED
        BY <3>1, <4>1, <4>2
    <3>3. CASE trans[t].kind = "commit" /\ ~Lost(t, L)
      BY <1>3, <2>6, <3>1, <3>3, SettledIs
    <3>4. CASE trans[t].kind = "commit" /\ Lost(t, L)
      <4>1. /\ InLap(t, nhdr) /\ Inside(trans[t], nhdr.head, nhdr.tail) /\ Complete(t)
            /\ o \in trans[t].logged /\ Body(t) = Written(t) \ {Last(t)}
        BY <1>1, <1>3, <2>6, <3>4 DEF Lost, Ended, Body, Active
      <4>2. PICK i \in Written(t) : First(t, o, i)
        BY <4>1 DEF Complete
      <4>3. o # None
        BY JournalAssumption
      <4>4. i # Last(t)
        BY <4>1, <4>2, <4>3 DEF Complete, First, LeastFor
      <4>5. i \in Body(t) /\ nlog[i] = log[i]
        BY <4>1, <4>2, <4>4 DEF Complete
      <4>6. trans[t].start \in Body(t)
        <5>1. trans[t].start \in Written(t) /\ trans[t].start <= i
          BY <1>1, <2>6, StartWritten DEF Going
        <5>2. /\ i \in Nat /\ trans[t].start \in Nat /\ Last(t) \in Nat /\ i <= Last(t)
          BY <1>1, <2>6, <3>1, LastWritten, Typed
        <5>3. trans[t].start # Last(t)
          BY <4>4, <5>1, <5>2
        <5>4. QED
          BY <4>1, <5>1, <5>3
      <4>7. Opens(t, L) /\ nlog[trans[t].start] = log[trans[t].start]
        BY <3>4, <4>1, <4>6 DEF Opens, Complete
      <4>8. Lap(nhdr, trans[t].start) = trans[t].gen
        BY <4>1 DEF InLap
      <4>9. QED
        BY <2>3, <4>1, <4>2, <4>5, <4>7, <4>8
    <3>5. QED
      BY <3>2, <3>3, <3>4
  <2>7. QED
    BY <2>2, <2>4, <2>5, <2>6 DEF Active
<1>4. QED
  BY <1>2, <1>3

\* What a failure leaves of a volume in use recovery makes what it is to be.
LEMMA GoodLeft ==
  ASSUME Sound, NEW L, Left(L), NEW T, Settles(T, L), NEW M, \A o \in Objs : M[o] \in {mem[o], nmem[o]},
         NEW X, \A t \in Tasks : trans[t].skipped => trans[t].objs \subseteq X
  PROVE  Good(L, nhdr, M, T, X)
<1>1. ASSUME NEW b \in Idx, LeftOpen(L, nhdr, b), NEW o \in Objs \ X, NEW i \in Idx,
             LeastFor(Reach(L, nhdr, b), L, o, i)
      PROVE  L[i].old = T[o]
  BY <1>1, PutsBack
<1>2. ASSUME NEW o \in Objs \ X
      PROVE  \/ M[o] = T[o]
             \/ \E b \in Idx : LeftOpen(L, nhdr, b) /\ \E i \in Reach(L, nhdr, b) : L[i].obj = o
  <2>1. \A t \in Tasks : trans[t].skipped => o \notin trans[t].objs
    OBVIOUS
  <2>2. QED
    BY <2>1, IsPutBack
<1>3. QED
  BY <1>1, <1>2 DEF Good

\* There is one such value of each object.
LEMMA SettlesAll ==
  ASSUME TypeOK, NEW L
  PROVE  \E T \in [Objs -> Tids] : Settles(T, L)
<1>1. PICK T : T = [o \in Objs |-> IF \E t \in Tasks : /\ trans[t].pc = "end" /\ trans[t].kind = "commit"
                                                     /\ o \in trans[t].objs /\ ~Lost(t, L)
                                   THEN mem[o] ELSE past.settled[o]]
  OBVIOUS
<1>2. \A o \in Objs : mem[o] \in Tids /\ past.settled[o] \in Tids
  BY DEF TypeOK, DataType, PastType
<1>3. T \in [Objs -> Tids]
  BY <1>1, <1>2
<1>4. Settles(T, L)
  BY <1>1 DEF Settles
<1>5. QED
  BY <1>3, <1>4

\* What a failure takes for settled, or leaves in doubt, the transactions have promised.
LEMMA SettlesPromised ==
  ASSUME Sound, NEW L, NEW T, Settles(T, L), Crash
  PROVE  Promised(T)'
<1>1. past'.settled = past.settled /\ past'.doubt = past.doubt \cup CrashDoubt
  BY CrashPast DEF Sound, IInv
<1>2. ASSUME NEW o \in Objs, T[o] # past.settled[o]
      PROVE  \E d \in past'.doubt : o \in d.objs /\ \A p \in d.objs : T[p] = d.tid
  <2>1. PICK t \in Tasks : trans[t].pc = "end" /\ trans[t].kind = "commit" /\ o \in trans[t].objs /\ ~Lost(t, L)
    BY <1>2 DEF Settles
  <2>2. PICK d : d = [tid |-> trans[t].tid, objs |-> trans[t].objs]
    OBVIOUS
  <2>3. d \in CrashDoubt
    BY <2>1, <2>2 DEF CrashDoubt
  <2>4. Owned(t)
    BY Owners DEF Sound
  <2>5. ASSUME NEW p \in trans[t].objs
        PROVE  T[p] = trans[t].tid
    <3>1. T[p] = mem[p]
      BY <2>1, SettledIs
    <3>2. QED
      BY <2>1, <2>4, <3>1 DEF Owned
  <2>6. QED
    BY <1>1, <2>1, <2>2, <2>3, <2>5
<1>3. QED
  BY <1>1, <1>2 DEF Promised

\* A failure of a volume in use leaves what recovery needs.
LEMMA CrashKeeps ==
  ASSUME Sound, Crash
  PROVE  RecInv'
<1>1. TypeOK /\ past.excused = {}
  BY DEF Sound, IInv, AwayInv, NoDoubt
<1>2. PICK L : L = log'
  OBVIOUS
<1>3. PICK M : M = mem'
  OBVIOUS
<1>4. PICK X : X = past'.excused
  OBVIOUS
<1>5. PICK T \in [Objs -> Tids] : Settles(T, L)
  BY <1>1, SettlesAll
<1>6. /\ phase' = "crashed" /\ hdr' = nhdr /\ nhdr' = nhdr /\ log' = nlog' /\ mem' = nmem'
  BY DEF Crash
<1>7. Left(L)
  <2>1. PICK I \in SUBSET {i \in Idx : nlog[i] # log[i]} :
          nlog' = [i \in Idx |-> IF i \in I THEN log[i] ELSE nlog[i]]
    BY DEF Crash
  <2>2. \A i \in Idx : nlog'[i] \in {log[i], nlog[i]}
    BY <2>1
  <2>3. QED
    BY <1>2, <1>6, <2>2 DEF Left
<1>8. \A o \in Objs : M[o] \in {mem[o], nmem[o]}
  <2>1. PICK O \in SUBSET {o \in Objs : nmem[o] # mem[o]} :
          nmem' = [o \in Objs |-> IF o \in O THEN mem[o] ELSE nmem[o]]
    BY DEF Crash
  <2>2. \A o \in Objs : nmem'[o] \in {mem[o], nmem[o]}
    BY <2>1
  <2>3. QED
    BY <1>3, <1>6, <2>2
<1>9. \A t \in Tasks : trans[t].skipped => trans[t].objs \subseteq X
  <2>1. past'.excused = past.excused \cup CrashExcuse
    BY <1>1, CrashPast
  <2>2. QED
    BY <1>4, <2>1 DEF CrashExcuse
<1>10. Good(L, nhdr, M, T, X)
  BY <1>5, <1>7, <1>8, <1>9, GoodLeft
<1>11. Promised(T)'
  BY <1>5, SettlesPromised
<1>12. Held(T)'
  BY <1>2, <1>3, <1>4, <1>6, <1>10, <1>11 DEF Held
<1>13. Paused'
  BY <1>6 DEF Paused
<1>14. QED
  BY <1>12, <1>13 DEF RecInv

\* The next mount of a volume that has been unmounted finds nothing to undo.
LEMMA MountAgainKeeps ==
  ASSUME Sound, Laps, Mount, phase = "unmounted"
  PROVE  RecInv'
<1>1. TypeOK /\ Unwritten /\ Unowned /\ NoDoubt /\ nhdr = hdr
  BY DEF Sound, IInv, AwayInv
<1>2. \A t \in Tasks : trans[t].pc = "idle" /\ trans[t].objs = {} /\ trans[t].skipped \in BOOLEAN
  BY <1>1 DEF Sound, IInv, Stages, OwnInv, Carried, TypeOK, TransType
<1>3. nlog = log
  <2>1. \A i \in Idx : nlog[i] = log[i]
    BY <1>1, <1>2 DEF Unwritten
  <2>2. QED
    BY <1>1, <2>1 DEF TypeOK, LogType
<1>4. \A o \in Objs : mem[o] = past.settled[o] /\ nmem[o] = past.settled[o]
  BY <1>1, <1>2 DEF Unowned
<1>5. mem = nmem /\ past.settled \in [Objs -> Tids]
  <2>1. \A o \in Objs : mem[o] = nmem[o]
    BY <1>4
  <2>2. QED
    BY <1>1, <2>1 DEF TypeOK, DataType, PastType
<1>6. PICK T : T = past.settled
  OBVIOUS
<1>7. PICK L : L = log
  OBVIOUS
<1>8. PICK M : M = mem
  OBVIOUS
<1>9. PICK X : X = past.excused
  OBVIOUS
<1>10. Good(L, nhdr, M, T, X)
  <2>1. Left(L)
    BY <1>7 DEF Left
  <2>2. Settles(T, L)
    BY <1>2, <1>6 DEF Settles
  <2>3. \A o \in Objs : M[o] \in {mem[o], nmem[o]}
    BY <1>8
  <2>4. \A t \in Tasks : trans[t].skipped => trans[t].objs \subseteq X
    BY <1>2
  <2>5. QED
    BY <2>1, <2>2, <2>3, <2>4, GoodLeft
<1>11. /\ log' = log /\ nlog' = nlog /\ nmem' = nmem /\ past' = past
       /\ mem' = mem /\ hdr' = hdr /\ nhdr' = nhdr
       /\ walk' = [tail |-> hdr.tail, gen |-> hdr.gen]
       /\ phase' = IF hdr.head = hdr.tail THEN "recovered" ELSE "recovering"
  BY DEF Mount, data, journal
<1>12. Walked' = hdr
  BY <1>1, <1>11 DEF Walked, TypeOK, HeaderType
<1>13. Good(log, hdr, mem, T, past.excused)
  BY <1>1, <1>7, <1>8, <1>9, <1>10
<1>14. Promised(T)'
  BY <1>6, <1>11 DEF Promised
<1>15. Held(T)'
  BY <1>1, <1>4, <1>5, <1>6, <1>11, <1>12, <1>13, <1>14 DEF Held
<1>16. Paused'
  <2>1. hdr.gen <= hdr.gen /\ (hdr.tail < hdr.head => hdr.gen > 1)
    BY <1>1, JournalAssumption DEF TypeOK, HeaderType, Laps
  <2>2. QED
    BY <1>1, <1>3, <1>5, <1>11, <2>1 DEF Paused
<1>17. QED
  BY <1>5, <1>6, <1>15, <1>16 DEF RecInv

(***************************************************************************)
(* The theorem.                                                            *)
(***************************************************************************)
\* What makes recovery atomic, at every step before the last generation.
Recoverable == ~past.broken => Ages /\ Laps /\ CleanerLap /\ AwayInv /\ RecInv

\* On a journal that has just been made there is nothing to recover.
LEMMA InitRecoverable == Init => Recoverable
<1> SUFFICES ASSUME Init
             PROVE  Recoverable
  OBVIOUS
<1>1. /\ phase = "mounted" /\ hdr = [head |-> 0, tail |-> 0, gen |-> 1] /\ nhdr = hdr
      /\ log = [i \in Idx |-> Blank] /\ nlog = log
      /\ mem = [o \in Objs |-> 0] /\ nmem = mem
      /\ past.settled = mem /\ past.doubt = {} /\ past.excused = {}
      /\ cleaner.pc = "asleep" /\ Idx \subseteq Nat
  BY JournalAssumption DEF Init, Asleep, Idx
<1>2. \A t \in Tasks : trans[t].pc = "idle"
  BY DEF Init, NoTrans
<1>3. \A i \in Idx : log[i].gen = 0 /\ Lap(hdr, i) = 0 /\ i \notin Between(hdr)
  BY <1>1 DEF Blank, Lap, Between
<1>4. Ages
  BY <1>1, <1>3 DEF Ages
<1>5. Laps /\ CleanerLap
  BY <1>1 DEF Laps, CleanerLap
<1>6. Accounted(hdr) /\ Accounted(nhdr)
  BY <1>1, <1>3 DEF Accounted, Valid
<1>7. \A t \in Tasks : AgesOf(t) /\ WholeOf(t) /\ Kept(t) /\ Ended(t)
  BY <1>2 DEF AgesOf, WholeOf, Kept, Ended, Going, Active, Live
<1>8. NoDoubt /\ Unowned /\ Unwritten
  BY <1>1 DEF NoDoubt, Unowned, Unwritten
<1>9. AwayInv /\ RecInv
  BY <1>1, <1>6, <1>7, <1>8 DEF AwayInv, RecInv, Away
<1>10. QED
  BY <1>4, <1>5, <1>9 DEF Recoverable

\* Steps of a volume that is not in use, but for the mount.
LEMMA RecoveryKeeps ==
  ASSUME IInv, IInv', OwnInv, [Next]_vars, Early, Ages, Laps, RecInv, ~Away
  PROVE  AwayInv' /\ RecInv'
<1>1. TypeOK /\ TypeOK' /\ Stages
  BY DEF IInv
<1>2. \A t \in Tasks : ~TaskStep(t)
  BY DEF TaskStep, NewTransaction, Again, AddLogEntry, LogFence, Store, Commit, Abort, LastFence,
         Running, Away
<1>3. ~Cleaning /\ ~Unmount
  BY DEF Cleaning, CleanStart, CleanStep, CleanHead, CleanEnd, Unmount, Away
<1>4. CASE Mounted
  <2>1. AwayInv'
    BY <1>4, MountedKeeps
  <2>2. RecInv'
    BY <1>4 DEF Mounted, RecInv, Away
  <2>3. QED
    BY <2>1, <2>2
<1>5. CASE UNCHANGED vars
  <2>1. UNCHANGED <<phase, hdr, nhdr, log, nlog, mem, nmem, walk, past>>
    BY <1>5 DEF vars, journal, data
  <2>2. ~Away'
    BY <2>1 DEF Away
  <2>3. PICK T \in [Objs -> Tids] : Held(T)
    BY DEF RecInv
  <2>4. Held(T)' /\ Paused'
    BY <2>1, <2>3 DEF Held, Paused, Promised, Walked, RecInv
  <2>5. QED
    BY <2>2, <2>4 DEF RecInv, AwayInv
<1>6. CASE Mount
  <2>1. phase = "crashed" /\ ~Away'
    BY <1>6 DEF Mount, Away
  <2>2. QED
    BY <1>1, <1>6, <2>1, MountKeeps DEF AwayInv
<1>7. CASE Crash
  <2>1. ~Away'
    BY <1>7 DEF Crash, Away
  <2>2. QED
    BY <1>1, <1>7, <2>1, CrashAgainKeeps DEF AwayInv
<1>8. CASE RecoverStep \/ ForwardInvalidate \/ ForwardGen \/ ForwardHead \/ ForwardFence \/ WriteBackHeader
  <2>1. ~Away'
    BY <1>8 DEF RecoverStep, ForwardInvalidate, ForwardGen, ForwardHead, ForwardFence, WriteBackHeader,
                Away
  <2>2. RecInv'
    BY <1>1, <1>8, TurnKeeps, ForwardInvalidateKeeps, ForwardGenKeeps, ForwardHeadKeeps,
       ForwardFenceKeeps, HeaderKeeps
  <2>3. QED
    BY <2>1, <2>2 DEF AwayInv
<1>9. QED
  BY <1>2, <1>3, <1>4, <1>5, <1>6, <1>7, <1>8 DEF Next, Recovery

\* Steps of a volume in use.
LEMMA UseKeeps ==
  ASSUME IInv, IInv', OwnInv, OwnInv', [Next]_vars, ~past.broken, ~past'.broken, Early,
         Ages, Laps, CleanerLap, AwayInv, RecInv, Away
  PROVE  AwayInv' /\ RecInv'
<1>1. Sound
  BY DEF Sound
<1>2. CASE Crash
  <2>1. ~Away'
    BY <1>2 DEF Crash, Away
  <2>2. QED
    BY <1>1, <1>2, <2>1, CrashKeeps DEF AwayInv
<1>3. CASE Mount
  <2>1. phase = "unmounted" /\ ~Away'
    BY <1>3 DEF Mount, Away
  <2>2. QED
    BY <1>1, <1>3, <2>1, MountAgainKeeps DEF AwayInv
<1>4. CASE ~Crash /\ ~Mount
  <2>1. AwayInv'
    BY <1>4, AwayKeeps DEF InUse
  <2>2. Away'
    <3>1. ASSUME NEW t \in Tasks, TaskStep(t)
          PROVE  Away'
      BY <3>1 DEF TaskStep, NewTransaction, Again, AddLogEntry, LogFence, Store, Commit, Abort, LastFence, Away
    <3>2. CASE Cleaning \/ Unmount \/ WriteBackHeader \/ UNCHANGED vars
      BY <3>2 DEF Cleaning, CleanStart, CleanStep, CleanHead, CleanEnd, Unmount, WriteBackHeader, vars, Away
    <3>3. ~Recovery
      BY <1>4 DEF Recovery, RecoverStep, ForwardInvalidate, ForwardGen, ForwardHead, ForwardFence,
                  Mounted, Away
    <3>4. QED
      BY <1>4, <3>1, <3>2, <3>3 DEF Next
  <2>3. QED
    BY <2>1, <2>2 DEF RecInv
<1>5. QED
  BY <1>2, <1>3, <1>4

\* Every step before the last generation.
LEMMA RecoverableKeeps ==
  ASSUME IInv, IInv', OwnInv, OwnInv', [Next]_vars, Early, Recoverable
  PROVE  Recoverable'
<1>1. SUFFICES ASSUME ~past'.broken
               PROVE  Ages' /\ Laps' /\ CleanerLap' /\ AwayInv' /\ RecInv'
  BY DEF Recoverable
<1>2. ~past.broken
  BY <1>1, StillWhole
<1>3. Ages /\ Laps /\ CleanerLap /\ AwayInv /\ RecInv
  BY <1>2 DEF Recoverable
<1>4. Ages' /\ Laps' /\ CleanerLap'
  BY <1>1, <1>3, AgesKeep, LapsKeep, CleanerLapKeeps
<1>5. AwayInv' /\ RecInv'
  BY <1>1, <1>2, <1>3, RecoveryKeeps, UseKeeps
<1>6. QED
  BY <1>4, <1>5

\* Whatever is running when a power failure comes, and wherever it comes, recovery and
\* unmounting included, the next recovery leaves each object as the last committed
\* transaction has left it, and a transaction that was committing as a whole or not at
\* all: as long as the generations have not come to the last one, and but for the
\* transactions that the cleaner has overtaken before their first entry.
THEOREM JournalRecovers == Spec /\ [](hdr.gen # MaxGen) => []RecoveryIsAtomic
<1>1. IInv /\ IInv' /\ OwnInv /\ OwnInv' /\ Recoverable /\ hdr.gen # MaxGen /\ [Next]_vars => Recoverable'
  BY RecoverableKeeps DEF Early
<1>2. IInv /\ Recoverable => RecoveryIsAtomic
  BY RecoveredIsConsistent DEF IInv, Recoverable, RecoveryIsAtomic
<1>3. QED
  BY <1>1, <1>2, InitRecoverable, Invariance, OwnInvariance, PTL DEF Spec
=============================================================================
