-------------------------- MODULE PmfsVolumeProofs --------------------------
(***************************************************************************)
(* Proofs about PmfsVolume: Inv is an inductive invariant, and the type    *)
(* invariant and the safety invariants of the runs follow from it.         *)
(*                                                                         *)
(* Inv says of the namespace (NamesRight to NamesAlive, together Space)    *)
(* what NamespaceSound says of it and the ways back that make it last; of  *)
(* the calls under way which inodes they hold and in which condition       *)
(* (LocksApart to SizeRight); of the truncate list that it is in           *)
(* persistent memory what it is in DRAM, and that every inode without a    *)
(* name, and nothing else, waits on it (SameList to OrphansListed); of   *)
(* the blocks who may own them (BlocksApart).                              *)
(*                                                                         *)
(* Inv holds until one of the two races that PmfsVolume records: with      *)
(* either the truncate list breaks and the blocks of two files mix.  So    *)
(* the theorems say that nothing else breaks them.                         *)
(*                                                                         *)
(* The proof goes by what a step disturbs: the steps that leave the names  *)
(* alone, that make one, that take one away, that move one; those of one   *)
(* client's call (Local); those that take the volume down and up again.    *)
(***************************************************************************)
EXTENDS PmfsVolume, FiniteSetTheorems, SequenceTheorems, WellFoundedInduction, TLAPS
-----------------------------------------------------------------------------
(***************************************************************************)
(* The inductive invariant.                                                *)
(***************************************************************************)
InodeRec == [kind : {"none", "file", "dir", "link", "node"}, nlink : Nat, dtime : BOOLEAN,
             size : Nat, blocks : SUBSET Blocks]

\* The calls that last longer than a step.
AbortTask == [pc : {"abort"}, ino : Inodes, locks : SUBSET Inodes, undo : InodeRec]
EvictTask == [pc : {"evict", "del"}, ino : Inodes, locks : {{}}]
SizeTask == [pc : {"free", "size", "unlist"}, ino : Inodes, locks : SUBSET Inodes, size : 0 .. 1]
CommitTask == [pc : {"commit"}, d : Inodes, n : Names, e : Inodes, m : Names, ino : Inodes,
               moved : 0 .. MaxIno, locks : SUBSET (Inodes \cup {-1})]
Tasks == {Idle} \cup AbortTask \cup EvictTask \cup SizeTask \cup CommitTask

Types ==
  /\ ent \in [Inodes -> [Names -> 0 .. MaxIno]]
  /\ ino \in [Inodes -> InodeRec]
  /\ limbo \in [Inodes -> SUBSET Blocks]
  /\ table \in [count : FirstTable .. MaxIno, blocks : SUBSET Blocks]
  /\ head \in 0 .. MaxIno /\ next \in [Inodes -> 0 .. MaxIno] /\ tsize \in [Inodes -> Nat]
  /\ saved \in [inuse : SUBSET Blocks, hint : 0 .. MaxIno]
  /\ inuse \subseteq Blocks /\ hint \in Inodes
  /\ listed \in Seq(Inodes \cup Clients)
  /\ open \in [Clients -> 0 .. MaxIno]
  /\ task \in [Clients -> Tasks]
  /\ phase \in {"mounted", "down", "recovering", "dead"} /\ cur \in 0 .. MaxIno
  /\ crashes \in 0 .. MaxCrashes /\ calls \in Nat
  /\ lost \subseteq Inodes /\ leaked \subseteq Inodes

\* What a volume that is not mounted has forgotten, and what one has when it is.
Modes ==
  /\ phase = "mounted" => saved = NotSaved
  /\ phase # "mounted" =>
       /\ \A c \in Clients : task[c] = Idle /\ open[c] = 0
       /\ \A i \in Inodes : limbo[i] = {}
       /\ listed = <<>>
  /\ saved # NotSaved => saved.hint \in Inodes

Named(i) == \E p \in Inodes, n \in Names : ent[p][n] = i
NamesOf(i) == {e \in Inodes \X Names : ent[e[1]][e[2]] = i}
SubDirs(i) == {n \in Names : ent[i][n] # 0 /\ IsDir(ent[i][n])}

\* A set of inodes with all the directories above it.
Up(T) == \A p \in Inodes, n \in Names : ent[p][n] \in T => p \in T

\* Only directories that hang somewhere have names in them, and the names lead to
\* inodes in use; files count their names, directories have one.
NamesRight ==
  /\ \A p \in Inodes, n \in Names : ent[p][n] # 0 =>
       /\ p <= table.count /\ IsDir(p) /\ ino[p].nlink > 0 /\ (p = Root \/ Named(p))
       /\ ent[p][n] <= table.count /\ ent[p][n] # Root /\ ino[ent[p][n]].nlink > 0
  /\ \A i \in Inodes : i > table.count => IsFree(i)
  /\ IsDir(Root) /\ ino[Root].nlink > 0
LinksRight ==
  /\ \A i \in Inodes : ~IsFree(i) /\ ~IsDir(i) => ino[i].nlink = Cardinality(NamesOf(i))
  /\ \A p, q \in Inodes, n, m \in Names :
       ent[p][n] # 0 /\ IsDir(ent[p][n]) /\ ent[p][n] = ent[q][m] => p = q /\ n = m
  /\ \A i \in Inodes : IsDir(i) /\ ino[i].nlink > 0 /\ (i = Root \/ Named(i)) =>
       ino[i].nlink >= 2 + Cardinality(SubDirs(i))
\* Every directory with links has its name, but for those on their way out.
DirsNamed ==
  /\ \A i \in Inodes : IsDir(i) /\ ino[i].nlink > 0 /\ i # Root /\ i \notin Leaving \cup leaked => Named(i)
  /\ \A i \in leaked : /\ i <= table.count /\ i # Root /\ IsDir(i) /\ ino[i].nlink > 0
                       /\ ~Named(i)
\* Every directory with a name hangs below the root.
Hangs == \A i \in Inodes, T \in SUBSET Inodes : IsDir(i) /\ Named(i) /\ i \in T /\ Up(T) => Root \in T

\* An inode with a name has not been evicted.
NamesAlive == \A i \in Inodes : Named(i) => ino[i].kind # "none" /\ ~ino[i].dtime

LocksApart == \A c, d \in Clients : c # d => task[c].locks \cap task[d].locks = {}

\* A removal that waits for its commit.
CommitOK(c) ==
  task[c].pc = "commit" =>
    LET r == task[c] IN
    /\ r.locks = {r.d, r.e, r.ino} \cup (IF r.d # r.e THEN {-1} ELSE {})
    /\ ent[r.e][r.m] = r.ino
    /\ r.moved = 0 => r.d = r.e /\ r.n = r.m
    /\ r.moved # 0 => /\ ent[r.d][r.n] = r.moved /\ r.moved # r.ino
                      /\ IsDir(r.moved) <=> IsDir(r.ino)
    /\ IsDir(r.ino) => \A n \in Names : ent[r.ino][n] = 0
    /\ Dropped(r.ino, r.moved) = 0
    /\ Contains(listed, r.ino)
    /\ r.moved # 0 /\ IsDir(r.moved) /\ r.d # r.e =>
         \E T \in SUBSET Inodes : r.e \in T /\ Up(T) /\ r.moved \notin T
CommitRight == \A c \in Clients : CommitOK(c)

\* An inode that a call gives up is nobody else's.
Given == {"abort", "evict", "del"}
GoneOK(c) ==
  LET i == task[c].ino IN
  /\ task[c].pc \in Given => /\ i <= table.count /\ i # Root
                             /\ ~Named(i) /\ \A x \in Clients : open[x] # i
  /\ task[c].pc = "abort" =>
       /\ ~Contains(listed, i) /\ ino[i].blocks = {} /\ i \notin leaked
       /\ task[c].undo.nlink = 0 /\ (task[c].undo.kind = "none" \/ task[c].undo.dtime)
  /\ task[c].pc = "evict" => ino[i].nlink = 0 /\ ~IsFree(i) /\ Contains(listed, i)
  /\ task[c].pc = "del" =>
       ino[i].nlink = 0 /\ Contains(listed, c) /\ (ino[i].kind = "node" \/ IsFree(i))
GoneRight ==
  /\ \A c \in Clients : GoneOK(c)
  /\ \A c, d \in Clients : c # d /\ task[c].pc \in Given /\ task[d].pc \in Given =>
       task[c].ino # task[d].ino

\* An open file is in use, and listed when its last name has gone.
OpenOK(c) ==
  open[c] # 0 => /\ open[c] <= table.count /\ ino[open[c]].kind = "file" /\ ~IsFree(open[c])
                 /\ ino[open[c]].nlink = 0 => Contains(listed, open[c])
OpenRight == \A c \in Clients : OpenOK(c)

\* A truncation holds its inode, and its entry says to what size.
Sizing == {"free", "size", "unlist"}
SizeOK(c) ==
  LET i == task[c].ino IN
  task[c].pc \in Sizing =>
    /\ task[c].locks = {i} /\ open[c] = i /\ ino[i].nlink > 0
    /\ Contains(listed, i) /\ tsize[i] = task[c].size
    /\ task[c].pc = "free" => ino[i].size # task[c].size
    /\ task[c].pc = "size" /\ limbo[i] # {} => task[c].size = 0 /\ ino[i].size > 0
SizeRight ==
  /\ \A c \in Clients : SizeOK(c)
  /\ \A i \in Inodes : limbo[i] # {} => \E c \in Clients : task[c].pc = "size" /\ task[c].ino = i

\* The entries of s_truncate are different inodes, each with a reason to be there.
ListedRight ==
  /\ \A j, k \in 1 .. Len(listed) : j # k => InodeOf(listed[j]) # InodeOf(listed[k])
  /\ \A k \in 1 .. Len(listed) : listed[k] \in Clients => task[listed[k]].pc = "del"
  /\ \A i \in Inodes : Contains(listed, i) =>
       /\ ~IsFree(i)
       /\ \/ ino[i].nlink = 0
          \/ \E c \in Clients : task[c].pc \in Sizing \cup {"commit"} /\ task[c].ino = i

\* An inode without a name that nobody frees but the truncate list.
Orphan(i) == i \notin lost /\ ~IsFree(i) /\ ino[i].nlink = 0 /\ ino[i].kind # "node"
OrphansListed ==
  /\ phase = "mounted" => \A i \in Inodes : Orphan(i) => Contains(listed, i)
  /\ phase # "mounted" => \A i \in Inodes : Orphan(i) => i \in Chain(head)
  /\ phase = "recovering" => \A i \in Inodes : Orphan(i) => i \in Chain(cur)

\* An inode on the list from s on whose blocks the recovery would have to free.
Doomed(i, s) == /\ i \in Chain(s) /\ ino[i].blocks # {}
                /\ ino[i].nlink = 0 \/ tsize[i] < ino[i].size
ApartBut(s) ==
  /\ \A i, j \in Inodes : i # j /\ ~IsFree(i) /\ ~IsFree(j) /\ ~Doomed(i, s) /\ ~Doomed(j, s) =>
       ino[i].blocks \cap ino[j].blocks = {}
  /\ \A i \in Inodes : ~IsFree(i) /\ ~Doomed(i, s) => ino[i].blocks \cap table.blocks = {}
BlocksApart ==
  lost = {} =>
    /\ phase = "mounted" =>
         /\ \A i \in Inodes : ~IsFree(i) => ino[i].blocks \subseteq inuse /\ ino[i].blocks \cap table.blocks = {}
         /\ \A i, j \in Inodes : i # j /\ ~IsFree(i) /\ ~IsFree(j) => ino[i].blocks \cap ino[j].blocks = {}
         /\ table.blocks \subseteq inuse
    /\ phase # "mounted" => ApartBut(head)
    /\ phase = "recovering" => ApartBut(cur)
    /\ saved # NotSaved => /\ table.blocks \subseteq saved.inuse
                           /\ \A i \in Inodes : ~IsFree(i) => ino[i].blocks \subseteq saved.inuse

Inv ==
  /\ Types /\ Modes
  /\ NamesRight /\ LinksRight /\ DirsNamed /\ Hangs /\ NamesAlive
  /\ LocksApart /\ CommitRight /\ GoneRight /\ OpenRight /\ SizeRight
  /\ SameList /\ ListedRight /\ OrphansListed /\ BlocksApart
-----------------------------------------------------------------------------
(***************************************************************************)
(* Lemmas about the state.                                                 *)
(***************************************************************************)
\* The constants are what the model assumes of them.
LEMMA Consts ==
  /\ MaxIno \in Nat /\ FirstTable \in 2 .. MaxIno /\ NBlocks \in Nat /\ RootRoom \in Nat
  /\ MaxCrashes \in Nat /\ MaxCalls \in Nat /\ IsFiniteSet(Names)
  /\ Root \in Inodes /\ 0 \notin Inodes /\ -1 \notin Inodes /\ HintStart \in Inodes
  /\ \A i \in Inodes : i \in Int /\ i > 0 /\ i <= MaxIno /\ i \notin Clients /\ i \in 0 .. MaxIno
BY VolumeAssumption DEF VolumeAssumption, Inodes, Root, HintStart

\* The fields of an inode.
LEMMA InodeTypes ==
  ASSUME Types, NEW i \in Inodes
  PROVE  /\ ino[i] \in InodeRec
         /\ ino[i].kind \in {"none", "file", "dir", "link", "node"} /\ ino[i].nlink \in Nat
         /\ ino[i].dtime \in BOOLEAN /\ ino[i].size \in Nat /\ ino[i].blocks \in SUBSET Blocks
         /\ limbo[i] \subseteq Blocks /\ next[i] \in 0 .. MaxIno /\ tsize[i] \in Nat
         /\ \A n \in Names : ent[i][n] \in 0 .. MaxIno
BY DEF Types, InodeRec

\* And after a step.
LEMMA InodeTypesAfter ==
  ASSUME Types', NEW i \in Inodes
  PROVE  /\ ino'[i] \in InodeRec
         /\ ino'[i].kind \in {"none", "file", "dir", "link", "node"} /\ ino'[i].nlink \in Nat
         /\ ino'[i].dtime \in BOOLEAN /\ ino'[i].size \in Nat /\ ino'[i].blocks \in SUBSET Blocks
         /\ \A n \in Names : ent'[i][n] \in 0 .. MaxIno
BY DEF Types, InodeRec

\* The number of inodes in the table, before and after.
LEMMA CountTypes ==
  ASSUME Types
  PROVE  /\ table.count \in Int /\ table.count >= 2 /\ table.count <= MaxIno /\ table.blocks \subseteq Blocks
         /\ table.count \in FirstTable .. MaxIno
<1>1. table.count \in FirstTable .. MaxIno /\ table.blocks \subseteq Blocks
  BY DEF Types
<1> QED
  BY <1>1, Consts

\* And after a step.
LEMMA CountTypesAfter ==
  ASSUME Types'
  PROVE  table'.count \in Int /\ table'.blocks \subseteq Blocks
<1>1. table'.count \in FirstTable .. MaxIno /\ table'.blocks \subseteq Blocks
  BY DEF Types
<1> QED
  BY <1>1, Consts

\* The fields of a call in progress.
LEMMA TaskTypes ==
  ASSUME Types, NEW c \in Clients
  PROVE  /\ task[c] \in Tasks
         /\ task[c].pc \in {"idle"} \cup Given \cup Sizing \cup {"commit"}
         /\ task[c].pc = "idle" => task[c] = Idle
         /\ task[c].pc = "abort" => task[c] \in AbortTask
         /\ task[c].pc \in {"evict", "del"} => task[c] \in EvictTask /\ task[c].locks = {}
         /\ task[c].pc \in Sizing => task[c] \in SizeTask
         /\ task[c].pc = "commit" => task[c] \in CommitTask
         /\ task[c].ino \in 0 .. MaxIno
         /\ task[c].pc # "idle" => task[c].ino \in Inodes
         /\ task[c].locks \subseteq Inodes \cup {-1}
         /\ open[c] \in 0 .. MaxIno /\ (open[c] # 0 => open[c] \in Inodes)
<1>1. task[c] \in Tasks /\ open[c] \in 0 .. MaxIno
  BY DEF Types
<1>2. CASE task[c] = Idle
  BY <1>1, <1>2, Consts DEF Idle, Inodes, Given, Sizing
<1>3. CASE task[c] \in AbortTask
  BY <1>1, <1>3, Consts DEF AbortTask, Inodes, Given, Sizing
<1>4. CASE task[c] \in EvictTask
  BY <1>1, <1>4, Consts DEF EvictTask, Inodes, Given, Sizing
<1>5. CASE task[c] \in SizeTask
  BY <1>1, <1>5, Consts DEF SizeTask, Inodes, Given, Sizing
<1>6. CASE task[c] \in CommitTask
  BY <1>1, <1>6, Consts DEF CommitTask, Inodes, Given, Sizing
<1> QED
  BY <1>1, <1>2, <1>3, <1>4, <1>5, <1>6 DEF Tasks

\* The names of an inode.
LEMMA EntriesAreNames ==
  ASSUME Types, NamesRight, NEW i \in Inodes
  PROVE  /\ Entries(i) = NamesOf(i)
         /\ Entries(i) # {} <=> Named(i)
         /\ Named(i) => ino[i].nlink > 0 /\ ~IsFree(i) /\ i <= table.count /\ i # Root
<1>1. i # 0
  BY Consts
<1>2. \A p \in Inodes, n \in Names : ent[p][n] = i => IsDir(p) /\ ~IsFree(p)
  BY <1>1 DEF NamesRight, IsFree
<1>3. Entries(i) = NamesOf(i)
  BY <1>2 DEF Entries, NamesOf
<1>4. NamesOf(i) # {} <=> Named(i)
  <2>1. \A p \in Inodes, n \in Names : <<p, n>>[1] = p /\ <<p, n>>[2] = n /\ <<p, n>> \in Inodes \X Names
    OBVIOUS
  <2>2. ASSUME Named(i) PROVE NamesOf(i) # {}
    <3>1. PICK p \in Inodes, n \in Names : ent[p][n] = i
      BY <2>2 DEF Named
    <3>2. <<p, n>> \in NamesOf(i)
      BY <2>1, <3>1 DEF NamesOf
    <3> QED
      BY <3>2
  <2> QED
    BY <2>2 DEF NamesOf, Named
<1>5. Named(i) => ino[i].nlink > 0 /\ ~IsFree(i) /\ i <= table.count /\ i # Root
  BY <1>1 DEF NamesRight, Named, IsFree
<1> QED
  BY <1>3, <1>4, <1>5

\* The directories that a call can reach.
LEMMA LiveDirsAre ==
  ASSUME Types, NamesRight, NEW d
  PROVE  /\ d \in LiveDirs <=> /\ d \in Inodes /\ d <= table.count /\ IsDir(d) /\ ino[d].nlink > 0
                               /\ d = Root \/ Named(d)
         /\ d \in Inodes => \A n \in Names : ent[d][n] # 0 => d \in LiveDirs
<1>1. d \in LiveDirs <=> /\ d \in Inodes /\ d <= table.count /\ IsDir(d) /\ ino[d].nlink > 0
                         /\ d = Root \/ Named(d)
  BY EntriesAreNames DEF LiveDirs, InTable
<1> QED
  BY <1>1 DEF NamesRight

\* The directories above one are those that every set closed upwards has with it.
LEMMA AboveIs ==
  ASSUME Types, NamesRight, NEW d, NEW i
  PROVE  i \in Above(d) <=> i \in Inodes /\ \A T \in SUBSET Inodes : d \in T /\ Up(T) => i \in T
<1>1. ASSUME NEW T \in SUBSET Inodes
      PROVE  Up(T) <=> \A p \in LiveDirs : \A n \in Names : ent[p][n] \in T => p \in T
  <2>1. \A p \in Inodes, n \in Names : ent[p][n] \in T => p \in LiveDirs
    BY LiveDirsAre, Consts
  <2>2. LiveDirs \subseteq Inodes
    BY DEF LiveDirs, InTable
  <2> QED
    BY <2>1, <2>2 DEF Up
<1> QED
  BY <1>1 DEF Above

\* The names of an inode and the directories in one are finite many.
LEMMA NamesFinite ==
  ASSUME NEW i
  PROVE  /\ IsFiniteSet(NamesOf(i)) /\ Cardinality(NamesOf(i)) \in Nat
         /\ IsFiniteSet(SubDirs(i)) /\ Cardinality(SubDirs(i)) \in Nat
<1>1. IsFiniteSet(Inodes) /\ IsFiniteSet(Names)
  BY FS_Interval, Consts DEF Inodes
<1>2. IsFiniteSet(Inodes \X Names)
  BY <1>1, FS_Product
<1>3. IsFiniteSet(NamesOf(i)) /\ IsFiniteSet(SubDirs(i))
  <2>1. NamesOf(i) \in SUBSET (Inodes \X Names) /\ SubDirs(i) \in SUBSET Names
    BY DEF NamesOf, SubDirs
  <2> QED
    BY <1>1, <1>2, <2>1, FS_Subset
<1> QED
  BY <1>3, FS_CardinalityType

\* The list in persistent memory from i on: i and what is behind it.
LEMMA ChainBegins ==
  ASSUME Types, NEW i \in 0 .. MaxIno
  PROVE  /\ Chain(i) \subseteq Inodes
         /\ i = 0 => Chain(i) = {}
         /\ i # 0 => i \in Chain(i) /\ \A j \in Chain(i) : j = i \/ j \in Chain(next[i])
<1>1. Chain(i) \subseteq Inodes
  BY DEF Chain
<1>2. ASSUME i = 0 PROVE Chain(i) = {}
  <2>1. {} \in SUBSET Inodes /\ ~(i # 0)
    BY <1>2
  <2> QED
    BY <2>1 DEF Chain
<1>3. ASSUME i # 0 PROVE i \in Chain(i)
  BY <1>3, Consts DEF Chain, Inodes
<1>4. ASSUME i # 0, NEW j \in Chain(i), j # i
      PROVE  j \in Chain(next[i])
  <2>1. SUFFICES ASSUME NEW T \in SUBSET Inodes, next[i] # 0 => next[i] \in T,
                        \A k \in T : next[k] # 0 => next[k] \in T
                 PROVE  j \in T
    BY <1>1 DEF Chain
  <2>2. i \in Inodes
    BY <1>4, Consts DEF Inodes
  <2>3. j \in T \cup {i}
    <3> PICK S : S = T \cup {i}
      OBVIOUS
    <3>1. S \in SUBSET Inodes /\ (i # 0 => i \in S)
      BY <2>1, <2>2
    <3>2. \A k \in S : next[k] # 0 => next[k] \in S
      BY <2>1
    <3> QED
      BY <1>4, <3>1, <3>2 DEF Chain
  <2> QED
    BY <1>4, <2>3
<1> QED
  BY <1>1, <1>2, <1>3, <1>4

\* An entry of s_truncate stands for an inode.
LEMMA EntryTypes ==
  ASSUME Types
  PROVE  /\ Len(listed) \in Nat /\ DOMAIN listed = 1 .. Len(listed)
         /\ \A k \in 1 .. Len(listed) : /\ listed[k] \in Inodes \cup Clients
                                        /\ ListedRight => InodeOf(listed[k]) \in Inodes
         /\ \A i \in Inodes : InodeOf(i) = i
         /\ \A c \in Clients : InodeOf(c) = task[c].ino
<1>1. Len(listed) \in Nat /\ DOMAIN listed = 1 .. Len(listed) /\ listed \in Seq(Inodes \cup Clients)
  BY LenProperties DEF Types
<1>2. \A k \in 1 .. Len(listed) : listed[k] \in Inodes \cup Clients
  BY <1>1, ElementOfSeq
<1>3. /\ \A i \in Inodes : InodeOf(i) = i
      /\ \A c \in Clients : InodeOf(c) = task[c].ino
  BY Consts DEF InodeOf
<1>4. ASSUME ListedRight, NEW k \in 1 .. Len(listed)
      PROVE  InodeOf(listed[k]) \in Inodes
  BY <1>2, <1>3, <1>4, TaskTypes DEF ListedRight
<1> QED
  BY <1>1, <1>2, <1>3, <1>4

\* What is listed in memory is on the list in persistent memory.
LEMMA ListedChained ==
  ASSUME Types, SameList, ListedRight, phase = "mounted", NEW i \in Inodes, Contains(listed, i)
  PROVE  i \in Chain(head)
<1>1. SUFFICES ASSUME NEW T \in SUBSET Inodes, head # 0 => head \in T,
                      \A k \in T : next[k] # 0 => next[k] \in T
               PROVE  i \in T
  BY DEF Chain
<1> DEFINE Out == {k \in 1 .. Len(listed) : InodeOf(listed[k]) \notin T}
<1>2. Len(listed) \in Nat
  BY EntryTypes
<1>3. PICK k \in 1 .. Len(listed) : listed[k] = i
  BY DEF Contains
<1>4. SUFFICES ASSUME i \notin T PROVE FALSE
  OBVIOUS
<1>5. Out # {} /\ Out \subseteq Nat
  BY <1>2, <1>3, <1>4, EntryTypes
<1>6. PICK l \in Out : \A m \in Out : ~(<<m, l>> \in OpToRel(<, Nat))
  BY <1>5, NatLessThanWellFounded, WFMin, Zenon
<1>7. l - 1 \notin Out
  <2>1. ASSUME l - 1 \in Out PROVE FALSE
    <3>1. <<l - 1, l>> \in OpToRel(<, Nat)
      <4>1. l - 1 \in Nat /\ l \in Nat /\ l - 1 < l
        BY <2>1, <1>5
      <4> QED
        BY <4>1, Zenon DEF OpToRel
    <3> QED
      BY <1>6, <2>1, <3>1
  <2> QED
    BY <2>1
<1>8. l \in 1 .. Len(listed) /\ InodeOf(listed[l]) \notin T /\ InodeOf(listed[l]) \in Inodes
  BY EntryTypes
<1>9. InodeOf(listed[l]) # 0
  BY <1>8, Consts
<1>10. CASE l = 1
  <2>1. head = InodeOf(listed[1])
    BY <1>2, <1>8, <1>10 DEF SameList
  <2> QED
    BY <1>1, <1>8, <1>9, <1>10, <2>1
<1>11. CASE l # 1
  <2>1. l - 1 \in 1 .. Len(listed) /\ l - 1 # Len(listed) /\ (l - 1) + 1 = l
    BY <1>2, <1>8, <1>11
  <2>2. InodeOf(listed[l - 1]) \in T
    BY <1>7, <2>1
  <2>3. next[InodeOf(listed[l - 1])] = InodeOf(listed[l])
    BY <2>1 DEF SameList
  <2> QED
    BY <1>1, <1>8, <1>9, <2>2, <2>3
<1> QED
  BY <1>10, <1>11
-----------------------------------------------------------------------------
(***************************************************************************)
(* The namespace.  The steps of the model touch it in one of four ways:    *)
(* only inodes without a name change, an inode gets its first name, a file *)
(* gets another one, or the transaction of a removal commits.              *)
(***************************************************************************)
Space == NamesRight /\ LinksRight /\ DirsNamed /\ Hangs /\ NamesAlive

\* What a name says of its inode has not changed.
SameInode(i) == ino'[i].kind = ino[i].kind /\ ino'[i].nlink = ino[i].nlink /\ ino'[i].dtime = ino[i].dtime

\* Only inodes without a name change: they lose their links, or are directories that a
\* call still has to give up.
Nameless ==
  /\ ent' = ent /\ leaked' = leaked /\ table.count <= table'.count
  /\ \A i \in Inodes :
       \/ SameInode(i)
       \/ /\ ~Named(i) /\ i # Root /\ i \notin leaked /\ i <= table'.count
          /\ ino'[i].nlink = 0 \/ (ino'[i].kind = "dir" /\ i \in Leaving')
  /\ \A i \in Leaving \cap Inodes : i \in Leaving' \/ ino'[i].nlink = 0

\* Such a step leaves the namespace in order.
LEMMA NamelessKeepsSpace ==
  ASSUME Types, Types', Space, Nameless
  PROVE  Space'
<1>1. ent' = ent /\ leaked' = leaked /\ table.count <= table'.count /\ Root \in Inodes /\ 0 \notin Inodes
      /\ table.count \in Int /\ table'.count \in Int /\ leaked \subseteq Inodes /\ \A i \in Inodes : i \in Int
  <2>1. /\ table \in [count : FirstTable .. MaxIno, blocks : SUBSET Blocks] /\ leaked \subseteq Inodes
        /\ table' \in [count : FirstTable .. MaxIno, blocks : SUBSET Blocks]
    BY DEF Types
  <2>2. table.count \in FirstTable .. MaxIno /\ table'.count \in FirstTable .. MaxIno
    BY <2>1
  <2> QED
    BY <2>1, <2>2, Consts DEF Nameless
<1>2. /\ \A i : Named(i)' <=> Named(i)
      /\ \A i : NamesOf(i)' = NamesOf(i)
      /\ \A T : Up(T)' <=> Up(T)
  BY <1>1 DEF Named, NamesOf, Up
<1>3. \A i \in Inodes : Named(i) => SameInode(i) /\ (IsDir(i)' <=> IsDir(i)) /\ (IsFree(i)' <=> IsFree(i)) /\ ~IsFree(i)
  BY EntriesAreNames DEF Nameless, SameInode, IsDir, IsFree, Space
<1>4. \A i \in leaked \cup {Root} : i \in Inodes /\ SameInode(i) /\ (IsDir(i)' <=> IsDir(i)) /\ (IsFree(i)' <=> IsFree(i))
  BY <1>1 DEF Nameless, SameInode, IsDir, IsFree
<1>5. \A p \in Inodes, n \in Names : ent[p][n] # 0 =>
        /\ ent[p][n] \in Inodes /\ Named(ent[p][n]) /\ (p = Root \/ Named(p))
        /\ p <= table.count /\ ent[p][n] <= table.count
  <2>1. \A p \in Inodes, n \in Names : ent[p][n] # 0 => ent[p][n] \in Inodes
    BY InodeTypes DEF Inodes
  <2> QED
    BY <2>1 DEF Space, NamesRight, Named
<1>6. NamesRight'
  <2>1. ASSUME NEW p \in Inodes, NEW n \in Names, ent[p][n] # 0
        PROVE  /\ p <= table'.count /\ IsDir(p)' /\ ino'[p].nlink > 0
               /\ ent[p][n] <= table'.count /\ ent[p][n] # Root /\ ino'[ent[p][n]].nlink > 0
    <3>1. p <= table'.count /\ ent[p][n] <= table'.count
      BY <1>1, <1>5, <2>1, Consts, InodeTypes
    <3>2. SameInode(p) /\ (IsDir(p)' <=> IsDir(p)) /\ SameInode(ent[p][n])
      BY <1>3, <1>4, <1>5, <2>1
    <3> QED
      BY <2>1, <3>1, <3>2 DEF SameInode, Space, NamesRight
  <2>2. ASSUME NEW i \in Inodes, i > table'.count PROVE IsFree(i)'
    <3>1. i > table.count
      BY <1>1, <2>2
    <3>2. IsFree(i)
      BY <3>1 DEF Space, NamesRight
    <3>3. SameInode(i)
      BY <1>1, <2>2 DEF Nameless
    <3> QED
      BY <3>2, <3>3 DEF IsFree, SameInode
  <2>3. IsDir(Root)' /\ ino'[Root].nlink > 0
    BY <1>4 DEF Space, NamesRight, SameInode
  <2> QED
    BY <1>1, <1>2, <1>5, <2>1, <2>2, <2>3 DEF NamesRight
<1>7. \A i \in Inodes : SubDirs(i)' = SubDirs(i)
  <2>1. \A i \in Inodes, n \in Names : ent[i][n] # 0 => (IsDir(ent[i][n])' <=> IsDir(ent[i][n]))
    BY <1>1, <1>3, <1>5 DEF IsDir, SameInode
  <2> QED
    BY <1>1, <2>1 DEF SubDirs
<1>8. LinksRight'
  <2>1. ASSUME NEW i \in Inodes, ~IsFree(i)', ~IsDir(i)' PROVE ino'[i].nlink = Cardinality(NamesOf(i))
    <3>1. CASE SameInode(i)
      BY <2>1, <3>1 DEF Space, LinksRight, SameInode, IsFree, IsDir
    <3>2. CASE ~SameInode(i)
      <4>1. ~Named(i) /\ ino'[i].nlink = 0
        BY <2>1, <3>2 DEF Nameless, IsDir
      <4>2. NamesOf(i) = {}
        BY <4>1 DEF NamesOf, Named
      <4> QED
        BY <4>1, <4>2, FS_EmptySet
    <3> QED
      BY <3>1, <3>2
  <2>2. ASSUME NEW p \in Inodes, NEW q \in Inodes, NEW n \in Names, NEW m \in Names,
               ent[p][n] # 0, IsDir(ent[p][n])', ent[p][n] = ent[q][m]
        PROVE  p = q /\ n = m
    <3>1. IsDir(ent[p][n])
      BY <1>1, <1>3, <1>5, <2>2 DEF IsDir, SameInode
    <3> QED
      BY <2>2, <3>1 DEF Space, LinksRight
  <2>3. ASSUME NEW i \in Inodes, IsDir(i)', ino'[i].nlink > 0, i = Root \/ Named(i)
        PROVE  ino'[i].nlink >= 2 + Cardinality(SubDirs(i))
    <3>1. SameInode(i)
      BY <1>3, <1>4, <2>3
    <3> QED
      BY <2>3, <3>1 DEF Space, LinksRight, SameInode, IsDir
  <2> QED
    BY <1>1, <1>2, <1>7, <2>1, <2>2, <2>3 DEF LinksRight
<1>9. DirsNamed'
  <2>1. ASSUME NEW i \in Inodes, IsDir(i)', ino'[i].nlink > 0, i # Root, i \notin Leaving' \cup leaked
        PROVE  Named(i)
    <3>1. i \notin Leaving
      BY <1>1, <2>1 DEF Nameless
    <3>2. SameInode(i)
      BY <2>1 DEF Nameless
    <3> QED
      BY <2>1, <3>1, <3>2 DEF Space, DirsNamed, SameInode, IsDir
  <2>2. ASSUME NEW i \in leaked PROVE i <= table'.count /\ i # Root /\ IsDir(i)' /\ ino'[i].nlink > 0 /\ ~Named(i)
    <3>1. i <= table.count /\ i # Root /\ IsDir(i) /\ ino[i].nlink > 0 /\ ~Named(i) /\ SameInode(i)
      BY <1>4 DEF Space, DirsNamed
    <3> QED
      BY <1>1, <3>1 DEF SameInode, IsDir
  <2> QED
    BY <1>1, <1>2, <2>1, <2>2 DEF DirsNamed
<1>10. Hangs'
  <2>1. ASSUME NEW i \in Inodes, IsDir(i)', Named(i) PROVE IsDir(i)
    BY <1>3, <2>1
  <2> QED
    BY <1>1, <1>2, <2>1 DEF Space, Hangs
<1>11. NamesAlive'
  BY <1>2, <1>3 DEF Space, NamesAlive, SameInode
<1> QED
  BY <1>6, <1>8, <1>9, <1>10, <1>11 DEF Space
\* A name for inode i in directory d: i was free, or is a file that has a name already.
NewName(d, n, i) ==
  /\ d \in LiveDirs /\ n \in Names /\ ent[d][n] = 0 /\ i \in Inodes /\ i <= table'.count
  /\ table.count <= table'.count /\ leaked' = leaked /\ Leaving' = Leaving
  /\ \A p \in Inodes, m \in Names : ent'[p][m] = IF p = d /\ m = n THEN i ELSE ent[p][m]
  /\ \A j \in Inodes \ {i} :
       /\ ino'[j].kind = ino[j].kind /\ ino'[j].dtime = ino[j].dtime
       /\ ino'[j].nlink = IF j = d /\ ino'[i].kind = "dir" THEN ino[j].nlink + 1 ELSE ino[j].nlink
  /\ \/ /\ IsFree(i) /\ i \notin Leaving /\ ino'[i].kind # "none" /\ ~ino'[i].dtime
        /\ ino'[i].nlink = IF ino'[i].kind = "dir" THEN 2 ELSE 1
     \/ /\ ~IsDir(i) /\ Named(i) /\ ino'[i].kind = ino[i].kind /\ ino'[i].dtime = ino[i].dtime
        /\ ino'[i].nlink = ino[i].nlink + 1

\* A new name is in order.
LEMMA NewNameKeepsSpace ==
  ASSUME Types, Types', Space, NEW d, NEW n, NEW i, NewName(d, n, i)
  PROVE  Space'
<1>1. /\ d \in Inodes /\ d <= table.count /\ IsDir(d) /\ ino[d].nlink > 0 /\ (d = Root \/ Named(d))
      /\ n \in Names /\ ent[d][n] = 0 /\ i \in Inodes /\ i <= table'.count /\ i # 0
      /\ leaked' = leaked /\ Leaving' = Leaving /\ leaked \subseteq Inodes /\ Root \in Inodes
      /\ \A j \in Inodes : j \in Int /\ j # 0
  BY LiveDirsAre, Consts DEF NewName, Space, Types
<1>2. table.count \in Int /\ table'.count \in Int /\ table.count <= table'.count
  <2>1. /\ table \in [count : FirstTable .. MaxIno, blocks : SUBSET Blocks]
        /\ table' \in [count : FirstTable .. MaxIno, blocks : SUBSET Blocks]
    BY DEF Types
  <2> QED
    BY <2>1, Consts DEF NewName
<1>3. \A p \in Inodes, m \in Names : ent'[p][m] = IF p = d /\ m = n THEN i ELSE ent[p][m]
  BY DEF NewName
<1>4. \A p \in Inodes, m \in Names : ent[p][m] # 0 =>
        /\ ent[p][m] \in Inodes /\ Named(ent[p][m]) /\ (p = Root \/ Named(p))
        /\ p <= table.count /\ IsDir(p) /\ ino[p].nlink > 0
        /\ ent[p][m] <= table.count /\ ent[p][m] # Root /\ ino[ent[p][m]].nlink > 0
  <2>1. \A p \in Inodes, m \in Names : ent[p][m] # 0 => ent[p][m] \in Inodes
    BY InodeTypes DEF Inodes
  <2> QED
    BY <2>1 DEF Space, NamesRight, Named
<1> DEFINE dir == ino'[i].kind = "dir"
<1>5. \A j \in Inodes \ {i} :
        /\ ino'[j].kind = ino[j].kind /\ ino'[j].dtime = ino[j].dtime
        /\ ino'[j].nlink = IF j = d /\ dir THEN ino[j].nlink + 1 ELSE ino[j].nlink
  BY DEF NewName
<1>6. \/ /\ IsFree(i) /\ i \notin Leaving /\ ino'[i].kind # "none" /\ ~Named(i) /\ i # Root
         /\ i \notin leaked /\ ino[i].nlink = 0
         /\ ino'[i].nlink = IF dir THEN 2 ELSE 1
      \/ /\ ~IsDir(i) /\ ~dir /\ Named(i) /\ ino'[i].kind = ino[i].kind /\ ino'[i].dtime = ino[i].dtime
         /\ ino'[i].nlink = ino[i].nlink + 1 /\ i # Root /\ i <= table.count
         /\ ino[i].nlink > 0
  <2>1. \A j \in Inodes : Named(j) => ino[j].nlink > 0 /\ ~IsFree(j) /\ j <= table.count /\ j # Root
    BY EntriesAreNames DEF Space
  <2>2. IsFree(i) => i # Root /\ i \notin leaked /\ ino[i].nlink = 0
    <3>1. IsFree(i) => ino[i].nlink = 0
      BY DEF IsFree
    <3> QED
      BY <3>1, <1>1, InodeTypes DEF Space, NamesRight, DirsNamed
  <2> QED
    BY <1>1, <2>1, <2>2 DEF NewName, IsDir
<1> HIDE DEF dir
<1>7. i # d
  <2>1. ino[d].nlink > 0 /\ IsDir(d)
    BY <1>1
  <2> QED
    BY <1>6, <2>1
<1>8. \A j \in Inodes : Named(j)' <=> (Named(j) \/ j = i)
  BY <1>1, <1>3, <1>4 DEF Named
<1>9. \A j \in Inodes : IsDir(j)' <=> IF j = i THEN dir ELSE IsDir(j)
  BY <1>5 DEF IsDir, dir
<1>10. \A j \in Inodes : ino'[j].nlink \in Nat /\ ino[j].nlink \in Nat
  BY InodeTypes, InodeTypesAfter
<1>11. \A j \in Inodes \ {i} : ino'[j].nlink >= ino[j].nlink /\ (IsFree(j)' <=> IsFree(j))
  <2>1. \A j \in Inodes \ {i} : ino'[j].nlink >= ino[j].nlink
    BY <1>5, <1>10
  <2>2. ~IsFree(d) /\ ~IsFree(d)'
    BY <1>1, <1>5, <1>7, <1>10, <2>1 DEF IsFree
  <2>3. \A j \in Inodes \ {i, d} : IsFree(j)' <=> IsFree(j)
    BY <1>5 DEF IsFree
  <2> QED
    BY <2>1, <2>2, <2>3
<1>12. NamesRight'
  <2>1. ASSUME NEW p \in Inodes, NEW m \in Names, ent'[p][m] # 0
        PROVE  /\ p <= table'.count /\ IsDir(p)' /\ ino'[p].nlink > 0 /\ (p = Root \/ Named(p)')
               /\ ent'[p][m] <= table'.count /\ ent'[p][m] # Root /\ ino'[ent'[p][m]].nlink > 0
    <3>1. p # i /\ p <= table.count /\ IsDir(p) /\ ino[p].nlink > 0 /\ (p = Root \/ Named(p))
      BY <1>1, <1>3, <1>4, <1>6, <1>7, <2>1
    <3>2. p <= table'.count /\ IsDir(p)' /\ ino'[p].nlink > 0 /\ (p = Root \/ Named(p)')
      <4>1. ino'[p].nlink >= ino[p].nlink /\ p \in Int
        BY <1>1, <1>11, <3>1
      <4> QED
        BY <1>2, <1>8, <1>9, <1>10, <3>1, <4>1
    <3>3. CASE ent'[p][m] = i
      BY <1>1, <1>6, <1>10, <3>2, <3>3
    <3>4. CASE ent'[p][m] # i
      <4>1. ent'[p][m] = ent[p][m] /\ ent[p][m] # i /\ ent[p][m] # 0
        BY <1>3, <2>1, <3>4
      <4>2. ent[p][m] \in Inodes /\ ent[p][m] <= table.count /\ ent[p][m] # Root /\ ino[ent[p][m]].nlink > 0
        BY <1>4, <4>1
      <4>3. ino'[ent[p][m]].nlink >= ino[ent[p][m]].nlink /\ ent[p][m] \in Int
        BY <1>1, <1>11, <4>1, <4>2
      <4>4. ino'[ent[p][m]].nlink > 0
        BY <1>10, <4>2, <4>3
      <4>5. ent[p][m] <= table'.count
        BY <1>2, <4>2, <4>3
      <4> QED
        BY <3>2, <4>1, <4>2, <4>4, <4>5
    <3> QED
      BY <3>3, <3>4
  <2>2. ASSUME NEW j \in Inodes, j > table'.count PROVE IsFree(j)'
    <3>1. j # i /\ j > table.count
      BY <1>1, <1>2, <2>2
    <3> QED
      BY <1>11, <3>1 DEF Space, NamesRight
  <2>3. IsDir(Root)' /\ ino'[Root].nlink > 0
    <3>1. Root # i /\ IsDir(Root) /\ ino[Root].nlink > 0
      BY <1>6 DEF Space, NamesRight
    <3> QED
      BY <1>1, <1>9, <1>10, <1>11, <3>1
  <2> QED
    BY <2>1, <2>2, <2>3 DEF NamesRight
<1>13. LinksRight'
  <2>1. ASSUME NEW j \in Inodes, ~IsFree(j)', ~IsDir(j)' PROVE ino'[j].nlink = Cardinality(NamesOf(j)')
    <3>1. CASE j # i
      <4>1. NamesOf(j)' = NamesOf(j)
        BY <1>1, <1>3, <3>1 DEF NamesOf
      <4>2. ~IsFree(j) /\ ~IsDir(j) /\ j # d
        BY <1>1, <1>9, <1>11, <2>1, <3>1
      <4>3. ino'[j].nlink = ino[j].nlink
        BY <1>5, <3>1, <4>2
      <4> QED
        BY <4>1, <4>2, <4>3 DEF Space, LinksRight
    <3>2. CASE j = i
      <4>1. NamesOf(i)' = NamesOf(i) \cup {<<d, n>>} /\ <<d, n>> \notin NamesOf(i)
        <5>1. ASSUME NEW x \in Inodes \X Names
              PROVE  ent'[x[1]][x[2]] = i <=> (x = <<d, n>> \/ ent[x[1]][x[2]] = i)
          <6>1. x[1] \in Inodes /\ x[2] \in Names /\ (x = <<d, n>> <=> x[1] = d /\ x[2] = n)
            BY <5>1
          <6> QED
            BY <1>3, <6>1
        <5>2. <<d, n>> \in Inodes \X Names /\ <<d, n>>[1] = d /\ <<d, n>>[2] = n
          BY <1>1
        <5> QED
          BY <1>1, <5>1, <5>2 DEF NamesOf
      <4>2. Cardinality(NamesOf(i)') = Cardinality(NamesOf(i)) + 1
        BY <4>1, NamesFinite, FS_AddElement
      <4>3. ~dir
        BY <1>9, <2>1, <3>2
      <4>4. CASE Named(i)
        <5>1. ~IsFree(i) /\ ~IsDir(i)
          BY <1>6, <4>4 DEF IsFree
        <5> QED
          BY <1>6, <3>2, <4>2, <4>4, <5>1 DEF Space, LinksRight
      <4>5. CASE ~Named(i)
        <5>1. NamesOf(i) = {}
          BY <4>5 DEF NamesOf, Named
        <5>2. Cardinality(NamesOf(i)) = 0
          BY <5>1, FS_EmptySet
        <5> QED
          BY <1>6, <3>2, <4>2, <4>3, <4>5, <5>2
      <4> QED
        BY <4>4, <4>5
    <3> QED
      BY <3>1, <3>2
  <2>2. ASSUME NEW p \in Inodes, NEW q \in Inodes, NEW k \in Names, NEW m \in Names,
               ent'[p][k] # 0, IsDir(ent[p][k])', ent'[p][k] = ent'[q][m]
        PROVE  p = q /\ k = m
    <3>1. CASE ent'[p][k] = i
      <4>1. ~Named(i)
        BY <1>1, <1>6, <1>9, <2>2, <3>1 DEF IsDir, dir
      <4>2. ent[p][k] # i /\ ent[q][m] # i
        BY <4>1 DEF Named
      <4>3. ent'[q][m] = i
        BY <2>2, <3>1
      <4>4. p = d /\ k = n
        BY <1>3, <3>1, <4>2
      <4>5. q = d /\ m = n
        BY <1>3, <4>2, <4>3
      <4> QED
        BY <4>4, <4>5
    <3>2. CASE ent'[p][k] # i
      <4>1. ent'[p][k] = ent[p][k] /\ ent'[q][m] = ent[q][m] /\ ent[p][k] \in Inodes /\ ent[p][k] # i
        BY <1>3, <1>4, <2>2, <3>2
      <4>2. IsDir(ent[p][k])
        BY <1>5, <2>2, <4>1 DEF IsDir
      <4>3. ent[p][k] # 0 /\ ent[p][k] = ent[q][m]
        BY <2>2, <4>1
      <4> QED
        BY <4>2, <4>3 DEF Space, LinksRight
    <3> QED
      BY <3>1, <3>2
  <2>3. ASSUME NEW j \in Inodes, IsDir(j)', ino'[j].nlink > 0, j = Root \/ Named(j)'
        PROVE  ino'[j].nlink >= 2 + Cardinality(SubDirs(j)')
    <3>1. \A p \in Inodes, m \in Names : p # d \/ m # n =>
            ((ent'[p][m] # 0 /\ IsDir(ent[p][m])') <=> (ent[p][m] # 0 /\ IsDir(ent[p][m])))
      <4>1. ASSUME NEW p \in Inodes, NEW m \in Names, p # d \/ m # n, ent[p][m] # 0
            PROVE  ino'[ent[p][m]].kind = ino[ent[p][m]].kind
        BY <1>4, <1>5, <1>6, <4>1
      <4> QED
        BY <1>3, <4>1 DEF IsDir
    <3>2. CASE j = i
      <4>1. dir /\ \A m \in Names : ent[i][m] = 0
        BY <1>4, <1>6, <1>9, <2>3, <3>2
      <4>2. SubDirs(i)' = {}
        <5>1. \A m \in Names : ent'[i][m] = 0
          BY <1>1, <1>3, <1>7, <4>1
        <5> QED
          BY <5>1 DEF SubDirs
      <4>3. ino'[i].nlink = 2
        BY <1>6, <4>1
      <4> QED
        BY <3>2, <4>2, <4>3, FS_EmptySet
    <3>3. CASE j = d
      <4>1. ino[d].nlink >= 2 + Cardinality(SubDirs(d))
        BY <1>1 DEF Space, LinksRight
      <4>2. n \notin SubDirs(d)
        BY <1>1 DEF SubDirs
      <4>3. SubDirs(d)' = IF dir THEN SubDirs(d) \cup {n} ELSE SubDirs(d)
        <5>1. ent'[d][n] = i /\ i # 0 /\ (IsDir(ent[d][n])' <=> dir)
          BY <1>1, <1>3 DEF IsDir, dir
        <5> QED
          BY <1>1, <3>1, <4>2, <5>1 DEF SubDirs
      <4>4. Cardinality(SubDirs(d) \cup {n}) = Cardinality(SubDirs(d)) + 1 /\ Cardinality(SubDirs(d)) \in Nat
        BY <4>2, NamesFinite, FS_AddElement
      <4>5. ino'[d].nlink = IF dir THEN ino[d].nlink + 1 ELSE ino[d].nlink
        BY <1>1, <1>5, <1>7
      <4> QED
        BY <1>1, <1>10, <3>3, <4>1, <4>3, <4>4, <4>5
    <3>4. CASE j # i /\ j # d
      <4>1. SubDirs(j)' = SubDirs(j)
        BY <3>1, <3>4 DEF SubDirs
      <4>2. ino'[j].nlink = ino[j].nlink /\ IsDir(j) /\ (j = Root \/ Named(j))
        BY <1>5, <1>8, <1>9, <2>3, <3>4
      <4> QED
        BY <2>3, <4>1, <4>2 DEF Space, LinksRight
    <3> QED
      BY <3>2, <3>3, <3>4
  <2> QED
    BY <2>1, <2>2, <2>3 DEF LinksRight
<1>14. DirsNamed'
  <2>1. ASSUME NEW j \in Inodes, IsDir(j)', ino'[j].nlink > 0, j # Root, j \notin Leaving' \cup leaked
        PROVE  Named(j)'
    <3>1. CASE j = d
      BY <1>1, <1>8, <2>1, <3>1
    <3>2. CASE j = i
      BY <1>1, <1>8, <3>2
    <3>3. CASE j # d /\ j # i
      <4>1. IsDir(j) /\ ino[j].nlink > 0
        BY <1>5, <1>9, <2>1, <3>3
      <4> QED
        BY <1>1, <1>8, <2>1, <4>1 DEF Space, DirsNamed
    <3> QED
      BY <3>1, <3>2, <3>3
  <2>2. ASSUME NEW j \in leaked PROVE j <= table'.count /\ j # Root /\ IsDir(j)' /\ ino'[j].nlink > 0 /\ ~Named(j)'
    <3>1. j \in Inodes /\ j <= table.count /\ j # Root /\ IsDir(j) /\ ino[j].nlink > 0 /\ ~Named(j) /\ j # i
      BY <1>1, <1>6, <2>2 DEF Space, DirsNamed
    <3>2. ino'[j].nlink > 0
      BY <1>10, <1>11, <3>1
    <3> QED
      BY <1>1, <1>2, <1>8, <1>9, <3>1, <3>2
  <2> QED
    BY <1>1, <2>1, <2>2 DEF DirsNamed
<1>15. Hangs'
  <2>1. SUFFICES ASSUME NEW j \in Inodes, NEW T \in SUBSET Inodes, IsDir(j)', Named(j)', j \in T, Up(T)'
                 PROVE  Root \in T
    BY DEF Hangs
  <2>2. Up(T)
    BY <1>1, <1>3, <2>1 DEF Up
  <2>3. \A k \in Inodes : IsDir(k) /\ Named(k) /\ k \in T => Root \in T
    BY <2>2 DEF Space, Hangs
  <2>4. CASE j # i
    BY <1>8, <1>9, <2>1, <2>3, <2>4
  <2>5. CASE j = i
    <3>1. d \in T
      BY <1>1, <1>3, <2>1, <2>5 DEF Up
    <3> QED
      BY <1>1, <2>3, <3>1
  <2> QED
    BY <2>4, <2>5
<1>16. NamesAlive'
  <2>1. ASSUME NEW j \in Inodes, Named(j)' PROVE ino'[j].kind # "none" /\ ~ino'[j].dtime
    <3>1. CASE j = i
      <4>1. Named(i) => ino[i].kind # "none" /\ ~ino[i].dtime
        BY <1>1 DEF Space, NamesAlive
      <4> QED
        BY <3>1, <4>1 DEF NewName
    <3>2. CASE j # i
      BY <1>5, <1>8, <2>1, <3>2 DEF Space, NamesAlive
    <3> QED
      BY <3>1, <3>2
  <2> QED
    BY <2>1 DEF NamesAlive
<1> QED
  BY <1>12, <1>13, <1>14, <1>15, <1>16 DEF Space
\* What a removal needs: the name (d, n) goes, and if v is not 0 it is the name of v,
\* which replaces inode i under the name (e, m).
CanGo(d, n, e, m, i, v) ==
  /\ d \in Inodes /\ n \in Names /\ e \in LiveDirs /\ m \in Names /\ ent[e][m] = i
  /\ v = 0 => d = e /\ n = m /\ i # 0
  /\ v # 0 => /\ ent[d][n] = v /\ v # i
              /\ i # 0 => (IsDir(v) <=> IsDir(i))
  /\ i # 0 /\ IsDir(i) => \A k \in Names : ent[i][k] = 0
  /\ v # 0 /\ IsDir(v) /\ d # e => \E T \in SUBSET Inodes : e \in T /\ Up(T) /\ v \notin T

\* What its transaction does.
Goes(d, n, e, m, i, v) ==
  /\ \A p \in Inodes, k \in Names :
       ent'[p][k] = IF p = d /\ k = n THEN 0 ELSE IF p = e /\ k = m THEN v ELSE ent[p][k]
  /\ \A j \in Inodes : /\ ino'[j].kind = ino[j].kind /\ ino'[j].dtime = ino[j].dtime
                       /\ ino'[j].nlink = LinksOf(d, e, i, v)[j]
  /\ table' = table /\ Leaving' = Leaving
  /\ leaked' = leaked \cup {j \in {i} \cap Inodes : IsDir(j) /\ ino'[j].nlink > 0}

\* The greater of 0 and a number.
LEMMA MaxWithZero ==
  ASSUME NEW x \in Int
  PROVE  Max({0, x}) = IF x > 0 THEN x ELSE 0
<1>1. \E y \in {0, x} : \A z \in {0, x} : y >= z
  BY DEF Max
<1>2. /\ Max({0, x}) \in {0, x} /\ \A z \in {0, x} : Max({0, x}) >= z
  BY <1>1 DEF Max
<1> QED
  BY <1>2

\* Who is who in a removal.
LEMMA GoingInodes ==
  ASSUME Types, Space, NEW d, NEW n, NEW e, NEW m, NEW i, NEW v, CanGo(d, n, e, m, i, v)
  PROVE  /\ d \in Inodes /\ d \in LiveDirs /\ e \in Inodes /\ n \in Names /\ m \in Names
         /\ IsDir(d) /\ IsDir(e) /\ ino[d].nlink > 0 /\ ino[e].nlink > 0
         /\ d = Root \/ Named(d)
         /\ e = Root \/ Named(e)
         /\ ent[d][n] # 0 /\ ent[d][n] = (IF v = 0 THEN i ELSE v)
         /\ i # 0 => i \in Inodes /\ Named(i) /\ i # Root /\ i <= table.count /\ ino[i].nlink > 0 /\ ~IsFree(i)
         /\ v # 0 => v \in Inodes /\ Named(v) /\ v # Root /\ v <= table.count /\ ino[v].nlink > 0 /\ ~IsFree(v)
         /\ d # i /\ e # i /\ v # d /\ v # e /\ i # v
         /\ d <= table.count /\ e <= table.count
         /\ \A k \in Names : i # 0 => ent[i][k] = 0
<1>1. /\ d \in Inodes /\ n \in Names /\ e \in LiveDirs /\ m \in Names /\ ent[e][m] = i
      /\ v = 0 => d = e /\ n = m /\ i # 0
      /\ v # 0 => ent[d][n] = v /\ v # i
      /\ 0 \notin Inodes
  BY Consts DEF CanGo
<1>2. ent[d][n] # 0 /\ ent[d][n] = (IF v = 0 THEN i ELSE v) /\ i # v
  BY <1>1
<1>3. d \in LiveDirs /\ d \in Inodes /\ e \in Inodes
  BY <1>1, <1>2, LiveDirsAre DEF Space
<1>4. /\ IsDir(d) /\ IsDir(e) /\ ino[d].nlink > 0 /\ ino[e].nlink > 0
      /\ d = Root \/ Named(d)
      /\ e = Root \/ Named(e)
      /\ d <= table.count /\ e <= table.count
  BY <1>1, <1>3, LiveDirsAre DEF Space
<1>5. \A p \in Inodes, k \in Names : ent[p][k] # 0 =>
        /\ ent[p][k] \in Inodes /\ Named(ent[p][k]) /\ ent[p][k] # Root /\ ent[p][k] <= table.count
        /\ ino[ent[p][k]].nlink > 0 /\ ~IsFree(ent[p][k])
  <2>1. \A p \in Inodes, k \in Names : ent[p][k] # 0 => ent[p][k] \in Inodes /\ Named(ent[p][k])
    BY InodeTypes DEF Inodes, Named
  <2> QED
    BY <2>1, EntriesAreNames DEF Space
<1>6. i # 0 => i \in Inodes /\ Named(i) /\ i # Root /\ i <= table.count /\ ino[i].nlink > 0 /\ ~IsFree(i)
  BY <1>1, <1>3, <1>5
<1>7. v # 0 => v \in Inodes /\ Named(v) /\ v # Root /\ v <= table.count /\ ino[v].nlink > 0 /\ ~IsFree(v)
  BY <1>1, <1>5
<1>8. ASSUME i # 0, NEW k \in Names PROVE ent[i][k] = 0
  <2>1. CASE IsDir(i)
    BY <1>8, <2>1 DEF CanGo
  <2>2. CASE ~IsDir(i)
    BY <1>6, <1>8, <2>2 DEF Space, NamesRight
  <2> QED
    BY <2>1, <2>2
<1>9. d # i /\ e # i
  BY <1>1, <1>2, <1>3, <1>8
<1>10. v # d
  <2>1. SUFFICES ASSUME v = d PROVE FALSE
    OBVIOUS
  <2>2. ent[d][n] = d /\ d # 0
    BY <1>1, <2>1
  <2>3. \A p \in Inodes, k \in Names : ent[p][k] = d => p = d /\ k = n
    BY <1>1, <1>4, <2>2 DEF Space, LinksRight
  <2>4. {d} \in SUBSET Inodes /\ Up({d})
    BY <1>1, <2>3 DEF Up
  <2>5. Root \in {d}
    BY <1>1, <1>4, <1>7, <2>1, <2>2, <2>4 DEF Space, Hangs
  <2> QED
    BY <1>7, <2>1, <2>2, <2>5
<1>11. v # e
  <2>1. CASE d = e
    BY <1>10, <2>1
  <2>2. CASE d # e
    <3>1. SUFFICES ASSUME v = e PROVE FALSE
      OBVIOUS
    <3>2. v # 0 /\ IsDir(v)
      BY <1>1, <1>3, <1>4, <3>1
    <3> QED
      BY <2>2, <3>1, <3>2 DEF CanGo
  <2> QED
    BY <2>1, <2>2
<1> QED
  BY <1>1, <1>2, <1>3, <1>4, <1>6, <1>7, <1>8, <1>9, <1>10, <1>11

\* The link counts after a removal.
LEMMA GoingLinks ==
  ASSUME Types, Space, NEW d, NEW n, NEW e, NEW m, NEW i, NEW v, CanGo(d, n, e, m, i, v),
         NEW j \in Inodes
  PROVE  LET links == LinksOf(d, e, i, v)[j] IN
         /\ j = i /\ ~IsDir(i) => links = ino[j].nlink - 1
         /\ j = i /\ IsDir(i) => links \in Nat
         /\ j # i /\ j # d /\ j # e => links = ino[j].nlink
         /\ j # i /\ ~(v = 0 /\ IsDir(i)) /\ ~(v # 0 /\ i = 0 /\ IsDir(v)) => links = ino[j].nlink
         /\ j # i /\ v = 0 /\ IsDir(i) /\ j = d => links = ino[j].nlink - 1
         /\ v # 0 /\ i = 0 /\ IsDir(v) =>
              links = ino[j].nlink + (IF j = e THEN 1 ELSE 0) - (IF j = d THEN 1 ELSE 0)
<1>1. /\ i # 0 => i \in Inodes /\ ino[i].nlink > 0
      /\ v = 0 => d = e
      /\ j # 0
      /\ v # 0 /\ i # 0 => (IsDir(v) <=> IsDir(i))
  <2>1. i # 0 => i \in Inodes /\ ino[i].nlink > 0
    BY GoingInodes
  <2>2. /\ v = 0 => d = e
        /\ v # 0 /\ i # 0 => (IsDir(v) <=> IsDir(i))
    BY DEF CanGo
  <2> QED
    BY <2>1, <2>2, Consts
<1>2. ino[j].nlink \in Nat
  BY InodeTypes
<1>3. LinksOf(d, e, i, v)[j] =
        IF j = i THEN Dropped(i, v)
        ELSE IF v = 0 THEN (IF j = d /\ IsDir(i) THEN ino[j].nlink - 1 ELSE ino[j].nlink)
        ELSE IF i = 0 /\ IsDir(v)
        THEN ino[j].nlink + (IF j = e THEN 1 ELSE 0) - (IF j = d THEN 1 ELSE 0)
        ELSE ino[j].nlink
  BY DEF LinksOf
<1>4. ASSUME j = i
      PROVE  /\ ~IsDir(i) => Dropped(i, v) = ino[j].nlink - 1
             /\ IsDir(i) => Dropped(i, v) \in Nat
  <2>1. ino[i].nlink - 1 \in Int /\ ino[i].nlink - 2 \in Int /\ ino[i].nlink > 0
    BY <1>1, <1>2, <1>4
  <2>2. Max({0, ino[i].nlink - 1}) = ino[i].nlink - 1
    BY <1>2, <1>4, <2>1, MaxWithZero
  <2>3. Max({0, ino[i].nlink - 2}) \in Nat
    BY <1>2, <1>4, <2>1, MaxWithZero
  <2>4. ~IsDir(i) => ~(v # 0 /\ IsDir(v))
    BY <1>1, <1>4
  <2>5. Dropped(i, v) = IF IsDir(i) /\ v = 0 THEN 0
                        ELSE IF v # 0 /\ IsDir(v) THEN Max({0, ino[i].nlink - 2}) ELSE Max({0, ino[i].nlink - 1})
    BY DEF Dropped
  <2> QED
    BY <1>2, <1>4, <2>1, <2>2, <2>3, <2>4, <2>5
<1>5. CASE j = i
  BY <1>1, <1>3, <1>4, <1>5
<1>6. CASE j # i
  <2>1. ino[j].nlink + 0 - 0 = ino[j].nlink
    BY <1>2
  <2> QED
    BY <1>1, <1>2, <1>3, <1>6, <2>1
<1> QED
  BY <1>5, <1>6
\* A removal leaves the namespace in order.
LEMMA GoesKeepsSpace ==
  ASSUME Types, Types', Space, NEW d, NEW n, NEW e, NEW m, NEW i, NEW v,
         CanGo(d, n, e, m, i, v), Goes(d, n, e, m, i, v)
  PROVE  Space'
<1> DEFINE dirV == v # 0 /\ IsDir(v)
           dirI == i # 0 /\ IsDir(i)
<1>1. /\ d \in Inodes /\ d \in LiveDirs /\ e \in Inodes /\ n \in Names /\ m \in Names
      /\ IsDir(d) /\ IsDir(e) /\ ino[d].nlink > 0 /\ ino[e].nlink > 0
      /\ d = Root \/ Named(d)
      /\ e = Root \/ Named(e)
      /\ ent[d][n] # 0 /\ ent[d][n] = (IF v = 0 THEN i ELSE v)
      /\ d # i /\ e # i /\ v # d /\ v # e /\ i # v
      /\ d <= table.count /\ e <= table.count
  BY GoingInodes
<1>2. /\ i # 0 => i \in Inodes /\ Named(i) /\ i # Root /\ i <= table.count /\ ino[i].nlink > 0 /\ ~IsFree(i)
      /\ v # 0 => v \in Inodes /\ Named(v) /\ v # Root /\ v <= table.count /\ ino[v].nlink > 0 /\ ~IsFree(v)
      /\ \A k \in Names : i # 0 => ent[i][k] = 0
  BY GoingInodes
<1>3. /\ ent[e][m] = i
      /\ v = 0 => d = e /\ n = m /\ i # 0
      /\ v # 0 => ent[d][n] = v
      /\ v # 0 /\ i # 0 => (IsDir(v) <=> IsDir(i))
  BY DEF CanGo
<1>4. /\ table' = table /\ Leaving' = Leaving /\ leaked \subseteq Inodes /\ Root \in Inodes /\ 0 \notin Inodes
      /\ leaked' = leaked \cup {j \in {i} \cap Inodes : IsDir(j) /\ ino'[j].nlink > 0}
  BY Consts DEF Goes, Types
<1>5. \A p \in Inodes, k \in Names :
        ent'[p][k] = IF p = d /\ k = n THEN 0 ELSE IF p = e /\ k = m THEN v ELSE ent[p][k]
  BY DEF Goes
<1>6. \A j \in Inodes : /\ ino'[j].kind = ino[j].kind /\ ino'[j].dtime = ino[j].dtime
                        /\ (IsDir(j)' <=> IsDir(j))
                        /\ ino'[j].nlink \in Nat /\ ino[j].nlink \in Nat
  BY InodeTypes, InodeTypesAfter DEF Goes, IsDir
<1>7. \A j \in Inodes :
        /\ j = i /\ ~IsDir(i) => ino'[j].nlink = ino[j].nlink - 1
        /\ j # i /\ j # d /\ j # e => ino'[j].nlink = ino[j].nlink
        /\ j # i /\ ~(v = 0 /\ IsDir(i)) /\ ~(v # 0 /\ i = 0 /\ IsDir(v)) => ino'[j].nlink = ino[j].nlink
        /\ j # i /\ v = 0 /\ IsDir(i) /\ j = d => ino'[j].nlink = ino[j].nlink - 1
        /\ v # 0 /\ i = 0 /\ IsDir(v) =>
              ino'[j].nlink = ino[j].nlink + (IF j = e THEN 1 ELSE 0) - (IF j = d THEN 1 ELSE 0)
  BY GoingLinks DEF Goes
<1>8. \A p \in Inodes, k \in Names : ent[p][k] # 0 =>
        /\ ent[p][k] \in Inodes /\ Named(ent[p][k]) /\ (p = Root \/ Named(p))
        /\ p <= table.count /\ IsDir(p) /\ ino[p].nlink > 0
        /\ ent[p][k] <= table.count /\ ent[p][k] # Root /\ ino[ent[p][k]].nlink > 0
  <2>1. \A p \in Inodes, k \in Names : ent[p][k] # 0 => ent[p][k] \in Inodes
    BY InodeTypes DEF Inodes
  <2> QED
    BY <2>1 DEF Space, NamesRight, Named
<1>9. \A p, q \in Inodes, k, l \in Names :
        ent[p][k] # 0 /\ IsDir(ent[p][k]) /\ ent[p][k] = ent[q][l] => p = q /\ k = l
  BY DEF Space, LinksRight
\* Who has a name after it.
<1>10. \A j \in Inodes : j # i => (Named(j)' <=> Named(j))
  <2>1. ASSUME NEW j \in Inodes, j # i, Named(j) PROVE Named(j)'
    <3>1. PICK p \in Inodes, k \in Names : ent[p][k] = j
      BY <2>1 DEF Named
    <3>2. CASE j = v
      <4>1. ent'[e][m] = v
        BY <1>1, <1>3, <1>4, <1>5, <2>1, <3>2
      <4> QED
        BY <1>1, <3>2, <4>1 DEF Named
    <3>3. CASE j # v
      <4>1. ent'[p][k] = j
        BY <1>1, <1>3, <1>5, <2>1, <3>1, <3>3
      <4> QED
        BY <4>1 DEF Named
    <3> QED
      BY <3>2, <3>3
  <2>2. ASSUME NEW j \in Inodes, Named(j)' PROVE Named(j)
    <3>1. PICK p \in Inodes, k \in Names : ent'[p][k] = j
      BY <2>2 DEF Named
    <3>2. ent[p][k] = j \/ j = v
      BY <1>4, <1>5, <3>1
    <3> QED
      BY <1>2, <1>4, <3>2 DEF Named
  <2> QED
    BY <2>1, <2>2
<1>11. dirI => ~Named(i)'
  <2>1. SUFFICES ASSUME dirI, NEW p \in Inodes, NEW k \in Names, ent'[p][k] = i PROVE FALSE
    BY DEF Named
  <2>2. ent[p][k] = i
    BY <1>1, <1>5, <2>1
  <2>3. p = e /\ k = m
    BY <1>1, <1>3, <1>9, <2>1, <2>2
  <2> QED
    BY <1>1, <1>3, <1>5, <2>1, <2>3
\* The names of a file.
<1>12. \A j \in Inodes : ~IsDir(j) /\ ~IsFree(j) =>
         /\ ino'[j].nlink = Cardinality(NamesOf(j)')
         /\ (Named(j)' => ino'[j].nlink > 0)
  <2>1. SUFFICES ASSUME NEW j \in Inodes, ~IsDir(j), ~IsFree(j)
                 PROVE  ino'[j].nlink = Cardinality(NamesOf(j)')
    <3>1. ASSUME NEW j \in Inodes, Named(j)', ino'[j].nlink = Cardinality(NamesOf(j)')
          PROVE  ino'[j].nlink > 0
      <4>1. PICK p \in Inodes, k \in Names : ent'[p][k] = j
        BY <3>1 DEF Named
      <4>2. <<p, k>> \in NamesOf(j)'
        <5>1. <<p, k>> \in Inodes \X Names /\ <<p, k>>[1] = p /\ <<p, k>>[2] = k
          OBVIOUS
        <5> QED
          BY <4>1, <5>1 DEF NamesOf
      <4>3. IsFiniteSet(NamesOf(j)')
        <5>1. IsFiniteSet(Inodes \X Names)
          <6>1. IsFiniteSet(Inodes) /\ IsFiniteSet(Names)
            BY FS_Interval, Consts DEF Inodes
          <6> QED
            BY <6>1, FS_Product
        <5>2. NamesOf(j)' \in SUBSET (Inodes \X Names)
          BY DEF NamesOf
        <5> QED
          BY <5>1, <5>2, FS_Subset
      <4>4. ino'[j].nlink # 0
        BY <3>1, <4>2, <4>3, FS_EmptySet
      <4> QED
        BY <1>6, <4>4
    <3> QED
      BY <2>1, <3>1
  <2>2. ino[j].nlink = Cardinality(NamesOf(j))
    BY <2>1 DEF Space, LinksRight
  <2>3. /\ <<d, n>> \in Inodes \X Names /\ <<e, m>> \in Inodes \X Names
        /\ <<d, n>>[1] = d /\ <<d, n>>[2] = n /\ <<e, m>>[1] = e /\ <<e, m>>[2] = m
        /\ \A x \in Inodes \X Names : x[1] \in Inodes /\ x[2] \in Names /\ x = <<x[1], x[2]>>
    BY <1>1
  <2>4. CASE j # i /\ j # v
    <3>1. \A p \in Inodes, k \in Names : ent'[p][k] = j <=> ent[p][k] = j
      BY <1>1, <1>3, <1>4, <1>5, <2>1, <2>4
    <3>2. NamesOf(j)' = NamesOf(j)
      BY <2>3, <3>1 DEF NamesOf
    <3>3. ino'[j].nlink = ino[j].nlink
      BY <1>1, <1>7, <2>1, <2>4
    <3> QED
      BY <2>2, <3>2, <3>3
  <2>5. CASE j = v
    <3>1. \A p \in Inodes, k \in Names : ent'[p][k] = j <=> ((ent[p][k] = j /\ ~(p = d /\ k = n)) \/ (p = e /\ k = m))
      BY <1>1, <1>3, <1>4, <1>5, <2>1, <2>5
    <3>2. NamesOf(j)' = (NamesOf(j) \ {<<d, n>>}) \cup {<<e, m>>}
      BY <2>3, <3>1 DEF NamesOf
    <3>3. <<d, n>> \in NamesOf(j) /\ <<e, m>> \notin NamesOf(j)
      BY <1>1, <1>3, <1>4, <2>1, <2>3, <2>5 DEF NamesOf
    <3>4. Cardinality(NamesOf(j)') = Cardinality(NamesOf(j))
      <4>1. /\ IsFiniteSet(NamesOf(j) \ {<<d, n>>})
            /\ Cardinality(NamesOf(j) \ {<<d, n>>}) = Cardinality(NamesOf(j)) - 1
        BY <3>3, NamesFinite, FS_RemoveElement
      <4>2. Cardinality((NamesOf(j) \ {<<d, n>>}) \cup {<<e, m>>}) = Cardinality(NamesOf(j) \ {<<d, n>>}) + 1
        BY <3>3, <4>1, FS_AddElement
      <4> QED
        BY <3>2, <4>1, <4>2, NamesFinite
    <3>5. ino'[j].nlink = ino[j].nlink
      BY <1>1, <1>4, <1>7, <2>1, <2>5
    <3> QED
      BY <2>2, <3>4, <3>5
  <2>6. CASE j = i
    <3>1. \A p \in Inodes, k \in Names : ent'[p][k] = j <=> (ent[p][k] = j /\ ~(p = e /\ k = m))
      BY <1>1, <1>3, <1>4, <1>5, <2>1, <2>6
    <3>2. NamesOf(j)' = NamesOf(j) \ {<<e, m>>}
      BY <2>3, <3>1 DEF NamesOf
    <3>3. <<e, m>> \in NamesOf(j)
      BY <1>3, <2>3, <2>6 DEF NamesOf
    <3>4. Cardinality(NamesOf(j)') = Cardinality(NamesOf(j)) - 1
      BY <3>2, <3>3, NamesFinite, FS_RemoveElement
    <3> QED
      BY <1>7, <2>1, <2>2, <2>6, <3>4
  <2> QED
    BY <2>4, <2>5, <2>6
\* The directories in a directory.
<1>13. \A j \in Inodes, k \in Names :
         k \in SubDirs(j)' <=> IF j = d /\ k = n THEN FALSE ELSE IF j = e /\ k = m THEN dirV ELSE k \in SubDirs(j)
  <2>1. ASSUME NEW j \in Inodes, NEW k \in Names
        PROVE  k \in SubDirs(j)' <=> ent'[j][k] # 0 /\ ino[ent'[j][k]].kind = "dir"
    <3>1. ent'[j][k] # 0 => ent'[j][k] \in Inodes
      BY <1>2, <1>5, <1>8
    <3> QED
      BY <1>6, <3>1 DEF SubDirs, IsDir
  <2>2. \A j \in Inodes, k \in Names : k \in SubDirs(j) <=> ent[j][k] # 0 /\ ino[ent[j][k]].kind = "dir"
    BY DEF SubDirs, IsDir
  <2> QED
    BY <1>5, <2>1, <2>2 DEF IsDir
<1>14. \A j \in Inodes : SubDirs(j) \subseteq Names /\ SubDirs(j)' \subseteq Names
  BY DEF SubDirs
<1>15. n \in SubDirs(d) <=> (IF v = 0 THEN dirI ELSE dirV)
  BY <1>1 DEF SubDirs
<1>16. m \in SubDirs(e) <=> dirI
  BY <1>1, <1>3 DEF SubDirs
<1> DEFINE Sub(j) == Cardinality(SubDirs(j))
<1>17. \A j \in Inodes : IsDir(j) /\ ino[j].nlink > 0 /\ (j = Root \/ Named(j)) => ino[j].nlink >= 2 + Sub(j)
  BY DEF Space, LinksRight
<1>18. \A j \in Inodes : Sub(j) \in Nat /\ IsFiniteSet(SubDirs(j))
  BY NamesFinite
<1> HIDE DEF dirI, dirV, Sub
<1>19. ASSUME NEW j \in Inodes, j # i, IsDir(j), ino[j].nlink > 0, j = Root \/ Named(j)
       PROVE  ino'[j].nlink >= 2 + Cardinality(SubDirs(j)')
  <2>1. ino[j].nlink >= 2 + Sub(j) /\ Sub(j) \in Nat /\ IsFiniteSet(SubDirs(j)) /\ ino[j].nlink \in Nat
    BY <1>6, <1>17, <1>18, <1>19
  <2>2. CASE j # d /\ j # e
    <3>1. SubDirs(j)' = SubDirs(j)
      BY <1>13, <1>14, <1>19, <2>2
    <3>2. ino'[j].nlink = ino[j].nlink
      BY <1>7, <1>19, <2>2
    <3> QED
      BY <2>1, <3>1, <3>2 DEF Sub
  <2>3. CASE ~dirV /\ ~dirI
    <3>1. SubDirs(j)' = SubDirs(j)
      <4>1. j = d => n \notin SubDirs(j)
        BY <1>15, <2>3
      <4>2. j = e => m \notin SubDirs(j)
        BY <1>16, <2>3
      <4>3. \A k \in Names : k \in SubDirs(j)' <=> k \in SubDirs(j)
        BY <1>13, <1>19, <2>3, <4>1, <4>2
      <4> QED
        BY <1>14, <4>3
    <3>2. ino'[j].nlink = ino[j].nlink
      BY <1>3, <1>7, <1>19, <2>3 DEF dirV, dirI
    <3> QED
      BY <2>1, <3>1, <3>2 DEF Sub
  <2>4. CASE v = 0 /\ dirI /\ j = d
    <3>1. \A k \in Names : k \in SubDirs(j)' <=> (k \in SubDirs(j) /\ k # n)
      BY <1>3, <1>13, <1>19, <2>4
    <3>2. SubDirs(j)' = SubDirs(j) \ {n}
      BY <1>14, <3>1
    <3>3. n \in SubDirs(j)
      BY <1>15, <2>4
    <3>4. Cardinality(SubDirs(j) \ {n}) = Sub(j) - 1
      BY <2>1, <3>3, FS_RemoveElement DEF Sub
    <3>5. ino'[j].nlink = ino[j].nlink - 1
      BY <1>7, <1>19, <2>4 DEF dirI
    <3> QED
      BY <2>1, <3>2, <3>4, <3>5
  <2>5. CASE dirV /\ j = d /\ d = e
    <3>1. m # n
      BY <1>1, <1>3, <2>5 DEF dirV
    <3>2. \A k \in Names : k \in SubDirs(j)' <=> (k = m \/ (k \in SubDirs(j) /\ k # n))
      BY <1>13, <1>19, <2>5, <3>1
    <3>3. SubDirs(j)' = (SubDirs(j) \ {n}) \cup {m}
      BY <1>1, <1>14, <3>2
    <3>4. n \in SubDirs(j)
      BY <1>15, <2>5 DEF dirV
    <3>5. Cardinality(SubDirs(j) \ {n}) = Sub(j) - 1 /\ IsFiniteSet(SubDirs(j) \ {n})
      BY <2>1, <3>4, FS_RemoveElement DEF Sub
    <3>6. /\ Cardinality((SubDirs(j) \ {n}) \cup {m}) <= Sub(j)
          /\ Cardinality((SubDirs(j) \ {n}) \cup {m}) \in Int
      <4>1. Cardinality((SubDirs(j) \ {n}) \cup {m}) =
              IF m \in SubDirs(j) \ {n} THEN Cardinality(SubDirs(j) \ {n}) ELSE Cardinality(SubDirs(j) \ {n}) + 1
        BY <3>5, FS_AddElement
      <4> QED
        BY <2>1, <3>5, <4>1
    <3>7. ino'[j].nlink = ino[j].nlink
      BY <1>6, <1>7, <1>19, <2>5 DEF dirV
    <3>8. Cardinality(SubDirs(j)') <= Sub(j) /\ Cardinality(SubDirs(j)') \in Int
      BY <3>3, <3>6
    <3> QED
      BY <2>1, <3>7, <3>8
  <2>6. CASE dirV /\ j = d /\ d # e
    <3>1. \A k \in Names : k \in SubDirs(j)' <=> (k \in SubDirs(j) /\ k # n)
      BY <1>13, <1>19, <2>6
    <3>2. SubDirs(j)' = SubDirs(j) \ {n}
      BY <1>14, <3>1
    <3>3. n \in SubDirs(j)
      BY <1>15, <2>6 DEF dirV
    <3>4. Cardinality(SubDirs(j) \ {n}) = Sub(j) - 1
      BY <2>1, <3>3, FS_RemoveElement DEF Sub
    <3>5. ino'[j].nlink >= ino[j].nlink - 1
      <4>1. CASE i = 0
        BY <1>6, <1>7, <1>19, <2>6, <4>1 DEF dirV
      <4>2. CASE i # 0
        BY <1>6, <1>7, <1>19, <2>6, <4>2 DEF dirV
      <4> QED
        BY <4>1, <4>2
    <3>6. ino'[j].nlink \in Nat
      BY <1>6
    <3> QED
      BY <2>1, <3>2, <3>4, <3>5, <3>6
  <2>7. CASE dirV /\ j = e /\ d # e
    <3>1. \A k \in Names : k \in SubDirs(j)' <=> (k \in SubDirs(j) \/ k = m)
      BY <1>13, <1>19, <2>7
    <3>2. SubDirs(j)' = SubDirs(j) \cup {m}
      BY <1>1, <1>14, <3>1
    <3>3. CASE i = 0
      <4>1. m \notin SubDirs(j)
        BY <1>16, <2>7, <3>3 DEF dirI
      <4>2. Cardinality(SubDirs(j) \cup {m}) = Sub(j) + 1
        BY <2>1, <4>1, FS_AddElement DEF Sub
      <4>3. ino'[j].nlink = ino[j].nlink + 1
        BY <1>6, <1>7, <1>19, <2>7, <3>3 DEF dirV
      <4> QED
        BY <2>1, <3>2, <4>2, <4>3
    <3>4. CASE i # 0
      <4>1. dirI
        BY <1>3, <2>7, <3>4 DEF dirI, dirV
      <4>2. SubDirs(j)' = SubDirs(j)
        BY <1>16, <2>7, <3>2, <4>1
      <4>3. ino'[j].nlink = ino[j].nlink
        BY <1>7, <1>19, <2>7, <3>4 DEF dirV
      <4> QED
        BY <2>1, <4>2, <4>3 DEF Sub
    <3> QED
      BY <3>3, <3>4
  <2>8. dirI => v = 0 \/ dirV
    BY <1>3 DEF dirI, dirV
  <2> QED
    BY <1>3, <2>2, <2>3, <2>4, <2>5, <2>6, <2>7, <2>8
<1>20. \A j \in Inodes : IsFiniteSet(SubDirs(j)') /\ Cardinality(SubDirs(j)') \in Nat
  <2>1. IsFiniteSet(Names)
    BY Consts
  <2> QED
    BY <1>14, <2>1, FS_Subset, FS_CardinalityType
\* Only the inode that goes can be without links after it.
<1>21. \A j \in Inodes : j # i => (ino'[j].nlink > 0 <=> ino[j].nlink > 0)
  <2>1. ASSUME NEW j \in {d, e} PROVE ino'[j].nlink > 0 /\ ino[j].nlink > 0
    <3>1. j \in Inodes /\ j # i /\ IsDir(j) /\ ino[j].nlink > 0 /\ (j = Root \/ Named(j))
      BY <1>1
    <3>2. ino'[j].nlink >= 2 + Cardinality(SubDirs(j)')
      BY <1>19, <3>1
    <3> QED
      BY <1>6, <1>20, <3>1, <3>2
  <2>2. ASSUME NEW j \in Inodes, j # i, j # d, j # e PROVE ino'[j].nlink = ino[j].nlink
    BY <1>7, <2>2
  <2> QED
    BY <2>1, <2>2
<1>22. \A j \in Inodes : j # i => (IsFree(j)' <=> IsFree(j))
  <2>1. \A j \in Inodes : j # i => (ino'[j].nlink = 0 <=> ino[j].nlink = 0)
    BY <1>6, <1>21
  <2> QED
    BY <1>6, <2>1 DEF IsFree
<1>23. NamesRight'
  <2>1. ASSUME NEW p \in Inodes, NEW k \in Names, ent'[p][k] # 0
        PROVE  /\ p <= table'.count /\ IsDir(p)' /\ ino'[p].nlink > 0 /\ (p = Root \/ Named(p)')
               /\ ent'[p][k] <= table'.count /\ ent'[p][k] # Root /\ ino'[ent'[p][k]].nlink > 0
    <3>1. p # i /\ p <= table.count /\ IsDir(p) /\ ino[p].nlink > 0 /\ (p = Root \/ Named(p))
      <4>1. CASE ent[p][k] # 0
        BY <1>2, <1>4, <1>8, <4>1
      <4>2. CASE ent[p][k] = 0
        <5>1. p = e
          BY <1>5, <2>1, <4>2
        <5> QED
          BY <1>1, <5>1
      <4> QED
        BY <4>1, <4>2
    <3>2. p <= table'.count /\ IsDir(p)' /\ ino'[p].nlink > 0 /\ (p = Root \/ Named(p)')
      BY <1>4, <1>6, <1>10, <1>21, <3>1
    <3>3. CASE ent'[p][k] = v
      <4>1. v # 0 /\ v \in Inodes /\ v <= table.count /\ v # Root /\ v # i /\ ino[v].nlink > 0
        BY <1>1, <1>2, <2>1, <3>3
      <4> QED
        BY <1>4, <1>21, <3>2, <3>3, <4>1
    <3>4. CASE ent'[p][k] # v
      <4>1. ent'[p][k] = ent[p][k] /\ ent[p][k] # 0
        BY <1>5, <2>1, <3>4
      <4>2. ent[p][k] \in Inodes /\ ent[p][k] <= table.count /\ ent[p][k] # Root /\ ino[ent[p][k]].nlink > 0
        BY <1>8, <4>1
      <4>3. CASE ent[p][k] # i
        BY <1>4, <1>21, <3>2, <4>1, <4>2, <4>3
      <4>4. CASE ent[p][k] = i
        <5>1. Named(i)'
          BY <4>1, <4>4 DEF Named
        <5>2. ~IsDir(i) /\ ~IsFree(i) /\ i \in Inodes
          BY <1>2, <1>11, <4>1, <4>4, <5>1 DEF dirI
        <5>3. ino'[i].nlink > 0
          BY <1>12, <5>1, <5>2
        <5> QED
          BY <1>4, <3>2, <4>1, <4>2, <4>4, <5>3
      <4> QED
        BY <4>3, <4>4
    <3> QED
      BY <3>3, <3>4
  <2>2. ASSUME NEW j \in Inodes, j > table'.count PROVE IsFree(j)'
    <3>1. j > table.count /\ IsFree(j)
      BY <1>4, <2>2 DEF Space, NamesRight
    <3>2. j # i
      BY <1>2, <1>4, <3>1
    <3> QED
      BY <1>22, <3>1, <3>2
  <2>3. IsDir(Root)' /\ ino'[Root].nlink > 0
    <3>1. Root # i /\ IsDir(Root) /\ ino[Root].nlink > 0
      BY <1>2, <1>4 DEF Space, NamesRight
    <3> QED
      BY <1>4, <1>6, <1>21, <3>1
  <2> QED
    BY <2>1, <2>2, <2>3 DEF NamesRight
<1>24. LinksRight'
  <2>1. ASSUME NEW j \in Inodes, ~IsFree(j)', ~IsDir(j)' PROVE ino'[j].nlink = Cardinality(NamesOf(j)')
    <3>1. ~IsDir(j) /\ ~IsFree(j)
      BY <1>2, <1>4, <1>6, <1>22, <2>1
    <3> QED
      BY <1>12, <3>1
  <2>2. ASSUME NEW p \in Inodes, NEW q \in Inodes, NEW k \in Names, NEW l \in Names,
               ent'[p][k] # 0, IsDir(ent[p][k])', ent'[p][k] = ent'[q][l]
        PROVE  p = q /\ k = l
    <3>1. ent'[p][k] \in Inodes /\ ino[ent'[p][k]].kind = "dir"
      <4>1. ent'[p][k] \in Inodes
        BY <1>2, <1>5, <1>8, <2>2
      <4> QED
        BY <1>6, <2>2, <4>1 DEF IsDir
    <3>2. CASE ent'[p][k] = v
      <4>1. v # 0 /\ IsDir(v) /\ ent[d][n] = v
        BY <1>1, <2>2, <3>1, <3>2 DEF IsDir
      <4>2. \A a \in Inodes, b \in Names : ent[a][b] = v => a = d /\ b = n
        BY <1>1, <1>9, <4>1
      <4>3. \A a \in Inodes, b \in Names : ent'[a][b] = v => a = e /\ b = m
        BY <1>5, <4>1, <4>2
      <4>4. ent'[q][l] = v
        BY <2>2, <3>2
      <4> QED
        BY <3>2, <4>3, <4>4
    <3>3. CASE ent'[p][k] # v
      <4>1. ent'[p][k] = ent[p][k] /\ ent'[q][l] = ent[q][l]
        BY <1>5, <2>2, <3>3
      <4>2. ent[p][k] # 0 /\ IsDir(ent[p][k]) /\ ent[p][k] = ent[q][l]
        BY <2>2, <3>1, <4>1 DEF IsDir
      <4> QED
        BY <1>9, <4>2
    <3> QED
      BY <3>2, <3>3
  <2>3. ASSUME NEW j \in Inodes, IsDir(j)', ino'[j].nlink > 0, j = Root \/ Named(j)'
        PROVE  ino'[j].nlink >= 2 + Cardinality(SubDirs(j)')
    <3>1. j # i /\ IsDir(j)
      BY <1>2, <1>4, <1>6, <1>11, <2>3 DEF dirI
    <3> QED
      BY <1>10, <1>19, <1>21, <2>3, <3>1
  <2> QED
    BY <2>1, <2>2, <2>3 DEF LinksRight
<1>25. DirsNamed'
  <2>1. ASSUME NEW j \in Inodes, IsDir(j)', ino'[j].nlink > 0, j # Root, j \notin Leaving' \cup leaked'
        PROVE  Named(j)'
    <3>1. IsDir(j)
      BY <1>6, <2>1
    <3>2. j # i
      BY <1>4, <2>1, <3>1
    <3>3. ino[j].nlink > 0 /\ j \notin Leaving \cup leaked
      BY <1>4, <1>21, <2>1, <3>2
    <3> QED
      BY <1>10, <2>1, <3>1, <3>2, <3>3 DEF Space, DirsNamed
  <2>2. ASSUME NEW j \in leaked' PROVE j <= table'.count /\ j # Root /\ IsDir(j)' /\ ino'[j].nlink > 0 /\ ~Named(j)'
    <3>1. CASE j = i
      BY <1>2, <1>4, <1>6, <1>11, <2>2, <3>1 DEF dirI, Space, DirsNamed
    <3>2. CASE j # i
      <4>1. j \in leaked /\ j \in Inodes
        BY <1>4, <2>2, <3>2
      <4>2. j <= table.count /\ j # Root /\ IsDir(j) /\ ino[j].nlink > 0 /\ ~Named(j)
        BY <4>1 DEF Space, DirsNamed
      <4> QED
        BY <1>4, <1>6, <1>10, <1>21, <3>2, <4>1, <4>2
    <3> QED
      BY <3>1, <3>2
  <2> QED
    BY <2>1, <2>2 DEF DirsNamed
<1>26. Hangs'
  <2>1. SUFFICES ASSUME NEW j \in Inodes, NEW T \in SUBSET Inodes, IsDir(j)', Named(j)', j \in T, Up(T)'
                 PROVE  Root \in T
    BY DEF Hangs
  <2>2. IsDir(j) /\ j # i /\ Named(j)
    BY <1>4, <1>6, <1>10, <1>11, <2>1 DEF dirI
  <2>3. \A k \in Inodes, S \in SUBSET Inodes : IsDir(k) /\ Named(k) /\ k \in S /\ Up(S) => Root \in S
    BY DEF Space, Hangs
  <2>4. \A p \in Inodes, k \in Names : ent'[p][k] \in T => p \in T
    BY <2>1 DEF Up
  <2>5. \A p \in Inodes, k \in Names : ent[p][k] # 0 => p # i /\ IsDir(p)
    BY <1>2, <1>8, <1>4
  <2>6. CASE ~dirV
    <3> DEFINE S == T \ {i, v}
    <3>1. ASSUME NEW p \in Inodes, NEW k \in Names, ent[p][k] \in S PROVE p \in S
      <4>1. ent'[p][k] = ent[p][k]
        BY <1>1, <1>3, <1>5, <3>1
      <4>2. p # i /\ IsDir(p) /\ ent[p][k] # 0
        BY <1>4, <2>5, <3>1
      <4>3. p # v
        BY <1>4, <2>6, <4>2 DEF dirV
      <4> QED
        BY <2>4, <3>1, <4>1, <4>2, <4>3
    <3>2. Up(S) /\ S \in SUBSET Inodes
      BY <3>1 DEF Up
    <3>3. j \in S
      BY <1>4, <2>1, <2>2, <2>6 DEF dirV
    <3>4. Root \in S
      BY <2>2, <2>3, <3>2, <3>3
    <3> QED
      BY <3>4
  <2>7. CASE dirV /\ (v \notin T \/ d = e)
    <3> DEFINE S == T \ {i}
    <3>1. ASSUME NEW p \in Inodes, NEW k \in Names, ent[p][k] \in S PROVE p \in S
      <4>1. p # i
        BY <1>4, <2>5, <3>1
      <4>2. CASE p = d /\ k = n
        <5>1. v \in T /\ d = e
          BY <1>3, <2>7, <3>1, <4>2 DEF dirV
        <5>2. e \in T
          <6>1. ent'[e][m] = v
            BY <1>1, <1>3, <1>5, <2>7, <5>1 DEF dirV
          <6> QED
            BY <1>1, <2>4, <5>1, <6>1
        <5> QED
          BY <4>1, <4>2, <5>1, <5>2
      <4>3. CASE ~(p = d /\ k = n)
        <5>1. ent'[p][k] = ent[p][k]
          BY <1>3, <1>5, <3>1, <4>3
        <5> QED
          BY <2>4, <3>1, <4>1, <5>1
      <4> QED
        BY <4>2, <4>3
    <3>2. Up(S) /\ S \in SUBSET Inodes
      BY <3>1 DEF Up
    <3>3. Root \in S
      BY <2>1, <2>2, <2>3, <3>2
    <3> QED
      BY <3>3
  <2>8. CASE dirV /\ v \in T /\ d # e
    <3>1. PICK W \in SUBSET Inodes : e \in W /\ Up(W) /\ v \notin W
      BY <2>8 DEF CanGo, dirV
    <3> DEFINE S == (T \cap W) \ {i}
    <3>2. ASSUME NEW p \in Inodes, NEW k \in Names, ent[p][k] \in S PROVE p \in S
      <4>1. p # i
        BY <1>4, <2>5, <3>2
      <4>2. ent'[p][k] = ent[p][k]
        BY <1>3, <1>5, <2>8, <3>1, <3>2 DEF dirV
      <4>3. p \in T
        BY <2>4, <3>2, <4>2
      <4>4. p \in W
        BY <3>1, <3>2 DEF Up
      <4> QED
        BY <4>1, <4>3, <4>4
    <3>3. Up(S) /\ S \in SUBSET Inodes
      BY <3>2 DEF Up
    <3>4. e \in S
      <4>1. ent'[e][m] = v
        BY <1>1, <1>5, <2>8
      <4> QED
        BY <1>1, <2>4, <2>8, <3>1, <4>1
    <3>5. Root \in S
      BY <1>1, <2>3, <3>3, <3>4
    <3> QED
      BY <3>5
  <2> QED
    BY <2>6, <2>7, <2>8
<1>27. NamesAlive'
  <2>1. ASSUME NEW j \in Inodes, Named(j)' PROVE Named(j)
    BY <1>2, <1>4, <1>10, <2>1
  <2> QED
    BY <1>6, <2>1 DEF Space, NamesAlive
<1> QED
  BY <1>23, <1>24, <1>25, <1>26, <1>27 DEF Space
-----------------------------------------------------------------------------
(***************************************************************************)
(* Types after a step.                                                     *)
(***************************************************************************)
\* A set of numbers that is not empty has a least one.
LEMMA LeastNumber ==
  ASSUME NEW S, S \subseteq Nat, S # {}
  PROVE  Min(S) \in S
<1>1. PICK l \in S : \A m \in S : ~(<<m, l>> \in OpToRel(<, Nat))
  BY NatLessThanWellFounded, WFMin, Zenon
<1>2. ASSUME NEW m \in S PROVE l <= m
  <2>1. ASSUME m < l PROVE FALSE
    <3>1. <<m, l>> \in OpToRel(<, Nat)
      BY <2>1, Zenon DEF OpToRel
    <3> QED
      BY <1>1, <3>1
  <2> QED
    BY <2>1
<1> QED
  BY <1>1, <1>2 DEF Min

\* Blocks that are taken are taken from the free ones; no directory grows by more than two.
LEMMA Taken ==
  /\ \A S, n : Lowest(S, n) \subseteq S
  /\ \A d : Growth(d) \in 0 .. 2 /\ (Growth(d) + 1) \div 2 \in Nat
BY DEF Lowest, Growth

\* The inode that pmfs_new_inode finds.
LEMMA FoundInode ==
  ASSUME Types, NamesRight, CanFind
  PROVE  /\ Found \in Inodes /\ IsFree(Found) /\ Found <= Grown.count
         /\ Grown \in [count : FirstTable .. MaxIno, blocks : SUBSET Blocks]
         /\ table.count \in Int /\ Grown.count \in Int /\ table.count <= Grown.count
         /\ TableBlock \subseteq FreeBlocks /\ Grown.blocks = table.blocks \cup TableBlock
         /\ HintBehind(Found) \in Inodes /\ HintFreed(HintBehind(Found), Found) \in Inodes
<1>1. table \in [count : FirstTable .. MaxIno, blocks : SUBSET Blocks] /\ inuse \subseteq Blocks
  BY DEF Types
<1>2. table.count \in FirstTable .. MaxIno /\ table.blocks \subseteq Blocks
  BY <1>1
<1>3. TableBlock \subseteq FreeBlocks /\ FreeBlocks \subseteq Blocks
  BY Taken DEF TableBlock, FreeBlocks
<1>4. CASE Grows
  <2>1. Found = table.count + 1 /\ Found \in Inodes /\ Grown = [count |-> Found, blocks |-> table.blocks \cup TableBlock]
    BY <1>4 DEF Found, CanFind, Grown
  <2>2. IsFree(Found)
    BY <1>2, <2>1, Consts DEF NamesRight
  <2>3. Grown.count = table.count + 1 /\ Grown.blocks = table.blocks \cup TableBlock
    BY <2>1
  <2>4. Grown \in [count : FirstTable .. MaxIno, blocks : SUBSET Blocks]
    BY <1>2, <1>3, <2>1, Consts
  <2>5. Found \in Int /\ Found <= MaxIno /\ table.count \in Int
    BY <1>2, <2>1, Consts
  <2>6. HintBehind(Found) \in Inodes
    BY <2>1, <2>3, <2>5, Consts DEF HintBehind
  <2>7. HintFreed(HintBehind(Found), Found) \in Inodes
    BY <2>1, <2>6 DEF HintFreed
  <2> QED
    BY <1>2, <1>3, <2>1, <2>2, <2>3, <2>4, <2>5, <2>6, <2>7, Consts DEF CanFind
<1>5. CASE ~Grows
  <2>1. Candidates # {} /\ Candidates \subseteq Nat
    BY <1>5, Consts DEF Grows, Candidates, InTable
  <2>2. Found \in Candidates
    BY <1>5, <2>1, LeastNumber DEF Found
  <2>3. Found \in Inodes /\ Found <= table.count /\ IsFree(Found) /\ Grown = table /\ TableBlock = {}
    BY <1>5, <2>2 DEF Candidates, InTable, Grown, TableBlock
  <2>4. HintBehind(Found) \in Inodes
    <3>1. Found \in Int /\ Found > 0 /\ Found <= MaxIno /\ table.count <= MaxIno /\ table.count \in Int /\ MaxIno \in Int
      BY <1>2, <2>3, Consts
    <3>2. Found < table.count => Found + 1 \in Inodes
      BY <3>1 DEF Inodes
    <3> QED
      BY <2>3, <3>2, Consts DEF HintBehind
  <2>5. HintFreed(HintBehind(Found), Found) \in Inodes
    BY <2>3, <2>4 DEF HintFreed
  <2> QED
    BY <1>1, <1>2, <1>3, <2>3, <2>4, <2>5, Consts DEF CanFind
<1> QED
  BY <1>4, <1>5

\* A set of blocks has a size.
LEMMA BlocksCount ==
  ASSUME NEW own, own \subseteq Blocks
  PROVE  Cardinality(own) \in Nat
<1>1. IsFiniteSet(Blocks)
  BY FS_Interval, Consts DEF Blocks
<1>2. IsFiniteSet(own)
  BY <1>1, FS_Subset
<1> QED
  BY <1>2, FS_CardinalityType
-----------------------------------------------------------------------------
(***************************************************************************)
(* A step of one client.                                                   *)
(***************************************************************************)
\* A step of client c on a mounted volume that touches no inodes but those of X, which
\* no other call has locked or is giving up.
Local(c, X) ==
  /\ c \in Clients /\ X \subseteq Inodes
  /\ phase = "mounted" /\ phase' = "mounted" /\ cur' = cur /\ saved' = saved /\ lost' = lost
  /\ table.count <= table'.count /\ leaked' \subseteq leaked \cup X
  /\ \A x \in Clients \ {c} : task'[x] = task[x] /\ open'[x] = open[x]
  /\ \A i \in Inodes \ X :
       /\ ino'[i] = ino[i] /\ limbo'[i] = limbo[i] /\ tsize'[i] = tsize[i]
       /\ \A n \in Names : ent'[i][n] = ent[i][n]
       /\ Named(i)' => Named(i)
  /\ \A e \in (Inodes \ X) \cup (Clients \ {c}) : Contains(listed', e) <=> Contains(listed, e)
  /\ \A x \in Clients \ {c} : task[x].pc \in Sizing \cup {"commit"} => task[x].locks \cap X = {}
  /\ \A x \in Clients \ {c} : task[x].pc \in Given => task[x].ino \notin X
  /\ task[c].pc # "idle" => task[c].ino \in X
  /\ open'[c] # 0 => open'[c] = open[c] \/ Named(open'[c])
  /\ \A i \in X : Named(i) => ino'[i].kind = ino[i].kind
  /\ \A i \in X, x \in Clients \ {c} : open[x] = i =>
       /\ ino'[i].kind = ino[i].kind /\ ~IsFree(i)'
       /\ ino'[i].nlink = 0 => Contains(listed', i)

\* No set of directories with all above them has been spoilt for a rename that waits.
WaysKept(c) ==
  \A x \in Clients \ {c} :
    LET r == task[x] IN
    r.pc = "commit" /\ r.moved # 0 /\ IsDir(r.moved) /\ r.d # r.e =>
      \E T \in SUBSET Inodes : r.e \in T /\ Up(T)' /\ r.moved \notin T

\* What the tasks know of an inode, if it is not touched.
LEMMA Untouched ==
  ASSUME NEW c, NEW X, Local(c, X), NEW i \in Inodes, i \notin X
  PROVE  /\ (IsFree(i)' <=> IsFree(i)) /\ (IsDir(i)' <=> IsDir(i)) /\ ino'[i] = ino[i]
         /\ (Contains(listed, i)' <=> Contains(listed, i))
BY DEF Local, IsFree, IsDir

\* The other clients keep what they rely on.
LEMMA OthersKeep ==
  ASSUME Inv, Types', NEW c, NEW X, Local(c, X), NEW x \in Clients, x # c
  PROVE  GoneOK(x)' /\ OpenOK(x)' /\ SizeOK(x)'
<1>1. task'[x] = task[x] /\ open'[x] = open[x] /\ table.count <= table'.count
  BY DEF Local
<1>2. Types /\ GoneOK(x) /\ OpenOK(x) /\ SizeOK(x) /\ NamesRight
  BY DEF Inv, GoneRight, OpenRight, SizeRight
<1>3. /\ task[x].pc \in Given \cup Sizing => task[x].ino \in Inodes
      /\ open[x] # 0 => open[x] \in Inodes
      /\ task[x].pc = "del" => task[x].ino \in Inodes
  BY <1>2, TaskTypes DEF Given, Sizing
<1>4. table.count \in Int /\ table'.count \in Int /\ \A i \in Inodes : i \in Int
  BY <1>2, CountTypes, CountTypesAfter, Consts
<1> PICK i : i = task[x].ino
  OBVIOUS
<1> PICK o : o = open[x]
  OBVIOUS
<1>5. GoneOK(x)'
  <2>1. CASE task[x].pc \in Given
    <3>1. i \in Inodes /\ i \notin X
      BY <1>3, <2>1 DEF Local
    <3>2. /\ (IsFree(i)' <=> IsFree(i)) /\ ino'[i] = ino[i] /\ (Contains(listed', i) <=> Contains(listed, i))
          /\ ~Named(i)' /\ i \notin leaked' \ leaked /\ (Contains(listed', x) <=> Contains(listed, x))
      <4>1. ~Named(i)
        BY <1>2, <2>1 DEF GoneOK
      <4>2. /\ Named(i)' => Named(i)
            /\ ino'[i] = ino[i]
            /\ leaked' \subseteq leaked \cup X
        BY <3>1 DEF Local
      <4>3. (Contains(listed', i) <=> Contains(listed, i)) /\ (Contains(listed', x) <=> Contains(listed, x))
        BY <3>1 DEF Local
      <4> QED
        BY <3>1, <4>1, <4>2, <4>3 DEF IsFree
    <3>3. \A y \in Clients : open'[y] # i
      <4>1. \A y \in Clients : open[y] # i
        BY <1>2, <2>1 DEF GoneOK
      <4>2. ~Named(i) /\ i # 0
        BY <1>2, <2>1, <3>1, Consts DEF GoneOK
      <4> QED
        BY <4>1, <4>2 DEF Local
    <3>4. i <= table'.count
      <4>1. i <= table.count
        BY <1>2, <2>1 DEF GoneOK
      <4> QED
        BY <1>1, <1>4, <3>1, <4>1
    <3>5. task'[x].pc = task[x].pc /\ task'[x].ino = i /\ task'[x].undo = task[x].undo
      BY <1>1
    <3> QED
      BY <1>2, <2>1, <3>1, <3>2, <3>3, <3>4, <3>5 DEF GoneOK, IsFree
  <2>2. CASE task[x].pc \notin Given
    BY <1>1, <2>2 DEF GoneOK, Given
  <2> QED
    BY <2>1, <2>2
<1>6. OpenOK(x)'
  <2>1. SUFFICES ASSUME o # 0 PROVE OpenOK(x)'
    BY <1>1 DEF OpenOK
  <2>2. /\ o \in Inodes /\ o <= table.count /\ ino[o].kind = "file" /\ ~IsFree(o)
        /\ ino[o].nlink = 0 => Contains(listed, o)
    BY <1>2, <1>3, <2>1 DEF OpenOK
  <2>3. o <= table'.count
    BY <1>1, <1>4, <2>2
  <2>4. ino'[o].kind = "file" /\ ~IsFree(o)' /\ (ino'[o].nlink = 0 => Contains(listed', o))
    <3>1. CASE o \in X
      BY <2>2, <3>1 DEF Local
    <3>2. CASE o \notin X
      <4>1. ino'[o] = ino[o] /\ (Contains(listed', o) <=> Contains(listed, o))
        BY <2>2, <3>2 DEF Local
      <4> QED
        BY <2>2, <4>1 DEF IsFree
    <3> QED
      BY <3>1, <3>2
  <2>5. open'[x] = o
    BY <1>1
  <2> QED
    BY <2>3, <2>4, <2>5 DEF OpenOK, IsFree
<1>7. SizeOK(x)'
  <2>1. SUFFICES ASSUME task[x].pc \in Sizing PROVE SizeOK(x)'
    BY <1>1 DEF SizeOK
  <2>2. i \in Inodes /\ i \notin X
    <3>1. i \in Inodes /\ task[x].locks = {i}
      BY <1>2, <1>3, <2>1 DEF SizeOK
    <3> QED
      BY <2>1, <3>1 DEF Local
  <2>3. /\ ino'[i] = ino[i] /\ limbo'[i] = limbo[i] /\ tsize'[i] = tsize[i]
        /\ (Contains(listed', i) <=> Contains(listed, i))
    BY <2>2 DEF Local
  <2> QED
    BY <1>1, <1>2, <2>1, <2>3 DEF SizeOK
<1> QED
  BY <1>5, <1>6, <1>7
\* Nor is the removal disturbed that another client has begun.
LEMMA OthersCommit ==
  ASSUME Inv, Types', NEW c, NEW X, Local(c, X), WaysKept(c), NEW x \in Clients, x # c
  PROVE  CommitOK(x)'
<1>1. task'[x] = task[x]
  BY DEF Local
<1>2. SUFFICES ASSUME task[x].pc = "commit" PROVE CommitOK(x)'
  BY <1>1 DEF CommitOK
<1> PICK r : r = task[x]
  OBVIOUS
<1>3. Types /\ NamesRight /\ CommitOK(x)
  BY DEF Inv, CommitRight
<1>4. r \in CommitTask /\ r = task[x] /\ r = task'[x] /\ r.pc = "commit"
  BY <1>1, <1>2, <1>3, TaskTypes
<1>5. /\ r.d \in Inodes /\ r.e \in Inodes /\ r.ino \in Inodes /\ r.n \in Names /\ r.m \in Names
      /\ r.moved \in 0 .. MaxIno
  BY <1>4 DEF CommitTask
<1>6. /\ r.locks = {r.d, r.e, r.ino} \cup (IF r.d # r.e THEN {-1} ELSE {})
      /\ ent[r.e][r.m] = r.ino
      /\ r.moved = 0 => r.d = r.e /\ r.n = r.m
      /\ r.moved # 0 => /\ ent[r.d][r.n] = r.moved /\ r.moved # r.ino
                        /\ IsDir(r.moved) <=> IsDir(r.ino)
      /\ IsDir(r.ino) => \A n \in Names : ent[r.ino][n] = 0
      /\ Dropped(r.ino, r.moved) = 0
      /\ Contains(listed, r.ino)
  BY <1>2, <1>3 DEF CommitOK
<1>7. r.d \notin X /\ r.e \notin X /\ r.ino \notin X
  <2>1. r.locks \cap X = {}
    BY <1>2 DEF Local
  <2> QED
    BY <1>6, <2>1
<1>8. /\ \A n \in Names : ent'[r.d][n] = ent[r.d][n] /\ ent'[r.e][n] = ent[r.e][n] /\ ent'[r.ino][n] = ent[r.ino][n]
      /\ ino'[r.ino] = ino[r.ino]
      /\ Contains(listed', r.ino)
  BY <1>5, <1>6, <1>7 DEF Local
<1>9. IsDir(r.ino)' <=> IsDir(r.ino)
  <2>1. ino'[r.ino].kind = ino[r.ino].kind
    BY <1>8
  <2>2. r.ino' = r.ino
    OBVIOUS
  <2> QED
    BY <2>1 DEF IsDir
<1>10. ASSUME r.moved # 0
       PROVE  r.moved \in Inodes /\ (IsDir(r.moved)' <=> IsDir(r.moved))
  <2>1. r.moved \in Inodes
    BY <1>5, <1>10, Consts DEF Inodes
  <2>2. Named(r.moved)
    BY <1>5, <1>6, <1>10 DEF Named
  <2>3. ino'[r.moved].kind = ino[r.moved].kind
    BY <2>1, <2>2 DEF Local
  <2> QED
    BY <2>1, <2>3 DEF IsDir
<1>11. Dropped(r.ino, r.moved)' = Dropped(r.ino, r.moved)
  BY <1>8, <1>9, <1>10 DEF Dropped
<1>12. r.moved # 0 /\ IsDir(r.moved) /\ r.d # r.e =>
         \E T \in SUBSET Inodes : r.e \in T /\ Up(T)' /\ r.moved \notin T
  BY <1>2, <1>4 DEF WaysKept
<1> QED
  BY <1>4, <1>5, <1>6, <1>8, <1>9, <1>10, <1>11, <1>12 DEF CommitOK

\* The locks of two calls stay apart, if the one that takes new ones finds them free.
LEMMA LocksKept ==
  ASSUME Inv, NEW c, NEW X, Local(c, X),
         task'[c].locks \subseteq task[c].locks \/ task'[c].locks \cap Locked = {}
  PROVE  LocksApart'
<1>1. ASSUME NEW x \in Clients, x # c PROVE task'[c].locks \cap task'[x].locks = {}
  <2>1. task'[x] = task[x] /\ c \in Clients
    BY <1>1 DEF Local
  <2>2. task[c].locks \cap task[x].locks = {}
    BY <1>1, <2>1 DEF Inv, LocksApart
  <2>3. task[x].locks \subseteq Locked
    BY DEF Locked
  <2> QED
    BY <2>1, <2>2, <2>3
<1>2. ASSUME NEW x \in Clients, NEW y \in Clients, x # y, x # c, y # c
      PROVE  task'[x].locks \cap task'[y].locks = {}
  BY <1>2 DEF Inv, LocksApart, Local
<1> QED
  BY <1>1, <1>2 DEF LocksApart

\* The list stays right if it is not touched.
LEMMA ListKept ==
  ASSUME Inv, NEW c, NEW X, Local(c, X), UNCHANGED list,
         task[c].pc # "del" \/ task'[c] = task[c]
  PROVE  /\ SameList'
         /\ \A j, k \in 1 .. Len(listed') : j # k => InodeOf(listed[j])' # InodeOf(listed[k])'
         /\ \A k \in 1 .. Len(listed') : listed'[k] \in Clients => task'[listed'[k]].pc = "del"
<1>1. head' = head /\ next' = next /\ listed' = listed /\ phase = "mounted"
  BY DEF list, Local
<1>2. \A k \in 1 .. Len(listed) : listed[k] \in Clients => task[listed[k]].pc = "del" /\ task'[listed[k]] = task[listed[k]]
  BY DEF Inv, ListedRight, Local
<1>3. \A k \in 1 .. Len(listed) : InodeOf(listed[k])' = InodeOf(listed[k])
  BY <1>1, <1>2 DEF InodeOf
<1>4. Len(listed) \in Nat
  BY EntryTypes DEF Inv
<1>5. SameList'
  <2>1. head' = IF listed' = <<>> THEN 0 ELSE InodeOf(listed[1])'
    <3>1. listed # <<>> => 1 \in 1 .. Len(listed)
      BY <1>4, EmptySeq DEF Inv, Types
    <3>2. head = IF listed = <<>> THEN 0 ELSE InodeOf(listed[1])
      BY <1>1 DEF Inv, SameList
    <3> QED
      BY <1>1, <1>3, <3>1, <3>2
  <2>2. ASSUME NEW k \in 1 .. Len(listed)
        PROVE  next'[InodeOf(listed[k])'] = IF k = Len(listed) THEN 0 ELSE InodeOf(listed[k + 1])'
    <3>1. k # Len(listed) => k + 1 \in 1 .. Len(listed)
      BY <1>4
    <3>2. next[InodeOf(listed[k])] = IF k = Len(listed) THEN 0 ELSE InodeOf(listed[k + 1])
      BY <1>1 DEF Inv, SameList
    <3>3. InodeOf(listed[k])' = InodeOf(listed[k])
      BY <1>3
    <3>4. k # Len(listed) => InodeOf(listed[k + 1])' = InodeOf(listed[k + 1])
      BY <1>3, <3>1
    <3> QED
      BY <1>1, <3>2, <3>3, <3>4
  <2> QED
    BY <1>1, <2>1, <2>2 DEF SameList
<1>6. \A j, k \in 1 .. Len(listed) : j # k => InodeOf(listed[j]) # InodeOf(listed[k])
  BY DEF Inv, ListedRight
<1> QED
  BY <1>1, <1>2, <1>3, <1>5, <1>6
-----------------------------------------------------------------------------
(***************************************************************************)
(* The blocks.                                                             *)
(***************************************************************************)
\* A step that only gives free blocks to inodes, N[i] to inode i, and to the table.
LEMMA BlocksGrow ==
  ASSUME Inv, phase = "mounted", phase' = "mounted", lost' = lost, saved' = saved,
         NEW N, NEW NT, NT \subseteq FreeBlocks,
         \A i \in Inodes : N[i] \subseteq FreeBlocks /\ N[i] \cap NT = {} /\ N[i] \subseteq inuse',
         \A i, j \in Inodes : i # j => N[i] \cap N[j] = {},
         \A i \in Inodes : ~IsFree(i)' =>
           ino'[i].blocks \subseteq N[i] \cup (IF IsFree(i) THEN {} ELSE ino[i].blocks),
         table'.blocks \subseteq table.blocks \cup NT, inuse \cup NT \subseteq inuse'
  PROVE  BlocksApart'
<1>1. SUFFICES ASSUME lost = {}
               PROVE  /\ \A i \in Inodes : ~IsFree(i)' => ino'[i].blocks \subseteq inuse' /\ ino'[i].blocks \cap table'.blocks = {}
                      /\ \A i, j \in Inodes : i # j /\ ~IsFree(i)' /\ ~IsFree(j)' =>
                           ino'[i].blocks \cap ino'[j].blocks = {}
                      /\ table'.blocks \subseteq inuse'
  <2>1. saved' = NotSaved
    BY DEF Inv, Modes
  <2> QED
    BY <2>1 DEF BlocksApart
<1>2. /\ \A i \in Inodes : ~IsFree(i) => ino[i].blocks \subseteq inuse /\ ino[i].blocks \cap table.blocks = {}
      /\ \A i, j \in Inodes : i # j /\ ~IsFree(i) /\ ~IsFree(j) => ino[i].blocks \cap ino[j].blocks = {}
      /\ table.blocks \subseteq inuse
  BY <1>1 DEF Inv, BlocksApart
<1>3. /\ \A i \in Inodes : N[i] \cap inuse = {}
      /\ NT \cap inuse = {}
  BY DEF FreeBlocks
<1>4. ASSUME NEW i \in Inodes, ~IsFree(i)'
      PROVE  ino'[i].blocks \subseteq N[i] \cup (IF IsFree(i) THEN {} ELSE ino[i].blocks)
  BY <1>4
<1>5. ASSUME NEW i \in Inodes, ~IsFree(i)'
      PROVE  ino'[i].blocks \subseteq inuse' /\ ino'[i].blocks \cap table'.blocks = {}
  <2>1. CASE IsFree(i)
    BY <1>2, <1>3, <1>4, <1>5, <2>1
  <2>2. CASE ~IsFree(i)
    BY <1>2, <1>3, <1>4, <1>5, <2>2
  <2> QED
    BY <2>1, <2>2
<1>6. ASSUME NEW i \in Inodes, NEW j \in Inodes, i # j, ~IsFree(i)', ~IsFree(j)'
      PROVE  ino'[i].blocks \cap ino'[j].blocks = {}
  <2>1. N[i] \cap N[j] = {} /\ N[i] \cap inuse = {} /\ N[j] \cap inuse = {}
    BY <1>3, <1>6
  <2>2. CASE IsFree(i) /\ IsFree(j)
    BY <1>4, <1>6, <2>1, <2>2
  <2>3. CASE IsFree(i) /\ ~IsFree(j)
    BY <1>2, <1>4, <1>6, <2>1, <2>3
  <2>4. CASE ~IsFree(i) /\ IsFree(j)
    BY <1>2, <1>4, <1>6, <2>1, <2>4
  <2>5. CASE ~IsFree(i) /\ ~IsFree(j)
    <3>1. /\ ino[i].blocks \cap ino[j].blocks = {}
          /\ ino[i].blocks \subseteq inuse /\ ino[j].blocks \subseteq inuse
      BY <1>2, <1>6, <2>5
    <3>2. ino'[i].blocks \subseteq N[i] \cup ino[i].blocks /\ ino'[j].blocks \subseteq N[j] \cup ino[j].blocks
      BY <1>4, <1>6, <2>5
    <3> QED
      BY <2>1, <3>1, <3>2
  <2> QED
    BY <2>2, <2>3, <2>4, <2>5
<1> QED
  BY <1>2, <1>5, <1>6

\* A step that neither gives nor takes blocks.
LEMMA BlocksSame ==
  ASSUME Inv, phase = "mounted", phase' = "mounted", lost' = lost, saved' = saved,
         \A i \in Inodes : ~IsFree(i)' =>
           ino'[i].blocks \subseteq (IF IsFree(i) THEN {} ELSE ino[i].blocks),
         table'.blocks = table.blocks, inuse \subseteq inuse'
  PROVE  BlocksApart'
<1> DEFINE N == [i \in Inodes |-> {}]
<1>1. \A i \in Inodes : N[i] = {}
  OBVIOUS
<1> HIDE DEF N
<1> QED
  <2>1. /\ {} \subseteq FreeBlocks
        /\ \A i \in Inodes : N[i] \subseteq FreeBlocks /\ N[i] \cap {} = {} /\ N[i] \subseteq inuse'
        /\ \A i, j \in Inodes : i # j => N[i] \cap N[j] = {}
    BY <1>1
  <2>2. \A i \in Inodes : ~IsFree(i)' =>
          ino'[i].blocks \subseteq N[i] \cup (IF IsFree(i) THEN {} ELSE ino[i].blocks)
    BY <1>1
  <2>3. table'.blocks \subseteq table.blocks \cup {} /\ inuse \cup {} \subseteq inuse'
    OBVIOUS
  <2> QED
    BY <2>1, <2>2, <2>3, BlocksGrow

\* A step that frees blocks of one inode.
LEMMA BlocksShrink ==
  ASSUME Inv, phase = "mounted", phase' = "mounted", lost' = lost, saved' = saved,
         NEW i \in Inodes, ~IsFree(i), NEW F, F \subseteq ino[i].blocks,
         IsFree(i)' \/ ino'[i].blocks \subseteq ino[i].blocks \ F,
         \A j \in Inodes \ {i} : ino'[j] = ino[j],
         table' = table, inuse' = inuse \ F
  PROVE  BlocksApart'
<1>1. SUFFICES ASSUME lost = {}
               PROVE  /\ \A j \in Inodes : ~IsFree(j)' => ino'[j].blocks \subseteq inuse' /\ ino'[j].blocks \cap table'.blocks = {}
                      /\ \A j, k \in Inodes : j # k /\ ~IsFree(j)' /\ ~IsFree(k)' =>
                           ino'[j].blocks \cap ino'[k].blocks = {}
                      /\ table'.blocks \subseteq inuse'
  <2>1. saved' = NotSaved
    BY DEF Inv, Modes
  <2> QED
    BY <2>1 DEF BlocksApart
<1>2. /\ \A j \in Inodes : ~IsFree(j) => ino[j].blocks \subseteq inuse /\ ino[j].blocks \cap table.blocks = {}
      /\ \A j, k \in Inodes : j # k /\ ~IsFree(j) /\ ~IsFree(k) => ino[j].blocks \cap ino[k].blocks = {}
      /\ table.blocks \subseteq inuse
  BY <1>1 DEF Inv, BlocksApart
<1>3. \A j \in Inodes \ {i} : ino'[j].blocks = ino[j].blocks /\ (IsFree(j)' <=> IsFree(j))
  BY DEF IsFree
<1>4. ASSUME NEW j \in Inodes, ~IsFree(j)'
      PROVE  ~IsFree(j) /\ ino'[j].blocks \subseteq ino[j].blocks /\ ino'[j].blocks \cap F = {}
  <2>1. CASE j = i
    BY <1>4, <2>1
  <2>2. CASE j # i
    <3>1. ~IsFree(j) /\ ino'[j].blocks = ino[j].blocks
      BY <1>3, <1>4, <2>2
    <3>2. ino[j].blocks \cap ino[i].blocks = {}
      BY <1>2, <2>2, <3>1
    <3> QED
      BY <3>1, <3>2
  <2> QED
    BY <2>1, <2>2
<1>5. ASSUME NEW j \in Inodes, ~IsFree(j)'
      PROVE  ino'[j].blocks \subseteq inuse' /\ ino'[j].blocks \cap table'.blocks = {}
  <2>1. ino[j].blocks \subseteq inuse /\ ino[j].blocks \cap table.blocks = {}
    BY <1>2, <1>4, <1>5
  <2> QED
    BY <1>4, <1>5, <2>1
<1>6. ASSUME NEW j \in Inodes, NEW k \in Inodes, j # k, ~IsFree(j)', ~IsFree(k)'
      PROVE  ino'[j].blocks \cap ino'[k].blocks = {}
  <2>1. ino[j].blocks \cap ino[k].blocks = {}
    BY <1>2, <1>4, <1>6
  <2> QED
    BY <1>4, <1>6, <2>1
<1>7. table'.blocks \subseteq inuse'
  BY <1>2
<1> QED
  BY <1>5, <1>6, <1>7
-----------------------------------------------------------------------------
(***************************************************************************)
(* The invariant after a step of one client.                               *)
(***************************************************************************)
\* Entry by entry, the list in memory is right.
ListShape ==
  /\ \A j, k \in 1 .. Len(listed) : j # k => InodeOf(listed[j]) # InodeOf(listed[k])
  /\ \A k \in 1 .. Len(listed) : listed[k] \in Clients => task[listed[k]].pc = "del"

\* An inode is listed if it has to be and not without a reason, and has blocks in limbo
\* only in a truncation.
InodeOK(i) ==
  /\ Contains(listed, i) =>
       /\ ~IsFree(i)
       /\ \/ ino[i].nlink = 0
          \/ \E x \in Clients : task[x].pc \in Sizing \cup {"commit"} /\ task[x].ino = i
  /\ Orphan(i) => Contains(listed, i)
  /\ limbo[i] # {} => \E x \in Clients : task[x].pc = "size" /\ task[x].ino = i

\* The client's own part of the invariant.
ClientOK(c) == CommitOK(c) /\ GoneOK(c) /\ OpenOK(c) /\ SizeOK(c)

\* A step of client c keeps the invariant when it keeps the client's own part of it, and
\* what it says of the inodes that it touches, of the names, the list and the blocks.
LEMMA LocalStep ==
  ASSUME Inv, Types', NEW c, NEW X, Local(c, X), WaysKept(c), Space', ClientOK(c)',
         task'[c].pc \in Given => task'[c].ino \in X,
         task'[c].locks \subseteq task[c].locks \/ task'[c].locks \cap Locked = {},
         SameList', ListShape', \A i \in X : InodeOK(i)', BlocksApart'
  PROVE  Inv'
<1>1. /\ Types /\ Modes /\ GoneRight /\ SizeRight /\ ListedRight /\ OrphansListed
      /\ phase = "mounted" /\ phase' = "mounted" /\ saved' = saved /\ lost' = lost /\ X \subseteq Inodes
      /\ c \in Clients
  BY DEF Inv, Local
<1>2. Modes'
  BY <1>1 DEF Modes
<1>3. LocksApart'
  BY LocksKept
<1>4. CommitRight'
  BY OthersCommit DEF ClientOK, CommitRight
<1>5. /\ \A x \in Clients : GoneOK(x)'
      /\ OpenRight'
      /\ \A x \in Clients : SizeOK(x)'
  BY OthersKeep DEF ClientOK, OpenRight
<1>6. ASSUME NEW x \in Clients, NEW y \in Clients, x # y, task'[x].pc \in Given, task'[y].pc \in Given
      PROVE  task'[x].ino # task'[y].ino
  <2>1. \A z \in Clients \ {c} : task'[z].pc \in Given => task'[z].ino \notin X /\ task'[z] = task[z]
    BY DEF Local
  <2>2. CASE x = c \/ y = c
    BY <1>6, <2>1, <2>2
  <2>3. CASE x # c /\ y # c
    BY <1>1, <1>6, <2>1, <2>3 DEF GoneRight
  <2> QED
    BY <2>2, <2>3
<1>7. GoneRight'
  BY <1>5, <1>6 DEF GoneRight
<1>8. ASSUME NEW i \in Inodes PROVE InodeOK(i)'
  <2>1. CASE i \in X
    BY <2>1
  <2>2. CASE i \notin X
    <3>1. /\ (IsFree(i)' <=> IsFree(i)) /\ ino'[i] = ino[i] /\ limbo'[i] = limbo[i]
          /\ (Contains(listed', i) <=> Contains(listed, i))
      BY <2>2, Untouched DEF Local
    <3>2. \A x \in Clients : task[x].pc # "idle" /\ task[x].ino = i => task'[x] = task[x]
      BY <2>2 DEF Local
    <3>3. "idle" \notin Sizing \cup {"commit", "size"}
      BY DEF Sizing
    <3>4. ASSUME Contains(listed', i)
          PROVE  /\ ~IsFree(i)'
                 /\ \/ ino'[i].nlink = 0
                    \/ \E x \in Clients : task'[x].pc \in Sizing \cup {"commit"} /\ task'[x].ino = i
      <4>1. /\ ~IsFree(i)
            /\ \/ ino[i].nlink = 0
               \/ \E x \in Clients : task[x].pc \in Sizing \cup {"commit"} /\ task[x].ino = i
        BY <1>1, <3>1, <3>4 DEF ListedRight
      <4> QED
        BY <3>1, <3>2, <3>3, <4>1
    <3>5. Orphan(i)' => Contains(listed', i)
      BY <1>1, <3>1 DEF Orphan, OrphansListed
    <3>6. ASSUME limbo'[i] # {} PROVE \E x \in Clients : task'[x].pc = "size" /\ task'[x].ino = i
      <4>1. \E x \in Clients : task[x].pc = "size" /\ task[x].ino = i
        BY <1>1, <3>1, <3>6 DEF SizeRight
      <4> QED
        BY <3>2, <4>1
    <3> QED
      BY <3>4, <3>5, <3>6 DEF InodeOK
  <2> QED
    BY <2>1, <2>2
<1>9. SizeRight'
  BY <1>5, <1>8 DEF SizeRight, InodeOK
<1>10. ListedRight'
  BY <1>8 DEF ListedRight, ListShape, InodeOK
<1>11. OrphansListed'
  BY <1>1, <1>8 DEF OrphansListed, InodeOK
<1> QED
  BY <1>2, <1>3, <1>4, <1>5, <1>7, <1>9, <1>10, <1>11 DEF Inv, Space
-----------------------------------------------------------------------------
(***************************************************************************)
(* What the steps of a client have in common.                              *)
(***************************************************************************)
\* Where no name changes, nothing is spoilt for a rename that waits.
LEMMA WaysSame ==
  ASSUME Inv, ent' = ent, NEW c
  PROVE  WaysKept(c)
<1>1. \A T : Up(T)' <=> Up(T)
  BY DEF Up
<1> QED
  BY <1>1 DEF WaysKept, Inv, CommitRight, CommitOK

\* A client between two calls.
LEMMA IdleClient ==
  ASSUME NEW c, task'[c] = Idle, OpenOK(c)'
  PROVE  ClientOK(c)' /\ task'[c].pc \notin Given /\ task'[c].locks = {} /\ task'[c].ino = 0
BY DEF ClientOK, CommitOK, GoneOK, SizeOK, Idle, Given, Sizing

\* The inodes that calls are giving up.
LEMMA LeavingAfter ==
  ASSUME NEW c, NEW X, Local(c, X)
  PROVE  /\ \A i \in Leaving : i \in Leaving' \/ (task[c].pc \in {"del", "abort"} /\ i = task[c].ino)
         /\ \A i \in Leaving' : i \in Leaving \/ (task'[c].pc \in {"del", "abort"} /\ i = task'[c].ino)
         /\ task[c].pc \in {"del", "abort"} => task[c].ino \in Leaving
         /\ task'[c].pc \in {"del", "abort"} => task'[c].ino \in Leaving'
<1>1. c \in Clients /\ \A x \in Clients \ {c} : task'[x] = task[x]
  BY DEF Local
<1> QED
  BY <1>1 DEF Leaving

\* The namespace if nothing in it changes.
LEMMA SpaceSame ==
  ASSUME Inv, Types', NEW c, NEW X, Local(c, X), ent' = ent, leaked' = leaked,
         \A i \in Inodes : SameInode(i),
         task[c].pc \in {"del", "abort"} => ino[task[c].ino].nlink = 0
  PROVE  Space'
<1>1. table.count <= table'.count
  BY DEF Local
<1>2. ASSUME NEW i \in Leaving \cap Inodes PROVE i \in Leaving' \/ ino'[i].nlink = 0
  BY LeavingAfter DEF SameInode
<1>3. Nameless
  BY <1>1, <1>2 DEF Nameless
<1> QED
  BY <1>3, NamelessKeepsSpace DEF Inv, Space

\* A step that touches no inode but takes an idle client to another state of its own.
LEMMA QuietStep ==
  ASSUME Inv, Types', NEW c \in Clients, NEW X, X \subseteq Inodes,
         UNCHANGED <<ent, ino, limbo, table, list, saved, system>>, inuse \subseteq inuse',
         \A x \in Clients \ {c} : task'[x] = task[x] /\ open'[x] = open[x],
         phase = "mounted", task[c] = Idle, ClientOK(c)',
         open'[c] # 0 => open'[c] = open[c] \/ Named(open'[c]),
         task'[c].pc \in Given => task'[c].ino \in X /\ task'[c].pc \notin {"del", "abort"},
         \A i \in X : \A x \in Clients \ {c} :
           /\ task[x].pc \in Sizing \cup {"commit"} => i \notin task[x].locks
           /\ task[x].pc \in Given => task[x].ino # i,
         task'[c].locks = {}, \A i \in X : InodeOK(i)'
  PROVE  Inv'
<1>1. /\ \A i \in Inodes : /\ (Named(i)' <=> Named(i)) /\ (IsFree(i)' <=> IsFree(i))
      /\ \A e : Contains(listed', e) <=> Contains(listed, e)
      /\ task[c].pc = "idle" /\ Types /\ OpenRight
      /\ table' = table /\ listed' = listed /\ ino' = ino /\ leaked' = leaked /\ UNCHANGED list /\ ent' = ent
      /\ lost' = lost /\ phase' = phase /\ cur' = cur
  BY DEF Named, IsFree, list, system, mount, Idle, Inv
<1>2. ASSUME NEW x \in Clients, NEW i \in Inodes, open[x] = i
      PROVE  /\ ino'[i].kind = ino[i].kind /\ ~IsFree(i)'
             /\ ino'[i].nlink = 0 => Contains(listed', i)
  <2>1. i # 0
    BY Consts
  <2>2. ~IsFree(i) /\ (ino[i].nlink = 0 => Contains(listed, i))
    BY <1>1, <1>2, <2>1 DEF OpenRight, OpenOK
  <2> QED
    BY <1>1, <2>2
<1>3. Local(c, X)
  <2>1. table.count <= table'.count
    BY <1>1, CountTypes
  <2>2. \A i \in X, x \in Clients \ {c} : open[x] = i =>
          /\ ino'[i].kind = ino[i].kind /\ ~IsFree(i)'
          /\ ino'[i].nlink = 0 => Contains(listed', i)
    BY <1>2
  <2> QED
    BY <1>1, <2>1, <2>2 DEF Local, list
<1>4. Space'
  BY <1>1, <1>3, SpaceSame DEF SameInode
<1>5. SameList' /\ ListShape'
  BY <1>1, <1>3, ListKept DEF ListShape
<1>6. BlocksApart'
  <2>1. lost' = lost /\ phase' = phase /\ phase = "mounted" /\ saved' = saved /\ table'.blocks = table.blocks
    BY <1>1
  <2>2. \A i \in Inodes : ~IsFree(i)' => ino'[i].blocks \subseteq (IF IsFree(i) THEN {} ELSE ino[i].blocks)
    BY <1>1
  <2> QED
    BY <2>1, <2>2, BlocksSame
<1>7. WaysKept(c)
  BY <1>1, WaysSame
<1> QED
  BY <1>3, <1>4, <1>5, <1>6, <1>7, LocalStep
-----------------------------------------------------------------------------
(***************************************************************************)
(* Open files.                                                             *)
(***************************************************************************)
\* A file is opened that has a name.
LEMMA OpenStep ==
  ASSUME Inv, NEW c \in Clients, NEW i \in Inodes, Open(c, i)
  PROVE  Inv'
<1>1. /\ Types /\ NamesRight /\ phase = "mounted" /\ task[c] = Idle /\ i <= table.count /\ ino[i].kind = "file"
      /\ Entries(i) # {} /\ open' = [open EXCEPT ![c] = i] /\ calls' = calls + 1
      /\ UNCHANGED <<ent, ino, limbo, table, list, saved, inuse, hint, task, system>>
  <2>1. Types /\ NamesRight /\ i \in InTable /\ Ready(c, {}) /\ UNCHANGED <<ent, ino, limbo, table, list, saved, inuse, hint, task, system>>
        /\ ino[i].kind = "file" /\ Entries(i) # {} /\ open' = [open EXCEPT ![c] = i] /\ calls' = calls + 1
    BY DEF Open, Inv
  <2>2. phase = "mounted" /\ task[c] = Idle
    BY <2>1 DEF Ready
  <2>3. i <= table.count
    BY <2>1 DEF InTable
  <2> QED
    BY <2>1, <2>2, <2>3
<1>2. Types'
  <2>1. open' \in [Clients -> 0 .. MaxIno] /\ calls' \in Nat
    BY <1>1, Consts DEF Types
  <2> QED
    BY <1>1, <2>1 DEF Types, list, system, mount
<1>3. Named(i) /\ ino[i].nlink > 0 /\ ~IsFree(i) /\ i # 0 /\ Named(i)'
  <2>1. Named(i)' <=> Named(i)
    BY <1>1 DEF Named
  <2> QED
    BY <1>1, <2>1, EntriesAreNames, Consts
<1>4. open \in [Clients -> 0 .. MaxIno]
  BY <1>1 DEF Types
<1>5. open'[c] = i /\ \A x \in Clients \ {c} : open'[x] = open[x]
  BY <1>1, <1>4
<1>6. OpenOK(c)'
  <2>1. ~IsFree(i)' /\ ino'[i].nlink # 0 /\ ino'[i].kind = "file" /\ i <= table'.count
    BY <1>1, <1>3, InodeTypes DEF IsFree
  <2> QED
    BY <1>5, <2>1 DEF OpenOK, IsFree
<1>7. ClientOK(c)' /\ task'[c].pc \notin Given /\ task'[c].locks = {}
  BY <1>1, <1>6, IdleClient
<1> QED
  BY <1>1, <1>2, <1>3, <1>5, <1>7, QuietStep

\* A file is closed; if it has no name and nobody else has it open, it has to go.
LEMMA CloseStep ==
  ASSUME Inv, NEW c \in Clients, Close(c)
  PROVE  Inv'
<1> PICK i : i = open[c]
  OBVIOUS
<1>1. /\ Types /\ NamesRight /\ phase = "mounted" /\ task[c] = Idle /\ i # 0
      /\ open' = [open EXCEPT ![c] = 0]
      /\ task' = IF ino[i].nlink = 0 /\ InUseBy(i) = {c}
                 THEN [task EXCEPT ![c] = [Idle EXCEPT !.pc = "evict", !.ino = i]] ELSE task
      /\ UNCHANGED <<ent, ino, limbo, table, list, saved, inuse, hint, calls, system>>
  BY DEF Close, Inv
<1>2. /\ i \in Inodes /\ i <= table.count /\ ino[i].kind = "file" /\ ~IsFree(i)
      /\ ino[i].nlink = 0 => Contains(listed, i)
  BY <1>1, TaskTypes DEF Inv, OpenRight, OpenOK
<1>3. open \in [Clients -> 0 .. MaxIno] /\ task \in [Clients -> Tasks] /\ [Idle EXCEPT !.pc = "evict", !.ino = i] \in Tasks
  BY <1>1, <1>2 DEF Types, Tasks, EvictTask, Idle
<1>4. Types'
  <2>1. task' \in [Clients -> Tasks] /\ open' \in [Clients -> 0 .. MaxIno]
    BY <1>1, <1>3, Consts
  <2> QED
    BY <1>1, <2>1 DEF Types, list, system, mount
<1>5. open'[c] = 0 /\ (\A x \in Clients \ {c} : open'[x] = open[x] /\ task'[x] = task[x]) /\ OpenOK(c)'
  BY <1>1, <1>3 DEF OpenOK
<1>6. CASE ino[i].nlink = 0 /\ InUseBy(i) = {c}
  <2> PICK X : X = {i}
    OBVIOUS
  <2>1. task'[c] = [pc |-> "evict", ino |-> i, locks |-> {}]
    BY <1>1, <1>3, <1>6 DEF Idle
  <2>2. ~Named(i) /\ i # Root
    BY <1>1, <1>2, <1>6, EntriesAreNames DEF NamesRight, IsDir
  <2>3. ~Named(i)' /\ ~IsFree(i)' /\ ino'[i].nlink = 0 /\ Contains(listed', i) /\ i <= table'.count
    BY <1>1, <1>2, <1>6, <2>2 DEF Named, IsFree, list
  <2>4. \A x \in Clients : open'[x] # i
    BY <1>1, <1>5, <1>6 DEF InUseBy
  <2>5. ClientOK(c)'
    BY <1>5, <2>1, <2>2, <2>3, <2>4 DEF ClientOK, CommitOK, GoneOK, SizeOK, Given, Sizing, Contains, IsFree, Named
  <2>6. ASSUME NEW x \in Clients \ {c}
        PROVE  /\ task[x].pc \in Sizing \cup {"commit"} => i \notin task[x].locks
               /\ task[x].pc \in Given => task[x].ino # i
    <3>1. ASSUME task[x].pc \in Sizing PROVE i \notin task[x].locks
      BY <1>6, <3>1 DEF Inv, SizeRight, SizeOK
    <3>2. ASSUME task[x].pc = "commit" PROVE i \notin task[x].locks
      <4>1. /\ task[x].locks = {task[x].d, task[x].e, task[x].ino} \cup (IF task[x].d # task[x].e THEN {-1} ELSE {})
            /\ ent[task[x].e][task[x].m] = task[x].ino
            /\ task[x].moved = 0 => task[x].d = task[x].e
            /\ task[x].moved # 0 => ent[task[x].d][task[x].n] = task[x].moved
            /\ task[x] \in CommitTask
        BY <1>1, <3>2, TaskTypes DEF Inv, CommitRight, CommitOK
      <4>2. /\ task[x].d \in Inodes /\ task[x].e \in Inodes /\ task[x].n \in Names /\ task[x].m \in Names
            /\ task[x].ino \in Inodes
        BY <4>1 DEF CommitTask
      <4>3. IsDir(task[x].d) /\ IsDir(task[x].e) /\ ino[task[x].ino].nlink > 0
        BY <1>1, <4>1, <4>2, Consts DEF NamesRight
      <4> QED
        BY <1>2, <1>6, <4>1, <4>3, Consts DEF IsDir
    <3>3. ASSUME task[x].pc \in Given PROVE task[x].ino # i
      BY <3>3 DEF Inv, GoneRight, GoneOK
    <3> QED
      BY <3>1, <3>2, <3>3
  <2>7. InodeOK(i)'
    <3>1. limbo[i] = {}
      <4>1. SUFFICES ASSUME NEW x \in Clients, task[x].pc = "size", task[x].ino = i PROVE FALSE
        BY <1>2 DEF Inv, SizeRight
      <4> QED
        BY <1>6, <4>1 DEF Inv, SizeRight, SizeOK, Sizing
    <3>2. limbo'[i] = {}
      BY <1>1, <3>1
    <3> QED
      BY <2>3, <3>2 DEF InodeOK
  <2>8. task'[c].locks = {} /\ task'[c].ino \in X /\ task'[c].pc \notin {"del", "abort"} /\ X \subseteq Inodes
    BY <1>2, <2>1
  <2>9. /\ \A j \in X : InodeOK(j)'
        /\ \A j \in X : \A x \in Clients \ {c} :
             /\ task[x].pc \in Sizing \cup {"commit"} => j \notin task[x].locks
             /\ task[x].pc \in Given => task[x].ino # j
    BY <2>6, <2>7
  <2>10. inuse \subseteq inuse' /\ open'[c] = 0
    BY <1>1, <1>5
  <2> QED
    BY <1>1, <1>4, <1>5, <2>5, <2>8, <2>9, <2>10, QuietStep
<1>7. CASE ~(ino[i].nlink = 0 /\ InUseBy(i) = {c})
  <2>1. task' = task
    BY <1>1, <1>7
  <2>2. ClientOK(c)' /\ task'[c].pc \notin Given /\ task'[c].locks = {}
    BY <1>1, <1>5, <2>1, IdleClient
  <2> QED
    BY <1>1, <1>4, <1>5, <2>1, <2>2, QuietStep
<1> QED
  BY <1>6, <1>7
-----------------------------------------------------------------------------
(***************************************************************************)
(* Entries that come to the truncate list and go.                          *)
(***************************************************************************)
\* The inodes behind the entries.
EntryInode(k) == InodeOf(listed[k])

\* Pmfs_truncate_add of an inode that is not listed leaves the lists in order.
LEMMA AddKeepsList ==
  ASSUME Inv, phase = "mounted", NEW i \in Inodes, NEW size \in Nat,
         ~Contains(listed, i), ino[i].nlink > 0, TruncateAdd(i, size),
         \A x \in Clients : task[x].pc = "del" => task'[x] = task[x]
  PROVE  /\ SameList' /\ ListShape'
         /\ \A e : Contains(listed', e) <=> e = i \/ Contains(listed, e)
         /\ tsize' = [tsize EXCEPT ![i] = size] /\ tsize'[i] = size
         /\ \A j \in Inodes \ {i} : tsize'[j] = tsize[j]
         /\ head' \in 0 .. MaxIno /\ next' \in [Inodes -> 0 .. MaxIno] /\ tsize' \in [Inodes -> Nat]
         /\ listed' \in Seq(Inodes \cup Clients)
<1>1. /\ next' = [next EXCEPT ![i] = head] /\ tsize' = [tsize EXCEPT ![i] = size]
      /\ head' = i /\ listed' = <<i>> \o listed
  BY DEF TruncateAdd
<1>2. /\ Types /\ SameList /\ ListedRight /\ GoneRight
      /\ listed \in Seq(Inodes \cup Clients) /\ next \in [Inodes -> 0 .. MaxIno] /\ tsize \in [Inodes -> Nat]
      /\ head \in 0 .. MaxIno /\ i \in 0 .. MaxIno /\ i # 0 /\ i \notin Clients
  BY Consts DEF Inv, Types
<1>3. Len(listed) \in Nat
  BY <1>2, EntryTypes
<1>4. /\ Len(listed') = 1 + Len(listed) /\ listed' \in Seq(Inodes \cup Clients)
      /\ \A k \in 1 .. 1 + Len(listed) : listed'[k] = IF k <= 1 THEN i ELSE listed[k - 1]
  <2>1. <<i>> \in Seq(Inodes \cup Clients) /\ Len(<<i>>) = 1 /\ \A k \in 1 .. 1 : <<i>>[k] = i
    OBVIOUS
  <2>2. /\ <<i>> \o listed \in Seq(Inodes \cup Clients)
        /\ Len(<<i>> \o listed) = Len(<<i>>) + Len(listed)
        /\ \A k \in 1 .. Len(<<i>>) + Len(listed) :
             (<<i>> \o listed)[k] = IF k <= Len(<<i>>) THEN <<i>>[k] ELSE listed[k - Len(<<i>>)]
    BY <1>2, <2>1, ConcatProperties
  <2> QED
    BY <1>1, <1>3, <2>1, <2>2
<1>5. \A k \in 1 .. Len(listed) :
        /\ listed[k] \in Inodes \cup Clients /\ listed[k] # i
        /\ EntryInode(k) \in Inodes /\ EntryInode(k) # i
        /\ listed[k] \in Clients => task[listed[k]].pc = "del" /\ task'[listed[k]] = task[listed[k]]
  <2>1. ASSUME NEW k \in 1 .. Len(listed)
        PROVE  /\ listed[k] \in Inodes \cup Clients /\ listed[k] # i
               /\ EntryInode(k) \in Inodes
               /\ listed[k] \in Clients => task[listed[k]].pc = "del" /\ task'[listed[k]] = task[listed[k]]
    BY <1>2, EntryTypes DEF EntryInode, Contains, ListedRight
  <2>2. ASSUME NEW k \in 1 .. Len(listed) PROVE EntryInode(k) # i
    <3>1. CASE listed[k] \in Clients
      BY <1>2, <2>1, <3>1 DEF EntryInode, InodeOf, GoneRight, GoneOK
    <3>2. CASE listed[k] \notin Clients
      BY <2>1, <3>2 DEF EntryInode, InodeOf
    <3> QED
      BY <3>1, <3>2
  <2> QED
    BY <2>1, <2>2
<1>6. /\ listed'[1] = i /\ EntryInode(1)' = i
      /\ \A k \in 1 .. Len(listed) : /\ listed'[k + 1] = listed[k]
                                     /\ EntryInode(k + 1)' = EntryInode(k)
  <2>1. listed'[1] = i
    BY <1>3, <1>4
  <2>2. ASSUME NEW k \in 1 .. Len(listed) PROVE listed'[k + 1] = listed[k]
    BY <1>3, <1>4
  <2>3. ASSUME NEW k \in 1 .. Len(listed) PROVE EntryInode(k + 1)' = EntryInode(k)
    BY <1>5, <2>2 DEF EntryInode, InodeOf
  <2>4. EntryInode(1)' = i
    BY <1>2, <2>1 DEF EntryInode, InodeOf
  <2> QED
    BY <2>1, <2>2, <2>3, <2>4
<1>7. \A k \in 1 .. 1 + Len(listed) : k = 1 \/ (k - 1 \in 1 .. Len(listed) /\ (k - 1) + 1 = k)
  BY <1>3
<1>8. head = IF listed = <<>> THEN 0 ELSE EntryInode(1)
  BY <1>2 DEF SameList, EntryInode
<1>9. \A k \in 1 .. Len(listed) : next[EntryInode(k)] = IF k = Len(listed) THEN 0 ELSE EntryInode(k + 1)
  BY <1>2 DEF SameList, EntryInode
<1>10. listed = <<>> <=> Len(listed) = 0
  BY <1>2, EmptySeq
<1>11. SameList'
  <2>1. head' = IF listed' = <<>> THEN 0 ELSE EntryInode(1)'
    <3>1. listed' # <<>>
      BY <1>3, <1>4, EmptySeq
    <3> QED
      BY <1>1, <1>6, <3>1
  <2>2. ASSUME NEW k \in 1 .. Len(listed')
        PROVE  next'[EntryInode(k)'] = IF k = Len(listed') THEN 0 ELSE EntryInode(k + 1)'
    <3>1. CASE k = 1
      <4>1. next'[EntryInode(k)'] = head
        BY <1>1, <1>2, <1>6, <3>1
      <4>2. Len(listed) # 0 => EntryInode(2)' = EntryInode(1)
        <5>1. ASSUME Len(listed) # 0 PROVE 1 \in 1 .. Len(listed) /\ 1 + 1 = 2
          BY <1>3, <5>1
        <5> QED
          BY <1>6, <5>1
      <4> QED
        BY <1>3, <1>4, <1>8, <1>10, <3>1, <4>1, <4>2
    <3>2. CASE k # 1
      <4>1. PICK l \in 1 .. Len(listed) : k = l + 1
        BY <1>4, <1>7, <3>2
      <4>2. EntryInode(k)' = EntryInode(l) /\ EntryInode(l) # i /\ EntryInode(l) \in Inodes
        BY <1>5, <1>6, <4>1
      <4>3. next'[EntryInode(k)'] = next[EntryInode(l)]
        BY <1>1, <1>2, <4>2
      <4>4. l # Len(listed) => l + 1 \in 1 .. Len(listed) /\ k + 1 = (l + 1) + 1
        BY <1>3, <4>1
      <4>5. l # Len(listed) => EntryInode(k + 1)' = EntryInode(l + 1)
        BY <1>6, <4>4
      <4>6. k = Len(listed') <=> l = Len(listed)
        BY <1>3, <1>4, <4>1
      <4> QED
        BY <1>9, <4>3, <4>5, <4>6
    <3> QED
      BY <3>1, <3>2
  <2> QED
    BY <2>1, <2>2 DEF SameList, EntryInode
<1>12. ListShape'
  <2>1. \A j, k \in 1 .. Len(listed) : j # k => EntryInode(j) # EntryInode(k)
    BY <1>2 DEF ListedRight, EntryInode
  <2>2. ASSUME NEW j \in 1 .. Len(listed'), NEW k \in 1 .. Len(listed'), j # k
        PROVE  EntryInode(j)' # EntryInode(k)'
    <3>1. CASE j = 1
      <4>1. PICK l \in 1 .. Len(listed) : k = l + 1
        BY <1>4, <1>7, <2>2, <3>1
      <4> QED
        BY <1>5, <1>6, <3>1, <4>1
    <3>2. CASE k = 1
      <4>1. PICK l \in 1 .. Len(listed) : j = l + 1
        BY <1>4, <1>7, <2>2, <3>2
      <4> QED
        BY <1>5, <1>6, <3>2, <4>1
    <3>3. CASE j # 1 /\ k # 1
      <4>1. PICK l \in 1 .. Len(listed) : j = l + 1
        BY <1>4, <1>7, <3>3
      <4>2. PICK q \in 1 .. Len(listed) : k = q + 1
        BY <1>4, <1>7, <3>3
      <4>3. l # q
        BY <2>2, <4>1, <4>2
      <4> QED
        BY <1>6, <2>1, <4>1, <4>2, <4>3
    <3> QED
      BY <3>1, <3>2, <3>3
  <2>3. ASSUME NEW k \in 1 .. Len(listed'), listed'[k] \in Clients PROVE task'[listed'[k]].pc = "del"
    <3>1. k # 1
      BY <1>2, <1>6, <2>3
    <3>2. PICK l \in 1 .. Len(listed) : k = l + 1
      BY <1>4, <1>7, <3>1
    <3> QED
      BY <1>5, <1>6, <2>3, <3>2
  <2> QED
    BY <2>2, <2>3 DEF ListShape, EntryInode
<1>13. ASSUME NEW e PROVE Contains(listed', e) <=> e = i \/ Contains(listed, e)
  <2>1. ASSUME Contains(listed', e) PROVE e = i \/ Contains(listed, e)
    <3>1. PICK k \in 1 .. Len(listed') : listed'[k] = e
      BY <2>1 DEF Contains
    <3>2. CASE k = 1
      BY <1>6, <3>1, <3>2
    <3>3. CASE k # 1
      <4>1. PICK l \in 1 .. Len(listed) : k = l + 1
        BY <1>4, <1>7, <3>3
      <4>2. listed[l] = e
        BY <1>6, <3>1, <4>1
      <4> QED
        BY <4>2 DEF Contains
    <3> QED
      BY <3>2, <3>3
  <2>2. ASSUME Contains(listed, e) PROVE Contains(listed', e)
    <3>1. PICK k \in 1 .. Len(listed) : listed[k] = e
      BY <2>2 DEF Contains
    <3>2. k + 1 \in 1 .. Len(listed') /\ listed'[k + 1] = e
      BY <1>3, <1>4, <1>6, <3>1
    <3> QED
      BY <3>2 DEF Contains
  <2>3. Contains(listed', i)
    <3>1. 1 \in 1 .. Len(listed')
      BY <1>3, <1>4
    <3> QED
      BY <1>6, <3>1 DEF Contains
  <2> QED
    BY <2>1, <2>2, <2>3
<1> QED
  BY <1>1, <1>2, <1>4, <1>11, <1>12, <1>13
\* Pmfs_truncate_del of a listed entry leaves the lists in order, without its inode.
LEMMA DelKeepsList ==
  ASSUME Inv, phase = "mounted", NEW e \in Inodes \cup Clients, Contains(listed, e), TruncateDel(e),
         \A x \in Clients : task[x].pc = "del" /\ x # e => task'[x] = task[x]
  PROVE  /\ SameList' /\ ListShape'
         /\ \A f : Contains(listed', f) <=> f # e /\ Contains(listed, f)
         /\ ~Contains(listed', InodeOf(e))
         /\ tsize' = tsize
         /\ head' \in 0 .. MaxIno /\ next' \in [Inodes -> 0 .. MaxIno] /\ listed' \in Seq(Inodes \cup Clients)
<1>1. /\ Types /\ SameList /\ ListedRight
      /\ listed \in Seq(Inodes \cup Clients) /\ next \in [Inodes -> 0 .. MaxIno] /\ head \in 0 .. MaxIno
  BY DEF Inv, Types
<1>2. Len(listed) \in Nat
  BY <1>1, EntryTypes
<1> DEFINE at == CHOOSE j \in 1 .. Len(listed) : listed[j] = e
<1> PICK k : k = at
  OBVIOUS
<1>3. k \in 1 .. Len(listed) /\ listed[k] = e
  BY DEF Contains
<1> PICK i : i = InodeOf(e)
  OBVIOUS
<1>4. /\ listed' = RemoveAt(listed, k) /\ UNCHANGED tsize
      /\ IF k = 1 THEN head' = next[i] /\ UNCHANGED next
         ELSE next' = [next EXCEPT ![EntryInode(k - 1)] = next[i]] /\ UNCHANGED head
  BY DEF TruncateDel, EntryInode
<1> HIDE DEF at
<1>5. EntryInode(k) = i /\ \A j \in 1 .. Len(listed) : EntryInode(j) \in Inodes
  BY <1>1, <1>3, EntryTypes DEF EntryInode
<1>6. \A j, l \in 1 .. Len(listed) : j # l => EntryInode(j) # EntryInode(l)
  BY <1>1 DEF ListedRight, EntryInode
<1>7. /\ listed' \in Seq(Inodes \cup Clients) /\ Len(listed') = Len(listed) - 1
      /\ \A j \in 1 .. Len(listed) - 1 : listed'[j] = IF j < k THEN listed[j] ELSE listed[j + 1]
  <2> DEFINE S == Inodes \cup Clients
             s == SubSeq(listed, 1, k - 1)
             t == SubSeq(listed, k + 1, Len(listed))
  <2>1. \A j \in 1 .. Len(listed) : listed[j] \in S
    BY <1>1, EntryTypes
  <2>2. k - 1 \in Int /\ k + 1 \in Int /\ Len(listed) \in Int
    BY <1>2, <1>3
  <2>3. s \in Seq(S) /\ Len(s) = k - 1 /\ \A j \in 1 .. k - 1 : s[j] = listed[j]
    <3>1. \A j \in 1 .. k - 1 : listed[j] \in S
      BY <1>2, <1>3, <2>1
    <3>2. /\ SubSeq(listed, 1, k - 1) \in Seq(S)
          /\ Len(SubSeq(listed, 1, k - 1)) = IF 1 <= k - 1 THEN (k - 1) - 1 + 1 ELSE 0
          /\ \A j \in 1 .. (k - 1) - 1 + 1 : SubSeq(listed, 1, k - 1)[j] = listed[1 + j - 1]
      BY <2>2, <3>1, SubSeqProperties
    <3>3. (k - 1) - 1 + 1 = k - 1 /\ \A j \in 1 .. k - 1 : 1 + j - 1 = j
      BY <1>2, <1>3
    <3>4. Len(s) = k - 1
      BY <1>2, <1>3, <3>2
    <3> QED
      BY <3>2, <3>3, <3>4
  <2>4. t \in Seq(S) /\ Len(t) = Len(listed) - k /\ \A j \in 1 .. Len(listed) - k : t[j] = listed[k + j]
    <3>1. \A j \in k + 1 .. Len(listed) : listed[j] \in S
      BY <1>2, <1>3, <2>1
    <3>2. /\ SubSeq(listed, k + 1, Len(listed)) \in Seq(S)
          /\ Len(SubSeq(listed, k + 1, Len(listed))) =
               IF k + 1 <= Len(listed) THEN Len(listed) - (k + 1) + 1 ELSE 0
          /\ \A j \in 1 .. Len(listed) - (k + 1) + 1 : SubSeq(listed, k + 1, Len(listed))[j] = listed[(k + 1) + j - 1]
      BY <2>2, <3>1, SubSeqProperties
    <3>3. Len(listed) - (k + 1) + 1 = Len(listed) - k /\ \A j \in 1 .. Len(listed) - k : (k + 1) + j - 1 = k + j
      BY <1>2, <1>3
    <3>4. Len(t) = Len(listed) - k
      BY <1>2, <1>3, <3>2
    <3> QED
      BY <3>2, <3>3, <3>4
  <2>5. listed' = s \o t
    BY <1>4 DEF RemoveAt
  <2> HIDE DEF s, t, S
  <2>6. /\ s \o t \in Seq(S) /\ Len(s \o t) = Len(s) + Len(t)
        /\ \A j \in 1 .. Len(s) + Len(t) : (s \o t)[j] = IF j <= Len(s) THEN s[j] ELSE t[j - Len(s)]
    BY <2>3, <2>4, ConcatProperties
  <2>7. Len(s) + Len(t) = Len(listed) - 1
    BY <1>2, <1>3, <2>3, <2>4
  <2>8. ASSUME NEW j \in 1 .. Len(listed) - 1
        PROVE  (s \o t)[j] = IF j < k THEN listed[j] ELSE listed[j + 1]
    <3>1. CASE j < k
      <4>1. j <= Len(s) /\ j \in 1 .. k - 1 /\ j \in 1 .. Len(s) + Len(t)
        BY <1>2, <1>3, <2>3, <2>7, <2>8, <3>1
      <4> QED
        BY <2>3, <2>6, <3>1, <4>1
    <3>2. CASE ~(j < k)
      <4>0. Len(s) = k - 1 /\ Len(s) + Len(t) = Len(listed) - 1 /\ j \in 1 .. Len(listed) - 1 /\ k \in 1 .. Len(listed)
        BY <1>3, <2>3, <2>7, <2>8
      <4>1. ~(j <= k - 1) /\ j - (k - 1) \in 1 .. Len(listed) - k /\ k + (j - (k - 1)) = j + 1
        BY <1>2, <3>2, <4>0
      <4>2. (s \o t)[j] = t[j - Len(s)]
        BY <2>6, <4>0, <4>1
      <4>3. t[j - Len(s)] = listed[k + (j - Len(s))]
        BY <2>4, <4>0, <4>1
      <4> QED
        BY <3>2, <4>0, <4>1, <4>2, <4>3
    <3> QED
      BY <3>1, <3>2
  <2> QED
    BY <2>5, <2>6, <2>7, <2>8 DEF S
<1>8. \A j \in 1 .. Len(listed) : j # k =>
        /\ listed[j] # e
        /\ listed[j] \in Clients => task[listed[j]].pc = "del" /\ task'[listed[j]] = task[listed[j]]
  BY <1>1, <1>3, <1>5, <1>6 DEF ListedRight, EntryInode
<1>9. \A j \in 1 .. Len(listed) - 1 :
        /\ j < k => /\ j \in 1 .. Len(listed) /\ j # k
                    /\ listed'[j] = listed[j] /\ EntryInode(j)' = EntryInode(j)
        /\ ~(j < k) => /\ j + 1 \in 1 .. Len(listed) /\ j + 1 # k
                       /\ listed'[j] = listed[j + 1] /\ EntryInode(j)' = EntryInode(j + 1)
  <2>1. ASSUME NEW j \in 1 .. Len(listed) - 1, j < k
        PROVE  j \in 1 .. Len(listed) /\ j # k /\ listed'[j] = listed[j]
    BY <1>2, <1>3, <1>7, <2>1
  <2>2. ASSUME NEW j \in 1 .. Len(listed) - 1, j < k PROVE EntryInode(j)' = EntryInode(j)
    BY <1>8, <2>1, <2>2 DEF EntryInode, InodeOf
  <2>3. ASSUME NEW j \in 1 .. Len(listed) - 1, ~(j < k)
        PROVE  j + 1 \in 1 .. Len(listed) /\ j + 1 # k /\ listed'[j] = listed[j + 1]
    BY <1>2, <1>3, <1>7, <2>3
  <2>4. ASSUME NEW j \in 1 .. Len(listed) - 1, ~(j < k) PROVE EntryInode(j)' = EntryInode(j + 1)
    BY <1>8, <2>3, <2>4 DEF EntryInode, InodeOf
  <2> QED
    BY <2>1, <2>2, <2>3, <2>4
<1>10. head = IF listed = <<>> THEN 0 ELSE EntryInode(1)
  BY <1>1 DEF SameList, EntryInode
<1>11. \A j \in 1 .. Len(listed) : next[EntryInode(j)] = IF j = Len(listed) THEN 0 ELSE EntryInode(j + 1)
  BY <1>1 DEF SameList, EntryInode
<1>12. (listed = <<>> <=> Len(listed) = 0) /\ (listed' = <<>> <=> Len(listed') = 0)
  BY <1>1, <1>7, EmptySeq
<1>13. next[i] = IF k = Len(listed) THEN 0 ELSE EntryInode(k + 1)
  BY <1>3, <1>5, <1>11
<1>14. SameList'
  <2>1. head' = IF listed' = <<>> THEN 0 ELSE EntryInode(1)'
    <3>1. CASE k = 1
      <4>1. CASE Len(listed) = 1
        BY <1>4, <1>7, <1>12, <1>13, <3>1, <4>1
      <4>2. CASE Len(listed) # 1
        <5>1. 1 \in 1 .. Len(listed) - 1 /\ ~(1 < k) /\ 1 + 1 = k + 1 /\ Len(listed') # 0 /\ k # Len(listed)
          BY <1>2, <1>3, <1>7, <3>1, <4>2
        <5>2. EntryInode(1)' = EntryInode(k + 1)
          BY <1>9, <5>1
        <5> QED
          BY <1>4, <1>12, <1>13, <3>1, <5>1, <5>2
      <4> QED
        BY <4>1, <4>2
    <3>2. CASE k # 1
      <4>1. 1 \in 1 .. Len(listed) - 1 /\ 1 < k /\ Len(listed') # 0 /\ Len(listed) # 0
        BY <1>2, <1>3, <1>7, <3>2
      <4>2. EntryInode(1)' = EntryInode(1)
        BY <1>9, <4>1
      <4> QED
        BY <1>4, <1>10, <1>12, <3>2, <4>1, <4>2
    <3> QED
      BY <3>1, <3>2
  <2>2. ASSUME NEW j \in 1 .. Len(listed')
        PROVE  next'[EntryInode(j)'] = IF j = Len(listed') THEN 0 ELSE EntryInode(j + 1)'
    <3>0. j \in 1 .. Len(listed) - 1 /\ j \in Int
      BY <1>2, <1>7
    <3>1. CASE j < k /\ j + 1 = k
      <4>1. k - 1 = j /\ k # 1 /\ j \in 1 .. Len(listed)
        BY <1>2, <1>3, <3>0, <3>1
      <4>2. next'[EntryInode(j)'] = next[i]
        <5>1. EntryInode(j)' = EntryInode(j) /\ EntryInode(j) \in Inodes
          BY <1>5, <1>9, <3>0, <3>1
        <5>2. next' = [next EXCEPT ![EntryInode(j)] = next[i]]
          BY <1>4, <4>1
        <5> QED
          BY <1>1, <5>1, <5>2
      <4>3. CASE k = Len(listed)
        <5>1. j = Len(listed')
          BY <1>2, <1>7, <3>0, <3>1, <4>3
        <5> QED
          BY <1>13, <4>2, <4>3, <5>1
      <4>4. CASE k # Len(listed)
        <5>1. j + 1 \in 1 .. Len(listed) - 1 /\ ~(j + 1 < k) /\ (j + 1) + 1 = k + 1 /\ j # Len(listed')
          BY <1>2, <1>3, <1>7, <3>0, <3>1, <4>4
        <5>2. EntryInode(j + 1)' = EntryInode(k + 1)
          BY <1>9, <5>1
        <5> QED
          BY <1>13, <4>2, <4>4, <5>1, <5>2
      <4> QED
        BY <4>3, <4>4
    <3>2. CASE j < k /\ j + 1 # k
      <4>1. j \in 1 .. Len(listed) /\ j # k - 1 /\ j # Len(listed) /\ j # Len(listed') /\ j + 1 \in 1 .. Len(listed) - 1 /\ j + 1 < k
            /\ (k # 1 => k - 1 \in 1 .. Len(listed))
        BY <1>2, <1>3, <1>7, <3>0, <3>2
      <4>2. EntryInode(j)' = EntryInode(j) /\ EntryInode(j) \in Inodes /\ EntryInode(j + 1)' = EntryInode(j + 1)
        BY <1>5, <1>9, <3>0, <3>2, <4>1
      <4>3. k # 1 => EntryInode(j) # EntryInode(k - 1)
        BY <1>6, <4>1
      <4>4. next'[EntryInode(j)] = next[EntryInode(j)]
        BY <1>1, <1>4, <4>2, <4>3
      <4>5. next[EntryInode(j)] = EntryInode(j + 1)
        BY <1>11, <4>1
      <4> QED
        BY <4>1, <4>2, <4>4, <4>5
    <3>3. CASE ~(j < k)
      <4>1. j + 1 \in 1 .. Len(listed) /\ j + 1 # k - 1 /\ (k # 1 => k - 1 \in 1 .. Len(listed))
            /\ (j = Len(listed') <=> j + 1 = Len(listed))
        BY <1>2, <1>3, <1>7, <3>0, <3>3
      <4>2. EntryInode(j)' = EntryInode(j + 1) /\ EntryInode(j + 1) \in Inodes
        BY <1>5, <1>9, <3>0, <3>3, <4>1
      <4>3. k # 1 => EntryInode(j + 1) # EntryInode(k - 1)
        BY <1>6, <4>1
      <4>4. next'[EntryInode(j + 1)] = next[EntryInode(j + 1)]
        BY <1>1, <1>4, <4>2, <4>3
      <4>5. next[EntryInode(j + 1)] = IF j + 1 = Len(listed) THEN 0 ELSE EntryInode((j + 1) + 1)
        BY <1>11, <4>1
      <4>6. j + 1 # Len(listed) => EntryInode(j + 1)' = EntryInode((j + 1) + 1)
        <5>1. j + 1 # Len(listed) => j + 1 \in 1 .. Len(listed) - 1 /\ ~(j + 1 < k)
          BY <1>2, <1>3, <3>0, <3>3
        <5> QED
          BY <1>9, <5>1
      <4> QED
        BY <4>1, <4>2, <4>4, <4>5, <4>6
    <3> QED
      BY <3>1, <3>2, <3>3
  <2> QED
    BY <2>1, <2>2 DEF SameList, EntryInode
<1>15. \A j \in 1 .. Len(listed') : \E l \in 1 .. Len(listed) :
         /\ l = (IF j < k THEN j ELSE j + 1) /\ l # k
         /\ listed'[j] = listed[l] /\ EntryInode(j)' = EntryInode(l)
  <2>1. SUFFICES ASSUME NEW j \in 1 .. Len(listed') PROVE \E l \in 1 .. Len(listed) :
                   /\ l = (IF j < k THEN j ELSE j + 1) /\ l # k
                   /\ listed'[j] = listed[l] /\ EntryInode(j)' = EntryInode(l)
    OBVIOUS
  <2>2. j \in 1 .. Len(listed) - 1
    BY <1>7
  <2> QED
    BY <1>9, <2>2
<1>16. ListShape'
  <2>1. ASSUME NEW j \in 1 .. Len(listed'), NEW l \in 1 .. Len(listed'), j # l
        PROVE  EntryInode(j)' # EntryInode(l)'
    <3>1. PICK p \in 1 .. Len(listed) : p = (IF j < k THEN j ELSE j + 1) /\ EntryInode(j)' = EntryInode(p)
      BY <1>15
    <3>2. PICK q \in 1 .. Len(listed) : q = (IF l < k THEN l ELSE l + 1) /\ EntryInode(l)' = EntryInode(q)
      BY <1>15
    <3>3. p # q
      BY <1>2, <1>3, <1>7, <2>1, <3>1, <3>2
    <3> QED
      BY <1>6, <3>1, <3>2, <3>3
  <2>2. ASSUME NEW j \in 1 .. Len(listed'), listed'[j] \in Clients PROVE task'[listed'[j]].pc = "del"
    <3>1. PICK l \in 1 .. Len(listed) : l # k /\ listed'[j] = listed[l]
      BY <1>15
    <3> PICK x : x = listed[l]
      OBVIOUS
    <3>2. x \in Clients /\ listed'[j] = x
      BY <2>2, <3>1
    <3>3. task[x].pc = "del" /\ task'[x] = task[x]
      BY <1>8, <3>1, <3>2
    <3> QED
      BY <3>2, <3>3
  <2> QED
    BY <2>1, <2>2 DEF ListShape, EntryInode
<1>17. ASSUME NEW f PROVE Contains(listed', f) <=> f # e /\ Contains(listed, f)
  <2>1. ASSUME Contains(listed', f) PROVE f # e /\ Contains(listed, f)
    BY <1>8, <1>15, <2>1 DEF Contains
  <2>2. ASSUME f # e, Contains(listed, f) PROVE Contains(listed', f)
    <3>1. PICK l \in 1 .. Len(listed) : listed[l] = f
      BY <2>2 DEF Contains
    <3>2. CASE l < k
      <4>1. l \in 1 .. Len(listed) - 1 /\ l \in 1 .. Len(listed')
        BY <1>2, <1>3, <1>7, <3>2
      <4>2. listed'[l] = f
        BY <1>9, <3>1, <3>2, <4>1
      <4> QED
        BY <4>1, <4>2 DEF Contains
    <3>3. CASE ~(l < k)
      <4>1. l # k
        BY <1>3, <2>2, <3>1
      <4>2. l - 1 \in 1 .. Len(listed) - 1 /\ l - 1 \in 1 .. Len(listed') /\ ~(l - 1 < k) /\ (l - 1) + 1 = l
        BY <1>2, <1>3, <1>7, <3>3, <4>1
      <4>3. listed'[l - 1] = f
        BY <1>9, <3>1, <4>2
      <4> QED
        BY <4>2, <4>3 DEF Contains
    <3> QED
      BY <3>2, <3>3
  <2> QED
    BY <2>1, <2>2
<1>18. ~Contains(listed', i)
  <2>1. SUFFICES ASSUME NEW j \in 1 .. Len(listed'), listed'[j] = i PROVE FALSE
    BY DEF Contains
  <2>2. PICK l \in 1 .. Len(listed) : l # k /\ listed[l] = i
    BY <1>15, <2>1
  <2>3. EntryInode(l) = i
    BY <1>3, <1>5, <2>2, Consts DEF EntryInode, InodeOf
  <2> QED
    BY <1>3, <1>5, <1>6, <2>2, <2>3
<1>19. head' \in 0 .. MaxIno /\ next' \in [Inodes -> 0 .. MaxIno]
  <2>1. i \in Inodes /\ next[i] \in 0 .. MaxIno
    BY <1>1, <1>3, <1>5
  <2>2. IF k = 1 THEN head' = next[i] /\ next' = next
        ELSE next' = [next EXCEPT ![EntryInode(k - 1)] = next[i]] /\ head' = head
    BY <1>4
  <2> QED
    BY <1>1, <2>1, <2>2
<1> QED
  BY <1>4, <1>7, <1>14, <1>16, <1>17, <1>18, <1>19
-----------------------------------------------------------------------------
(***************************************************************************)
(* Steps that touch one inode and no name.                                 *)
(***************************************************************************)
\* While the volume is mounted the inodes are as the invariant says of all of them.
LEMMA InodesRight ==
  ASSUME Inv, phase = "mounted", NEW i \in Inodes
  PROVE  /\ InodeOK(i) /\ (ino[i].nlink = 0 => limbo[i] = {})
         /\ \A x \in Clients : task[x].pc \in Sizing => i \in task[x].locks \/ task[x].ino # i
         /\ \A x \in Clients : task[x].pc = "commit" => i \in task[x].locks \/ task[x].ino # i
<1>1. InodeOK(i)
  BY DEF Inv, ListedRight, OrphansListed, SizeRight, InodeOK
<1>2. ino[i].nlink = 0 => limbo[i] = {}
  BY DEF Inv, SizeRight, SizeOK, Sizing
<1>3. \A x \in Clients : task[x].pc \in Sizing => i \in task[x].locks \/ task[x].ino # i
  BY DEF Inv, SizeRight, SizeOK
<1>4. \A x \in Clients : task[x].pc = "commit" => i \in task[x].locks \/ task[x].ino # i
  BY DEF Inv, CommitRight, CommitOK
<1> QED
  BY <1>1, <1>2, <1>3, <1>4

\* An inode without links is locked by nobody who removes or truncates.
LEMMA NoLinksNoLocks ==
  ASSUME Inv, NEW i \in Inodes, ino[i].nlink = 0, NEW x \in Clients, task[x].pc \in Sizing \cup {"commit"}
  PROVE  i \notin task[x].locks
<1>1. ASSUME task[x].pc \in Sizing PROVE i \notin task[x].locks
  BY <1>1 DEF Inv, SizeRight, SizeOK
<1>2. ASSUME task[x].pc = "commit" PROVE i \notin task[x].locks
  <2>1. /\ task[x].locks = {task[x].d, task[x].e, task[x].ino} \cup (IF task[x].d # task[x].e THEN {-1} ELSE {})
        /\ ent[task[x].e][task[x].m] = task[x].ino
        /\ task[x].moved = 0 => task[x].d = task[x].e
        /\ task[x].moved # 0 => ent[task[x].d][task[x].n] = task[x].moved
        /\ task[x] \in CommitTask
    BY <1>2, TaskTypes DEF Inv, CommitRight, CommitOK
  <2>2. /\ task[x].d \in Inodes /\ task[x].e \in Inodes /\ task[x].n \in Names /\ task[x].m \in Names
        /\ task[x].ino \in Inodes
    BY <2>1 DEF CommitTask
  <2>3. ino[task[x].d].nlink > 0 /\ ino[task[x].e].nlink > 0 /\ ino[task[x].ino].nlink > 0
    BY <2>1, <2>2, Consts DEF Inv, NamesRight
  <2> QED
    BY <2>1, <2>3, Consts
<1> QED
  BY <1>1, <1>2

\* What is locked or open is not being given up.
LEMMA LockedStays ==
  ASSUME Inv, NEW i \in Inodes, NEW x \in Clients, task[x].pc \in Given,
         Named(i) \/ i = Root \/ \E y \in Clients : open[y] = i
  PROVE  task[x].ino # i
BY DEF Inv, GoneRight, GoneOK

\* Such a step is one of a client that touches this inode only.
LEMMA OneInode ==
  ASSUME Inv, NEW c \in Clients, NEW i \in Inodes, NEW X, X = {i}, phase = "mounted",
         UNCHANGED <<ent, table, saved, system, open>>,
         \A x \in Clients \ {c} : task'[x] = task[x],
         \A j \in Inodes \ {i} : ino'[j] = ino[j] /\ limbo'[j] = limbo[j] /\ tsize'[j] = tsize[j],
         \A e \in (Inodes \ {i}) \cup (Clients \ {c}) : Contains(listed', e) <=> Contains(listed, e),
         \A x \in Clients \ {c} : task[x].pc \in Sizing \cup {"commit"} => i \notin task[x].locks,
         \A x \in Clients \ {c} : task[x].pc \in Given => task[x].ino # i,
         task[c].pc # "idle" => task[c].ino = i, ino'[i].kind = ino[i].kind,
         (\E x \in Clients \ {c} : open[x] = i) =>
           ~IsFree(i)' /\ (ino'[i].nlink = 0 => Contains(listed', i))
  PROVE  Local(c, X) /\ WaysKept(c)
<1>1. /\ phase' = "mounted" /\ cur' = cur /\ lost' = lost /\ leaked' = leaked /\ table' = table
      /\ table.count <= table'.count /\ ent' = ent /\ open' = open /\ saved' = saved
  BY CountTypes DEF system, mount, Inv
<1>2. \A j \in Inodes : (Named(j)' <=> Named(j))
  BY <1>1 DEF Named
<1>3. Local(c, X)
  BY <1>1, <1>2 DEF Local
<1>4. WaysKept(c)
  BY <1>1, WaysSame
<1> QED
  BY <1>3, <1>4

\* The namespace after a step that changes no names and of inodes in use only what no
\* name speaks of.
LEMMA SpaceQuiet ==
  ASSUME Inv, Types', NEW c, NEW X, Local(c, X), ent' = ent, leaked' = leaked,
         \A i \in X : \/ SameInode(i)
                      \/ /\ ~Named(i) /\ i # Root /\ i \notin leaked /\ i <= table'.count
                         /\ ino'[i].nlink = 0 \/ (ino'[i].kind = "dir" /\ i \in Leaving'),
         task[c].pc \in {"del", "abort"} => task[c].ino \in Leaving' \/ ino'[task[c].ino].nlink = 0
  PROVE  Space'
<1>1. table.count <= table'.count /\ \A i \in Inodes \ X : SameInode(i)
  BY DEF Local, SameInode
<1>2. ASSUME NEW i \in Leaving \cap Inodes PROVE i \in Leaving' \/ ino'[i].nlink = 0
  BY LeavingAfter
<1>3. Nameless
  BY <1>1, <1>2 DEF Nameless
<1> QED
  BY <1>3, NamelessKeepsSpace DEF Inv, Space

\* A directory without links is not the root, nor leaked, nor does it have a name.
LEMMA NoLinksNoName ==
  ASSUME Inv, NEW i \in Inodes, ino[i].nlink = 0
  PROVE  ~Named(i) /\ i # Root /\ i \notin leaked
BY EntriesAreNames DEF Inv, NamesRight, DirsNamed
\* The open file is written to.
LEMMA WriteStep ==
  ASSUME Inv, NEW c \in Clients, Write(c)
  PROVE  Inv'
<1> PICK i : i = open[c]
  OBVIOUS
<1> PICK b : b = IF ino[i].blocks = {} THEN Lowest(FreeBlocks, 1) ELSE {}
  OBVIOUS
<1>1. /\ i # 0 /\ Ready(c, {i})
      /\ ino' = [ino EXCEPT ![i].blocks = @ \cup b, ![i].size = IF ino[i].blocks \cup b # {} THEN 1 ELSE @]
      /\ inuse' = inuse \cup b
      /\ calls' = calls + 1
      /\ UNCHANGED <<ent, limbo, table, list, saved, hint, open, task, system>>
  BY DEF Write
<1>2. phase = "mounted" /\ task[c] = Idle /\ i \notin Locked /\ Types /\ task[c].pc = "idle"
  BY <1>1 DEF Ready, Inv, Idle
<1>3. /\ i \in Inodes /\ i <= table.count /\ ino[i].kind = "file" /\ ~IsFree(i)
      /\ ino[i].nlink = 0 => Contains(listed, i)
  BY <1>1, <1>2, TaskTypes DEF Inv, OpenRight, OpenOK
<1>4. b \subseteq FreeBlocks /\ b \subseteq Blocks
  BY Taken DEF FreeBlocks
<1>5. /\ ino \in [Inodes -> InodeRec] /\ ino' \in [Inodes -> InodeRec]
      /\ ino'[i].kind = ino[i].kind /\ ino'[i].nlink = ino[i].nlink /\ ino'[i].dtime = ino[i].dtime
      /\ ino'[i].blocks = ino[i].blocks \cup b
      /\ \A j \in Inodes \ {i} : ino'[j] = ino[j]
  <2>1. ino \in [Inodes -> InodeRec]
    BY <1>2 DEF Types
  <2> QED
    <3> PICK r : r = ino[i]
      OBVIOUS
    <3> PICK z : z = IF r.blocks \cup b # {} THEN 1 ELSE r.size
      OBVIOUS
    <3> PICK s : s = [r EXCEPT !.blocks = r.blocks \cup b, !.size = z]
      OBVIOUS
    <3>1. r \in InodeRec
      BY <1>3, <2>1
    <3>2. z \in Nat
      BY <3>1 DEF InodeRec
    <3>3. /\ s \in InodeRec /\ s.blocks = r.blocks \cup b
          /\ s.kind = r.kind /\ s.nlink = r.nlink /\ s.dtime = r.dtime
      BY <1>4, <3>1, <3>2 DEF InodeRec
    <3>4. ino' = [ino EXCEPT ![i] = s]
      BY <1>1, <1>3, <2>1
    <3>5. ino' \in [Inodes -> InodeRec] /\ ino'[i] = s /\ \A j \in Inodes \ {i} : ino'[j] = ino[j]
      BY <1>3, <2>1, <3>3, <3>4
    <3> QED
      BY <2>1, <3>3, <3>5
<1>6. Types'
  <2>1. inuse' \subseteq Blocks /\ calls' \in Nat
    BY <1>1, <1>2, <1>4 DEF Types
  <2> QED
    BY <1>1, <1>2, <1>5, <2>1 DEF Types, list, system, mount
<1>7. /\ IsFree(i)' <=> IsFree(i)
      /\ listed' = listed /\ task' = task /\ open' = open /\ tsize' = tsize /\ limbo' = limbo /\ ent' = ent /\ leaked' = leaked
      /\ lost' = lost /\ table' = table /\ phase' = phase /\ saved' = saved
  BY <1>1, <1>5 DEF IsFree, list, system, mount
<1> PICK X : X = {i}
  OBVIOUS
<1>8. Local(c, X) /\ WaysKept(c)
  <2>1. \A x \in Clients \ {c} : task[x].pc \in Sizing \cup {"commit"} => i \notin task[x].locks
    BY <1>2 DEF Locked
  <2>2. \A x \in Clients \ {c} : task[x].pc \in Given => task[x].ino # i
    BY <1>3, LockedStays
  <2>3. ~IsFree(i)' /\ (ino'[i].nlink = 0 => Contains(listed', i))
    BY <1>3, <1>5, <1>7
  <2>4. /\ UNCHANGED <<ent, table, saved, system, open>>
        /\ \A x \in Clients \ {c} : task'[x] = task[x]
        /\ \A j \in Inodes \ {i} : ino'[j] = ino[j] /\ limbo'[j] = limbo[j] /\ tsize'[j] = tsize[j]
        /\ \A e \in (Inodes \ {i}) \cup (Clients \ {c}) : Contains(listed', e) <=> Contains(listed, e)
    BY <1>1, <1>5, <1>7
  <2> QED
    BY <1>2, <1>3, <1>5, <2>1, <2>2, <2>3, <2>4, OneInode
<1>9. Space'
  <2>1. \A j \in X : SameInode(j)
    BY <1>5 DEF SameInode
  <2> QED
    BY <1>2, <1>6, <1>7, <1>8, <2>1, SpaceQuiet
<1>10. ClientOK(c)' /\ task'[c].pc \notin Given /\ task'[c].locks = {}
  <2>1. OpenOK(c)'
    BY <1>3, <1>5, <1>7 DEF OpenOK, IsFree
  <2> QED
    BY <1>2, <1>7, <2>1, IdleClient
<1>11. SameList' /\ ListShape'
  BY <1>1, <1>2, <1>8, ListKept DEF ListShape
<1>12. \A j \in X : InodeOK(j)'
  <2>1. InodeOK(i)
    BY <1>2, <1>3, InodesRight
  <2>2. InodeOK(i)'
    BY <1>5, <1>7, <2>1 DEF InodeOK, Orphan
  <2> QED
    BY <2>2
<1>13. BlocksApart'
  <2> DEFINE N == [j \in Inodes |-> IF j = i THEN b ELSE {}]
             NT == {}
  <2>1. N[i] = b /\ \A j \in Inodes \ {i} : N[j] = {}
    BY <1>3
  <2>2. \A j \in Inodes : N[j] \subseteq FreeBlocks /\ N[j] \cap NT = {} /\ N[j] \subseteq inuse'
    BY <1>1, <1>4, <2>1
  <2>3. \A j, k \in Inodes : j # k => N[j] \cap N[k] = {}
    BY <2>1
  <2>4. ASSUME NEW j \in Inodes, ~IsFree(j)'
        PROVE  ino'[j].blocks \subseteq N[j] \cup (IF IsFree(j) THEN {} ELSE ino[j].blocks)
    <3>1. CASE j = i
      BY <1>3, <1>5, <2>1, <3>1
    <3>2. CASE j # i
      BY <1>5, <2>1, <2>4, <3>2 DEF IsFree
    <3> QED
      BY <3>1, <3>2
  <2>5. NT \subseteq FreeBlocks /\ table'.blocks \subseteq table.blocks \cup NT /\ inuse \cup NT \subseteq inuse'
    BY <1>1, <1>7
  <2> HIDE DEF N, NT
  <2> QED
    BY <1>2, <1>7, <2>2, <2>3, <2>4, <2>5, BlocksGrow
<1> QED
  BY <1>6, <1>8, <1>9, <1>10, <1>11, <1>12, <1>13, LocalStep
\* The entry of an inode that is evicted becomes the client's.
LEMMA OwnEntry ==
  ASSUME Inv, phase = "mounted", NEW c \in Clients, NEW i \in Inodes, task[c].ino = i, task[c].pc = "evict",
         listed' = [k \in 1 .. Len(listed) |-> IF listed[k] = i THEN c ELSE listed[k]],
         head' = head, next' = next,
         task'[c].ino = i, task'[c].pc = "del", \A x \in Clients \ {c} : task'[x] = task[x]
  PROVE  /\ SameList' /\ ListShape' /\ listed' \in Seq(Inodes \cup Clients)
         /\ ~Contains(listed', i) /\ Contains(listed', c)
         /\ \A e : e # i /\ e # c => (Contains(listed', e) <=> Contains(listed, e))
<1>1. /\ Types /\ SameList /\ ListedRight
      /\ Contains(listed, i) /\ i \notin Clients
  BY Consts DEF Inv, GoneRight, GoneOK
<1>2. Len(listed) \in Nat /\ \A k \in 1 .. Len(listed) : listed[k] \in Inodes \cup Clients
  BY <1>1, EntryTypes
<1>3. listed' \in Seq(Inodes \cup Clients) /\ Len(listed') = Len(listed)
      /\ \A k \in 1 .. Len(listed) : listed'[k] = IF listed[k] = i THEN c ELSE listed[k]
  BY <1>2
<1>4. \A k \in 1 .. Len(listed) :
        /\ listed[k] \in Clients => task[listed[k]].pc = "del" /\ listed[k] # c /\ task'[listed[k]] = task[listed[k]]
        /\ listed[k] # c
  BY <1>1 DEF ListedRight
<1>5. \A k \in 1 .. Len(listed) : EntryInode(k)' = EntryInode(k)
  BY <1>1, <1>2, <1>3, <1>4 DEF EntryInode, InodeOf
<1>6. SameList'
  <2>1. head' = IF listed' = <<>> THEN 0 ELSE EntryInode(1)'
    <3>1. listed' = <<>> <=> listed = <<>>
      BY <1>1, <1>3, EmptySeq DEF Types
    <3>2. listed # <<>> => 1 \in 1 .. Len(listed)
      BY <1>1, <1>2, EmptySeq DEF Types
    <3>3. head = IF listed = <<>> THEN 0 ELSE EntryInode(1)
      BY <1>1 DEF SameList, EntryInode
    <3> QED
      BY <1>5, <3>1, <3>2, <3>3
  <2>2. ASSUME NEW k \in 1 .. Len(listed')
        PROVE  next'[EntryInode(k)'] = IF k = Len(listed') THEN 0 ELSE EntryInode(k + 1)'
    <3> PICK n : n = Len(listed)
      OBVIOUS
    <3>0. n \in Nat /\ k \in 1 .. n /\ Len(listed') = n
      BY <1>2, <1>3
    <3>1. k \in 1 .. Len(listed) /\ (k # Len(listed) => k + 1 \in 1 .. Len(listed))
      <4>1. k # n => k + 1 \in 1 .. n
        BY <3>0
      <4> QED
        BY <3>0, <4>1
    <3>2. next[EntryInode(k)] = IF k = Len(listed) THEN 0 ELSE EntryInode(k + 1)
      BY <1>1, <3>1 DEF SameList, EntryInode
    <3>3. EntryInode(k)' = EntryInode(k)
      BY <1>5, <3>1
    <3>4. k # Len(listed) => EntryInode(k + 1)' = EntryInode(k + 1)
      BY <1>5, <3>1
    <3> QED
      BY <1>3, <3>1, <3>2, <3>3, <3>4
  <2> QED
    BY <2>1, <2>2 DEF SameList, EntryInode
<1>7. ListShape'
  <2>1. \A j, k \in 1 .. Len(listed) : j # k => EntryInode(j) # EntryInode(k)
    BY <1>1 DEF ListedRight, EntryInode
  <2>2. \A j, k \in 1 .. Len(listed') : j # k => EntryInode(j)' # EntryInode(k)'
    BY <1>3, <1>5, <2>1
  <2>3. \A k \in 1 .. Len(listed') : listed'[k] \in Clients => task'[listed'[k]].pc = "del"
    BY <1>1, <1>3, <1>4
  <2> QED
    BY <2>2, <2>3 DEF ListShape, EntryInode
<1>8. ~Contains(listed', i)
  BY <1>1, <1>3 DEF Contains
<1>9. Contains(listed', c)
  <2>1. PICK k \in 1 .. Len(listed) : listed[k] = i
    BY <1>1 DEF Contains
  <2> QED
    BY <1>3, <2>1 DEF Contains
<1>10. \A e : e # i /\ e # c => (Contains(listed', e) <=> Contains(listed, e))
  BY <1>3 DEF Contains
<1> QED
  BY <1>3, <1>6, <1>7, <1>8, <1>9, <1>10

\* The inode that is evicted becomes free, and its blocks with it.
LEMMA EvictFreeStep ==
  ASSUME Inv, NEW c \in Clients, EvictFree(c)
  PROVE  Inv'
<1> PICK i : i = task[c].ino
  OBVIOUS
<1>1. /\ task[c].pc = "evict"
      /\ IF ino[i].kind = "node" THEN UNCHANGED <<ino, inuse, hint>>
         ELSE /\ ino' = [ino EXCEPT ![i].dtime = TRUE, ![i].size = 0, ![i].blocks = {}]
              /\ inuse' = inuse \ ino[i].blocks
              /\ hint' = HintFreed(hint, i)
      /\ listed' = [k \in 1 .. Len(listed) |-> IF listed[k] = i THEN c ELSE listed[k]]
      /\ task' = [task EXCEPT ![c].pc = "del"]
      /\ UNCHANGED <<ent, limbo, table, head, next, tsize, saved, open, calls, system>>
  BY DEF EvictFree
<1>2. /\ Types /\ phase = "mounted" /\ i \in Inodes /\ task[c] \in EvictTask /\ ino[i].nlink = 0 /\ ~IsFree(i)
      /\ i <= table.count /\ i # Root /\ ~Named(i) /\ i \notin leaked
      /\ \A x \in Clients : open[x] # i
  <2>1. phase = "mounted"
    BY <1>1 DEF Inv, Modes, Idle
  <2>2. Types /\ i \in Inodes /\ task[c] \in EvictTask
    BY <1>1, TaskTypes DEF Inv
  <2>3. /\ ino[i].nlink = 0 /\ ~IsFree(i) /\ i <= table.count /\ i # Root /\ ~Named(i)
        /\ \A x \in Clients : open[x] # i
    BY <1>1 DEF Inv, GoneRight, GoneOK, Given
  <2>4. i \notin leaked
    BY <2>2, <2>3, NoLinksNoName
  <2> QED
    BY <2>1, <2>2, <2>3, <2>4
<1>3. /\ task \in [Clients -> Tasks] /\ ino \in [Inodes -> InodeRec]
      /\ task[c] = [pc |-> "evict", ino |-> i, locks |-> {}]
  BY <1>1, <1>2 DEF Types, EvictTask
<1>4. /\ task'[c] = [pc |-> "del", ino |-> i, locks |-> {}]
      /\ \A x \in Clients \ {c} : task'[x] = task[x]
  <2>1. task'[c] = [task[c] EXCEPT !.pc = "del"] /\ \A x \in Clients \ {c} : task'[x] = task[x]
    BY <1>1, <1>3, Zenon
  <2>2. [task[c] EXCEPT !.pc = "del"] = [pc |-> "del", ino |-> i, locks |-> {}]
    BY <1>3
  <2> QED
    BY <2>1, <2>2
<1>5. /\ ino' \in [Inodes -> InodeRec]
      /\ ino'[i].kind = ino[i].kind /\ ino'[i].nlink = 0 /\ (ino[i].kind = "node" \/ IsFree(i)')
      /\ \A j \in Inodes \ {i} : ino'[j] = ino[j]
  <2>1. CASE ino[i].kind = "node"
    BY <1>1, <1>2, <1>3, <2>1
  <2>2. CASE ino[i].kind # "node"
    <3>1. /\ ino' = [ino EXCEPT ![i] = [ino[i] EXCEPT !.dtime = TRUE, !.size = 0, !.blocks = {}]]
          /\ ino[i] \in InodeRec
      BY <1>1, <1>2, <1>3, <2>2
    <3>2. ino'[i] = [ino[i] EXCEPT !.dtime = TRUE, !.size = 0, !.blocks = {}]
          /\ \A j \in Inodes \ {i} : ino'[j] = ino[j]
      BY <1>2, <1>3, <3>1
    <3> PICK r : r = ino[i]
      OBVIOUS
    <3>3. ino'[i] \in InodeRec /\ ino'[i].kind = ino[i].kind /\ ino'[i].nlink = ino[i].nlink /\ ino'[i].dtime = TRUE
      <4>1. r \in InodeRec /\ ino'[i] = [r EXCEPT !.dtime = TRUE, !.size = 0, !.blocks = {}]
        BY <3>1, <3>2
      <4>2. ino'[i] = [kind |-> r.kind, nlink |-> r.nlink, dtime |-> TRUE, size |-> 0, blocks |-> {}]
        BY <4>1 DEF InodeRec
      <4>3. r.kind \in {"none", "file", "dir", "link", "node"} /\ r.nlink \in Nat
        BY <4>1 DEF InodeRec
      <4> QED
        BY <4>2, <4>3 DEF InodeRec
    <3> QED
      BY <1>2, <1>3, <3>1, <3>2, <3>3 DEF IsFree
  <2> QED
    BY <2>1, <2>2
<1>6. /\ SameList' /\ ListShape' /\ listed' \in Seq(Inodes \cup Clients)
      /\ ~Contains(listed', i) /\ Contains(listed', c)
      /\ \A e : e # i /\ e # c => (Contains(listed', e) <=> Contains(listed, e))
  <2>1. head' = head /\ next' = next /\ task'[c].ino = i /\ task'[c].pc = "del"
    BY <1>1, <1>4
  <2> QED
    BY <1>1, <1>2, <1>4, <2>1, OwnEntry
<1>7. Types'
  <2>1. task' \in [Clients -> Tasks]
    <3>1. [task[c] EXCEPT !.pc = "del"] \in Tasks
      BY <1>2, <1>3 DEF Tasks, EvictTask
    <3> QED
      BY <1>1, <1>3, <3>1
  <2>2. inuse' \subseteq Blocks /\ hint' \in Inodes
    BY <1>1, <1>2 DEF Types, HintFreed
  <2> QED
    BY <1>1, <1>2, <1>5, <1>6, <2>1, <2>2 DEF Types, system, mount
<1>8. /\ open' = open /\ tsize' = tsize /\ limbo' = limbo /\ ent' = ent /\ leaked' = leaked
      /\ lost' = lost /\ table' = table /\ phase' = phase /\ saved' = saved
  BY <1>1 DEF system, mount
<1> PICK X : X = {i}
  OBVIOUS
<1>9. Local(c, X) /\ WaysKept(c)
  <2>1. \A x \in Clients \ {c} : task[x].pc \in Sizing \cup {"commit"} => i \notin task[x].locks
    BY <1>2, NoLinksNoLocks
  <2>2. \A x \in Clients \ {c} : task[x].pc \in Given => task[x].ino # i
    BY <1>1 DEF Inv, GoneRight, Given
  <2>3. ~(\E x \in Clients \ {c} : open[x] = i)
    BY <1>2
  <2>4. /\ UNCHANGED <<ent, table, saved, system, open>>
        /\ \A j \in Inodes \ {i} : ino'[j] = ino[j] /\ limbo'[j] = limbo[j] /\ tsize'[j] = tsize[j]
        /\ \A e \in (Inodes \ {i}) \cup (Clients \ {c}) : Contains(listed', e) <=> Contains(listed, e)
    <3>1. UNCHANGED <<ent, table, saved, system, open>>
      BY <1>1
    <3>2. \A j \in Inodes \ {i} : ino'[j] = ino[j] /\ limbo'[j] = limbo[j] /\ tsize'[j] = tsize[j]
      BY <1>5, <1>8
    <3>3. \A e \in (Inodes \ {i}) \cup (Clients \ {c}) : e # i /\ e # c
      BY <1>2, Consts
    <3>4. \A e \in (Inodes \ {i}) \cup (Clients \ {c}) : Contains(listed', e) <=> Contains(listed, e)
      BY <1>6, <3>3
    <3> QED
      BY <3>1, <3>2, <3>4
  <2> QED
    BY <1>2, <1>4, <1>5, <2>1, <2>2, <2>3, <2>4, OneInode
<1>10. Space'
  <2>1. \A j \in X : /\ ~Named(j) /\ j # Root /\ j \notin leaked /\ j <= table'.count
                     /\ ino'[j].nlink = 0
    BY <1>2, <1>5, <1>8
  <2> QED
    BY <1>1, <1>7, <1>8, <1>9, <2>1, SpaceQuiet
<1>11. ClientOK(c)' /\ task'[c].locks = {} /\ task'[c].ino \in X
  <2>1. ~Named(i)' /\ i <= table'.count /\ \A x \in Clients : open'[x] # i
    BY <1>2, <1>8 DEF Named
  <2>2. GoneOK(c)'
    BY <1>2, <1>4, <1>5, <1>6, <2>1 DEF GoneOK, Given, IsFree, Named
  <2>3. OpenOK(c)'
    <3>1. OpenOK(c) /\ (open[c] # 0 => open[c] \in Inodes /\ open[c] # i)
      BY <1>2, TaskTypes DEF Inv, OpenRight
    <3> PICK o : o = open[c]
      OBVIOUS
    <3>2. ASSUME o # 0 PROVE ino'[o] = ino[o] /\ (Contains(listed', o) <=> Contains(listed, o))
      BY <1>5, <1>6, <3>1, <3>2, Consts
    <3>3. open'[c] = o
      BY <1>8
    <3> QED
      BY <1>8, <3>1, <3>2, <3>3 DEF OpenOK, IsFree
  <2> QED
    BY <1>4, <2>2, <2>3 DEF ClientOK, CommitOK, SizeOK, Sizing
<1>12. \A j \in X : InodeOK(j)'
  <2>1. limbo'[i] = {}
    BY <1>2, <1>8, InodesRight
  <2>2. InodeOK(i)'
    BY <1>5, <1>6, <2>1 DEF InodeOK, Orphan
  <2> QED
    BY <2>2
<1>13. BlocksApart'
  <2>1. CASE ino[i].kind = "node"
    <3>1. inuse \subseteq inuse' /\ \A j \in Inodes : ~IsFree(j)' => ino'[j].blocks \subseteq (IF IsFree(j) THEN {} ELSE ino[j].blocks)
      BY <1>1, <2>1 DEF IsFree
    <3> QED
      BY <1>2, <1>8, <3>1, BlocksSame
  <2>2. CASE ino[i].kind # "node"
    <3> PICK F : F = ino[i].blocks
      OBVIOUS
    <3>1. inuse' = inuse \ F /\ IsFree(i)' /\ F \subseteq ino[i].blocks
      BY <1>1, <1>5, <2>2
    <3> QED
      BY <1>2, <1>5, <1>8, <3>1, BlocksShrink
  <2> QED
    BY <2>1, <2>2
<1> QED
  BY <1>6, <1>7, <1>9, <1>10, <1>11, <1>12, <1>13, LocalStep
\* The truncate list forgets the inode that has been evicted.
LEMMA EvictDelStep ==
  ASSUME Inv, NEW c \in Clients, EvictDel(c)
  PROVE  Inv'
<1> PICK i : i = task[c].ino
  OBVIOUS
<1>1. /\ task[c].pc = "del" /\ TruncateDel(c) /\ task' = [task EXCEPT ![c] = Idle]
      /\ UNCHANGED <<ent, ino, limbo, table, saved, inuse, hint, open, calls, system>>
  BY DEF EvictDel
<1>2. /\ Types /\ phase = "mounted" /\ i \in Inodes /\ ino[i].nlink = 0 /\ Contains(listed, c)
      /\ ino[i].kind = "node" \/ IsFree(i)
      /\ \A x \in Clients : open[x] # i
      /\ InodeOf(c) = i
  <2>1. phase = "mounted"
    BY <1>1 DEF Inv, Modes, Idle
  <2>2. Types /\ i \in Inodes
    BY <1>1, TaskTypes DEF Inv
  <2>3. /\ ino[i].nlink = 0 /\ Contains(listed, c) /\ (ino[i].kind = "node" \/ IsFree(i))
        /\ \A x \in Clients : open[x] # i
    BY <1>1 DEF Inv, GoneRight, GoneOK, Given
  <2> QED
    BY <2>1, <2>2, <2>3, EntryTypes
<1>3. task \in [Clients -> Tasks] /\ Idle \in Tasks
  BY <1>2 DEF Types, Tasks
<1>4. task'[c] = Idle /\ \A x \in Clients \ {c} : task'[x] = task[x]
  BY <1>1, <1>3
<1>5. /\ SameList' /\ ListShape'
      /\ \A f : Contains(listed', f) <=> f # c /\ Contains(listed, f)
      /\ ~Contains(listed', i)
      /\ tsize' = tsize
      /\ head' \in 0 .. MaxIno /\ next' \in [Inodes -> 0 .. MaxIno] /\ listed' \in Seq(Inodes \cup Clients)
  BY <1>1, <1>2, <1>4, DelKeepsList
<1>6. Types'
  <2>1. task' \in [Clients -> Tasks]
    BY <1>1, <1>3
  <2> QED
    BY <1>1, <1>2, <1>5, <2>1 DEF Types, system, mount
<1>7. /\ open' = open /\ ino' = ino /\ limbo' = limbo /\ ent' = ent /\ leaked' = leaked /\ inuse' = inuse
      /\ lost' = lost /\ table' = table /\ phase' = phase /\ saved' = saved
  BY <1>1 DEF system, mount
<1> PICK X : X = {i}
  OBVIOUS
<1>8. Local(c, X) /\ WaysKept(c)
  <2>1. \A x \in Clients \ {c} : task[x].pc \in Sizing \cup {"commit"} => i \notin task[x].locks
    BY <1>2, NoLinksNoLocks
  <2>2. \A x \in Clients \ {c} : task[x].pc \in Given => task[x].ino # i
    BY <1>1 DEF Inv, GoneRight, Given
  <2>3. ~(\E x \in Clients \ {c} : open[x] = i)
    BY <1>2
  <2>4. /\ UNCHANGED <<ent, table, saved, system, open>>
        /\ \A j \in Inodes \ {i} : ino'[j] = ino[j] /\ limbo'[j] = limbo[j] /\ tsize'[j] = tsize[j]
        /\ \A e \in (Inodes \ {i}) \cup (Clients \ {c}) : Contains(listed', e) <=> Contains(listed, e)
    BY <1>1, <1>2, <1>5, <1>7, Consts
  <2> QED
    BY <1>2, <1>4, <1>7, <2>1, <2>2, <2>3, <2>4, OneInode
<1>9. Space'
  <2>1. \A j \in X : SameInode(j)
    BY <1>7 DEF SameInode
  <2>2. ino'[task[c].ino].nlink = 0
    BY <1>2, <1>7
  <2> QED
    BY <1>6, <1>7, <1>8, <2>1, <2>2, SpaceQuiet
<1>10. ClientOK(c)' /\ task'[c].pc \notin Given /\ task'[c].locks = {}
  <2>1. OpenOK(c)'
    <3>1. OpenOK(c) /\ (open[c] # 0 => open[c] \in Inodes)
      BY <1>2, TaskTypes DEF Inv, OpenRight
    <3> PICK o : o = open[c]
      OBVIOUS
    <3>2. o # 0 => (Contains(listed', o) <=> Contains(listed, o))
      BY <1>5, <3>1, Consts
    <3> QED
      BY <1>7, <3>1, <3>2 DEF OpenOK, IsFree
  <2> QED
    BY <1>4, <2>1, IdleClient
<1>11. \A j \in X : InodeOK(j)'
  <2>1. limbo'[i] = {}
    BY <1>2, <1>7, InodesRight
  <2>2. InodeOK(i)'
    BY <1>2, <1>5, <1>7, <2>1 DEF InodeOK, Orphan, IsFree
  <2> QED
    BY <2>2
<1>12. BlocksApart'
  <2>1. \A j \in Inodes : ~IsFree(j)' => ino'[j].blocks \subseteq (IF IsFree(j) THEN {} ELSE ino[j].blocks)
    BY <1>7 DEF IsFree
  <2> QED
    BY <1>2, <1>7, <2>1, BlocksSame
<1> QED
  BY <1>5, <1>6, <1>8, <1>9, <1>10, <1>11, <1>12, LocalStep

\* A truncation begins: the open file is listed with its size to come.
LEMMA SetSizeStep ==
  ASSUME Inv, races' = {}, NEW c \in Clients, NEW size \in 0 .. 1, SetSize(c, size)
  PROVE  Inv'
<1> PICK i : i = open[c]
  OBVIOUS
<1>1. /\ i # 0 /\ Ready(c, {i}) /\ size # ino[i].size /\ ino[i].nlink > 0 /\ TruncateAdd(i, size)
      /\ task' = [task EXCEPT ![c] = [pc |-> "free", ino |-> i, locks |-> {i}, size |-> size]]
      /\ calls' = calls + 1
      /\ UNCHANGED <<ent, ino, limbo, table, saved, inuse, hint, open, system>>
  <2>1. /\ i # 0 /\ Ready(c, {i}) /\ size # ino[i].size /\ ino[i].nlink # 0 /\ TruncateAdd(i, size)
        /\ task' = [task EXCEPT ![c] = [pc |-> "free", ino |-> i, locks |-> {i}, size |-> size]]
        /\ calls' = calls + 1
        /\ UNCHANGED <<ent, ino, limbo, table, saved, inuse, hint, open, system>>
    BY DEF SetSize, Races
  <2>2. ino[i].nlink \in Nat
    <3>1. Types /\ open[c] \in 0 .. MaxIno
      BY TaskTypes DEF Inv, Types
    <3>2. i \in Inodes
      BY <2>1, <3>1, Consts DEF Inodes
    <3> QED
      BY <3>1, <3>2, InodeTypes
  <2> QED
    BY <2>1, <2>2
<1>2. phase = "mounted" /\ task[c] = Idle /\ i \notin Locked /\ Types /\ task[c].pc = "idle"
  BY <1>1 DEF Ready, Inv, Idle
<1>3. i \in Inodes /\ i <= table.count /\ ino[i].kind = "file" /\ ~IsFree(i) /\ ~Contains(listed, i)
  <2>1. i \in Inodes /\ i <= table.count /\ ino[i].kind = "file" /\ ~IsFree(i)
    BY <1>1, <1>2, TaskTypes DEF Inv, OpenRight, OpenOK
  <2>2. ~Contains(listed, i)
    <3>1. SUFFICES ASSUME Contains(listed, i) PROVE FALSE
      OBVIOUS
    <3>2. ino[i].nlink # 0
      BY <1>1, <1>2, <2>1, InodeTypes
    <3>3. PICK x \in Clients : task[x].pc \in Sizing \cup {"commit"} /\ task[x].ino = i
      BY <1>2, <2>1, <3>1, <3>2, InodesRight DEF InodeOK
    <3>4. i \in task[x].locks
      BY <1>2, <2>1, <3>3, InodesRight
    <3> QED
      BY <1>2, <3>4 DEF Locked
  <2> QED
    BY <2>1, <2>2
<1> PICK t : t = [pc |-> "free", ino |-> i, locks |-> {i}, size |-> size]
  OBVIOUS
<1>4. /\ task \in [Clients -> Tasks] /\ t \in Tasks
      /\ t.pc = "free" /\ t.ino = i /\ t.locks = {i} /\ t.size = size /\ size \in Nat
  BY <1>2, <1>3 DEF Types, Tasks, SizeTask
<1>5. task' = [task EXCEPT ![c] = t] /\ task'[c] = t /\ \A x \in Clients \ {c} : task'[x] = task[x]
  BY <1>1, <1>4
<1>6. /\ SameList' /\ ListShape'
      /\ \A e : Contains(listed', e) <=> e = i \/ Contains(listed, e)
      /\ tsize'[i] = size
      /\ \A j \in Inodes \ {i} : tsize'[j] = tsize[j]
      /\ head' \in 0 .. MaxIno /\ next' \in [Inodes -> 0 .. MaxIno] /\ tsize' \in [Inodes -> Nat]
      /\ listed' \in Seq(Inodes \cup Clients)
  <2>1. \A x \in Clients : task[x].pc = "del" => task'[x] = task[x]
    BY <1>2, <1>5
  <2> QED
    BY <1>1, <1>2, <1>3, <1>4, <2>1, AddKeepsList
<1>7. Types'
  <2>1. task' \in [Clients -> Tasks] /\ calls' \in Nat
    BY <1>1, <1>2, <1>4, <1>5 DEF Types
  <2> QED
    BY <1>1, <1>2, <1>6, <2>1 DEF Types, system, mount
<1>8. /\ open' = open /\ ino' = ino /\ limbo' = limbo /\ ent' = ent /\ leaked' = leaked /\ inuse' = inuse
      /\ lost' = lost /\ table' = table /\ phase' = phase /\ saved' = saved
  BY <1>1 DEF system, mount
<1> PICK X : X = {i}
  OBVIOUS
<1>9. Local(c, X) /\ WaysKept(c)
  <2>1. \A x \in Clients \ {c} : task[x].pc \in Sizing \cup {"commit"} => i \notin task[x].locks
    BY <1>2 DEF Locked
  <2>2. \A x \in Clients \ {c} : task[x].pc \in Given => task[x].ino # i
    BY <1>3, LockedStays
  <2>3. ~IsFree(i)' /\ (ino'[i].nlink = 0 => Contains(listed', i))
    BY <1>3, <1>6, <1>8 DEF IsFree
  <2>4. /\ UNCHANGED <<ent, table, saved, system, open>>
        /\ \A j \in Inodes \ {i} : ino'[j] = ino[j] /\ limbo'[j] = limbo[j] /\ tsize'[j] = tsize[j]
        /\ \A e \in (Inodes \ {i}) \cup (Clients \ {c}) : Contains(listed', e) <=> Contains(listed, e)
    BY <1>1, <1>3, <1>6, <1>8, Consts
  <2> QED
    BY <1>2, <1>3, <1>5, <1>8, <2>1, <2>2, <2>3, <2>4, OneInode
<1>10. Space'
  <2>1. \A j \in X : SameInode(j)
    BY <1>8 DEF SameInode
  <2> QED
    BY <1>2, <1>7, <1>8, <1>9, <2>1, SpaceQuiet
<1>11. ClientOK(c)' /\ task'[c].pc \notin Given /\ task'[c].locks \cap Locked = {}
  <2>1. OpenOK(c)'
    BY <1>3, <1>6, <1>8 DEF OpenOK, IsFree
  <2>2. SizeOK(c)'
    BY <1>1, <1>4, <1>5, <1>6, <1>8 DEF SizeOK
  <2> QED
    BY <1>2, <1>4, <1>5, <2>1, <2>2 DEF ClientOK, CommitOK, GoneOK, Given
<1>12. \A j \in X : InodeOK(j)'
  <2>1. InodeOK(i) /\ ino[i].nlink # 0
    BY <1>1, <1>2, <1>3, InodesRight, InodeTypes
  <2>2. ~IsFree(i)' /\ ~Orphan(i)' /\ task'[c].pc \in Sizing
    BY <1>3, <1>4, <1>5, <1>8, <2>1 DEF IsFree, Orphan, Sizing
  <2>3. ASSUME limbo'[i] # {} PROVE \E x \in Clients : task'[x].pc = "size" /\ task'[x].ino = i
    <3>1. PICK x \in Clients : task[x].pc = "size" /\ task[x].ino = i
      BY <1>8, <2>1, <2>3 DEF InodeOK
    <3>2. x # c
      BY <1>2, <3>1
    <3> QED
      BY <1>5, <3>1, <3>2
  <2>4. InodeOK(i)'
    BY <1>4, <1>5, <2>2, <2>3 DEF InodeOK
  <2> QED
    BY <2>4
<1>13. BlocksApart'
  <2>1. \A j \in Inodes : ~IsFree(j)' => ino'[j].blocks \subseteq (IF IsFree(j) THEN {} ELSE ino[j].blocks)
    BY <1>8 DEF IsFree
  <2> QED
    BY <1>2, <1>8, <2>1, BlocksSame
<1> QED
  BY <1>6, <1>7, <1>9, <1>10, <1>11, <1>12, <1>13, LocalStep
\* What is true of client c in the middle of a truncation of inode i.
Truncating(c, i) ==
  /\ Types /\ phase = "mounted" /\ i \in Inodes /\ ino[i].nlink > 0 /\ ino[i].nlink # 0
  /\ open[c] = i /\ i <= table.count /\ ino[i].kind = "file" /\ ~IsFree(i)
  /\ task[c] = [pc |-> task[c].pc, ino |-> i, locks |-> {i}, size |-> task[c].size]
  /\ task[c].pc \in {"free", "size", "unlist"} /\ task[c].size \in 0 .. 1
  /\ Contains(listed, i) /\ tsize[i] = task[c].size
  /\ task[c].pc = "free" => ino[i].size # task[c].size
  /\ task[c].pc = "size" /\ limbo[i] # {} => task[c].size = 0 /\ ino[i].size > 0
  /\ \A x \in Clients \ {c} : task[x].pc \in Sizing \cup {"commit"} => i \notin task[x].locks
  /\ \A x \in Clients \ {c} : task[x].pc \in Sizing \cup {"commit"} => task[x].ino # i
  /\ \A x \in Clients \ {c} : task[x].pc \in Given => task[x].ino # i
  /\ limbo[i] # {} => task[c].pc = "size"

\* A client in the middle of a truncation.
LEMMA InTruncation ==
  ASSUME Inv, NEW c \in Clients, task[c].pc \in Sizing
  PROVE  Truncating(c, task[c].ino)
<1> PICK i : i = task[c].ino
  OBVIOUS
<1>1. Types /\ i \in Inodes /\ task[c] \in SizeTask
  BY TaskTypes, Zenon DEF Inv, Sizing
<1>2. phase = "mounted"
  BY DEF Inv, Modes, Idle, Sizing
<1>3. /\ task[c].locks = {i} /\ open[c] = i /\ ino[i].nlink > 0
      /\ Contains(listed, i) /\ tsize[i] = task[c].size
      /\ task[c].pc = "free" => ino[i].size # task[c].size
      /\ task[c].pc = "size" /\ limbo[i] # {} => task[c].size = 0 /\ ino[i].size > 0
  BY DEF Inv, SizeRight, SizeOK
<1>4. i <= table.count /\ ino[i].kind = "file" /\ ~IsFree(i)
  BY <1>1, <1>3, Consts DEF Inv, OpenRight, OpenOK
<1>5. \A x \in Clients \ {c} : i \notin task[x].locks
  BY <1>3 DEF Inv, LocksApart
<1>6. \A x \in Clients \ {c} : task[x].pc \in Given => task[x].ino # i
  BY <1>1, <1>3, LockedStays
<1>7. \A x \in Clients \ {c} : task[x].pc \in Sizing \cup {"commit"} => task[x].ino # i
  BY <1>1, <1>2, <1>5, InodesRight
<1>8. ASSUME limbo[i] # {} PROVE task[c].pc = "size"
  <2>1. PICK x \in Clients : task[x].pc = "size" /\ task[x].ino = i
    BY <1>1, <1>8 DEF Inv, SizeRight
  <2>2. x = c
    BY <1>7, <2>1 DEF Sizing
  <2> QED
    BY <2>1, <2>2
<1>9. /\ task[c] = [pc |-> task[c].pc, ino |-> i, locks |-> {i}, size |-> task[c].size]
      /\ task[c].pc \in {"free", "size", "unlist"} /\ task[c].size \in 0 .. 1
  <2> PICK t : t = task[c]
    OBVIOUS
  <2>1. t \in SizeTask /\ t.locks = {i} /\ t.ino = i
    BY <1>1, <1>3
  <2>2. t = [pc |-> t.pc, ino |-> i, locks |-> {i}, size |-> t.size] /\ t.pc \in {"free", "size", "unlist"} /\ t.size \in 0 .. 1
    BY <2>1 DEF SizeTask
  <2> QED
    BY <2>2
<1> QED
  BY <1>1, <1>2, <1>3, <1>4, <1>5, <1>6, <1>7, <1>8, <1>9, InodeTypes DEF Truncating

\* A step of a truncation that goes on to the state pc, may change the blocks and the size
\* of its inode and what of it is in limbo, but not the list.
LEMMA TruncationStep ==
  ASSUME Inv, NEW c \in Clients, task[c].pc \in Sizing, NEW i, i = task[c].ino,
         NEW pc \in {"size", "unlist"}, task' = [task EXCEPT ![c].pc = pc],
         ino' \in [Inodes -> InodeRec], limbo' \in [Inodes -> SUBSET Blocks], inuse' \subseteq Blocks,
         \A j \in Inodes \ {i} : ino'[j] = ino[j] /\ limbo'[j] = limbo[j],
         SameInode(i), limbo'[i] # {} => pc = "size" /\ task[c].size = 0 /\ ino'[i].size > 0,
         UNCHANGED <<ent, table, list, saved, hint, open, calls, system>>, BlocksApart'
  PROVE  Inv'
<1>0. Truncating(c, i)
  BY InTruncation
<1>1. /\ Types /\ phase = "mounted" /\ i \in Inodes /\ ino[i].nlink > 0 /\ ino[i].nlink # 0
      /\ open[c] = i /\ i <= table.count /\ ino[i].kind = "file" /\ ~IsFree(i)
      /\ task[c] = [pc |-> task[c].pc, ino |-> i, locks |-> {i}, size |-> task[c].size]
      /\ task[c].size \in 0 .. 1
      /\ Contains(listed, i) /\ tsize[i] = task[c].size
      /\ \A x \in Clients \ {c} : task[x].pc \in Sizing \cup {"commit"} => i \notin task[x].locks
      /\ \A x \in Clients \ {c} : task[x].pc \in Given => task[x].ino # i
  BY <1>0 DEF Truncating
<1>2. /\ task \in [Clients -> Tasks]
      /\ task' = [task EXCEPT ![c] = [task[c] EXCEPT !.pc = pc]]
  BY <1>1 DEF Types
<1> PICK s : s = task[c].size
  OBVIOUS
<1>3. [task[c] EXCEPT !.pc = pc] = [pc |-> pc, ino |-> i, locks |-> {i}, size |-> s]
  <2> PICK t : t = task[c]
    OBVIOUS
  <2> PICK p : p = task[c].pc
    OBVIOUS
  <2>1. t = [pc |-> p, ino |-> i, locks |-> {i}, size |-> s]
    BY <1>1
  <2>2. [t EXCEPT !.pc = pc] = [pc |-> pc, ino |-> i, locks |-> {i}, size |-> s]
    BY <2>1
  <2> QED
    BY <2>2
<1>4. /\ task'[c] = [pc |-> pc, ino |-> i, locks |-> {i}, size |-> s]
      /\ \A x \in Clients \ {c} : task'[x] = task[x]
      /\ task' \in [Clients -> Tasks]
  <2>1. [pc |-> pc, ino |-> i, locks |-> {i}, size |-> s] \in Tasks
    BY <1>1 DEF Tasks, SizeTask
  <2> QED
    BY <1>2, <1>3, <2>1
<1>5. Types'
  BY <1>1, <1>4 DEF Types, list, system, mount
<1>6. /\ open' = open /\ ent' = ent /\ leaked' = leaked /\ tsize' = tsize /\ listed' = listed
      /\ lost' = lost /\ table' = table /\ phase' = phase /\ saved' = saved
  BY DEF list, system, mount
<1>7. ino'[i].kind = "file" /\ ino'[i].nlink = ino[i].nlink /\ ~IsFree(i)' /\ ino'[i].nlink > 0 /\ ino'[i].nlink # 0
  BY <1>1 DEF SameInode, IsFree
<1> PICK X : X = {i}
  OBVIOUS
<1>8. Local(c, X) /\ WaysKept(c)
  <2>1. /\ UNCHANGED <<ent, table, saved, system, open>>
        /\ \A j \in Inodes \ {i} : ino'[j] = ino[j] /\ limbo'[j] = limbo[j] /\ tsize'[j] = tsize[j]
        /\ \A e \in (Inodes \ {i}) \cup (Clients \ {c}) : Contains(listed', e) <=> Contains(listed, e)
    BY <1>6
  <2>2. ~IsFree(i)' /\ (ino'[i].nlink = 0 => Contains(listed', i)) /\ ino'[i].kind = ino[i].kind
    BY <1>1, <1>7
  <2> QED
    BY <1>1, <1>4, <2>1, <2>2, OneInode
<1>9. Space'
  <2>1. \A j \in X : SameInode(j)
    OBVIOUS
  <2>2. task[c].pc \notin {"del", "abort"}
    BY DEF Sizing
  <2> QED
    BY <1>5, <1>6, <1>8, <2>1, <2>2, SpaceQuiet
<1>10. ClientOK(c)' /\ task'[c].pc \notin Given /\ task'[c].locks \subseteq task[c].locks
  <2>1. OpenOK(c)'
    BY <1>1, <1>6, <1>7 DEF OpenOK, IsFree
  <2>2. SizeOK(c)'
    BY <1>1, <1>4, <1>6, <1>7 DEF SizeOK
  <2>3. task'[c].pc \notin Given \cup {"commit", "abort", "evict", "del"} /\ task'[c].locks \subseteq task[c].locks
    BY <1>1, <1>4 DEF Given
  <2> QED
    BY <2>1, <2>2, <2>3 DEF ClientOK, CommitOK, GoneOK
<1>11. SameList' /\ ListShape'
  <2>1. task[c].pc # "del"
    BY DEF Sizing
  <2> QED
    BY <1>8, <2>1, ListKept DEF ListShape
<1>12. \A j \in X : InodeOK(j)'
  <2>1. ~Orphan(i)' /\ task'[c].pc \in Sizing /\ task'[c].ino = i
    BY <1>4, <1>7 DEF Orphan, Sizing
  <2>2. limbo'[i] # {} => task'[c].pc = "size" /\ task'[c].ino = i
    BY <1>4
  <2>3. InodeOK(i)'
    BY <1>7, <2>1, <2>2 DEF InodeOK
  <2> QED
    BY <2>3
<1> QED
  BY <1>5, <1>8, <1>9, <1>10, <1>11, <1>12, LocalStep

\* The blocks behind the new size are free, and the tree is in limbo.
LEMMA SetSizeFreeStep ==
  ASSUME Inv, NEW c \in Clients, SetSizeFree(c)
  PROVE  Inv'
<1> PICK i : i = task[c].ino
  OBVIOUS
<1> PICK F : F = IF task[c].size = 0 THEN ino[i].blocks ELSE {}
  OBVIOUS
<1>1. /\ task[c].pc = "free" /\ ino' = [ino EXCEPT ![i].blocks = @ \ F] /\ limbo' = [limbo EXCEPT ![i] = F]
      /\ inuse' = inuse \ F /\ task' = [task EXCEPT ![c].pc = "size"]
      /\ UNCHANGED <<ent, table, list, saved, hint, open, calls, system>>
  BY DEF SetSizeFree
<1>2. task[c].pc \in Sizing
  BY <1>1 DEF Sizing
<1>3. /\ Types /\ i \in Inodes /\ ~IsFree(i) /\ phase = "mounted"
      /\ ino[i].size # task[c].size
  BY <1>1, <1>2, InTruncation DEF Truncating
<1>4. /\ ino \in [Inodes -> InodeRec] /\ limbo \in [Inodes -> SUBSET Blocks] /\ ino[i].blocks \subseteq Blocks
      /\ ino[i].size \in Nat /\ F \subseteq ino[i].blocks /\ inuse \subseteq Blocks
  BY <1>3, InodeTypes DEF Types
<1>5. /\ ino' \in [Inodes -> InodeRec] /\ limbo' \in [Inodes -> SUBSET Blocks]
      /\ \A j \in Inodes \ {i} : ino'[j] = ino[j] /\ limbo'[j] = limbo[j]
      /\ ino'[i].blocks = ino[i].blocks \ F /\ ino'[i].size = ino[i].size /\ SameInode(i) /\ limbo'[i] = F
  <2> PICK r : r = ino[i]
    OBVIOUS
  <2> PICK s : s = [r EXCEPT !.blocks = r.blocks \ F]
    OBVIOUS
  <2>1. r \in InodeRec
    BY <1>3, <1>4
  <2>2. /\ s \in InodeRec /\ s.blocks = r.blocks \ F /\ s.size = r.size
        /\ s.kind = r.kind /\ s.nlink = r.nlink /\ s.dtime = r.dtime
    BY <2>1 DEF InodeRec
  <2>3. ino' = [ino EXCEPT ![i] = s]
    BY <1>1
  <2>4. ino' \in [Inodes -> InodeRec] /\ ino'[i] = s /\ \A j \in Inodes \ {i} : ino'[j] = ino[j]
    BY <1>3, <1>4, <2>2, <2>3
  <2>5. F \in SUBSET Blocks /\ limbo' = [limbo EXCEPT ![i] = F]
    BY <1>1, <1>4
  <2>6. /\ limbo' \in [Inodes -> SUBSET Blocks] /\ limbo'[i] = F
        /\ \A j \in Inodes \ {i} : limbo'[j] = limbo[j]
    BY <1>3, <1>4, <2>5
  <2> QED
    BY <2>2, <2>4, <2>6 DEF SameInode
<1>6. limbo'[i] # {} => task[c].size = 0 /\ ino'[i].size > 0
  BY <1>3, <1>4, <1>5
<1>7. BlocksApart'
  <2>1. lost' = lost /\ table' = table /\ phase' = phase /\ saved' = saved
    BY <1>1 DEF system, mount
  <2> QED
    BY <1>1, <1>3, <1>4, <1>5, <2>1, BlocksShrink
<1> QED
  BY <1>1, <1>2, <1>4, <1>5, <1>6, <1>7, TruncationStep

\* The tree is persistent, and the size is written.
LEMMA SetSizeWriteStep ==
  ASSUME Inv, NEW c \in Clients, SetSizeWrite(c)
  PROVE  Inv'
<1> PICK i : i = task[c].ino
  OBVIOUS
<1>1. /\ task[c].pc = "size" /\ ino' = [ino EXCEPT ![i].size = task[c].size] /\ limbo' = [limbo EXCEPT ![i] = {}]
      /\ inuse' = inuse /\ task' = [task EXCEPT ![c].pc = "unlist"]
      /\ UNCHANGED <<ent, table, list, saved, hint, open, calls, system>>
  BY DEF SetSizeWrite
<1>2. task[c].pc \in Sizing
  BY <1>1 DEF Sizing
<1>3. Types /\ i \in Inodes /\ ~IsFree(i) /\ phase = "mounted" /\ task[c].size \in Nat
  <2>1. Types /\ i \in Inodes /\ ~IsFree(i) /\ phase = "mounted" /\ task[c].size \in 0 .. 1
    BY <1>2, InTruncation DEF Truncating
  <2> QED
    BY <2>1
<1>4. ino \in [Inodes -> InodeRec] /\ limbo \in [Inodes -> SUBSET Blocks] /\ inuse \subseteq Blocks
  BY <1>3 DEF Types
<1>5. /\ ino' \in [Inodes -> InodeRec] /\ limbo' \in [Inodes -> SUBSET Blocks]
      /\ \A j \in Inodes \ {i} : ino'[j] = ino[j] /\ limbo'[j] = limbo[j]
      /\ ino'[i].blocks = ino[i].blocks /\ SameInode(i) /\ limbo'[i] = {}
  BY <1>1, <1>3, <1>4 DEF InodeRec, SameInode
<1>6. BlocksApart'
  <2>1. lost' = lost /\ table'.blocks = table.blocks /\ phase' = phase /\ saved' = saved
    BY <1>1 DEF system, mount
  <2>2. ASSUME NEW j \in Inodes, ~IsFree(j)' PROVE ino'[j].blocks \subseteq (IF IsFree(j) THEN {} ELSE ino[j].blocks)
    <3>1. CASE j = i
      BY <1>3, <1>5, <3>1
    <3>2. CASE j # i
      BY <1>5, <2>2, <3>2 DEF IsFree
    <3> QED
      BY <3>1, <3>2
  <2> QED
    BY <1>1, <1>3, <2>1, <2>2, BlocksSame
<1> QED
  BY <1>1, <1>2, <1>4, <1>5, <1>6, TruncationStep

\* The truncate list forgets the truncation.
LEMMA SetSizeEndStep ==
  ASSUME Inv, NEW c \in Clients, SetSizeEnd(c)
  PROVE  Inv'
<1> PICK i : i = task[c].ino
  OBVIOUS
<1>1. /\ task[c].pc = "unlist" /\ TruncateDel(i) /\ task' = [task EXCEPT ![c] = Idle]
      /\ UNCHANGED <<ent, ino, limbo, table, saved, inuse, hint, open, calls, system>>
  BY DEF SetSizeEnd
<1>2. /\ Types /\ phase = "mounted" /\ i \in Inodes /\ ino[i].nlink # 0 /\ Contains(listed, i)
      /\ open[c] = i /\ i <= table.count /\ ino[i].kind = "file" /\ ~IsFree(i)
      /\ \A x \in Clients \ {c} : task[x].pc \in Sizing \cup {"commit"} => i \notin task[x].locks
      /\ \A x \in Clients \ {c} : task[x].pc \in Given => task[x].ino # i
      /\ limbo[i] = {}
  <2>1. task[c].pc \in Sizing
    BY <1>1 DEF Sizing
  <2>2. Truncating(c, i)
    BY <2>1, InTruncation
  <2> QED
    BY <1>1, <2>2 DEF Truncating
<1>3. task \in [Clients -> Tasks] /\ Idle \in Tasks /\ InodeOf(i) = i /\ i \notin Clients
  BY <1>2, EntryTypes, Consts DEF Types, Tasks
<1>4. task'[c] = Idle /\ \A x \in Clients \ {c} : task'[x] = task[x]
  BY <1>1, <1>3
<1>5. /\ SameList' /\ ListShape'
      /\ \A f : Contains(listed', f) <=> f # i /\ Contains(listed, f)
      /\ ~Contains(listed', i)
      /\ tsize' = tsize
      /\ head' \in 0 .. MaxIno /\ next' \in [Inodes -> 0 .. MaxIno] /\ listed' \in Seq(Inodes \cup Clients)
  <2>1. \A x \in Clients : task[x].pc = "del" /\ x # i => task'[x] = task[x]
    BY <1>1, <1>4
  <2> QED
    BY <1>1, <1>2, <1>3, <2>1, DelKeepsList
<1>6. Types'
  <2>1. task' \in [Clients -> Tasks]
    BY <1>1, <1>3
  <2> QED
    BY <1>1, <1>2, <1>5, <2>1 DEF Types, system, mount
<1>7. /\ open' = open /\ ino' = ino /\ limbo' = limbo /\ ent' = ent /\ leaked' = leaked /\ inuse' = inuse
      /\ lost' = lost /\ table' = table /\ phase' = phase /\ saved' = saved
  BY <1>1 DEF system, mount
<1>8. ~IsFree(i)'
  BY <1>2, <1>7 DEF IsFree
<1> PICK X : X = {i}
  OBVIOUS
<1>9. Local(c, X) /\ WaysKept(c)
  <2>1. /\ UNCHANGED <<ent, table, saved, system, open>>
        /\ \A j \in Inodes \ {i} : ino'[j] = ino[j] /\ limbo'[j] = limbo[j] /\ tsize'[j] = tsize[j]
        /\ \A e \in (Inodes \ {i}) \cup (Clients \ {c}) : Contains(listed', e) <=> Contains(listed, e)
    BY <1>1, <1>3, <1>5, <1>7
  <2>2. ino'[i].nlink # 0 /\ ino'[i].kind = ino[i].kind
    BY <1>2, <1>7
  <2> QED
    BY <1>2, <1>4, <1>8, <2>1, <2>2, OneInode
<1>10. Space'
  <2>1. \A j \in X : SameInode(j)
    BY <1>7 DEF SameInode
  <2> QED
    BY <1>1, <1>6, <1>7, <1>9, <2>1, SpaceQuiet
<1>11. ClientOK(c)' /\ task'[c].pc \notin Given /\ task'[c].locks = {}
  <2>1. OpenOK(c)'
    BY <1>2, <1>7, <1>8 DEF OpenOK
  <2> QED
    BY <1>4, <2>1, IdleClient
<1>12. \A j \in X : InodeOK(j)'
  <2>1. limbo'[i] = {} /\ ino'[i].nlink # 0
    BY <1>2, <1>7
  <2>2. InodeOK(i)'
    BY <1>5, <2>1 DEF InodeOK, Orphan
  <2> QED
    BY <2>2
<1>13. BlocksApart'
  <2>1. \A j \in Inodes : ~IsFree(j)' => ino'[j].blocks \subseteq (IF IsFree(j) THEN {} ELSE ino[j].blocks)
    BY <1>7 DEF IsFree
  <2> QED
    BY <1>2, <1>7, <2>1, BlocksSame
<1> QED
  BY <1>5, <1>6, <1>9, <1>10, <1>11, <1>12, <1>13, LocalStep
-----------------------------------------------------------------------------
(***************************************************************************)
(* New names.                                                              *)
(***************************************************************************)
\* Nobody waits for an inode that has no name to go through.
LEMMA WaysNewName ==
  ASSUME Inv, NEW d, NEW n, NEW i, NewName(d, n, i), NEW c
  PROVE  WaysKept(c)
<1>1. Types /\ NamesRight /\ i \in Inodes /\ d \in Inodes
  BY LiveDirsAre DEF Inv, NewName
<1>2. \A m \in Names : ent[i][m] = 0
  <2>1. ~(IsDir(i) /\ ino[i].nlink > 0)
    BY InodeTypes DEF NewName, IsFree
  <2> QED
    BY <1>1, <2>1 DEF NamesRight
<1>3. \A p \in Inodes, m \in Names : ent'[p][m] = IF p = d /\ m = n THEN i ELSE ent[p][m]
  BY DEF NewName
<1>4. SUFFICES ASSUME NEW x \in Clients, NEW r, r = task[x], r.pc = "commit", r.moved # 0, IsDir(r.moved), r.d # r.e
               PROVE  \E T \in SUBSET Inodes : r.e \in T /\ Up(T)' /\ r.moved \notin T
  BY DEF WaysKept
<1>5. PICK T \in SUBSET Inodes : r.e \in T /\ Up(T) /\ r.moved \notin T
  BY <1>4 DEF Inv, CommitRight, CommitOK
<1>6. r.e # i
  <2>1. r \in CommitTask /\ ent[r.e][r.m] = r.ino
    BY <1>1, <1>4, TaskTypes DEF Inv, CommitRight, CommitOK
  <2>2. r.m \in Names /\ r.ino # 0
    BY <2>1, Consts DEF CommitTask
  <2> QED
    BY <1>2, <2>1, <2>2
<1>7. Up(T \ {i})'
  <2>1. ASSUME NEW p \in Inodes, NEW m \in Names, ent'[p][m] \in T \ {i} PROVE p \in T \ {i}
    <3>1. ent[p][m] \in T /\ ent[p][m] # 0
      BY <1>3, <2>1, Consts
    <3>2. p \in T
      BY <1>5, <3>1 DEF Up
    <3> QED
      BY <1>2, <3>1, <3>2
  <2> QED
    BY <2>1 DEF Up
<1> QED
  BY <1>5, <1>6, <1>7

\* What a call gives up nobody else has locked.
LEMMA GivenNoLocks ==
  ASSUME Inv, NEW i \in Inodes, ~Named(i), i # Root, \A y \in Clients : open[y] # i,
         NEW x \in Clients, task[x].pc \in Sizing \cup {"commit"}
  PROVE  i \notin task[x].locks
<1>1. ASSUME task[x].pc \in Sizing PROVE i \notin task[x].locks
  BY <1>1 DEF Inv, SizeRight, SizeOK
<1>2. ASSUME task[x].pc = "commit" PROVE i \notin task[x].locks
  <2>1. /\ task[x].locks = {task[x].d, task[x].e, task[x].ino} \cup (IF task[x].d # task[x].e THEN {-1} ELSE {})
        /\ ent[task[x].e][task[x].m] = task[x].ino
        /\ task[x].moved = 0 => task[x].d = task[x].e
        /\ task[x].moved # 0 => ent[task[x].d][task[x].n] = task[x].moved
        /\ task[x] \in CommitTask
    BY <1>2, TaskTypes DEF Inv, CommitRight, CommitOK
  <2>2. /\ task[x].d \in Inodes /\ task[x].e \in Inodes /\ task[x].n \in Names /\ task[x].m \in Names
        /\ task[x].ino \in Inodes
    BY <2>1 DEF CommitTask
  <2>3. Named(task[x].ino)
    BY <2>1, <2>2 DEF Named
  <2>4. task[x].e # i
    BY <2>1, <2>2, Consts DEF Inv, NamesRight
  <2>5. task[x].d # i
    BY <2>1, <2>2, <2>4, Consts DEF Inv, NamesRight
  <2> QED
    BY <2>1, <2>3, <2>4, <2>5, Consts
<1> QED
  BY <1>1, <1>2

\* A free inode that nobody is giving up is nobody's.
LEMMA FreeIsNobodys ==
  ASSUME Inv, phase = "mounted", NEW i \in Inodes, IsFree(i), i \notin Leaving
  PROVE  /\ ~Named(i) /\ i # Root /\ i \notin leaked /\ ino[i].nlink = 0 /\ limbo[i] = {}
         /\ ~Contains(listed, i)
         /\ \A y \in Clients : open[y] # i
         /\ \A y \in Clients : task[y].pc \in Given => task[y].ino # i
         /\ \A y \in Clients : task[y].pc \in Sizing \cup {"commit"} => i \notin task[y].locks
<1>1. ino[i].nlink = 0
  BY DEF IsFree
<1>2. ~Named(i) /\ i # Root /\ i \notin leaked
  BY <1>1, NoLinksNoName
<1>3. limbo[i] = {} /\ ~Contains(listed, i)
  BY <1>1, InodesRight DEF InodeOK
<1>4. \A y \in Clients : open[y] # i
  BY Consts DEF Inv, OpenRight, OpenOK
<1>5. \A y \in Clients : task[y].pc \in Given => task[y].ino # i
  BY DEF Inv, GoneRight, GoneOK, Given, Leaving
<1>6. \A y \in Clients : task[y].pc \in Sizing \cup {"commit"} => i \notin task[y].locks
  BY <1>2, <1>4, GivenNoLocks
<1> QED
  BY <1>1, <1>2, <1>3, <1>4, <1>5, <1>6

\* A directory in which a name can be made, and that nobody has locked.
LEMMA DirIsNobodys ==
  ASSUME Inv, phase = "mounted", NEW d \in LiveDirs, d \notin Locked
  PROVE  /\ d \in Inodes /\ d <= table.count /\ IsDir(d) /\ ino[d].nlink > 0 /\ ino[d].nlink # 0 /\ ~IsFree(d)
         /\ d = Root \/ Named(d)
         /\ \A y \in Clients : open[y] # d
         /\ \A y \in Clients : task[y].pc \in Given => task[y].ino # d
         /\ \A y \in Clients : d \notin task[y].locks
         /\ InodeOK(d)
<1>1. /\ d \in Inodes /\ d <= table.count /\ IsDir(d) /\ ino[d].nlink > 0
      /\ d = Root \/ Named(d)
  BY LiveDirsAre DEF Inv
<1>2. ino[d].nlink # 0 /\ ~IsFree(d)
  BY <1>1, InodeTypes DEF IsFree, Inv
<1>3. \A y \in Clients : open[y] # d
  BY <1>1, Consts DEF Inv, OpenRight, OpenOK, IsDir
<1>4. \A y \in Clients : task[y].pc \in Given => task[y].ino # d
  BY <1>1, LockedStays
<1>5. \A y \in Clients : d \notin task[y].locks
  BY DEF Locked
<1>6. InodeOK(d)
  BY <1>1, InodesRight
<1> QED
  BY <1>1, <1>2, <1>3, <1>4, <1>5, <1>6
\* A directory that gets a link more, or not, and blocks for a name more.
GrownDir(o, kind, more, grown) ==
  [o EXCEPT !.nlink = IF kind = "dir" THEN @ + 1 ELSE @, !.blocks = @ \cup more, !.size = @ + grown]

\* The inodes when inode i becomes new and directory d gets a name.
MadeOf(i, d, new, kind, more, grown) ==
  [ino EXCEPT ![i] = new, ![d].nlink = IF kind = "dir" THEN @ + 1 ELSE @,
              ![d].blocks = @ \cup more, ![d].size = @ + grown]

\* The fields of such a directory.
LEMMA GrownDirType ==
  ASSUME NEW o \in InodeRec, NEW more, more \subseteq Blocks, NEW kind, NEW grown \in Nat,
         NEW r, r = GrownDir(o, kind, more, grown)
  PROVE  /\ r \in InodeRec /\ r.kind = o.kind /\ r.dtime = o.dtime /\ r.blocks = o.blocks \cup more
         /\ r.nlink = IF kind = "dir" THEN o.nlink + 1 ELSE o.nlink
<1>1. PICK k, l, t, s, b : o = [kind |-> k, nlink |-> l, dtime |-> t, size |-> s, blocks |-> b]
                           /\ k \in {"none", "file", "dir", "link", "node"} /\ l \in Nat /\ t \in BOOLEAN
                           /\ s \in Nat /\ b \in SUBSET Blocks
  BY DEF InodeRec
<1>2. r = [kind |-> k, nlink |-> IF kind = "dir" THEN l + 1 ELSE l, dtime |-> t, size |-> s + grown, blocks |-> b \cup more]
  BY <1>1 DEF GrownDir
<1>3. (IF kind = "dir" THEN l + 1 ELSE l) \in Nat /\ s + grown \in Nat /\ b \cup more \in SUBSET Blocks
  BY <1>1
<1>4. r \in InodeRec
  BY <1>1, <1>2, <1>3 DEF InodeRec
<1>5. /\ r.kind = o.kind /\ r.dtime = o.dtime /\ r.blocks = o.blocks \cup more
      /\ r.nlink = IF kind = "dir" THEN o.nlink + 1 ELSE o.nlink
  BY <1>1, <1>2
<1> QED
  BY <1>4, <1>5

\* The inodes after it.
LEMMA MadeInodes ==
  ASSUME ino \in [Inodes -> InodeRec], NEW i \in Inodes, NEW d \in Inodes, i # d, NEW new \in InodeRec,
         NEW more, more \subseteq Blocks, NEW kind, NEW grown \in Nat,
         ino' = MadeOf(i, d, new, kind, more, grown)
  PROVE  /\ ino' \in [Inodes -> InodeRec] /\ ino'[i] = new
         /\ ino'[d].kind = ino[d].kind /\ ino'[d].dtime = ino[d].dtime
         /\ ino'[d].nlink = (IF kind = "dir" THEN ino[d].nlink + 1 ELSE ino[d].nlink)
         /\ ino'[d].blocks = ino[d].blocks \cup more
         /\ \A j \in Inodes \ {i, d} : ino'[j] = ino[j]
<1> PICK o : o = ino[d]
  OBVIOUS
<1> PICK r : r = GrownDir(o, kind, more, grown)
  OBVIOUS
<1>1. o \in InodeRec
  OBVIOUS
<1>2. /\ r \in InodeRec /\ r.kind = o.kind /\ r.dtime = o.dtime /\ r.blocks = o.blocks \cup more
      /\ r.nlink = IF kind = "dir" THEN o.nlink + 1 ELSE o.nlink
  BY <1>1, GrownDirType
<1> PICK f : f = [ino EXCEPT ![i] = new]
  OBVIOUS
<1>3. f \in [Inodes -> InodeRec] /\ f[i] = new /\ f[d] = o /\ \A j \in Inodes \ {i} : f[j] = ino[j]
  OBVIOUS
<1>4. ino' = [f EXCEPT ![d] = r]
  BY <1>3 DEF MadeOf, GrownDir
<1>5. ino'[d] = r /\ ino'[i] = new /\ ino' \in [Inodes -> InodeRec] /\ \A j \in Inodes \ {i, d} : ino'[j] = ino[j]
  BY <1>2, <1>3, <1>4
<1> QED
  BY <1>2, <1>5

\* An inode is made, with a name.
LEMMA MakeOkStep ==
  ASSUME Inv, NEW c \in Clients, NEW d \in Inodes, NEW n \in Names,
         NEW kind \in {"file", "dir", "link", "node"}, NEW nlink, nlink = IF kind = "dir" THEN 2 ELSE 1,
         NEW i, i = Found, CanFind, NEW own, NEW more, own \subseteq FreeBlocks \ TableBlock,
         more \subseteq FreeBlocks \ (TableBlock \cup own), NEW grown \in Nat,
         Ready(c, {d}), Lookup(d, n) = 0, d \in LiveDirs,
         table' = Grown, calls' = calls + 1,
         ent' = [ent EXCEPT ![d][n] = i, ![i] = NoEntries],
         ino' = MadeOf(i, d, NewInode(kind, nlink, own), kind, more, grown),
         inuse' = inuse \cup TableBlock \cup own \cup more,
         hint' = HintBehind(i),
         UNCHANGED <<limbo, list, saved, open, task, system>>,
         i \notin Leaving
  PROVE  Inv'
<1>1. /\ Types /\ NamesRight /\ phase = "mounted" /\ task[c] = Idle /\ d \notin Locked /\ ent[d][n] = 0
      /\ calls \in Nat
  BY DEF Ready, Inv, Lookup, Types
<1>2. /\ i \in Inodes /\ IsFree(i) /\ i <= Grown.count
      /\ Grown \in [count : FirstTable .. MaxIno, blocks : SUBSET Blocks]
      /\ table.count <= Grown.count
      /\ TableBlock \subseteq FreeBlocks /\ Grown.blocks = table.blocks \cup TableBlock
      /\ HintBehind(i) \in Inodes
  BY <1>1, FoundInode
<1>3. /\ ~Named(i) /\ i # Root /\ i \notin leaked /\ ino[i].nlink = 0 /\ limbo[i] = {}
      /\ ~Contains(listed, i)
      /\ \A y \in Clients : open[y] # i
      /\ \A y \in Clients : task[y].pc \in Given => task[y].ino # i
      /\ \A y \in Clients : task[y].pc \in Sizing \cup {"commit"} => i \notin task[y].locks
  BY <1>1, <1>2, FreeIsNobodys
<1>4. /\ d \in Inodes /\ d <= table.count /\ IsDir(d) /\ ino[d].nlink > 0 /\ ino[d].nlink # 0 /\ ~IsFree(d)
      /\ d = Root \/ Named(d)
      /\ \A y \in Clients : open[y] # d
      /\ \A y \in Clients : task[y].pc \in Given => task[y].ino # d
      /\ \A y \in Clients : d \notin task[y].locks
      /\ InodeOK(d)
  BY <1>1, DirIsNobodys
<1>5. i # d /\ own \subseteq Blocks /\ more \subseteq Blocks /\ nlink \in Nat /\ nlink > 0
      /\ own \subseteq FreeBlocks /\ more \subseteq FreeBlocks
  BY <1>3, <1>4 DEF FreeBlocks
<1> PICK new : new = NewInode(kind, nlink, own)
  OBVIOUS
<1>6. /\ ent \in [Inodes -> [Names -> 0 .. MaxIno]] /\ ino \in [Inodes -> InodeRec]
      /\ new \in InodeRec /\ new.kind = kind /\ new.nlink = nlink /\ new.dtime = FALSE /\ new.blocks = own
  <2>1. ent \in [Inodes -> [Names -> 0 .. MaxIno]] /\ ino \in [Inodes -> InodeRec]
    BY <1>1 DEF Types
  <2>2. new \in InodeRec /\ new.kind = kind /\ new.nlink = nlink /\ new.dtime = FALSE /\ new.blocks = own
    <3>1. kind \in {"file", "dir", "link", "node"} /\ nlink \in Nat /\ own \subseteq Blocks
      BY <1>5
    <3> QED
      BY <3>1, BlocksCount DEF NewInode, InodeRec
  <2> QED
    BY <2>1, <2>2
<1>a. ino' = MadeOf(i, d, new, kind, more, grown)
  OBVIOUS
<1>7. /\ ino' \in [Inodes -> InodeRec] /\ ino'[i] = new
      /\ ino'[d].kind = ino[d].kind /\ ino'[d].dtime = ino[d].dtime
      /\ ino'[d].nlink = (IF kind = "dir" THEN ino[d].nlink + 1 ELSE ino[d].nlink)
      /\ ino'[d].blocks = ino[d].blocks \cup more
      /\ \A j \in Inodes \ {i, d} : ino'[j] = ino[j]
  <2>1. /\ i \in Inodes /\ d \in Inodes /\ i # d /\ new \in InodeRec /\ more \subseteq Blocks
        /\ grown \in Nat /\ ino \in [Inodes -> InodeRec]
    BY <1>2, <1>4, <1>5, <1>6
  <2> QED
    BY <1>a, <2>1, MadeInodes
<1>8. /\ ent' \in [Inodes -> [Names -> 0 .. MaxIno]]
      /\ \A p \in Inodes, m \in Names : ent'[p][m] = IF p = d /\ m = n THEN i ELSE ent[p][m]
  <2>1. \A m \in Names : ent[i][m] = 0
    BY <1>1, <1>2, <1>3 DEF NamesRight
  <2>2. NoEntries \in [Names -> 0 .. MaxIno] /\ (\A m \in Names : NoEntries[m] = 0) /\ i \in 0 .. MaxIno
    BY <1>2, Consts DEF NoEntries
  <2> QED
    BY <1>2, <1>5, <1>6, <2>1, <2>2
<1>9. Types'
  <2>1. inuse' \subseteq Blocks /\ hint' \in Inodes /\ calls' \in Nat /\ table' \in [count : FirstTable .. MaxIno, blocks : SUBSET Blocks]
    <3>1. inuse \subseteq Blocks /\ TableBlock \subseteq Blocks
      BY <1>1, <1>2 DEF Types, FreeBlocks
    <3>2. inuse' \subseteq Blocks
      BY <1>5, <3>1
    <3>3. hint' \in Inodes /\ calls' \in Nat
      BY <1>1, <1>2
    <3>4. table' \in [count : FirstTable .. MaxIno, blocks : SUBSET Blocks]
      BY <1>2
    <3> QED
      BY <3>2, <3>3, <3>4
  <2> QED
    BY <1>1, <1>7, <1>8, <2>1 DEF Types, list, system, mount
<1>10. /\ task' = task /\ open' = open /\ limbo' = limbo /\ leaked' = leaked /\ tsize' = tsize /\ listed' = listed
       /\ lost' = lost /\ phase' = phase /\ saved' = saved /\ cur' = cur /\ table' = Grown /\ Leaving' = Leaving
  BY DEF list, system, mount, Leaving
<1>11. NewName(d, n, i)
  <2>1. \A j \in Inodes \ {i} :
           /\ ino'[j].kind = ino[j].kind /\ ino'[j].dtime = ino[j].dtime
           /\ ino'[j].nlink = IF j = d /\ ino'[i].kind = "dir" THEN ino[j].nlink + 1 ELSE ino[j].nlink
    BY <1>4, <1>6, <1>7
  <2>2. /\ ino'[i].kind # "none" /\ ~ino'[i].dtime
        /\ ino'[i].nlink = IF ino'[i].kind = "dir" THEN 2 ELSE 1
    BY <1>6, <1>7
  <2> QED
    BY <1>1, <1>2, <1>8, <1>10, <2>1, <2>2 DEF NewName
<1>12. Space'
  BY <1>1, <1>9, <1>11, NewNameKeepsSpace DEF Inv, Space
<1>13. WaysKept(c)
  BY <1>11, WaysNewName
<1> PICK X : X = {i, d}
  OBVIOUS
<1>14. Local(c, X)
  <2>1. \A j \in Inodes \ X : /\ ino'[j] = ino[j]
                              /\ \A m \in Names : ent'[j][m] = ent[j][m]
                              /\ Named(j)' => Named(j)
    <3>1. SUFFICES ASSUME NEW j \in Inodes, j # i, j # d
                   PROVE  /\ ino'[j] = ino[j]
                          /\ \A m \in Names : ent'[j][m] = ent[j][m]
                          /\ Named(j)' => Named(j)
      OBVIOUS
    <3>2. ino'[j] = ino[j] /\ \A m \in Names : ent'[j][m] = ent[j][m]
      BY <1>7, <1>8, <3>1
    <3>3. Named(j)' => Named(j)
      <4>1. ASSUME NEW p \in Inodes, NEW m \in Names, ent'[p][m] = j PROVE ent[p][m] = j
        <5>1. ent'[p][m] = IF p = d /\ m = n THEN i ELSE ent[p][m]
          BY <1>8
        <5> QED
          BY <3>1, <4>1, <5>1, Zenon
      <4> QED
        BY <4>1 DEF Named
    <3> QED
      BY <3>2, <3>3
  <2>2. \A j \in X : Named(j) => ino'[j].kind = ino[j].kind
    BY <1>3, <1>7
  <2>3. \A x \in Clients \ {c} : task[x].pc \in Sizing \cup {"commit"} => task[x].locks \cap X = {}
    BY <1>3, <1>4
  <2>4. \A x \in Clients \ {c} : task[x].pc \in Given => task[x].ino \notin X
    BY <1>3, <1>4
  <2>5. \A j \in X, x \in Clients \ {c} : open[x] # j
    BY <1>3, <1>4
  <2>6. task[c].pc = "idle" /\ X \subseteq Inodes
    BY <1>1, <1>2 DEF Idle
  <2> QED
    <3>1. /\ phase = "mounted" /\ phase' = "mounted" /\ cur' = cur /\ saved' = saved /\ lost' = lost
          /\ table.count <= table'.count /\ leaked' \subseteq leaked \cup X
          /\ task' = task /\ open' = open /\ limbo' = limbo /\ tsize' = tsize /\ listed' = listed
      BY <1>1, <1>2, <1>10
    <3>2. \A j \in Inodes \ X :
            /\ ino'[j] = ino[j] /\ limbo'[j] = limbo[j] /\ tsize'[j] = tsize[j]
            /\ \A m \in Names : ent'[j][m] = ent[j][m]
            /\ Named(j)' => Named(j)
      BY <2>1, <3>1
    <3>3. \A x \in Clients \ {c} : task'[x] = task[x] /\ open'[x] = open[x]
      BY <3>1
    <3>4. \A y \in (Inodes \ X) \cup (Clients \ {c}) : Contains(listed', y) <=> Contains(listed, y)
      BY <3>1
    <3>5. /\ task[c].pc # "idle" => task[c].ino \in X
          /\ open'[c] # 0 => open'[c] = open[c] \/ Named(open'[c])
      BY <2>6, <3>1
    <3>6. \A j \in X, x \in Clients \ {c} : open[x] = j =>
            /\ ino'[j].kind = ino[j].kind /\ ~IsFree(j)'
            /\ ino'[j].nlink = 0 => Contains(listed', j)
      BY <2>5
    <3> QED
      BY <2>2, <2>3, <2>4, <2>6, <3>1, <3>2, <3>3, <3>4, <3>5, <3>6 DEF Local
<1>15. ClientOK(c)' /\ task'[c].pc \notin Given /\ task'[c].locks = {}
  <2>1. OpenOK(c)'
    <3> PICK o : o = open[c]
      OBVIOUS
    <3>1. OpenOK(c) /\ (o # 0 => o \in Inodes \ X)
      BY <1>1, <1>3, <1>4, TaskTypes DEF Inv, OpenRight
    <3>2. o # 0 => ino'[o] = ino[o] /\ o <= table'.count
      <4>1. o # 0 => o <= table.count
        BY <3>1 DEF OpenOK
      <4>2. table.count \in Int /\ table'.count \in Int /\ table.count <= table'.count
        BY <1>1, <1>2, <1>9, <1>10, CountTypes, CountTypesAfter
      <4> QED
        BY <1>7, <3>1, <4>1, <4>2, Consts
    <3> QED
      BY <1>10, <3>1, <3>2 DEF OpenOK, IsFree
  <2> QED
    BY <1>1, <1>10, <2>1, IdleClient
<1>16. SameList' /\ ListShape'
  BY <1>1, <1>10, <1>14, ListKept DEF ListShape
<1>17. \A j \in X : InodeOK(j)'
  <2>1. InodeOK(i)'
    BY <1>3, <1>5, <1>6, <1>7, <1>10 DEF InodeOK, Orphan
  <2>2. InodeOK(d)'
    <3>1. ino'[d].nlink # 0 /\ ino'[d].nlink > 0 /\ ~IsFree(d)'
      BY <1>1, <1>4, <1>7, InodeTypes DEF IsFree
    <3> QED
      BY <1>4, <1>10, <3>1 DEF InodeOK, Orphan
  <2> QED
    BY <2>1, <2>2
<1>18. BlocksApart'
  <2> DEFINE N == [j \in Inodes |-> IF j = i THEN own ELSE IF j = d THEN more ELSE {}]
  <2> PICK NT : NT = TableBlock
    OBVIOUS
  <2>1. N[i] = own /\ N[d] = more /\ \A j \in Inodes \ {i, d} : N[j] = {}
    BY <1>2, <1>5
  <2> HIDE DEF N
  <2>2. \A j \in Inodes : N[j] \subseteq FreeBlocks /\ N[j] \cap NT = {} /\ N[j] \subseteq inuse'
    BY <1>5, <2>1
  <2>3. \A j, k \in Inodes : j # k => N[j] \cap N[k] = {}
    <3>1. own \cap more = {}
      OBVIOUS
    <3> QED
      BY <2>1, <3>1
  <2>4. ASSUME NEW j \in Inodes, ~IsFree(j)'
        PROVE  ino'[j].blocks \subseteq N[j] \cup (IF IsFree(j) THEN {} ELSE ino[j].blocks)
    <3>1. CASE j = i
      BY <1>6, <1>7, <2>1, <3>1
    <3>2. CASE j = d
      BY <1>4, <1>7, <2>1, <3>2
    <3>3. CASE j # i /\ j # d
      BY <1>7, <2>1, <2>4, <3>3 DEF IsFree
    <3> QED
      BY <3>1, <3>2, <3>3
  <2>5. NT \subseteq FreeBlocks /\ table'.blocks \subseteq table.blocks \cup NT /\ inuse \cup NT \subseteq inuse'
    BY <1>2, <1>10
  <2> QED
    BY <1>1, <1>10, <2>2, <2>3, <2>4, <2>5, BlocksGrow
<1> QED
  BY <1>9, <1>12, <1>13, <1>14, <1>15, <1>16, <1>17, <1>18, LocalStep
\* There is no room: the inode is evicted, and the call has to abort.
LEMMA MakeFailStep ==
  ASSUME Inv, NEW c \in Clients, NEW d \in Inodes,
         NEW kind \in {"file", "dir", "link", "node"}, NEW i, i = Found, CanFind, i \notin Leaving,
         Ready(c, {d}), d \in LiveDirs, table' = Grown, calls' = calls + 1,
         NEW r, r = [NewInode(kind, IF kind = "dir" THEN 1 ELSE 0, {}) EXCEPT !.dtime = kind # "node"],
         ino' = [ino EXCEPT ![i] = r],
         NEW more, more \subseteq Blocks, inuse' = inuse \cup TableBlock \cup more, hint' \in Inodes,
         task' = [task EXCEPT ![c] = [pc |-> "abort", ino |-> i, locks |-> {d}, undo |-> ino[i]]],
         UNCHANGED <<ent, limbo, list, saved, open, system>>
  PROVE  Inv'
<1>1. /\ Types /\ NamesRight /\ phase = "mounted" /\ task[c] = Idle /\ d \notin Locked
      /\ calls \in Nat
  BY DEF Ready, Inv, Types
<1>2. /\ i \in Inodes /\ IsFree(i) /\ i <= Grown.count
      /\ Grown \in [count : FirstTable .. MaxIno, blocks : SUBSET Blocks]
      /\ table.count <= Grown.count
      /\ TableBlock \subseteq FreeBlocks /\ Grown.blocks = table.blocks \cup TableBlock
  BY <1>1, FoundInode
<1>3. /\ ~Named(i) /\ i # Root /\ i \notin leaked /\ ino[i].nlink = 0 /\ limbo[i] = {}
      /\ ~Contains(listed, i)
      /\ \A y \in Clients : open[y] # i
      /\ \A y \in Clients : task[y].pc \in Given => task[y].ino # i
      /\ \A y \in Clients : task[y].pc \in Sizing \cup {"commit"} => i \notin task[y].locks
  BY <1>1, <1>2, FreeIsNobodys
<1>4. /\ r \in InodeRec /\ r.kind = kind /\ r.blocks = {} /\ (r.dtime <=> kind # "node")
      /\ r.nlink = IF kind = "dir" THEN 1 ELSE 0
  <2> PICK k : k = IF kind = "dir" THEN 1 ELSE 0
    OBVIOUS
  <2>1. k \in Nat /\ r = [NewInode(kind, k, {}) EXCEPT !.dtime = kind # "node"]
    OBVIOUS
  <2>2. Cardinality({}) = 0
    BY FS_EmptySet
  <2> PICK b \in BOOLEAN : b <=> kind # "node"
    OBVIOUS
  <2>3. r = [kind |-> kind, nlink |-> k, dtime |-> b, size |-> 0, blocks |-> {}]
    BY <2>1, <2>2 DEF NewInode
  <2> QED
    BY <2>1, <2>3 DEF InodeRec
<1>5. /\ ino \in [Inodes -> InodeRec] /\ task \in [Clients -> Tasks]
      /\ ino' \in [Inodes -> InodeRec] /\ ino'[i] = r /\ \A j \in Inodes \ {i} : ino'[j] = ino[j]
  <2>1. ino \in [Inodes -> InodeRec] /\ task \in [Clients -> Tasks]
    BY <1>1 DEF Types
  <2> QED
    BY <1>2, <1>4, <2>1
<1> PICK u : u = ino[i]
  OBVIOUS
<1> PICK t : t = [pc |-> "abort", ino |-> i, locks |-> {d}, undo |-> u]
  OBVIOUS
<1>6. /\ task'[c] = t /\ t \in AbortTask /\ u \in InodeRec
      /\ \A x \in Clients \ {c} : task'[x] = task[x]
      /\ task' \in [Clients -> Tasks]
  <2>1. u \in InodeRec /\ task' = [task EXCEPT ![c] = t]
    BY <1>2, <1>5
  <2>2. t \in AbortTask
    BY <1>2, <2>1 DEF AbortTask
  <2>3. t \in Tasks
    BY <2>2 DEF Tasks
  <2> QED
    BY <1>5, <2>1, <2>2, <2>3
<1>7. Types'
  <2>1. inuse' \subseteq Blocks /\ calls' \in Nat /\ table' \in [count : FirstTable .. MaxIno, blocks : SUBSET Blocks]
    <3>1. inuse \subseteq Blocks /\ TableBlock \subseteq Blocks
      BY <1>1, <1>2 DEF Types, FreeBlocks
    <3>2. inuse' \subseteq Blocks
      BY <3>1
    <3> QED
      BY <1>1, <1>2, <3>2
  <2> QED
    BY <1>1, <1>5, <1>6, <2>1 DEF Types, list, system, mount
<1>8. /\ open' = open /\ limbo' = limbo /\ leaked' = leaked /\ tsize' = tsize /\ listed' = listed /\ ent' = ent
      /\ lost' = lost /\ phase' = phase /\ saved' = saved /\ cur' = cur /\ table' = Grown
  BY DEF list, system, mount
<1> PICK X : X = {i}
  OBVIOUS
<1>9. \A j \in Inodes : Named(j)' <=> Named(j)
  BY <1>8 DEF Named
<1>10. Local(c, X) /\ WaysKept(c)
  <2>1. \A x \in Clients \ {c} : task[x].pc \in Sizing \cup {"commit"} => task[x].locks \cap X = {}
    BY <1>3
  <2>2. task[c].pc = "idle" /\ X \subseteq Inodes
    BY <1>1, <1>2 DEF Idle
  <2>3. Local(c, X)
    BY <1>1, <1>2, <1>3, <1>5, <1>6, <1>8, <1>9, <2>1, <2>2 DEF Local
  <2> QED
    BY <1>8, <2>3, WaysSame
<1>11. i \in Leaving'
  <2>1. t.pc = "abort" /\ t.ino = i
    OBVIOUS
  <2> QED
    BY <1>6, <2>1 DEF Leaving
<1>12. Space'
  <2>1. task[c].pc = "idle"
    BY <1>1 DEF Idle
  <2>2. i <= table'.count /\ (ino'[i].nlink = 0 \/ (ino'[i].kind = "dir" /\ i \in Leaving'))
    BY <1>2, <1>4, <1>5, <1>8, <1>11
  <2>3. \A j \in X : \/ SameInode(j)
                     \/ /\ ~Named(j) /\ j # Root /\ j \notin leaked /\ j <= table'.count
                        /\ ino'[j].nlink = 0 \/ (ino'[j].kind = "dir" /\ j \in Leaving')
    BY <1>3, <2>2
  <2> QED
    BY <1>7, <1>8, <1>10, <2>1, <2>3, SpaceQuiet
<1>13. ClientOK(c)' /\ task'[c].ino \in X /\ task'[c].locks \cap Locked = {}
  <2>1. t.pc = "abort" /\ t.ino = i /\ t.locks = {d} /\ t.undo = u
    OBVIOUS
  <2>2. GoneOK(c)'
    <3>1. i <= table'.count /\ ~Named(i)' /\ \A x \in Clients : open'[x] # i
      BY <1>2, <1>3, <1>8, <1>9
    <3>2. ~Contains(listed', i) /\ ino'[i].blocks = {} /\ i \notin leaked' /\ i # Root
      BY <1>3, <1>4, <1>5, <1>8
    <3>3. u.nlink = 0 /\ (u.kind = "none" \/ u.dtime)
      BY <1>2 DEF IsFree
    <3> QED
      BY <1>6, <2>1, <3>1, <3>2, <3>3 DEF GoneOK, Named
  <2>3. OpenOK(c)'
    <3> PICK o : o = open[c]
      OBVIOUS
    <3>1. OpenOK(c) /\ (o # 0 => o \in Inodes \ X)
      BY <1>1, <1>3, TaskTypes DEF Inv, OpenRight
    <3>2. o # 0 => ino'[o] = ino[o] /\ o <= table'.count
      <4>1. o # 0 => o <= table.count
        BY <3>1 DEF OpenOK
      <4>2. table.count \in Int /\ table'.count \in Int /\ table.count <= table'.count
        BY <1>1, <1>2, <1>7, <1>8, CountTypes, CountTypesAfter
      <4> QED
        BY <1>5, <3>1, <4>1, <4>2, Consts
    <3> QED
      BY <1>8, <3>1, <3>2 DEF OpenOK, IsFree
  <2>4. CommitOK(c)' /\ SizeOK(c)'
    BY <1>6, <2>1 DEF CommitOK, SizeOK, Sizing
  <2> QED
    BY <1>1, <1>6, <2>1, <2>2, <2>3, <2>4 DEF ClientOK
<1>14. SameList' /\ ListShape'
  <2>1. task[c].pc # "del"
    BY <1>1 DEF Idle
  <2> QED
    BY <1>10, <2>1, ListKept DEF ListShape
<1>15. \A j \in X : InodeOK(j)'
  <2>1. InodeOK(i)'
    BY <1>3, <1>4, <1>5, <1>8 DEF InodeOK, Orphan, IsFree
  <2> QED
    BY <2>1
<1>16. BlocksApart'
  <2> DEFINE N == [j \in Inodes |-> {}]
  <2> PICK NT : NT = TableBlock
    OBVIOUS
  <2>1. \A j \in Inodes : N[j] = {}
    OBVIOUS
  <2> HIDE DEF N
  <2>2. ASSUME NEW j \in Inodes, ~IsFree(j)'
        PROVE  ino'[j].blocks \subseteq N[j] \cup (IF IsFree(j) THEN {} ELSE ino[j].blocks)
    <3>1. CASE j = i
      BY <1>4, <1>5, <3>1
    <3>2. CASE j # i
      BY <1>5, <2>2, <3>2 DEF IsFree
    <3> QED
      BY <3>1, <3>2
  <2>3. NT \subseteq FreeBlocks /\ table'.blocks \subseteq table.blocks \cup NT /\ inuse \cup NT \subseteq inuse'
    BY <1>2, <1>8
  <2>4. \A j \in Inodes : N[j] \subseteq FreeBlocks /\ N[j] \cap NT = {} /\ N[j] \subseteq inuse'
    BY <2>1
  <2>5. \A j, k \in Inodes : j # k => N[j] \cap N[k] = {}
    BY <2>1
  <2> QED
    BY <1>1, <1>8, <2>2, <2>3, <2>4, <2>5, BlocksGrow
<1> QED
  BY <1>7, <1>10, <1>12, <1>13, <1>14, <1>15, <1>16, LocalStep

\* An inode is made with a name, or there is no room.
LEMMA MakeStep ==
  ASSUME Inv, races' = {}, NEW c \in Clients, NEW d \in Inodes, NEW n \in Names,
         NEW kind \in {"file", "dir", "link", "node"}, NEW nlink, nlink = IF kind = "dir" THEN 2 ELSE 1,
         NEW blocks, Make(c, d, n, kind, nlink, blocks)
  PROVE  Inv'
<1> PICK i : i = Found
  OBVIOUS
<1> PICK own : own = Lowest(FreeBlocks \ TableBlock, blocks)
  OBVIOUS
<1> PICK more : more = Lowest((FreeBlocks \ TableBlock) \ own, Growth(d))
  OBVIOUS
<1> PICK grown : grown = (Growth(d) + 1) \div 2
  OBVIOUS
<1> DEFINE ok == Cardinality(own) = blocks /\ Cardinality(more) = Growth(d)
<1>1. /\ own \subseteq FreeBlocks \ TableBlock
      /\ more \subseteq FreeBlocks \ (TableBlock \cup own)
      /\ grown \in Nat
  BY Taken
<1>2. /\ Ready(c, {d}) /\ Lookup(d, n) = 0 /\ d \in LiveDirs /\ CanFind
      /\ table' = Grown /\ calls' = calls + 1
      /\ UNCHANGED <<limbo, list, saved, open, system>>
  BY DEF Make
<1>6. i \notin Leaving
  BY DEF Make, Races
<1>3. CASE /\ ent' = [ent EXCEPT ![d][n] = i, ![i] = NoEntries]
           /\ ino' = MadeOf(i, d, NewInode(kind, nlink, own), kind, more, grown)
           /\ inuse' = inuse \cup TableBlock \cup own \cup more
           /\ hint' = HintBehind(i)
           /\ UNCHANGED task
  BY <1>1, <1>2, <1>3, <1>6, MakeOkStep
<1> PICK r : r = [NewInode(kind, IF kind = "dir" THEN 1 ELSE 0, {}) EXCEPT !.dtime = kind # "node"]
  OBVIOUS
<1>4. CASE /\ ino' = [ino EXCEPT ![i] = r]
           /\ inuse' = inuse \cup TableBlock \cup (IF Cardinality(own) = blocks THEN more ELSE {})
           /\ hint' = IF kind = "node" THEN HintBehind(i) ELSE HintFreed(HintBehind(i), i)
           /\ task' = [task EXCEPT ![c] = [pc |-> "abort", ino |-> i, locks |-> {d}, undo |-> ino[i]]]
           /\ UNCHANGED ent
  <2> PICK extra : extra = IF Cardinality(own) = blocks THEN more ELSE {}
    OBVIOUS
  <2>1. extra \subseteq Blocks /\ inuse' = inuse \cup TableBlock \cup extra
    BY <1>1, <1>4 DEF FreeBlocks
  <2>2. hint' \in Inodes
    BY <1>2, <1>4, FoundInode DEF Inv
  <2>3. UNCHANGED <<ent, limbo, list, saved, open, system>>
    BY <1>2, <1>4
  <2> QED
    BY <1>2, <1>4, <1>6, <2>1, <2>2, <2>3, MakeFailStep
<1>5. \/ /\ ok
         /\ ent' = [ent EXCEPT ![d][n] = i, ![i] = NoEntries]
         /\ ino' = MadeOf(i, d, NewInode(kind, nlink, own), kind, more, grown)
         /\ inuse' = inuse \cup TableBlock \cup own \cup more
         /\ hint' = HintBehind(i)
         /\ UNCHANGED task
      \/ /\ ~ok
         /\ ino' = [ino EXCEPT ![i] = r]
         /\ inuse' = inuse \cup TableBlock \cup (IF Cardinality(own) = blocks THEN more ELSE {})
         /\ hint' = IF kind = "node" THEN HintBehind(i) ELSE HintFreed(HintBehind(i), i)
         /\ task' = [task EXCEPT ![c] = [pc |-> "abort", ino |-> i, locks |-> {d}, undo |-> ino[i]]]
         /\ UNCHANGED ent
  BY Zenon DEF Make, MadeOf
<1> QED
  BY <1>3, <1>4, <1>5

\* Pmfs_create, pmfs_mknod, pmfs_symlink and pmfs_mkdir.
LEMMA MakingStep ==
  ASSUME Inv, races' = {}, NEW c \in Clients, NEW d \in Inodes, NEW n \in Names,
         Create(c, d, n) \/ Mknod(c, d, n) \/ Symlink(c, d, n) \/ Mkdir(c, d, n)
  PROVE  Inv'
BY MakeStep DEF Create, Mknod, Symlink, Mkdir
\* The call that found no room aborts, and its inode is what it was before.
LEMMA CreateAbortStep ==
  ASSUME Inv, NEW c \in Clients, CreateAbort(c)
  PROVE  Inv'
<1> PICK i : i = task[c].ino
  OBVIOUS
<1> PICK u : u = task[c].undo
  OBVIOUS
<1>1. /\ task[c].pc = "abort" /\ ino' = [ino EXCEPT ![i] = u] /\ task' = [task EXCEPT ![c] = Idle]
      /\ UNCHANGED <<ent, limbo, table, list, saved, inuse, hint, open, calls, system>>
  BY DEF CreateAbort
<1>2. /\ Types /\ phase = "mounted" /\ i \in Inodes /\ task[c] \in AbortTask
      /\ i <= table.count /\ i # Root /\ ~Named(i) /\ i \notin leaked /\ ~Contains(listed, i)
      /\ \A x \in Clients : open[x] # i
      /\ u.nlink = 0 /\ (u.kind = "none" \/ u.dtime)
  <2>1. phase = "mounted"
    BY <1>1 DEF Inv, Modes, Idle
  <2>2. Types /\ i \in Inodes /\ task[c] \in AbortTask
    BY <1>1, TaskTypes DEF Inv
  <2> QED
    BY <1>1, <2>1, <2>2 DEF Inv, GoneRight, GoneOK, Given
<1>3. /\ ino \in [Inodes -> InodeRec] /\ task \in [Clients -> Tasks] /\ Idle \in Tasks /\ u \in InodeRec
  BY <1>2 DEF Types, Tasks, AbortTask
<1>4. /\ ino' \in [Inodes -> InodeRec] /\ ino'[i] = u /\ \A j \in Inodes \ {i} : ino'[j] = ino[j]
      /\ task'[c] = Idle /\ \A x \in Clients \ {c} : task'[x] = task[x]
      /\ task' \in [Clients -> Tasks]
  BY <1>1, <1>2, <1>3
<1>5. IsFree(i)' /\ ino'[i].nlink = 0
  BY <1>2, <1>4 DEF IsFree
<1>6. Types'
  BY <1>1, <1>2, <1>4 DEF Types, list, system, mount
<1>7. /\ open' = open /\ limbo' = limbo /\ leaked' = leaked /\ tsize' = tsize /\ listed' = listed /\ ent' = ent
      /\ lost' = lost /\ phase' = phase /\ saved' = saved /\ cur' = cur /\ table' = table /\ inuse' = inuse
  BY <1>1 DEF list, system, mount
<1> PICK X : X = {i}
  OBVIOUS
<1>8. \A j \in Inodes : Named(j)' <=> Named(j)
  BY <1>7 DEF Named
<1>9. Local(c, X) /\ WaysKept(c)
  <2>1. \A x \in Clients \ {c} : task[x].pc \in Sizing \cup {"commit"} => task[x].locks \cap X = {}
    BY <1>2, GivenNoLocks
  <2>2. \A x \in Clients \ {c} : task[x].pc \in Given => task[x].ino # i
    BY <1>1 DEF Inv, GoneRight, Given
  <2>3. table.count <= table'.count
    BY <1>2, <1>7, CountTypes
  <2>4. Local(c, X)
    BY <1>2, <1>4, <1>7, <1>8, <2>1, <2>2, <2>3 DEF Local
  <2> QED
    BY <1>7, <2>4, WaysSame
<1>10. Space'
  <2>1. \A j \in X : ~Named(j) /\ j # Root /\ j \notin leaked /\ j <= table'.count /\ ino'[j].nlink = 0
    BY <1>2, <1>5, <1>7
  <2> QED
    BY <1>5, <1>6, <1>7, <1>9, <2>1, SpaceQuiet
<1>11. ClientOK(c)' /\ task'[c].pc \notin Given /\ task'[c].locks = {}
  <2>1. OpenOK(c)'
    <3> PICK o : o = open[c]
      OBVIOUS
    <3>1. OpenOK(c) /\ (o # 0 => o \in Inodes \ X)
      BY <1>2, TaskTypes DEF Inv, OpenRight
    <3>2. o # 0 => ino'[o] = ino[o]
      BY <1>4, <3>1
    <3> QED
      BY <1>7, <3>1, <3>2 DEF OpenOK, IsFree
  <2> QED
    BY <1>4, <2>1, IdleClient
<1>12. SameList' /\ ListShape'
  BY <1>1, <1>9, ListKept DEF ListShape
<1>13. \A j \in X : InodeOK(j)'
  <2>1. limbo[i] = {}
    BY <1>2 DEF Inv, SizeRight, SizeOK, Sizing
  <2>2. InodeOK(i)'
    BY <1>2, <1>5, <1>7, <2>1 DEF InodeOK, Orphan
  <2> QED
    BY <2>2
<1>14. BlocksApart'
  <2>1. ASSUME NEW j \in Inodes, ~IsFree(j)'
        PROVE  ino'[j].blocks \subseteq (IF IsFree(j) THEN {} ELSE ino[j].blocks)
    <3>1. ino'[j] = ino[j]
      BY <1>4, <1>5, <2>1
    <3> QED
      BY <2>1, <3>1 DEF IsFree
  <2> QED
    BY <1>2, <1>7, <2>1, BlocksSame
<1> QED
  BY <1>6, <1>9, <1>10, <1>11, <1>12, <1>13, <1>14, LocalStep

\* A call between two others that has changed nothing but the blocks in use.
LEMMA NothingStep ==
  ASSUME Inv, NEW c \in Clients, phase = "mounted", task[c] = Idle, calls \in Nat, calls' = calls + 1,
         UNCHANGED <<ent, ino, limbo, table, list, saved, hint, open, task, system>>,
         inuse \subseteq inuse', inuse' \subseteq Blocks
  PROVE  Inv'
<1>1. Types'
  BY DEF Inv, Types, list, system, mount
<1>2. /\ open' = open /\ ino' = ino /\ table' = table /\ listed' = listed /\ task' = task
  BY DEF list
<1>3. ClientOK(c)' /\ task'[c].pc \notin Given /\ task'[c].locks = {}
  <2>1. OpenOK(c)'
    BY <1>2 DEF Inv, OpenRight, OpenOK, IsFree
  <2> QED
    BY <1>2, <2>1, IdleClient
<1> PICK X : X = {}
  OBVIOUS
<1> QED
  BY <1>1, <1>2, <1>3, QuietStep

\* A file gets another name.
LEMMA LinkOkStep ==
  ASSUME Inv, NEW c \in Clients, NEW d \in Inodes, NEW n \in Names, NEW i \in Inodes,
         NEW more, more \subseteq FreeBlocks, NEW grown \in Nat,
         Ready(c, {d, i}), d \in LiveDirs, Lookup(d, n) = 0,
         i \in InTable, ~IsDir(i), Entries(i) # {},
         inuse' = inuse \cup more, ent' = [ent EXCEPT ![d][n] = i],
         NEW new \in InodeRec, new.kind = ino[i].kind, new.nlink = ino[i].nlink + 1, new.dtime = ino[i].dtime,
         new.blocks = ino[i].blocks,
         NEW kind, kind # "dir", ino' = MadeOf(i, d, new, kind, more, grown),
         calls' = calls + 1, UNCHANGED <<limbo, table, list, saved, hint, open, task, system>>
  PROVE  Inv'
<1>1. /\ Types /\ NamesRight /\ phase = "mounted" /\ task[c] = Idle /\ d \notin Locked /\ ent[d][n] = 0
      /\ calls \in Nat /\ i \notin Locked /\ i <= table.count
  BY DEF Ready, Inv, Lookup, Types, InTable
<1>2. Named(i) /\ ino[i].nlink > 0 /\ ~IsFree(i) /\ i # Root /\ InodeOK(i)
  BY <1>1, EntriesAreNames, InodesRight
<1>3. /\ \A y \in Clients : task[y].pc \in Given => task[y].ino # i
      /\ \A y \in Clients : i \notin task[y].locks
  BY <1>1, <1>2, LockedStays DEF Locked
<1>4. /\ d \in Inodes /\ d <= table.count /\ IsDir(d) /\ ino[d].nlink > 0 /\ ino[d].nlink # 0 /\ ~IsFree(d)
      /\ d = Root \/ Named(d)
      /\ \A y \in Clients : open[y] # d
      /\ \A y \in Clients : task[y].pc \in Given => task[y].ino # d
      /\ \A y \in Clients : d \notin task[y].locks
      /\ InodeOK(d)
  BY <1>1, DirIsNobodys
<1>5. i # d /\ more \subseteq Blocks
  BY <1>4 DEF FreeBlocks
<1>6. /\ ent \in [Inodes -> [Names -> 0 .. MaxIno]] /\ ino \in [Inodes -> InodeRec]
      /\ new \in InodeRec /\ new.kind = ino[i].kind /\ new.nlink = ino[i].nlink + 1 /\ new.dtime = ino[i].dtime
      /\ new.blocks = ino[i].blocks /\ new.nlink > 0 /\ new.nlink # 0
  <2>1. ent \in [Inodes -> [Names -> 0 .. MaxIno]] /\ ino \in [Inodes -> InodeRec]
    BY <1>1 DEF Types
  <2>2. ino[i].nlink \in Nat
    BY <1>1, InodeTypes
  <2> QED
    BY <2>1, <2>2
<1>7. /\ ino' \in [Inodes -> InodeRec] /\ ino'[i] = new
      /\ ino'[d].kind = ino[d].kind /\ ino'[d].dtime = ino[d].dtime
      /\ ino'[d].nlink = ino[d].nlink
      /\ ino'[d].blocks = ino[d].blocks \cup more
      /\ \A j \in Inodes \ {i, d} : ino'[j] = ino[j]
  <2>2. /\ ino' \in [Inodes -> InodeRec] /\ ino'[i] = new
        /\ ino'[d].kind = ino[d].kind /\ ino'[d].dtime = ino[d].dtime
        /\ ino'[d].nlink = (IF kind = "dir" THEN ino[d].nlink + 1 ELSE ino[d].nlink)
        /\ ino'[d].blocks = ino[d].blocks \cup more
        /\ \A j \in Inodes \ {i, d} : ino'[j] = ino[j]
    <3>1. /\ i \in Inodes /\ d \in Inodes /\ i # d /\ new \in InodeRec /\ more \subseteq Blocks
          /\ grown \in Nat /\ ino \in [Inodes -> InodeRec]
      BY <1>4, <1>5, <1>6
    <3> QED
      BY <3>1, MadeInodes
  <2> QED
    BY <2>2
<1>8. /\ ent' \in [Inodes -> [Names -> 0 .. MaxIno]]
      /\ \A p \in Inodes, m \in Names : ent'[p][m] = IF p = d /\ m = n THEN i ELSE ent[p][m]
  <2>1. i \in 0 .. MaxIno
    BY Consts
  <2> QED
    BY <1>6, <2>1
<1>9. Types'
  <2>1. inuse' \subseteq Blocks /\ calls' \in Nat
    BY <1>1, <1>5 DEF Types
  <2> QED
    BY <1>1, <1>7, <1>8, <2>1 DEF Types, list, system, mount
<1>10. /\ task' = task /\ open' = open /\ limbo' = limbo /\ leaked' = leaked /\ tsize' = tsize /\ listed' = listed
       /\ lost' = lost /\ phase' = phase /\ saved' = saved /\ cur' = cur /\ table' = table /\ Leaving' = Leaving
  BY DEF list, system, mount, Leaving
<1>11. NewName(d, n, i)
  <2>1. \A j \in Inodes \ {i} :
           /\ ino'[j].kind = ino[j].kind /\ ino'[j].dtime = ino[j].dtime
           /\ ino'[j].nlink = IF j = d /\ ino'[i].kind = "dir" THEN ino[j].nlink + 1 ELSE ino[j].nlink
    BY <1>6, <1>7 DEF IsDir
  <2>2. ino'[i].kind = ino[i].kind /\ ino'[i].dtime = ino[i].dtime /\ ino'[i].nlink = ino[i].nlink + 1
    BY <1>6, <1>7
  <2>3. table.count <= table'.count /\ i <= table'.count
    BY <1>1, <1>10, CountTypes
  <2> QED
    BY <1>1, <1>2, <1>8, <1>10, <2>1, <2>2, <2>3 DEF NewName
<1>12. Space'
  BY <1>1, <1>9, <1>11, NewNameKeepsSpace DEF Inv, Space
<1>13. WaysKept(c)
  BY <1>11, WaysNewName
<1> PICK X : X = {i, d}
  OBVIOUS
<1>14. \A j \in Inodes : /\ ino'[j].kind = ino[j].kind /\ ino'[j].dtime = ino[j].dtime
                         /\ ino[j].nlink > 0 => ino'[j].nlink > 0 /\ ino'[j].nlink # 0
                         /\ ino'[j].nlink = 0 => ino[j].nlink = 0
                         /\ (IsFree(j)' <=> IsFree(j))
  <2>1. SUFFICES ASSUME NEW j \in Inodes
                 PROVE  /\ ino'[j].kind = ino[j].kind /\ ino'[j].dtime = ino[j].dtime
                        /\ ino[j].nlink > 0 => ino'[j].nlink > 0 /\ ino'[j].nlink # 0
                        /\ ino'[j].nlink = 0 => ino[j].nlink = 0
                        /\ (IsFree(j)' <=> IsFree(j))
    OBVIOUS
  <2>2. ino[j].nlink \in Nat
    BY <1>1, InodeTypes
  <2>3. CASE j = i
    BY <1>2, <1>6, <1>7, <2>2, <2>3 DEF IsFree
  <2>4. CASE j = d
    BY <1>4, <1>7, <2>2, <2>4 DEF IsFree
  <2>5. CASE j # i /\ j # d
    BY <1>7, <2>2, <2>5 DEF IsFree
  <2> QED
    BY <2>3, <2>4, <2>5
<1>15. OpenRight'
  <2>1. SUFFICES ASSUME NEW x \in Clients PROVE OpenOK(x)'
    BY DEF OpenRight
  <2> PICK o : o = open[x]
    OBVIOUS
  <2>2. OpenOK(x) /\ (o # 0 => o \in Inodes)
    BY <1>1, TaskTypes DEF Inv, OpenRight
  <2> QED
    BY <1>10, <1>14, <2>2 DEF OpenOK
<1>16. Local(c, X)
  <2>1. \A j \in Inodes \ X : /\ ino'[j] = ino[j]
                              /\ \A m \in Names : ent'[j][m] = ent[j][m]
                              /\ Named(j)' => Named(j)
    <3>1. SUFFICES ASSUME NEW j \in Inodes, j # i, j # d
                   PROVE  /\ ino'[j] = ino[j]
                          /\ \A m \in Names : ent'[j][m] = ent[j][m]
                          /\ Named(j)' => Named(j)
      OBVIOUS
    <3>2. ino'[j] = ino[j] /\ \A m \in Names : ent'[j][m] = ent[j][m]
      BY <1>7, <1>8, <3>1
    <3>3. Named(j)' => Named(j)
      <4>1. ASSUME NEW p \in Inodes, NEW m \in Names, ent'[p][m] = j PROVE ent[p][m] = j
        <5>1. ent'[p][m] = IF p = d /\ m = n THEN i ELSE ent[p][m]
          BY <1>8
        <5> QED
          BY <3>1, <4>1, <5>1, Zenon
      <4> QED
        BY <4>1 DEF Named
    <3> QED
      BY <3>2, <3>3
  <2>2. \A j \in X : Named(j) => ino'[j].kind = ino[j].kind
    BY <1>14
  <2>3. \A x \in Clients \ {c} : task[x].pc \in Sizing \cup {"commit"} => task[x].locks \cap X = {}
    BY <1>3, <1>4
  <2>4. \A x \in Clients \ {c} : task[x].pc \in Given => task[x].ino \notin X
    BY <1>3, <1>4
  <2>5. ASSUME NEW j \in X, NEW x \in Clients \ {c}, open[x] = j
        PROVE  /\ ino'[j].kind = ino[j].kind /\ ~IsFree(j)'
               /\ ino'[j].nlink = 0 => Contains(listed', j)
    <3>1. j \in Inodes /\ j # 0 /\ OpenOK(x)
      BY Consts DEF Inv, OpenRight
    <3>2. ~IsFree(j) /\ (ino[j].nlink = 0 => Contains(listed, j))
      BY <2>5, <3>1 DEF OpenOK
    <3> QED
      BY <1>10, <1>14, <3>1, <3>2
  <2>6. task[c].pc = "idle" /\ X \subseteq Inodes /\ table.count <= table'.count
    BY <1>1, <1>10, CountTypes DEF Idle
  <2> QED
    BY <1>1, <1>10, <2>1, <2>2, <2>3, <2>4, <2>5, <2>6 DEF Local
<1>17. ClientOK(c)' /\ task'[c].pc \notin Given /\ task'[c].locks = {}
  BY <1>1, <1>10, <1>15, IdleClient DEF OpenRight
<1>18. SameList' /\ ListShape'
  <2>1. task'[c] = task[c]
    BY <1>10
  <2> QED
    BY <1>16, <2>1, ListKept DEF ListShape
<1>19. \A j \in X : InodeOK(j)'
  <2>1. ASSUME NEW j \in X PROVE InodeOK(j)'
    <3>1. j \in Inodes /\ InodeOK(j) /\ ino[j].nlink > 0
      BY <1>2, <1>4
    <3>2. ino'[j].nlink # 0 /\ (IsFree(j)' <=> IsFree(j))
      BY <1>14, <3>1
    <3>3. ino[j].nlink # 0
      BY <1>1, <3>1, InodeTypes
    <3> QED
      BY <1>10, <3>1, <3>2, <3>3 DEF InodeOK, Orphan
  <2> QED
    BY <2>1
<1>20. BlocksApart'
  <2> DEFINE N == [j \in Inodes |-> IF j = d THEN more ELSE {}]
  <2> PICK NT : NT = {}
    OBVIOUS
  <2>1. N[d] = more /\ \A j \in Inodes \ {d} : N[j] = {}
    OBVIOUS
  <2> HIDE DEF N
  <2>2. \A j \in Inodes : N[j] \subseteq FreeBlocks /\ N[j] \cap NT = {} /\ N[j] \subseteq inuse'
    BY <2>1
  <2>3. \A j, k \in Inodes : j # k => N[j] \cap N[k] = {}
    BY <2>1
  <2>4. ASSUME NEW j \in Inodes, ~IsFree(j)'
        PROVE  ino'[j].blocks \subseteq N[j] \cup (IF IsFree(j) THEN {} ELSE ino[j].blocks)
    <3>1. ~IsFree(j)
      BY <1>14, <2>4
    <3>2. CASE j = d
      BY <1>7, <2>1, <3>1, <3>2
    <3>3. CASE j # d
      BY <1>6, <1>7, <2>1, <3>1, <3>3
    <3> QED
      BY <3>2, <3>3
  <2>5. NT \subseteq FreeBlocks /\ table'.blocks \subseteq table.blocks \cup NT /\ inuse \cup NT \subseteq inuse'
    BY <1>10
  <2> QED
    BY <1>1, <1>10, <2>2, <2>3, <2>4, <2>5, BlocksGrow
<1> QED
  BY <1>9, <1>12, <1>13, <1>16, <1>17, <1>18, <1>19, <1>20, LocalStep

\* Pmfs_link.
LEMMA LinkStep ==
  ASSUME Inv, NEW c \in Clients, NEW d \in Inodes, NEW n \in Names, NEW i \in Inodes, Link(c, d, n, i)
  PROVE  Inv'
<1> PICK more : more = Lowest(FreeBlocks, Growth(d))
  OBVIOUS
<1> PICK grown : grown = (Growth(d) + 1) \div 2
  OBVIOUS
<1> PICK new : new = [ino[i] EXCEPT !.nlink = @ + 1]
  OBVIOUS
<1>1. more \subseteq FreeBlocks /\ grown \in Nat
  BY Taken
<1>2. /\ Ready(c, {d, i}) /\ d \in LiveDirs /\ Lookup(d, n) = 0
      /\ i \in InTable /\ ~IsDir(i) /\ Entries(i) # {}
      /\ inuse' = inuse \cup more /\ calls' = calls + 1
      /\ UNCHANGED <<limbo, table, list, saved, hint, open, task, system>>
  BY DEF Link
<1>3. \/ /\ ent' = [ent EXCEPT ![d][n] = i]
         /\ ino' = [ino EXCEPT ![i].nlink = @ + 1, ![d].blocks = @ \cup more, ![d].size = @ + grown]
      \/ UNCHANGED <<ent, ino>>
  BY DEF Link
<1>6. /\ new \in InodeRec /\ new.kind = ino[i].kind /\ new.nlink = ino[i].nlink + 1 /\ new.dtime = ino[i].dtime
      /\ new.blocks = ino[i].blocks
  <2>1. ino \in [Inodes -> InodeRec]
    BY DEF Inv, Types
  <2> PICK o : o = ino[i]
    OBVIOUS
  <2>2. PICK k, l, t, s, b : o = [kind |-> k, nlink |-> l, dtime |-> t, size |-> s, blocks |-> b]
                             /\ k \in {"none", "file", "dir", "link", "node"} /\ l \in Nat /\ t \in BOOLEAN
                             /\ s \in Nat /\ b \in SUBSET Blocks
    BY <2>1 DEF InodeRec
  <2>3. new = [kind |-> k, nlink |-> l + 1, dtime |-> t, size |-> s, blocks |-> b]
    BY <2>2
  <2>4. l + 1 \in Nat
    BY <2>2
  <2>5. new \in InodeRec
    BY <2>2, <2>3, <2>4 DEF InodeRec
  <2> QED
    BY <2>1, <2>2, <2>3, <2>4, <2>5
<1>4. CASE /\ ent' = [ent EXCEPT ![d][n] = i]
           /\ ino' = [ino EXCEPT ![i].nlink = @ + 1, ![d].blocks = @ \cup more, ![d].size = @ + grown]
  <2>1. i # d /\ ino \in [Inodes -> InodeRec]
    BY <1>2, LiveDirsAre DEF Inv, Types
  <2>2. ino' = MadeOf(i, d, new, "file", more, grown)
    <3> PICK o : o = ino[d]
      OBVIOUS
    <3> PICK f : f = [ino EXCEPT ![i] = new]
      OBVIOUS
    <3>1. f[d] = o /\ o \in InodeRec /\ f \in [Inodes -> {f[j] : j \in Inodes}]
      BY <2>1
    <3>2. ino' = [f EXCEPT ![d] = [o EXCEPT !.blocks = @ \cup more, !.size = @ + grown]]
      BY <1>4, <2>1, <3>1
    <3>3. MadeOf(i, d, new, "file", more, grown)
            = [f EXCEPT ![d] = [o EXCEPT !.nlink = @, !.blocks = @ \cup more, !.size = @ + grown]]
      BY <2>1, <3>1 DEF MadeOf
    <3>4. [o EXCEPT !.nlink = @, !.blocks = @ \cup more, !.size = @ + grown]
            = [o EXCEPT !.blocks = @ \cup more, !.size = @ + grown]
      BY <3>1 DEF InodeRec
    <3> QED
      BY <3>2, <3>3, <3>4
  <2> QED
    <3>1. /\ ent' = [ent EXCEPT ![d][n] = i] /\ ino' = MadeOf(i, d, new, "file", more, grown)
          /\ UNCHANGED <<limbo, table, list, saved, hint, open, task, system>>
      BY <1>2, <1>4, <2>2
    <3>2. "file" # "dir"
      OBVIOUS
    <3> QED
      BY <1>1, <1>2, <1>6, <3>1, <3>2, LinkOkStep, Zenon
<1>5. CASE UNCHANGED <<ent, ino>>
  <2>1. phase = "mounted" /\ task[c] = Idle /\ calls \in Nat /\ inuse \subseteq inuse' /\ inuse' \subseteq Blocks
    BY <1>1, <1>2 DEF Ready, Inv, Types, FreeBlocks
  <2> QED
    BY <1>2, <1>5, <2>1, NothingStep
<1> QED
  BY <1>3, <1>4, <1>5
-----------------------------------------------------------------------------
(***************************************************************************)
(* Names that go away.                                                     *)
(***************************************************************************)
\* The inodes after the transaction of a removal.
CommitIno(d, e, i, v, more) ==
  [j \in Inodes |-> [ino[j] EXCEPT !.nlink = LinksOf(d, e, i, v)[j],
     !.blocks = IF j = e THEN @ \cup more ELSE @,
     !.size = IF j = e THEN @ + (Cardinality(more) + 1) \div 2 ELSE @]]

\* No directory loses more links than it has.
LEMMA GoingLinksType ==
  ASSUME Types, Space, NEW d, NEW n, NEW e, NEW m, NEW i, NEW v, CanGo(d, n, e, m, i, v),
         NEW j \in Inodes
  PROVE  /\ LinksOf(d, e, i, v)[j] \in Nat
         /\ j # i /\ j # d /\ j # e => LinksOf(d, e, i, v)[j] = ino[j].nlink
<1> PICK l : l = LinksOf(d, e, i, v)[j]
  OBVIOUS
<1> PICK k : k = ino[j].nlink
  OBVIOUS
<1>1. /\ j = i /\ ~IsDir(i) => l = k - 1
      /\ j = i /\ IsDir(i) => l \in Nat
      /\ j # i /\ j # d /\ j # e => l = k
      /\ j # i /\ ~(v = 0 /\ IsDir(i)) /\ ~(v # 0 /\ i = 0 /\ IsDir(v)) => l = k
      /\ j # i /\ v = 0 /\ IsDir(i) /\ j = d => l = k - 1
      /\ v # 0 /\ i = 0 /\ IsDir(v) => l = k + (IF j = e THEN 1 ELSE 0) - (IF j = d THEN 1 ELSE 0)
  BY GoingLinks
<1>2. k \in Nat /\ (j = i \/ j = d \/ j = e => k > 0) /\ (v = 0 => d = e)
  <2>1. k \in Nat
    BY InodeTypes
  <2>2. j # 0 /\ (v = 0 => d = e)
    BY Consts DEF CanGo
  <2> QED
    BY <2>1, <2>2, GoingInodes
<1>3. l \in Nat
  <2>1. CASE j = i
    BY <1>1, <1>2, <2>1
  <2>2. CASE j # i /\ j # d /\ j # e
    BY <1>1, <1>2, <2>2
  <2>3. CASE j # i /\ (j = d \/ j = e)
    <3>1. CASE v = 0 /\ IsDir(i)
      BY <1>1, <1>2, <2>3, <3>1
    <3>2. CASE v # 0 /\ i = 0 /\ IsDir(v)
      BY <1>1, <1>2, <2>3, <3>2
    <3> QED
      BY <1>1, <1>2, <2>3, <3>1, <3>2
  <2> QED
    BY <2>1, <2>2, <2>3
<1> QED
  BY <1>1, <1>3

\* An inode with other links, blocks and another size.
Edited(o, l, b, s) == [o EXCEPT !.nlink = l, !.blocks = b, !.size = s]

\* Its fields.
LEMMA EditedInode ==
  ASSUME NEW o \in InodeRec, NEW l \in Nat, NEW b \in SUBSET Blocks, NEW s \in Nat,
         NEW r, r = Edited(o, l, b, s)
  PROVE  /\ r \in InodeRec /\ r.kind = o.kind /\ r.dtime = o.dtime /\ r.nlink = l /\ r.blocks = b
         /\ l = o.nlink /\ b = o.blocks /\ s = o.size => r = o
<1>1. PICK k, y, t, z, a : o = [kind |-> k, nlink |-> y, dtime |-> t, size |-> z, blocks |-> a]
                           /\ k \in {"none", "file", "dir", "link", "node"} /\ t \in BOOLEAN
  BY DEF InodeRec
<1>2. r = [kind |-> k, nlink |-> l, dtime |-> t, size |-> s, blocks |-> b]
  BY <1>1 DEF Edited
<1>3. r \in InodeRec
  BY <1>1, <1>2 DEF InodeRec
<1> QED
  BY <1>1, <1>2, <1>3

\* What the fields of the inodes are after a removal.
Committed(d, e, i, v, more) ==
  /\ ino' \in [Inodes -> InodeRec]
  /\ \A j \in Inodes :
       /\ ino'[j].kind = ino[j].kind /\ ino'[j].dtime = ino[j].dtime
       /\ ino'[j].nlink = LinksOf(d, e, i, v)[j]
       /\ ino'[j].blocks = IF j = e THEN ino[j].blocks \cup more ELSE ino[j].blocks
  /\ \A j \in Inodes \ {d, e, i} : ino'[j] = ino[j]

\* The fields of the inodes after a removal.
LEMMA CommitInodes ==
  ASSUME Types, Space, NEW d, NEW n, NEW e, NEW m, NEW i, NEW v, CanGo(d, n, e, m, i, v),
         NEW more, more \subseteq Blocks, ino' = CommitIno(d, e, i, v, more)
  PROVE  Committed(d, e, i, v, more)
<1> PICK grown : grown = (Cardinality(more) + 1) \div 2
  OBVIOUS
<1>1. grown \in Nat
  BY BlocksCount
<1>2. ASSUME NEW j \in Inodes
      PROVE  /\ ino'[j] \in InodeRec
             /\ ino'[j].kind = ino[j].kind /\ ino'[j].dtime = ino[j].dtime
             /\ ino'[j].nlink = LinksOf(d, e, i, v)[j]
             /\ ino'[j].blocks = IF j = e THEN ino[j].blocks \cup more ELSE ino[j].blocks
             /\ j # d /\ j # e /\ j # i => ino'[j] = ino[j]
  <2> PICK l : l = LinksOf(d, e, i, v)[j]
    OBVIOUS
  <2> PICK o : o = ino[j]
    OBVIOUS
  <2>1. l \in Nat /\ (j # d /\ j # e /\ j # i => l = ino[j].nlink)
    BY GoingLinksType
  <2>2. o \in InodeRec
    BY InodeTypes
  <2> PICK b : b = IF j = e THEN o.blocks \cup more ELSE o.blocks
    OBVIOUS
  <2> PICK s : s = IF j = e THEN o.size + grown ELSE o.size
    OBVIOUS
  <2>3. b \in SUBSET Blocks /\ s \in Nat
    BY <1>1, <2>2 DEF InodeRec
  <2>4. ino'[j] = Edited(o, l, b, s)
    BY DEF CommitIno, Edited
  <2> PICK r : r = ino'[j]
    OBVIOUS
  <2>5. /\ r \in InodeRec /\ r.kind = o.kind /\ r.dtime = o.dtime /\ r.nlink = l /\ r.blocks = b
        /\ l = o.nlink /\ b = o.blocks /\ s = o.size => r = o
    BY <2>1, <2>2, <2>3, <2>4, EditedInode
  <2>6. ASSUME j # d, j # e, j # i PROVE r = o
    BY <2>1, <2>5, <2>6
  <2> QED
    BY <2>5, <2>6
<1>3. ino' \in [Inodes -> InodeRec]
  BY <1>2 DEF CommitIno
<1> QED
  BY <1>2, <1>3 DEF Committed

\* A removal spoils nothing for a rename that waits, as only one at a time may move names
\* between directories.
LEMMA WaysGone ==
  ASSUME Inv, NEW c \in Clients, NEW d, NEW n, NEW e, NEW m, NEW i, NEW v, CanGo(d, n, e, m, i, v),
         \A p \in Inodes, k \in Names :
           ent'[p][k] = IF p = d /\ k = n THEN 0 ELSE IF p = e /\ k = m THEN v ELSE ent[p][k],
         d # e => \A x \in Clients \ {c} : task[x].pc = "commit" => -1 \notin task[x].locks
  PROVE  WaysKept(c)
<1>1. SUFFICES ASSUME NEW x \in Clients \ {c}, NEW r, r = task[x], r.pc = "commit", r.moved # 0, IsDir(r.moved),
                      r.d # r.e
               PROVE  \E T \in SUBSET Inodes : r.e \in T /\ Up(T)' /\ r.moved \notin T
  BY DEF WaysKept
<1>2. PICK T \in SUBSET Inodes : r.e \in T /\ Up(T) /\ r.moved \notin T
  BY <1>1 DEF Inv, CommitRight, CommitOK
<1>3. d = e
  <2>1. -1 \in r.locks
    BY <1>1 DEF Inv, CommitRight, CommitOK
  <2> QED
    BY <1>1, <2>1
<1>4. Up(T)'
  <2>1. ASSUME NEW p \in Inodes, NEW k \in Names, ent'[p][k] \in T PROVE p \in T
    <3>1. CASE p = e /\ k = m /\ ~(p = d /\ k = n)
      <4>1. v # 0 /\ v \in T /\ d \in Inodes /\ n \in Names /\ ent[d][n] = v
        BY <2>1, <3>1, Consts DEF CanGo
      <4> QED
        BY <1>2, <1>3, <3>1, <4>1 DEF Up
    <3>2. CASE ~(p = e /\ k = m /\ ~(p = d /\ k = n))
      <4>1. ent[p][k] \in T
        BY <2>1, <3>2, Consts
      <4> QED
        BY <1>2, <4>1 DEF Up
    <3> QED
      BY <3>1, <3>2
  <2> QED
    BY <2>1 DEF Up
<1> QED
  BY <1>2, <1>4

\* A step that gives blocks to one directory.
LEMMA OneGrows ==
  ASSUME Inv, phase = "mounted", phase' = "mounted", lost' = lost, saved' = saved,
         NEW e \in Inodes, NEW more, more \subseteq FreeBlocks,
         \A j \in Inodes : ~IsFree(j)' => ~IsFree(j),
         \A j \in Inodes \ {e} : ino'[j].blocks = ino[j].blocks,
         ino'[e].blocks = ino[e].blocks \cup more, table' = table, inuse' = inuse \cup more
  PROVE  BlocksApart'
<1> DEFINE N == [j \in Inodes |-> IF j = e THEN more ELSE {}]
<1> PICK NT : NT = {}
  OBVIOUS
<1>1. N[e] = more /\ \A j \in Inodes \ {e} : N[j] = {}
  OBVIOUS
<1> HIDE DEF N
<1>2. \A j \in Inodes : N[j] \subseteq FreeBlocks /\ N[j] \cap NT = {} /\ N[j] \subseteq inuse'
  BY <1>1
<1>3. \A j, k \in Inodes : j # k => N[j] \cap N[k] = {}
  BY <1>1
<1>4. ASSUME NEW j \in Inodes, ~IsFree(j)'
      PROVE  ino'[j].blocks \subseteq N[j] \cup (IF IsFree(j) THEN {} ELSE ino[j].blocks)
  <2>1. ~IsFree(j)
    BY <1>4
  <2>2. CASE j = e
    BY <1>1, <2>1, <2>2
  <2>3. CASE j # e
    BY <1>1, <2>1, <2>3
  <2> QED
    BY <2>2, <2>3
<1>5. NT \subseteq FreeBlocks /\ table'.blocks \subseteq table.blocks \cup NT /\ inuse \cup NT \subseteq inuse'
  OBVIOUS
<1> QED
  BY <1>2, <1>3, <1>4, <1>5, BlocksGrow
\* What the commit of a removal does, field by field.
CommitsAs(c, d, n, e, m, i, v, more) ==
  /\ ent' \in [Inodes -> [Names -> 0 .. MaxIno]]
  /\ \A p \in Inodes, k \in Names :
       ent'[p][k] = IF p = d /\ k = n THEN 0 ELSE IF p = e /\ k = m THEN v ELSE ent[p][k]
  /\ ino' = CommitIno(d, e, i, v, more) /\ inuse' = inuse \cup more
  /\ leaked' = leaked \cup {j \in {i} \cap Inodes : IsDir(j) /\ LinksOf(d, e, i, v)[j] > 0}
  /\ \E t : /\ task' = [task EXCEPT ![c] = t]
            /\ t = Idle \/ (t = [pc |-> "evict", ino |-> i, locks |-> {}] /\ i # 0
                            /\ LinksOf(d, e, i, v)[i] = 0 /\ \A x \in Clients : open[x] # i)

\* No other call has locked what a removal needs.
Undisturbed(c, d, e, i) ==
  \A x \in Clients \ {c} : task[x].pc \in Sizing \cup {"commit"} =>
    task[x].locks \cap {d, e, i} = {} /\ (d # e => -1 \notin task[x].locks)

\* The transaction of a removal commits: client c, between two calls or waiting for this,
\* is the only one to hold the inodes of it, and an inode that loses its last link is listed.
LEMMA GoneStep ==
  ASSUME Inv, NEW c \in Clients, phase = "mounted",
         NEW d, NEW n, NEW e, NEW m, NEW i, NEW v, CanGo(d, n, e, m, i, v),
         NEW more, more \subseteq FreeBlocks,
         task[c].pc \in {"idle", "commit"}, task[c].pc = "commit" => task[c].ino = i /\ Dropped(i, v) = 0,
         Undisturbed(c, d, e, i), i # 0 /\ Dropped(i, v) = 0 => Contains(listed, i),
         CommitsAs(c, d, n, e, m, i, v, more),
         UNCHANGED <<limbo, table, list, saved, hint, open, mount>>, calls' \in Nat
  PROVE  Inv'
<1>a. \A x \in Clients \ {c} : task[x].pc \in Sizing \cup {"commit"} =>
        task[x].locks \cap {d, e, i} = {} /\ (d # e => -1 \notin task[x].locks)
  BY DEF Undisturbed
<1>b. /\ ent' \in [Inodes -> [Names -> 0 .. MaxIno]]
      /\ \A p \in Inodes, k \in Names :
           ent'[p][k] = IF p = d /\ k = n THEN 0 ELSE IF p = e /\ k = m THEN v ELSE ent[p][k]
      /\ ino' = CommitIno(d, e, i, v, more) /\ inuse' = inuse \cup more
      /\ leaked' = leaked \cup {j \in {i} \cap Inodes : IsDir(j) /\ LinksOf(d, e, i, v)[j] > 0}
  BY DEF CommitsAs
<1>c. PICK t : /\ task' = [task EXCEPT ![c] = t]
               /\ t = Idle \/ (t = [pc |-> "evict", ino |-> i, locks |-> {}] /\ i # 0
                               /\ LinksOf(d, e, i, v)[i] = 0 /\ \A x \in Clients : open[x] # i)
  BY DEF CommitsAs
<1>d. t = Idle \/ (t = [pc |-> "evict", ino |-> i, locks |-> {}] /\ i # 0
                   /\ Dropped(i, v) = 0 /\ \A x \in Clients : open[x] # i)
  <2>1. Types /\ Space
    BY DEF Inv, Space
  <2>2. i # 0 => i \in Inodes
    BY <2>1, GoingInodes
  <2>3. i # 0 => LinksOf(d, e, i, v)[i] = Dropped(i, v)
    BY <2>2 DEF LinksOf
  <2>4. CASE t = Idle
    BY <2>4
  <2>5. CASE t # Idle
    BY <1>c, <2>3, <2>5
  <2> QED
    BY <2>4, <2>5
<1> USE <1>a, <1>b, <1>d
<1>1. Types /\ Space /\ more \subseteq Blocks /\ task \in [Clients -> Tasks]
  BY DEF Inv, Space, FreeBlocks, Types
<1>2. /\ d \in Inodes /\ e \in Inodes /\ n \in Names /\ m \in Names
      /\ IsDir(d) /\ IsDir(e) /\ ino[d].nlink > 0 /\ ino[e].nlink > 0
      /\ d = Root \/ Named(d)
      /\ e = Root \/ Named(e)
      /\ i # 0 => i \in Inodes /\ Named(i) /\ i # Root /\ i <= table.count /\ ino[i].nlink > 0 /\ ~IsFree(i)
      /\ v # 0 => v \in Inodes /\ Named(v)
      /\ d # i /\ e # i /\ v # d /\ v # e
      /\ ent[e][m] = i /\ ent[d][n] = (IF v = 0 THEN i ELSE v)
  <2>1. ent[e][m] = i
    BY DEF CanGo
  <2> QED
    BY <1>1, <2>1, GoingInodes
<1>3. /\ ino' \in [Inodes -> InodeRec]
      /\ \A j \in Inodes :
           /\ ino'[j].kind = ino[j].kind /\ ino'[j].dtime = ino[j].dtime
           /\ ino'[j].nlink = LinksOf(d, e, i, v)[j]
           /\ ino'[j].blocks = IF j = e THEN ino[j].blocks \cup more ELSE ino[j].blocks
      /\ \A j \in Inodes \ {d, e, i} : ino'[j] = ino[j]
  <2>1. Committed(d, e, i, v, more)
    BY <1>1, CommitInodes
  <2> QED
    BY <2>1 DEF Committed
<1>4. /\ open' = open /\ limbo' = limbo /\ tsize' = tsize /\ listed' = listed /\ table' = table
      /\ lost' = lost /\ phase' = phase /\ saved' = saved /\ cur' = cur /\ UNCHANGED list
  BY DEF list, mount
<1>5. i \in Inodes => ino'[i].nlink = Dropped(i, v)
  BY <1>3 DEF LinksOf
<1>6. task'[c] = t /\ (\A x \in Clients \ {c} : task'[x] = task[x]) /\ task' \in [Clients -> Tasks]
  <2>1. t \in Tasks
    <3>1. i # 0 => [pc |-> "evict", ino |-> i, locks |-> {}] \in EvictTask
      BY <1>2 DEF EvictTask
    <3> QED
      BY <3>1 DEF Tasks
  <2> QED
    BY <1>1, <1>c, <2>1
<1>7. Types'
  <2>1. inuse' \subseteq Blocks /\ leaked' \subseteq Inodes
    BY <1>1 DEF Types
  <2> QED
    BY <1>1, <1>3, <1>6, <2>1 DEF Types, list, mount
<1>8. Leaving' = Leaving
  <2>1. task[c].pc \notin {"del", "abort"} /\ task'[c].pc \notin {"del", "abort"}
    BY <1>6 DEF Idle
  <2> QED
    BY <1>6, <2>1 DEF Leaving
<1>9. Goes(d, n, e, m, i, v)
  <2>1. leaked' = leaked \cup {j \in {i} \cap Inodes : IsDir(j) /\ ino'[j].nlink > 0}
    BY <1>3
  <2> QED
    BY <1>3, <1>4, <1>8, <2>1 DEF Goes
<1>10. Space'
  BY <1>1, <1>7, <1>9, GoesKeepsSpace
<1>11. WaysKept(c)
  BY WaysGone
\* The names of the other inodes stay, and so does what is not to be evicted.
<1>12. ASSUME NEW j \in Inodes, j # i, Named(j) PROVE Named(j)'
  <2>1. PICK p \in Inodes, k \in Names : ent[p][k] = j
    BY <1>12 DEF Named
  <2>2. CASE j = v
    <3>1. ent'[e][m] = j
      BY <1>2, <1>12, <2>2, Consts DEF CanGo
    <3> QED
      BY <1>2, <3>1 DEF Named
  <2>3. CASE j # v
    <3>1. ent'[p][k] = j
      BY <1>2, <1>12, <2>1, <2>3
    <3> QED
      BY <3>1 DEF Named
  <2> QED
    BY <2>2, <2>3
<1>13. ASSUME NEW j \in Inodes, j # i, j = Root \/ Named(j) PROVE ino'[j].nlink > 0 /\ ino'[j].nlink # 0
  <2>1. ino'[j].nlink > 0
    <3>1. CASE j = Root
      BY <1>10, <3>1 DEF Space, NamesRight
    <3>2. CASE Named(j)
      <4>1. PICK p \in Inodes, k \in Names : ent'[p][k] = j
        BY <1>12, <1>13, <3>2 DEF Named
      <4>2. ent'[p][k] # 0
        BY <4>1, Consts
      <4> QED
        BY <1>10, <4>1, <4>2 DEF Space, NamesRight
    <3> QED
      BY <1>13, <3>1, <3>2
  <2>2. ino'[j].nlink \in Nat
    BY <1>7, InodeTypesAfter
  <2> QED
    BY <2>1, <2>2
<1>14. ASSUME NEW j \in Inodes, Named(j) PROVE ~IsFree(j)'
  BY <1>1, <1>3, <1>14 DEF Space, NamesAlive, IsFree
<1>15. ASSUME NEW j \in Inodes, IsFree(j) PROVE ino'[j] = ino[j]
  <2>1. ino[j].nlink = 0
    BY <1>15 DEF IsFree
  <2>2. j # d /\ j # e /\ j # i
    BY <1>2, <2>1, Consts
  <2> QED
    BY <1>3, <2>2
<1> PICK X : X = {d, e, i} \cap Inodes
  OBVIOUS
<1>16. OpenRight'
  <2>1. SUFFICES ASSUME NEW x \in Clients PROVE OpenOK(x)'
    BY DEF OpenRight
  <2> PICK o : o = open[x]
    OBVIOUS
  <2>2. OpenOK(x) /\ (o # 0 => o \in Inodes)
    BY <1>1, TaskTypes DEF Inv, OpenRight
  <2>3. SUFFICES ASSUME o # 0 PROVE /\ ino'[o].kind = "file" /\ ~IsFree(o)'
                                    /\ ino'[o].nlink = 0 => Contains(listed, o)
    BY <1>4, <2>2 DEF OpenOK
  <2>4. o \in Inodes /\ ino[o].kind = "file" /\ ~IsFree(o) /\ (ino[o].nlink = 0 => Contains(listed, o))
    BY <2>2, <2>3 DEF OpenOK
  <2>5. CASE o = i
    <3>1. Named(i) /\ i \in Inodes /\ i # 0
      BY <1>2, <2>3, <2>5
    <3>2. ~IsFree(i)' /\ ino'[i].kind = "file"
      <4>1. ~IsFree(i)'
        BY <1>14, <3>1
      <4>2. ino'[i].kind = ino[i].kind
        BY <1>3, <3>1
      <4> QED
        BY <2>4, <2>5, <4>1, <4>2
    <3>3. ino'[i].nlink = 0 => Contains(listed, i)
      BY <1>5, <3>1
    <3> QED
      BY <2>5, <3>2, <3>3
  <2>6. CASE o # i
    <3>1. o # d /\ o # e
      BY <1>2, <2>4 DEF IsDir
    <3>2. ino'[o] = ino[o]
      BY <1>3, <2>4, <2>6, <3>1
    <3> QED
      BY <2>4, <3>2 DEF IsFree
  <2> QED
    BY <2>5, <2>6
<1>17. Local(c, X)
  <2>1. \A j \in Inodes \ X : /\ ino'[j] = ino[j]
                              /\ \A k \in Names : ent'[j][k] = ent[j][k]
                              /\ Named(j)' => Named(j)
    <3>1. SUFFICES ASSUME NEW j \in Inodes, j # i, j # d, j # e
                   PROVE  /\ ino'[j] = ino[j]
                          /\ \A k \in Names : ent'[j][k] = ent[j][k]
                          /\ Named(j)' => Named(j)
      BY <1>2
    <3>2. ino'[j] = ino[j] /\ \A k \in Names : ent'[j][k] = ent[j][k]
      BY <1>3, <3>1
    <3>3. Named(j)' => Named(j)
      <4>1. ASSUME NEW p \in Inodes, NEW k \in Names, ent'[p][k] = j PROVE ent[p][k] = j \/ j = v
        <5>1. ent'[p][k] = IF p = d /\ k = n THEN 0 ELSE IF p = e /\ k = m THEN v ELSE ent[p][k]
          OBVIOUS
        <5> QED
          BY <4>1, <5>1, Consts
      <4>2. j = v => Named(j)
        BY <1>2, <3>1, Consts
      <4> QED
        BY <4>1, <4>2 DEF Named
    <3> QED
      BY <3>2, <3>3
  <2>2. \A x \in Clients \ {c} : task[x].pc \in Sizing \cup {"commit"} => task[x].locks \cap X = {}
    OBVIOUS
  <2>3. \A x \in Clients \ {c} : task[x].pc \in Given => task[x].ino \notin X
    BY <1>2, LockedStays, Consts
  <2>4. ASSUME NEW j \in X, NEW x \in Clients \ {c}, open[x] = j
        PROVE  /\ ino'[j].kind = ino[j].kind /\ ~IsFree(j)'
               /\ ino'[j].nlink = 0 => Contains(listed', j)
    <3>1. j \in Inodes /\ j # 0 /\ OpenOK(x)'
      BY <1>16, Consts DEF OpenRight
    <3>2. ~IsFree(j)' /\ (ino'[j].nlink = 0 => Contains(listed', j))
      BY <1>4, <2>4, <3>1 DEF OpenOK
    <3> QED
      BY <1>3, <3>1, <3>2
  <2>5. X \subseteq Inodes /\ table.count <= table'.count
    BY <1>1, <1>4, CountTypes
  <2>6. leaked' \subseteq leaked \cup X
    OBVIOUS
  <2>7. task[c].pc # "idle" => task[c].ino \in X
    BY <1>1, TaskTypes
  <2>8. \A j \in X : Named(j) => ino'[j].kind = ino[j].kind
    BY <1>3
  <2> QED
    BY <1>4, <1>6, <2>1, <2>2, <2>3, <2>4, <2>5, <2>6, <2>7, <2>8 DEF Local
<1>18. ClientOK(c)' /\ (task'[c].pc \in Given => task'[c].ino \in X) /\ task'[c].locks \subseteq task[c].locks
  <2>1. OpenOK(c)'
    BY <1>16 DEF OpenRight
  <2>2. CASE t = Idle
    BY <1>6, <2>1, <2>2, IdleClient
  <2>3. CASE /\ t = [pc |-> "evict", ino |-> i, locks |-> {}] /\ i # 0 /\ Dropped(i, v) = 0
             /\ \A x \in Clients : open[x] # i
    <3>1. t.pc = "evict" /\ t.ino = i /\ t.locks = {} /\ i \in Inodes
      BY <1>2, <2>3
    <3>2. ino'[i].nlink = 0 /\ ~IsFree(i)' /\ Contains(listed', i)
      BY <1>2, <1>4, <1>5, <1>14, <2>3, <3>1
    <3>3. ~Named(i)'
      BY <1>10, <3>1, <3>2, Consts DEF Space, NamesRight, Named
    <3>4. GoneOK(c)'
      BY <1>2, <1>4, <1>6, <2>3, <3>1, <3>2, <3>3 DEF GoneOK, Given, Named, IsFree
    <3>5. CommitOK(c)' /\ SizeOK(c)'
      BY <1>6, <3>1 DEF CommitOK, SizeOK, Sizing
    <3> QED
      BY <1>6, <2>1, <3>1, <3>4, <3>5 DEF ClientOK
  <2> QED
    BY <2>2, <2>3
<1>19. SameList' /\ ListShape'
  <2>1. task[c].pc # "del"
    OBVIOUS
  <2> QED
    BY <1>4, <1>17, <2>1, ListKept DEF ListShape
<1>20. \A j \in X : InodeOK(j)'
  <2>1. SUFFICES ASSUME NEW j \in X PROVE InodeOK(j)'
    OBVIOUS
  <2>2. j \in Inodes /\ InodeOK(j) /\ (j = Root \/ Named(j)) /\ ino[j].nlink > 0 /\ j # 0
    BY <1>2, InodesRight, Consts
  <2>3. ino[j].nlink # 0
    BY <1>1, <2>2, InodeTypes
  <2>4. ~(Contains(listed, j) /\ j # i)
    <3>1. SUFFICES ASSUME Contains(listed, j), j # i PROVE FALSE
      OBVIOUS
    <3>2. PICK x \in Clients : task[x].pc \in Sizing \cup {"commit"} /\ task[x].ino = j
      BY <2>2, <2>3, <3>1 DEF InodeOK
    <3>3. x # c
      BY <3>1, <3>2 DEF Sizing
    <3>4. j \in task[x].locks
      BY <2>2, <3>2, InodesRight
    <3> QED
      BY <3>2, <3>3, <3>4
  <2>5. limbo[j] # {} => \E x \in Clients : task'[x].pc = "size" /\ task'[x].ino = j
    BY <1>6, <2>2 DEF InodeOK
  <2>6. CASE j = i
    <3>1. ~IsFree(j)' /\ (ino'[j].nlink = 0 => Contains(listed, j))
      BY <1>2, <1>5, <1>14, <2>2, <2>6
    <3>2. ASSUME Contains(listed, j), ino'[j].nlink # 0
          PROVE  \E x \in Clients : task'[x].pc \in Sizing \cup {"commit"} /\ task'[x].ino = j
      <4>1. PICK x \in Clients : task[x].pc \in Sizing \cup {"commit"} /\ task[x].ino = j
        BY <2>2, <2>3, <3>2 DEF InodeOK
      <4>2. j \in task[x].locks
        BY <2>2, <4>1, InodesRight
      <4>3. x = c
        BY <2>6, <4>1, <4>2
      <4>4. task[c].pc = "commit"
        BY <4>1, <4>3 DEF Sizing
      <4>5. Dropped(i, v) = 0
        BY <4>4
      <4> QED
        BY <1>5, <2>2, <2>6, <3>2, <4>5
    <3> QED
      BY <1>4, <2>5, <3>1, <3>2 DEF InodeOK, Orphan
  <2>7. CASE j # i
    <3>1. ino'[j].nlink # 0
      BY <1>13, <2>2, <2>7
    <3> QED
      BY <1>4, <2>4, <2>5, <2>7, <3>1 DEF InodeOK, Orphan
  <2> QED
    BY <2>6, <2>7
<1>21. BlocksApart'
  <2>1. \A j \in Inodes : ~IsFree(j)' => ~IsFree(j)
    BY <1>15 DEF IsFree
  <2>2. phase' = "mounted" /\ lost' = lost /\ saved' = saved /\ table' = table /\ e \in Inodes
    BY <1>2, <1>4
  <2>3. /\ \A j \in Inodes \ {e} : ino'[j].blocks = ino[j].blocks
        /\ ino'[e].blocks = ino[e].blocks \cup more
    BY <1>3, <2>2
  <2> QED
    BY <2>1, <2>2, <2>3, OneGrows
<1> QED
  BY <1>7, <1>10, <1>11, <1>17, <1>18, <1>19, <1>20, <1>21, LocalStep

\* What the commit of a removal does, field by field.
LEMMA CommitIs ==
  ASSUME Types, NEW c \in Clients, NEW r, NEW more, Commit(c, r, more),
         NEW d \in Inodes, NEW n \in Names, NEW e \in Inodes, NEW m \in Names, NEW i, NEW v \in 0 .. MaxIno,
         d = r.d, n = r.n, e = r.e, m = r.m, i = r.ino, v = r.moved, v = 0 => d = e /\ n = m,
         v # 0 /\ i # 0 /\ IsDir(i) => IsDir(v)
  PROVE  CommitsAs(c, d, n, e, m, i, v, more)
<1>1. ent' = IF v = 0 THEN [ent EXCEPT ![d][n] = 0] ELSE [ent EXCEPT ![e][m] = v, ![d][n] = 0]
  BY DEF Commit
<1>2. ent \in [Inodes -> [Names -> 0 .. MaxIno]] /\ 0 \in 0 .. MaxIno
  BY Consts DEF Types
<1>3. ent' \in [Inodes -> [Names -> 0 .. MaxIno]]
  BY <1>1, <1>2
<1>4. \A p \in Inodes, k \in Names :
        ent'[p][k] = IF p = d /\ k = n THEN 0 ELSE IF p = e /\ k = m THEN v ELSE ent[p][k]
  <2>1. CASE v = 0
    BY <1>1, <1>2, <2>1
  <2>2. CASE v # 0
    BY <1>1, <1>2, <2>2
  <2> QED
    BY <2>1, <2>2
<1>5. ino' = CommitIno(d, e, i, v, more) /\ inuse' = inuse \cup more
  BY DEF Commit, CommitIno
<1>6. leaked' = leaked \cup {j \in {i} \cap Inodes : IsDir(j) /\ LinksOf(d, e, i, v)[j] > 0}
  <2>1. leaked' = leaked \cup {j \in {i} \cap Inodes : IsDir(j) /\ v # 0 /\ ino[j].nlink > 2}
    BY DEF Commit
  <2>2. ASSUME i \in Inodes, IsDir(i) PROVE v # 0 /\ ino[i].nlink > 2 <=> LinksOf(d, e, i, v)[i] > 0
    <3>1. LinksOf(d, e, i, v)[i] = Dropped(i, v)
      BY <2>2 DEF LinksOf
    <3>2. CASE v = 0
      BY <2>2, <3>1, <3>2 DEF Dropped
    <3>3. CASE v # 0
      <4>1. IsDir(v)
        BY <2>2, <3>3, Consts
      <4> PICK k : k = ino[i].nlink
        OBVIOUS
      <4>2. k \in Nat
        BY <2>2, InodeTypes
      <4>3. Dropped(i, v) = Max({0, k - 2})
        BY <2>2, <3>3, <4>1 DEF Dropped
      <4>4. Dropped(i, v) = IF k - 2 > 0 THEN k - 2 ELSE 0
        BY <4>2, <4>3, MaxWithZero
      <4> QED
        BY <3>1, <3>3, <4>2, <4>4
    <3> QED
      BY <3>2, <3>3
  <2> QED
    BY <2>1, <2>2
<1>7. \E t : /\ task' = [task EXCEPT ![c] = t]
             /\ t = Idle \/ (t = [pc |-> "evict", ino |-> i, locks |-> {}] /\ i # 0
                             /\ LinksOf(d, e, i, v)[i] = 0 /\ \A x \in Clients : open[x] # i)
  <2> PICK ev : ev = [Idle EXCEPT !.pc = "evict", !.ino = i]
    OBVIOUS
  <2>3. task' = [task EXCEPT ![c] = IF i # 0 /\ LinksOf(d, e, i, v)[i] = 0 /\ InUseBy(i) = {} THEN ev ELSE Idle]
    BY Zenon DEF Commit
  <2>1. CASE i # 0 /\ LinksOf(d, e, i, v)[i] = 0 /\ InUseBy(i) = {}
    <3>1. task' = [task EXCEPT ![c] = ev]
      BY <2>1, <2>3
    <3>2. ev = [pc |-> "evict", ino |-> i, locks |-> {}]
      BY DEF Idle
    <3>3. \A x \in Clients : open[x] # i
      BY <2>1 DEF InUseBy
    <3> QED
      BY <2>1, <3>1, <3>2, <3>3
  <2>2. CASE ~(i # 0 /\ LinksOf(d, e, i, v)[i] = 0 /\ InUseBy(i) = {})
    <3>1. task' = [task EXCEPT ![c] = Idle]
      BY <2>2, <2>3
    <3> QED
      BY <3>1
  <2> QED
    BY <2>1, <2>2
<1> QED
  BY <1>3, <1>4, <1>5, <1>6, <1>7 DEF CommitsAs

\* The commit of a removal that nobody disturbs.
LEMMA CommitStep ==
  ASSUME Inv, NEW c \in Clients, phase = "mounted", NEW r, NEW more, Commit(c, r, more), more \subseteq FreeBlocks,
         NEW d, NEW n, NEW e, NEW m, NEW i, NEW v, CanGo(d, n, e, m, i, v),
         d = r.d, n = r.n, e = r.e, m = r.m, i = r.ino, v = r.moved,
         task[c].pc \in {"idle", "commit"}, task[c].pc = "commit" => task[c].ino = i /\ Dropped(i, v) = 0,
         Undisturbed(c, d, e, i), i # 0 /\ Dropped(i, v) = 0 => Contains(listed, i),
         UNCHANGED <<limbo, table, list, saved, hint, open, mount>>, calls' \in Nat
  PROVE  Inv'
<1>1. Types /\ Space
  BY DEF Inv, Space
<1>2. /\ d \in Inodes /\ e \in Inodes /\ n \in Names /\ m \in Names /\ v \in 0 .. MaxIno
      /\ i # 0 => i \in Inodes
      /\ v = 0 => d = e /\ n = m
      /\ v # 0 /\ i # 0 /\ IsDir(i) => IsDir(v)
  <2>1. d \in Inodes /\ e \in Inodes /\ n \in Names /\ m \in Names /\ (i # 0 => i \in Inodes) /\ (v # 0 => v \in Inodes)
    BY <1>1, GoingInodes
  <2>2. (v = 0 => d = e /\ n = m) /\ (v # 0 /\ i # 0 /\ IsDir(i) => IsDir(v))
    BY DEF CanGo
  <2> QED
    BY <2>1, <2>2, Consts
<1>3. CommitsAs(c, d, n, e, m, i, v, more)
  BY <1>1, <1>2, CommitIs
<1> QED
  BY <1>3, GoneStep

\* The removal that has listed its inode commits.
LEMMA RemoveCommitStep ==
  ASSUME Inv, NEW c \in Clients, RemoveCommit(c)
  PROVE  Inv'
<1> PICK r : r = task[c]
  OBVIOUS
<1>1. /\ task[c].pc = "commit" /\ Commit(c, r, {})
      /\ UNCHANGED <<limbo, table, list, saved, hint, open, calls, mount>>
  BY DEF RemoveCommit
<1>2. Types /\ NamesRight /\ phase = "mounted" /\ calls \in Nat
  BY <1>1 DEF Inv, Types, Modes, Idle
<1> PICK d, n, e, m, i, v : d = r.d /\ n = r.n /\ e = r.e /\ m = r.m /\ i = r.ino /\ v = r.moved
  OBVIOUS
<1>3. d \in Inodes /\ n \in Names /\ e \in Inodes /\ m \in Names /\ i \in Inodes /\ v \in 0 .. MaxIno
  BY <1>1, <1>2, TaskTypes DEF CommitTask
<1>4. /\ r.locks = {d, e, i} \cup (IF d # e THEN {-1} ELSE {})
      /\ ent[e][m] = i /\ Dropped(i, v) = 0 /\ Contains(listed, i)
      /\ v = 0 => d = e /\ n = m
      /\ v # 0 => ent[d][n] = v /\ v # i /\ (IsDir(v) <=> IsDir(i))
      /\ IsDir(i) => \A k \in Names : ent[i][k] = 0
      /\ v # 0 /\ IsDir(v) /\ d # e => \E T \in SUBSET Inodes : e \in T /\ Up(T) /\ v \notin T
  BY <1>1 DEF Inv, CommitRight, CommitOK
<1>5. CanGo(d, n, e, m, i, v)
  <2>1. i # 0
    BY <1>3, Consts
  <2>2. e \in LiveDirs
    BY <1>2, <1>3, <1>4, <2>1, LiveDirsAre
  <2> QED
    BY <1>3, <1>4, <2>1, <2>2 DEF CanGo
<1>6. Undisturbed(c, d, e, i)
  <2>1. ASSUME NEW x \in Clients \ {c} PROVE task[x].locks \cap r.locks = {}
    BY DEF Inv, LocksApart
  <2> QED
    BY <1>4, <2>1 DEF Undisturbed
<1>7. calls' \in Nat /\ {} \subseteq FreeBlocks
  BY <1>1, <1>2
<1> QED
  BY <1>1, <1>2, <1>4, <1>5, <1>6, <1>7, CommitStep

\* The fields of a removal.
LEMMA CallIs ==
  ASSUME Types, Space, NEW d, NEW n, NEW e, NEW m, NEW i, NEW v, CanGo(d, n, e, m, i, v),
         NEW r, r = Call(d, n, e, m, i, v)
  PROVE  /\ r.pc = "commit" /\ r.d = d /\ r.n = n /\ r.e = e /\ r.m = m /\ r.ino = i /\ r.moved = v
         /\ r.locks = {d, e} \cup (IF i = 0 THEN {} ELSE {i}) \cup (IF d # e THEN {-1} ELSE {})
         /\ i # 0 => r \in CommitTask
<1>1. /\ d \in Inodes /\ e \in Inodes /\ n \in Names /\ m \in Names
      /\ i # 0 => i \in Inodes
      /\ v # 0 => v \in Inodes
  BY GoingInodes
<1>2. r.locks = {d, e} \cup (IF i = 0 THEN {} ELSE {i}) \cup (IF d # e THEN {-1} ELSE {})
  <2>1. r.locks = ({d, e, i} \cup (IF d # e THEN {-1} ELSE {})) \ {0}
    BY DEF Call
  <2>2. d # 0 /\ e # 0
    BY <1>1, Consts
  <2> QED
    BY <2>1, <2>2
<1>3. /\ r.pc = "commit" /\ r.d = d /\ r.n = n /\ r.e = e /\ r.m = m /\ r.ino = i /\ r.moved = v
  BY DEF Call
<1>4. ASSUME i # 0 PROVE r \in CommitTask
  <2>1. v \in 0 .. MaxIno
    BY <1>1, Consts
  <2>2. r.locks \in SUBSET (Inodes \cup {-1})
    BY <1>1, <1>2, <1>4
  <2> PICK s : s = r.locks
    OBVIOUS
  <2>3. r = [pc |-> "commit", d |-> d, n |-> n, e |-> e, m |-> m, ino |-> i, moved |-> v, locks |-> s]
    BY DEF Call
  <2>4. i \in Inodes
    BY <1>1, <1>4
  <2> QED
    BY <1>1, <2>1, <2>2, <2>3, <2>4 DEF CommitTask
<1> QED
  BY <1>2, <1>3, <1>4

\* The first step of a removal r of inode i.
Lists(c, i, r) ==
  /\ TruncateAdd(i, ino[i].size) /\ task' = [task EXCEPT ![c] = r]
  /\ UNCHANGED <<ent, ino, inuse, leaked>>

\* A removal begins, and lists the inode that is to lose its last name.
LEMMA RemovalLists ==
  ASSUME Inv, NEW c \in Clients, phase = "mounted", task[c] = Idle,
         NEW d, NEW n, NEW e, NEW m, NEW i, NEW v, CanGo(d, n, e, m, i, v),
         NEW r, r = Call(d, n, e, m, i, v), r.locks \cap Locked = {},
         i # 0, Dropped(i, v) = 0, Lists(c, i, r),
         UNCHANGED <<limbo, table, saved, hint, open, mount>>, calls' \in Nat
  PROVE  Inv'
<1>a. /\ TruncateAdd(i, ino[i].size) /\ task' = [task EXCEPT ![c] = r]
      /\ UNCHANGED <<ent, ino, inuse, leaked>>
  BY DEF Lists
<1> USE <1>a
<1>1. Types /\ Space /\ task \in [Clients -> Tasks] /\ task[c].pc = "idle"
  BY DEF Inv, Space, Types, Idle
<1>2. /\ d \in Inodes /\ e \in Inodes /\ n \in Names /\ m \in Names /\ i \in Inodes
      /\ ent[d][n] = (IF v = 0 THEN i ELSE v)
      /\ Named(i) /\ i <= table.count /\ ino[i].nlink > 0 /\ ~IsFree(i)
  BY <1>1, GoingInodes
<1>3. /\ r.pc = "commit" /\ r.d = d /\ r.n = n /\ r.e = e /\ r.m = m /\ r.ino = i /\ r.moved = v
      /\ r.locks = {d, e, i} \cup (IF d # e THEN {-1} ELSE {}) /\ r \in CommitTask
  <2>1. /\ r.pc = "commit" /\ r.d = d /\ r.n = n /\ r.e = e /\ r.m = m /\ r.ino = i /\ r.moved = v
        /\ r.locks = {d, e} \cup (IF i = 0 THEN {} ELSE {i}) \cup (IF d # e THEN {-1} ELSE {})
        /\ i # 0 => r \in CommitTask
    BY <1>1, CallIs
  <2> QED
    BY <2>1
<1>4. task'[c] = r /\ (\A x \in Clients \ {c} : task'[x] = task[x]) /\ task' \in [Clients -> Tasks]
  BY <1>1, <1>3 DEF Tasks
<1>5. \A x \in Clients : i \notin task[x].locks
  BY <1>3 DEF Locked
<1>6. ~Contains(listed, i) /\ ino[i].nlink # 0 /\ ino[i].size \in Nat
  <2>1. ino[i].nlink # 0 /\ ino[i].size \in Nat
    BY <1>1, <1>2, InodeTypes
  <2>2. InodeOK(i) /\ \A x \in Clients : task[x].pc \in Sizing \cup {"commit"} => task[x].ino # i
    BY <1>2, <1>5, InodesRight
  <2> QED
    BY <2>1, <2>2 DEF InodeOK
<1>7. /\ SameList' /\ ListShape'
      /\ \A f : Contains(listed', f) <=> f = i \/ Contains(listed, f)
      /\ \A j \in Inodes \ {i} : tsize'[j] = tsize[j]
      /\ head' \in 0 .. MaxIno /\ next' \in [Inodes -> 0 .. MaxIno] /\ tsize' \in [Inodes -> Nat]
      /\ listed' \in Seq(Inodes \cup Clients)
  <2>1. \A x \in Clients : task[x].pc = "del" => task'[x] = task[x]
    BY <1>1, <1>4
  <2> PICK size : size = ino[i].size
    OBVIOUS
  <2>2. TruncateAdd(i, size) /\ size \in Nat
    BY <1>6
  <2> QED
    BY <1>2, <1>6, <2>1, <2>2, AddKeepsList
<1>8. Types'
  BY <1>1, <1>4, <1>7 DEF Types, mount
<1>9. /\ open' = open /\ ino' = ino /\ limbo' = limbo /\ ent' = ent /\ leaked' = leaked /\ inuse' = inuse
      /\ lost' = lost /\ table' = table /\ phase' = phase /\ saved' = saved
  BY DEF mount
<1> PICK X : X = {i}
  OBVIOUS
<1>10. Local(c, X) /\ WaysKept(c)
  <2>1. \A x \in Clients \ {c} : task[x].pc \in Sizing \cup {"commit"} => i \notin task[x].locks
    BY <1>5
  <2>2. \A x \in Clients \ {c} : task[x].pc \in Given => task[x].ino # i
    BY <1>2, LockedStays
  <2>3. ~IsFree(i)' /\ (ino'[i].nlink = 0 => Contains(listed', i))
    BY <1>2, <1>6, <1>9 DEF IsFree
  <2>4. /\ UNCHANGED <<ent, table, saved, system, open>>
        /\ \A j \in Inodes \ {i} : ino'[j] = ino[j] /\ limbo'[j] = limbo[j] /\ tsize'[j] = tsize[j]
        /\ \A f \in (Inodes \ {i}) \cup (Clients \ {c}) : Contains(listed', f) <=> Contains(listed, f)
    BY <1>2, <1>7, <1>9, Consts DEF system
  <2> QED
    BY <1>1, <1>2, <1>4, <1>9, <2>1, <2>2, <2>3, <2>4, OneInode
<1>11. Space'
  <2>1. \A j \in Inodes : SameInode(j)
    BY <1>9 DEF SameInode
  <2> QED
    BY <1>1, <1>8, <1>9, <1>10, <2>1, SpaceSame
<1>12. ClientOK(c)' /\ task'[c].pc \notin Given
  <2>1. CommitOK(c)'
    <3>1. r.locks = {r.d, r.e, r.ino} \cup (IF r.d # r.e THEN {-1} ELSE {})
      BY <1>3
    <3>2. /\ ent[e][m] = i
          /\ v = 0 => d = e /\ n = m
          /\ v # 0 => ent[d][n] = v /\ v # i /\ (IsDir(v) <=> IsDir(i))
          /\ IsDir(i) => \A k \in Names : ent[i][k] = 0
      BY DEF CanGo
    <3>3. Dropped(i, v)' = 0
      BY <1>9 DEF Dropped, IsDir
    <3>4. Contains(listed', i)
      BY <1>7
    <3>5. v # 0 /\ IsDir(v) /\ d # e => \E T \in SUBSET Inodes : e \in T /\ Up(T) /\ v \notin T
      BY DEF CanGo
    <3> QED
      BY <1>3, <1>4, <1>9, <3>1, <3>2, <3>3, <3>4, <3>5 DEF CommitOK, IsDir, Up
  <2>2. OpenOK(c)'
    <3>1. OpenOK(c)
      BY DEF Inv, OpenRight
    <3> QED
      BY <1>7, <1>9, <3>1 DEF OpenOK, IsFree
  <2>3. GoneOK(c)' /\ SizeOK(c)' /\ task'[c].pc \notin Given
    BY <1>3, <1>4 DEF GoneOK, SizeOK, Sizing, Given
  <2> QED
    BY <2>1, <2>2, <2>3 DEF ClientOK
<1>13. \A j \in X : InodeOK(j)'
  <2>1. limbo'[i] # {} => \E x \in Clients : task'[x].pc = "size" /\ task'[x].ino = i
    <3>1. InodeOK(i)
      BY <1>2, InodesRight
    <3> QED
      BY <1>1, <1>4, <1>9, <3>1 DEF InodeOK
  <2>2. ~IsFree(i)' /\ Contains(listed', i) /\ task'[c].pc = "commit" /\ task'[c].ino = i
    BY <1>2, <1>3, <1>4, <1>7, <1>9 DEF IsFree
  <2> QED
    BY <2>1, <2>2 DEF InodeOK
<1>14. BlocksApart'
  <2>1. \A j \in Inodes : ~IsFree(j)' => ino'[j].blocks \subseteq (IF IsFree(j) THEN {} ELSE ino[j].blocks)
    BY <1>9 DEF IsFree
  <2> QED
    BY <1>9, <2>1, BlocksSame
<1>15. task'[c].locks \cap Locked = {}
  BY <1>4
<1> QED
  BY <1>7, <1>8, <1>10, <1>11, <1>12, <1>13, <1>14, <1>15, LocalStep

\* A removal, with or without a step of its own for the truncate list.
LEMMA RemovalStep ==
  ASSUME Inv, NEW c \in Clients, NEW d, NEW n, NEW e, NEW m, NEW i, NEW v, CanGo(d, n, e, m, i, v),
         NEW r, r = Call(d, n, e, m, i, v), phase = "mounted", task[c] = Idle, r.locks \cap Locked = {},
         NEW more, more \subseteq FreeBlocks, Removal(c, r, more)
  PROVE  Inv'
<1>1. Types /\ Space /\ task[c].pc = "idle" /\ calls \in Nat
  BY DEF Inv, Space, Types, Idle
<1>2. /\ r.pc = "commit" /\ r.d = d /\ r.n = n /\ r.e = e /\ r.m = m /\ r.ino = i /\ r.moved = v
      /\ r.locks = {d, e} \cup (IF i = 0 THEN {} ELSE {i}) \cup (IF d # e THEN {-1} ELSE {})
  BY <1>1, CallIs
<1>3. calls' = calls + 1 /\ UNCHANGED <<limbo, table, saved, hint, open, mount>> /\ calls' \in Nat
  <2>1. calls' = calls + 1 /\ UNCHANGED <<limbo, table, saved, hint, open, mount>>
    BY DEF Removal
  <2> QED
    BY <1>1, <2>1
<1>4. \/ i # 0 /\ Dropped(i, v) = 0 /\ Lists(c, i, r)
      \/ (i # 0 => Dropped(i, v) # 0) /\ Commit(c, r, more) /\ UNCHANGED list
  BY <1>2 DEF Removal, Lists
<1>5. CASE i # 0 /\ Dropped(i, v) = 0 /\ Lists(c, i, r)
  BY <1>3, <1>5, RemovalLists
<1>6. CASE (i # 0 => Dropped(i, v) # 0) /\ Commit(c, r, more) /\ UNCHANGED list
  <2>1. Undisturbed(c, d, e, i)
    <3>1. ASSUME NEW x \in Clients \ {c} PROVE task[x].locks \cap r.locks = {} /\ (i = 0 => i \notin task[x].locks)
      <4>1. task[x].locks \subseteq Inodes \cup {-1}
        BY <1>1, TaskTypes
      <4> QED
        BY <4>1, Consts DEF Locked
    <3> QED
      BY <1>2, <3>1 DEF Undisturbed
  <2> QED
    BY <1>1, <1>2, <1>3, <1>6, <2>1, CommitStep
<1> QED
  BY <1>4, <1>5, <1>6

\* Pmfs_unlink.
LEMMA UnlinkStep ==
  ASSUME Inv, NEW c \in Clients, NEW d \in Inodes, NEW n \in Names, Unlink(c, d, n)
  PROVE  Inv'
<1> PICK i : i = Lookup(d, n)
  OBVIOUS
<1> PICK r : r = Call(d, n, d, n, i, 0)
  OBVIOUS
<1> PICK more : more = {}
  OBVIOUS
<1>1. /\ Ready(c, {d, i}) /\ i # 0 /\ ~IsDir(i) /\ d \in LiveDirs
      /\ Removal(c, r, more)
  BY DEF Unlink
<1>2. CanGo(d, n, d, n, i, 0)
  BY <1>1 DEF CanGo, Lookup
<1>3. Types /\ Space
  BY DEF Inv, Space
<1>4. r.locks = {d, i}
  <2>1. r.locks = {d, d} \cup (IF i = 0 THEN {} ELSE {i}) \cup (IF d # d THEN {-1} ELSE {})
    BY <1>2, <1>3, CallIs
  <2> QED
    BY <1>1, <2>1
<1>5. phase = "mounted" /\ task[c] = Idle /\ r.locks \cap Locked = {} /\ more \subseteq FreeBlocks
  BY <1>1, <1>4 DEF Ready
<1> QED
  BY <1>1, <1>2, <1>5, RemovalStep

\* Pmfs_rmdir.
LEMMA RmdirStep ==
  ASSUME Inv, NEW c \in Clients, NEW d \in Inodes, NEW n \in Names, Rmdir(c, d, n)
  PROVE  Inv'
<1> PICK i : i = Lookup(d, n)
  OBVIOUS
<1> PICK r : r = Call(d, n, d, n, i, 0)
  OBVIOUS
<1> PICK more : more = {}
  OBVIOUS
<1>1. /\ Ready(c, {d, i}) /\ i # 0 /\ IsDir(i) /\ IsEmpty(i) /\ d \in LiveDirs
      /\ Removal(c, r, more)
  BY DEF Rmdir
<1>2. CanGo(d, n, d, n, i, 0)
  BY <1>1 DEF CanGo, Lookup, IsEmpty, NoEntries
<1>3. Types /\ Space
  BY DEF Inv, Space
<1>4. r.locks = {d, i}
  <2>1. r.locks = {d, d} \cup (IF i = 0 THEN {} ELSE {i}) \cup (IF d # d THEN {-1} ELSE {})
    BY <1>2, <1>3, CallIs
  <2> QED
    BY <1>1, <2>1
<1>5. phase = "mounted" /\ task[c] = Idle /\ r.locks \cap Locked = {} /\ more \subseteq FreeBlocks
  BY <1>1, <1>4 DEF Ready
<1> QED
  BY <1>1, <1>2, <1>5, RemovalStep

\* Pmfs_rename.
LEMMA RenameStep ==
  ASSUME Inv, NEW c \in Clients, NEW d \in Inodes, NEW n \in Names, NEW e \in Inodes, NEW m \in Names,
         Rename(c, d, n, e, m)
  PROVE  Inv'
<1> PICK v : v = Lookup(d, n)
  OBVIOUS
<1> PICK i : i = Lookup(e, m)
  OBVIOUS
<1> PICK r : r = Call(d, n, e, m, i, v)
  OBVIOUS
<1> PICK more : more = IF i = 0 THEN Lowest(FreeBlocks, Growth(e)) ELSE {}
  OBVIOUS
<1>1. /\ phase = "mounted" /\ task[c] = Idle /\ v # 0 /\ v # i /\ e \in LiveDirs
      /\ IsDir(v) => v \notin Above(e)
      /\ i # 0 => (IsDir(v) <=> IsDir(i))
      /\ i # 0 /\ IsDir(v) => IsEmpty(i)
      /\ Ready(c, r.locks \cup {v})
      /\ IF i = 0 => Cardinality(more) = Growth(e) THEN Removal(c, r, more)
         ELSE /\ inuse' = inuse \cup more /\ calls' = calls + 1
              /\ UNCHANGED <<ent, ino, limbo, table, list, saved, hint, open, task, system>>
  BY DEF Rename
<1>2. Types /\ NamesRight /\ calls \in Nat /\ inuse \subseteq Blocks
  BY DEF Inv, Types
<1>3. CanGo(d, n, e, m, i, v)
  <2>1. v \in Inodes
    BY <1>1, <1>2, InodeTypes, Consts DEF Lookup, Inodes
  <2>2. IsDir(v) => \E T \in SUBSET Inodes : e \in T /\ Up(T) /\ v \notin T
    BY <1>1, <1>2, <2>1, AboveIs
  <2>3. i # 0 /\ IsDir(i) => \A k \in Names : ent[i][k] = 0
    BY <1>1 DEF IsEmpty, NoEntries
  <2> QED
    BY <1>1, <2>2, <2>3 DEF CanGo, Lookup
<1>4. more \subseteq FreeBlocks
  BY Taken
<1>5. CASE Removal(c, r, more)
  <2>1. r.locks \cap Locked = {}
    BY <1>1 DEF Ready
  <2> QED
    BY <1>1, <1>3, <1>4, <1>5, <2>1, RemovalStep
<1>6. CASE /\ inuse' = inuse \cup more /\ calls' = calls + 1
           /\ UNCHANGED <<ent, ino, limbo, table, list, saved, hint, open, task, system>>
  <2>1. inuse \subseteq inuse' /\ inuse' \subseteq Blocks
    BY <1>2, <1>4, <1>6 DEF FreeBlocks
  <2> QED
    BY <1>1, <1>2, <1>6, <2>1, NothingStep
<1> QED
  BY <1>1, <1>5, <1>6
-----------------------------------------------------------------------------
(***************************************************************************)
(* Unmount, power failure and mount.                                       *)
(***************************************************************************)
\* When no client is in a call, has a file open or has an entry in s_truncate, what the
\* invariant says of the clients holds.
LEMMA NobodyCalls ==
  ASSUME \A c \in Clients : task'[c] = Idle /\ open'[c] = 0, \A i \in Inodes : limbo'[i] = {}, listed' = <<>>
  PROVE  LocksApart' /\ CommitRight' /\ GoneRight' /\ OpenRight' /\ SizeRight' /\ ListedRight'
         /\ \A f : ~Contains(listed', f)
<1>1. \A f : ~Contains(listed', f)
  BY DEF Contains
<1>2. \A c \in Clients : task'[c].pc = "idle" /\ task'[c].locks = {} /\ open'[c] = 0
  BY DEF Idle
<1>3. LocksApart' /\ OpenRight'
  BY <1>2 DEF LocksApart, OpenRight, OpenOK
<1>4. CommitRight' /\ GoneRight'
  BY <1>2 DEF CommitRight, CommitOK, GoneRight, GoneOK, Given
<1>5. SizeRight'
  BY <1>2 DEF SizeRight, SizeOK, Sizing
<1>6. ListedRight'
  <2>1. 1 .. Len(listed') = {}
    OBVIOUS
  <2>2. \A i \in Inodes : ~Contains(listed, i)'
    BY <1>1
  <2> QED
    BY <2>1, <2>2 DEF ListedRight
<1> QED
  BY <1>1, <1>3, <1>4, <1>5, <1>6

\* A step that leads to a volume that is not mounted, or stays there.
LEMMA DownStep ==
  ASSUME Types', Space', phase' # "mounted",
         \A c \in Clients : task'[c] = Idle /\ open'[c] = 0, \A i \in Inodes : limbo'[i] = {}, listed' = <<>>,
         saved' # NotSaved => saved'.hint \in Inodes, OrphansListed', BlocksApart'
  PROVE  Inv'
<1>1. Modes' /\ SameList'
  BY DEF Modes, SameList
<1>2. LocksApart' /\ CommitRight' /\ GoneRight' /\ OpenRight' /\ SizeRight' /\ ListedRight'
  BY NobodyCalls
<1> QED
  BY <1>1, <1>2 DEF Inv, Space

\* The list in persistent memory is what its links make of it.
LEMMA ChainSame ==
  ASSUME next' = next, NEW i, NEW s, s = i
  PROVE  Chain(i)' = Chain(s)
BY DEF Chain

\* A volume is unmounted when no call and no open file is left.
LEMMA UnmountStep ==
  ASSUME Inv, Unmount
  PROVE  Inv'
<1>1. /\ phase = "mounted" /\ \A c \in Clients : task[c] = Idle /\ open[c] = 0
      /\ saved' = Save
      /\ inuse' = {} /\ hint' = HintStart /\ listed' = <<>> /\ cur' = 0 /\ phase' = "down"
      /\ open' = [c \in Clients |-> 0] /\ task' = [c \in Clients |-> Idle]
      /\ UNCHANGED <<ent, ino, limbo, table, head, next, tsize, calls, crashes, lost, leaked>>
  BY DEF Unmount, Volatile
<1>2. Types /\ Space /\ task' = task
  BY <1>1 DEF Inv, Space, Types
<1>3. saved' \in [inuse : SUBSET Blocks, hint : 0 .. MaxIno] /\ (saved' # NotSaved => saved' = [inuse |-> inuse, hint |-> hint])
  <2>1. hint \in 0 .. MaxIno /\ inuse \in SUBSET Blocks /\ 0 \in 0 .. MaxIno
    BY <1>2, Consts DEF Types
  <2> QED
    BY <1>1, <2>1 DEF Save, NotSaved
<1>4. Types'
  <2>1. listed' \in Seq(Inodes \cup Clients) /\ hint' \in Inodes /\ cur' \in 0 .. MaxIno
        /\ open' \in [Clients -> 0 .. MaxIno]
    BY <1>1, Consts
  <2> QED
    BY <1>1, <1>2, <1>3, <2>1 DEF Types
<1>5. Space'
  <2>1. Nameless
    <3>1. Leaving = {}
      BY <1>1 DEF Leaving, Idle
    <3>2. table.count <= table'.count
      BY <1>1, <1>2, CountTypes
    <3> QED
      BY <1>1, <3>1, <3>2 DEF Nameless, SameInode
  <2> QED
    BY <1>2, <1>4, <2>1, NamelessKeepsSpace
<1>6. \A c \in Clients : task'[c] = Idle /\ open'[c] = 0
  BY <1>1
<1>7. \A i \in Inodes : limbo'[i] = {}
  <2>1. \A i \in Inodes : limbo[i] = {}
    BY <1>1 DEF Inv, SizeRight, Idle
  <2> QED
    BY <1>1, <2>1
<1>8. saved' # NotSaved => saved'.hint \in Inodes
  BY <1>2, <1>3 DEF Types
<1>9. OrphansListed'
  <2>1. SUFFICES ASSUME NEW i \in Inodes, Orphan(i) PROVE i \in Chain(head)'
    BY <1>1 DEF OrphansListed, Orphan, IsFree
  <2>2. Contains(listed, i)
    BY <1>1, <2>1 DEF Inv, OrphansListed
  <2>3. i \in Chain(head)
    BY <1>1, <1>2, <2>2, ListedChained DEF Inv
  <2> QED
    BY <1>1, <2>3, ChainSame
<1>10. BlocksApart'
  <2>1. SUFFICES ASSUME lost = {} PROVE BlocksApart'
    BY <1>1 DEF BlocksApart
  <2>2. /\ \A i \in Inodes : ~IsFree(i) => ino[i].blocks \subseteq inuse /\ ino[i].blocks \cap table.blocks = {}
        /\ \A i, j \in Inodes : i # j /\ ~IsFree(i) /\ ~IsFree(j) => ino[i].blocks \cap ino[j].blocks = {}
        /\ table.blocks \subseteq inuse
    BY <1>1, <2>1 DEF Inv, BlocksApart
  <2>3. ApartBut(head)'
    BY <1>1, <2>2 DEF ApartBut, IsFree
  <2>4. saved' # NotSaved => /\ table.blocks \subseteq saved'.inuse
                             /\ \A i \in Inodes : ~IsFree(i) => ino[i].blocks \subseteq saved'.inuse
    BY <1>3, <2>2
  <2> QED
    BY <1>1, <2>3, <2>4 DEF BlocksApart, IsFree
<1> QED
  BY <1>1, <1>4, <1>5, <1>6, <1>7, <1>8, <1>9, <1>10, DownStep

\* The next mount begins.
LEMMA MountStep ==
  ASSUME Inv, Mount
  PROVE  Inv'
<1>1. /\ phase = "down" /\ phase' = "recovering" /\ cur' = head
      /\ UNCHANGED <<ent, ino, limbo, table, list, saved, inuse, hint, open, task, calls, crashes, lost, leaked>>
      /\ UNCHANGED <<head, next, tsize, listed>>
  BY DEF Mount, list
<1>2. Types /\ Space /\ (saved # NotSaved => saved.hint \in Inodes)
      /\ (\A c \in Clients : task[c] = Idle /\ open[c] = 0) /\ (\A i \in Inodes : limbo[i] = {}) /\ listed = <<>>
  BY <1>1 DEF Inv, Space, Modes
<1>3. Types'
  BY <1>1, <1>2 DEF Types
<1>4. Space'
  <2>1. Nameless
    <3>1. Leaving = {}
      BY <1>2 DEF Leaving, Idle
    <3>2. table.count <= table'.count
      BY <1>1, <1>2, CountTypes
    <3> QED
      BY <1>1, <3>1, <3>2 DEF Nameless, SameInode
  <2> QED
    BY <1>2, <1>3, <2>1, NamelessKeepsSpace
<1>5. OrphansListed'
  <2>1. SUFFICES ASSUME NEW i \in Inodes, Orphan(i) PROVE i \in Chain(head)' /\ i \in Chain(cur)'
    BY <1>1 DEF OrphansListed, Orphan, IsFree
  <2>2. i \in Chain(head)
    BY <1>1, <2>1 DEF Inv, OrphansListed
  <2>3. i \in Chain(head)'
    BY <1>1, <2>2 DEF Chain
  <2>4. i \in Chain(cur)'
    BY <1>1, <2>2 DEF Chain
  <2> QED
    BY <2>3, <2>4
<1>6. BlocksApart'
  <2>1. lost = {} => ApartBut(head) /\ (saved # NotSaved => /\ table.blocks \subseteq saved.inuse
                                        /\ \A i \in Inodes : ~IsFree(i) => ino[i].blocks \subseteq saved.inuse)
    BY <1>1 DEF Inv, BlocksApart
  <2>2. \A i \in Inodes : (Doomed(i, head)' <=> Doomed(i, head)) /\ (Doomed(i, cur)' <=> Doomed(i, head))
    BY <1>1 DEF Doomed, Chain
  <2>3. lost = {} => ApartBut(head)' /\ ApartBut(cur)'
    BY <1>1, <2>1, <2>2 DEF ApartBut, IsFree
  <2> QED
    BY <1>1, <2>1, <2>3 DEF BlocksApart, IsFree
<1> QED
  BY <1>1, <1>2, <1>3, <1>4, <1>5, <1>6, DownStep

\* What a power failure makes of the inodes: those of calls that had not committed are
\* what they were, the others as they are, with the blocks that were in limbo or not.
Crashed(back) ==
  \A i \in Inodes :
    \/ /\ \E c \in Clients : task[c].pc = "abort" /\ task[c].ino = i
       /\ ino'[i] \in InodeRec /\ ino'[i].nlink = 0 /\ IsFree(i)'
    \/ /\ ino'[i] \in InodeRec /\ SameInode(i) /\ ino'[i].size = ino[i].size
       /\ ino'[i].blocks = ino[i].blocks \cup back[i]

\* That is what it does.
LEMMA CrashedInodes ==
  ASSUME Inv, Crash
  PROVE  \E back : /\ \A i \in Inodes : back[i] \subseteq limbo[i]
                   /\ ino' \in [Inodes -> InodeRec] /\ Crashed(back)
<1> DEFINE aborted == {c \in Clients : task[c].pc = "abort"}
<1>1. PICK back : /\ \A i \in Inodes : back[i] \subseteq limbo[i]
                  /\ ino' = [i \in Inodes |->
                       IF \E c \in aborted : task[c].ino = i
                       THEN task[CHOOSE c \in aborted : task[c].ino = i].undo
                       ELSE [ino[i] EXCEPT !.blocks = @ \cup back[i]]]
  BY Zenon DEF Crash
<1>2. Types
  BY DEF Inv
<1> HIDE DEF aborted
<1>5. ino' = [i \in Inodes |-> ino'[i]]
  BY <1>1
<1>3. ASSUME NEW i \in Inodes
      PROVE  /\ ino'[i] \in InodeRec
             /\ \/ /\ \E c \in Clients : task[c].pc = "abort" /\ task[c].ino = i
                   /\ ino'[i].nlink = 0 /\ IsFree(i)'
                \/ /\ SameInode(i) /\ ino'[i].size = ino[i].size
                   /\ ino'[i].blocks = ino[i].blocks \cup back[i]
  <2>1. CASE \E c \in aborted : task[c].ino = i
    <3> PICK x : x = CHOOSE c \in aborted : task[c].ino = i
      OBVIOUS
    <3>1. x \in aborted /\ task[x].ino = i
      BY <2>1
    <3>2. ino'[i] = task[x].undo
      BY <1>1, <2>1
    <3>3. x \in Clients /\ task[x].pc = "abort" /\ task[x].undo \in InodeRec
      BY <1>2, <3>1, TaskTypes DEF AbortTask, aborted
    <3>4. task[x].undo.nlink = 0 /\ (task[x].undo.kind = "none" \/ task[x].undo.dtime)
      BY <3>3 DEF Inv, GoneRight, GoneOK
    <3>5. ino'[i].nlink = 0 /\ IsFree(i)'
      BY <3>2, <3>4 DEF IsFree
    <3> QED
      BY <3>1, <3>2, <3>3, <3>5
  <2>2. CASE ~(\E c \in aborted : task[c].ino = i)
    <3>1. ino'[i] = [ino[i] EXCEPT !.blocks = @ \cup back[i]]
      BY <1>1, <2>2
    <3>2. ino[i] \in InodeRec /\ limbo[i] \subseteq Blocks /\ back[i] \subseteq limbo[i]
      BY <1>1, <1>2, InodeTypes
    <3> PICK b : b = ino[i].blocks \cup back[i]
      OBVIOUS
    <3>3. b \in SUBSET Blocks
      BY <3>2 DEF InodeRec
    <3> PICK k, y, t, z, a : ino[i] = [kind |-> k, nlink |-> y, dtime |-> t, size |-> z, blocks |-> a]
                             /\ k \in {"none", "file", "dir", "link", "node"} /\ t \in BOOLEAN /\ y \in Nat /\ z \in Nat
      BY <3>2 DEF InodeRec
    <3> PICK o : o = [kind |-> k, nlink |-> y, dtime |-> t, size |-> z, blocks |-> a]
      OBVIOUS
    <3>6. ino'[i] = [o EXCEPT !.blocks = b]
      BY <3>1
    <3>4. ino'[i] = [kind |-> k, nlink |-> y, dtime |-> t, size |-> z, blocks |-> b]
      BY <3>6
    <3>5. ino'[i] \in InodeRec
      BY <3>3, <3>4 DEF InodeRec
    <3> QED
      BY <3>4, <3>5 DEF SameInode
  <2> QED
    BY <2>1, <2>2
<1>6. \A i \in Inodes : ino'[i] \in InodeRec
  BY <1>3
<1>4. ino' \in [Inodes -> InodeRec]
  BY <1>5, <1>6
<1>7. Crashed(back)
  BY <1>3 DEF Crashed
<1>8. \A i \in Inodes : back[i] \subseteq limbo[i]
  BY <1>1
<1> QED
  BY <1>4, <1>7, <1>8

\* The power fails.
LEMMA CrashStep ==
  ASSUME Inv, Crash
  PROVE  Inv'
<1>1. /\ phase # "down" /\ crashes < MaxCrashes /\ crashes' = crashes + 1
      /\ limbo' = [i \in Inodes |-> {}]
      /\ inuse' = {} /\ hint' = HintStart /\ listed' = <<>> /\ cur' = 0 /\ phase' = "down"
      /\ open' = [c \in Clients |-> 0] /\ task' = [c \in Clients |-> Idle]
      /\ UNCHANGED <<ent, table, head, next, tsize, saved, calls, lost, leaked>>
  BY DEF Crash, Volatile
<1>2. PICK back : /\ \A i \in Inodes : back[i] \subseteq limbo[i]
                  /\ ino' \in [Inodes -> InodeRec] /\ Crashed(back)
  BY CrashedInodes
<1>3. Types /\ Space
  BY DEF Inv, Space
<1>4. \A c \in Clients : task'[c] = Idle /\ open'[c] = 0
  BY <1>1
<1>5. \A i \in Inodes : limbo'[i] = {}
  BY <1>1
<1>6. Types'
  <2>1. listed' \in Seq(Inodes \cup Clients) /\ hint' \in Inodes /\ cur' \in 0 .. MaxIno
        /\ open' \in [Clients -> 0 .. MaxIno] /\ task' \in [Clients -> Tasks]
    BY <1>1, Consts DEF Tasks
  <2>2. crashes' \in 0 .. MaxCrashes
    BY <1>1, <1>3, Consts DEF Types
  <2>3. limbo' \in [Inodes -> SUBSET Blocks] /\ inuse' \subseteq Blocks
    BY <1>1
  <2> QED
    BY <1>1, <1>2, <1>3, <2>1, <2>2, <2>3 DEF Types
<1>7. Space'
  <2>1. Nameless
    <3>1. \A i \in Inodes : \/ SameInode(i)
                            \/ /\ ~Named(i) /\ i # Root /\ i \notin leaked /\ i <= table'.count
                               /\ ino'[i].nlink = 0
      <4>1. SUFFICES ASSUME NEW i \in Inodes, NEW c \in Clients, task[c].pc = "abort", task[c].ino = i, ino'[i].nlink = 0
                     PROVE  ~Named(i) /\ i # Root /\ i \notin leaked /\ i <= table'.count
        BY <1>2 DEF Crashed
      <4> QED
        BY <1>1, <4>1 DEF Inv, GoneRight, GoneOK, Given
    <3>2. \A i \in Leaving \cap Inodes : ino'[i].nlink = 0
      <4>1. SUFFICES ASSUME NEW c \in Clients, task[c].pc \in {"del", "abort"}, NEW i \in Inodes, i = task[c].ino
                     PROVE  ino'[i].nlink = 0
        BY DEF Leaving
      <4>2. \/ /\ \E x \in Clients : task[x].pc = "abort" /\ task[x].ino = i
               /\ ino'[i].nlink = 0
            \/ SameInode(i)
        BY <1>2 DEF Crashed
      <4>3. ino'[i].nlink = 0 \/ task[c].pc # "abort"
        <5>1. CASE task[c].pc = "abort"
          <6> PICK b : /\ \A j \in Inodes : b[j] \subseteq limbo[j]
                       /\ ino' = [j \in Inodes |->
                            IF \E y \in {z \in Clients : task[z].pc = "abort"} : task[y].ino = j
                            THEN task[CHOOSE y \in {z \in Clients : task[z].pc = "abort"} : task[y].ino = j].undo
                            ELSE [ino[j] EXCEPT !.blocks = @ \cup b[j]]]
            BY DEF Crash
          <6> PICK x : x = CHOOSE y \in {z \in Clients : task[z].pc = "abort"} : task[y].ino = i
            OBVIOUS
          <6>1. x \in Clients /\ task[x].pc = "abort"
            BY <4>1, <5>1
          <6>2. ino'[i] = task[x].undo
            BY <4>1, <5>1
          <6>3. task[x].undo.nlink = 0
            BY <6>1 DEF Inv, GoneRight, GoneOK
          <6> QED
            BY <6>2, <6>3
        <5> QED
          BY <5>1
      <4>4. task[c].pc = "del" => ino[i].nlink = 0
        BY <4>1 DEF Inv, GoneRight, GoneOK
      <4> QED
        BY <4>1, <4>2, <4>3, <4>4 DEF SameInode
    <3>3. table.count <= table'.count
      BY <1>1, <1>3, CountTypes
    <3> QED
      BY <1>1, <3>1, <3>2, <3>3 DEF Nameless
  <2> QED
    BY <1>3, <1>6, <2>1, NamelessKeepsSpace
<1>8. saved' # NotSaved => saved'.hint \in Inodes
  BY <1>1 DEF Inv, Modes
\* What is not free was not before, and what has got blocks back is doomed.
<1>9. ASSUME NEW i \in Inodes, ~IsFree(i)'
      PROVE  /\ ~IsFree(i) /\ SameInode(i) /\ ino'[i].size = ino[i].size
             /\ ino'[i].blocks = ino[i].blocks \cup back[i]
  <2>1. SameInode(i) /\ ino'[i].size = ino[i].size /\ ino'[i].blocks = ino[i].blocks \cup back[i]
    BY <1>2, <1>9 DEF Crashed
  <2> QED
    BY <1>9, <2>1 DEF SameInode, IsFree
<1>10. \A i \in Inodes : (i \in Chain(head)') <=> i \in Chain(head)
  BY <1>1 DEF Chain
<1>11. OrphansListed'
  <2>1. SUFFICES ASSUME NEW i \in Inodes, Orphan(i)' PROVE i \in Chain(head)'
    BY <1>1 DEF OrphansListed
  <2>2. Orphan(i)
    BY <1>1, <1>9, <2>1 DEF Orphan, SameInode
  <2>3. CASE phase = "mounted"
    <3>1. Contains(listed, i)
      BY <2>2, <2>3 DEF Inv, OrphansListed
    <3>2. i \in Chain(head)
      BY <1>3, <2>3, <3>1, ListedChained DEF Inv
    <3> QED
      BY <1>10, <3>2
  <2>4. CASE phase # "mounted"
    BY <1>10, <2>2, <2>4 DEF Inv, OrphansListed
  <2> QED
    BY <2>3, <2>4
<1>12. BlocksApart'
  <2>1. SUFFICES ASSUME lost = {} PROVE BlocksApart'
    BY <1>1 DEF BlocksApart
  <2>2. ASSUME NEW i \in Inodes, ~IsFree(i)', ~Doomed(i, head)'
        PROVE  back[i] = {} /\ ino'[i].blocks = ino[i].blocks
    <3>1. SUFFICES ASSUME back[i] # {} PROVE FALSE
      BY <1>9, <2>2
    <3>2. limbo[i] # {}
      BY <1>2, <3>1
    <3>3. PICK x \in Clients : task[x].pc = "size" /\ task[x].ino = i
      BY <3>2 DEF Inv, SizeRight
    <3>4. SizeOK(x) /\ phase = "mounted"
      BY <3>3 DEF Inv, SizeRight, Modes, Idle
    <3>5. Contains(listed, i) /\ tsize[i] = 0 /\ ino[i].size > 0
      BY <3>2, <3>3, <3>4 DEF SizeOK, Sizing
    <3>6. i \in Chain(head)
      BY <1>3, <3>4, <3>5, ListedChained DEF Inv
    <3>7. tsize'[i] < ino'[i].size /\ ino'[i].blocks # {}
      BY <1>1, <1>9, <2>2, <3>1, <3>5
    <3> QED
      BY <1>10, <2>2, <3>6, <3>7 DEF Doomed
  <2>3. CASE phase = "mounted"
    <3>1. /\ \A i \in Inodes : ~IsFree(i) => ino[i].blocks \subseteq inuse /\ ino[i].blocks \cap table.blocks = {}
          /\ \A i, j \in Inodes : i # j /\ ~IsFree(i) /\ ~IsFree(j) => ino[i].blocks \cap ino[j].blocks = {}
      BY <2>1, <2>3 DEF Inv, BlocksApart
    <3>2. ApartBut(head)'
      BY <1>1, <1>9, <2>2, <3>1 DEF ApartBut
    <3>3. saved' = NotSaved
      BY <1>1, <2>3 DEF Inv, Modes
    <3> QED
      BY <1>1, <3>2, <3>3 DEF BlocksApart
  <2>4. CASE phase # "mounted"
    <3>1. ApartBut(head) /\ (saved # NotSaved => /\ table.blocks \subseteq saved.inuse
                                                 /\ \A i \in Inodes : ~IsFree(i) => ino[i].blocks \subseteq saved.inuse)
      BY <2>1, <2>4 DEF Inv, BlocksApart
    <3>2. \A i \in Inodes : limbo[i] = {}
      BY <2>4 DEF Inv, Modes
    <3>3. \A i \in Inodes : ~IsFree(i)' => ino'[i].blocks = ino[i].blocks /\ (Doomed(i, head)' <=> Doomed(i, head))
      <4>1. SUFFICES ASSUME NEW i \in Inodes, ~IsFree(i)'
                     PROVE  ino'[i].blocks = ino[i].blocks /\ (Doomed(i, head)' <=> Doomed(i, head))
        OBVIOUS
      <4>2. ino'[i].blocks = ino[i].blocks /\ ino'[i].size = ino[i].size /\ SameInode(i)
        BY <1>2, <1>9, <3>2, <4>1
      <4> QED
        BY <1>1, <1>10, <4>2 DEF Doomed, SameInode
    <3>4. ApartBut(head)'
      BY <1>1, <1>9, <3>1, <3>3 DEF ApartBut
    <3> QED
      BY <1>1, <1>9, <3>1, <3>3, <3>4 DEF BlocksApart
  <2> QED
    BY <2>3, <2>4
<1> QED
  BY <1>1, <1>4, <1>5, <1>6, <1>7, <1>8, <1>11, <1>12, DownStep

\* One turn of the recovery of the truncate list.
LEMMA RecoverStep ==
  ASSUME Inv, Recover
  PROVE  Inv'
<1>1. /\ phase = "recovering" /\ cur # 0 /\ ~IsFree(cur)
      /\ UNCHANGED <<ent, limbo, table, list, saved, inuse, hint, open, task, calls, crashes, lost, leaked>>
      /\ UNCHANGED <<head, next, tsize, listed>>
  BY DEF Recover, Iget, list
<1>2. /\ Types /\ Space /\ (saved # NotSaved => saved.hint \in Inodes) /\ cur \in Inodes
      /\ (\A c \in Clients : task[c] = Idle /\ open[c] = 0) /\ (\A i \in Inodes : limbo[i] = {}) /\ listed = <<>>
  <2>1. cur \in 0 .. MaxIno
    BY DEF Inv, Types
  <2> QED
    BY <1>1, <2>1, Consts DEF Inv, Space, Modes, Inodes
<1> PICK k : k = cur
  OBVIOUS
<1>3. /\ k \in Inodes /\ ~IsFree(k) /\ k <= table.count
      /\ ino[k] \in InodeRec
  <2>1. k \in Inodes /\ ~IsFree(k) /\ ino[k] \in InodeRec
    BY <1>1, <1>2, InodeTypes
  <2>2. ~(k > table.count)
    BY <1>2, <2>1 DEF Space, NamesRight
  <2> QED
    BY <1>2, <2>1, <2>2, CountTypes, Consts
\* The blocks of a doomed inode stop the recovery.
<1>4. \/ phase' = "dead" /\ UNCHANGED <<ino, cur>>
      \/ /\ ino[k].blocks = {} \/ (ino[k].nlink # 0 /\ ~(tsize[k] < ino[k].size))
         /\ ino' = IF ino[k].kind = "node" THEN ino
                   ELSE IF ino[k].nlink = 0 THEN [ino EXCEPT ![k].dtime = TRUE, ![k].size = 0]
                   ELSE [ino EXCEPT ![k].size = tsize[k]]
         /\ cur' = next[k] /\ phase' = "recovering"
  <2> PICK shrinks : shrinks = IF ino[k].nlink = 0 THEN TRUE ELSE tsize[k] < ino[k].size
    OBVIOUS
  <2>1. CASE shrinks /\ ino[k].blocks # {}
    <3>1. phase' = "dead" /\ UNCHANGED <<ino, cur>>
      BY <2>1 DEF Recover
    <3> QED
      BY <3>1
  <2>2. CASE ~(shrinks /\ ino[k].blocks # {})
    <3>1. /\ ino' = IF ino[k].kind = "node" THEN ino
                    ELSE IF ino[k].nlink = 0 THEN [ino EXCEPT ![k].dtime = TRUE, ![k].size = 0]
                    ELSE [ino EXCEPT ![k].size = tsize[k]]
          /\ cur' = next[k] /\ UNCHANGED phase
      BY <2>2 DEF Recover
    <3> QED
      BY <1>1, <2>2, <3>1
  <2> QED
    BY <2>1, <2>2
<1>5. phase' \in {"dead", "recovering"} /\ phase' # "mounted"
  BY <1>4
<1>6. /\ ino' \in [Inodes -> InodeRec]
      /\ \A j \in Inodes \ {k} : ino'[j] = ino[j]
      /\ ino'[k].kind = ino[k].kind /\ ino'[k].nlink = ino[k].nlink /\ ino'[k].blocks = ino[k].blocks
      /\ ino[k].nlink # 0 \/ ino[k].kind = "node" => ino'[k].dtime = ino[k].dtime
  <2> PICK t : t = tsize[k]
    OBVIOUS
  <2>1. ino \in [Inodes -> InodeRec] /\ t \in Nat
    BY <1>2, <1>3, InodeTypes DEF Types
  <2>2. CASE ino' = ino
    BY <1>3, <2>1, <2>2
  <2>3. CASE ino' = [ino EXCEPT ![k].dtime = TRUE, ![k].size = 0] /\ ino[k].nlink = 0 /\ ino[k].kind # "node"
    BY <1>3, <2>1, <2>3 DEF InodeRec
  <2>4. CASE ino' = [ino EXCEPT ![k].size = t]
    BY <1>3, <2>1, <2>4 DEF InodeRec
  <2> QED
    BY <1>4, <2>2, <2>3, <2>4
<1>7. cur' \in 0 .. MaxIno
  BY <1>2, <1>3, <1>4, InodeTypes DEF Types
<1>8. Types'
  BY <1>1, <1>2, <1>5, <1>6, <1>7 DEF Types
<1>9. Space'
  <2>1. Nameless
    <3>1. ASSUME NEW i \in Inodes
          PROVE  \/ SameInode(i)
                 \/ ~Named(i) /\ i # Root /\ i \notin leaked /\ i <= table'.count /\ ino'[i].nlink = 0
      <4>1. CASE i # k
        BY <1>6, <4>1 DEF SameInode
      <4>2. CASE i = k /\ ino[k].nlink # 0
        BY <1>6, <4>2 DEF SameInode
      <4>3. CASE i = k /\ ino[k].nlink = 0
        BY <1>1, <1>3, <1>6, <4>3, NoLinksNoName
      <4> QED
        BY <4>1, <4>2, <4>3
    <3>2. Leaving = {}
      BY <1>2 DEF Leaving, Idle
    <3>3. table.count <= table'.count
      BY <1>1, <1>2, CountTypes
    <3> QED
      BY <1>1, <3>1, <3>2, <3>3 DEF Nameless
  <2> QED
    BY <1>2, <1>8, <2>1, NamelessKeepsSpace
<1>10. ASSUME NEW i \in Inodes, ~IsFree(i)' PROVE ~IsFree(i) /\ ino'[i].blocks = ino[i].blocks
  <2>1. CASE i = k
    BY <1>3, <1>6, <2>1
  <2>2. CASE i # k
    BY <1>6, <1>10, <2>2 DEF IsFree
  <2> QED
    BY <2>1, <2>2
<1>12. /\ \A i : (i \in Chain(head)') <=> i \in Chain(head)
       /\ phase' = "dead" => \A i : (i \in Chain(cur)') <=> i \in Chain(cur)
       /\ phase' # "dead" => \A i \in Inodes \ {k} : i \in Chain(cur) => (i \in Chain(cur)')
  <2>1. \A i : (i \in Chain(head)') <=> i \in Chain(head)
    BY <1>1 DEF Chain
  <2>2. phase' = "dead" => \A i : (i \in Chain(cur)') <=> i \in Chain(cur)
    BY <1>1, <1>4 DEF Chain
  <2>3. ASSUME phase' # "dead", NEW i \in Inodes \ {k}, i \in Chain(cur) PROVE i \in Chain(cur)'
    <3> PICK s : s = next[k]
      OBVIOUS
    <3>1. i \in Chain(s)
      <4>1. k \in 0 .. MaxIno /\ k # 0 /\ i \in Chain(k) /\ i # k
        BY <1>1, <1>3, <2>3, Consts
      <4> QED
        BY <1>2, <4>1, ChainBegins
    <3>2. cur' = s
      BY <1>4, <2>3
    <3> QED
      BY <1>1, <3>1, <3>2 DEF Chain
  <2> QED
    BY <2>1, <2>2, <2>3
<1>13. OrphansListed'
  <2>1. SUFFICES ASSUME NEW i \in Inodes, Orphan(i)'
                 PROVE  (i \in Chain(head)') /\ (phase' = "recovering" => (i \in Chain(cur)'))
    BY <1>5 DEF OrphansListed
  <2>2. Orphan(i)
    <3>1. CASE i = k
      BY <1>1, <1>3, <1>6, <2>1, <3>1 DEF Orphan
    <3>2. CASE i # k
      BY <1>1, <1>6, <2>1, <3>2 DEF Orphan, IsFree
    <3> QED
      BY <3>1, <3>2
  <2>3. i \in Chain(head) /\ i \in Chain(cur)
    BY <1>1, <2>2 DEF Inv, OrphansListed
  <2>4. ASSUME phase' = "recovering" PROVE i # k
    <3>1. SUFFICES ASSUME i = k PROVE FALSE
      OBVIOUS
    <3>2. ino[k].nlink = 0 /\ ino[k].kind # "node"
      BY <2>2, <3>1 DEF Orphan
    <3>3. ino' = [ino EXCEPT ![k].dtime = TRUE, ![k].size = 0]
      BY <1>4, <2>4, <3>2
    <3>4. ino'[k].dtime = TRUE
      BY <1>2, <1>3, <3>3 DEF Types, InodeRec
    <3> QED
      BY <1>6, <2>1, <3>1, <3>2, <3>4 DEF Orphan, IsFree
  <2> QED
    BY <1>12, <2>3, <2>4
<1>14. BlocksApart'
  <2>1. SUFFICES ASSUME lost = {} PROVE BlocksApart'
    BY <1>1 DEF BlocksApart
  <2>2. ApartBut(head) /\ ApartBut(cur)
        /\ (saved # NotSaved => /\ table.blocks \subseteq saved.inuse
                                /\ \A i \in Inodes : ~IsFree(i) => ino[i].blocks \subseteq saved.inuse)
    BY <1>1, <2>1 DEF Inv, BlocksApart
  <2>3. ASSUME phase' = "recovering" PROVE \A s : ~Doomed(k, s)
    <3>1. ino[k].blocks = {} \/ (ino[k].nlink # 0 /\ ~(tsize[k] < ino[k].size))
      BY <1>4, <2>3
    <3> QED
      BY <3>1 DEF Doomed
  <2>4. ASSUME NEW i \in Inodes, Doomed(i, head) PROVE Doomed(i, head)'
    <3>1. CASE phase' = "dead"
      <4>1. ino' = ino
        BY <1>4, <3>1
      <4> QED
        BY <1>1, <1>12, <2>4, <4>1 DEF Doomed
    <3>2. CASE phase' = "recovering"
      <4>1. i # k
        BY <2>3, <2>4, <3>2
      <4>2. ino'[i] = ino[i]
        BY <1>6, <4>1
      <4> QED
        BY <1>1, <1>12, <2>4, <4>2 DEF Doomed
    <3> QED
      BY <1>5, <3>1, <3>2
  <2>5. ASSUME NEW i \in Inodes, Doomed(i, cur), phase' = "recovering" PROVE Doomed(i, cur)'
    <3>1. i # k
      BY <2>3, <2>5
    <3>2. ino'[i] = ino[i] /\ (i \in Chain(cur)')
      BY <1>6, <1>12, <2>5, <3>1 DEF Doomed
    <3> QED
      BY <1>1, <2>5, <3>2 DEF Doomed
  <2>6. ApartBut(head)'
    BY <1>1, <1>10, <2>2, <2>4 DEF ApartBut
  <2>7. phase' = "recovering" => ApartBut(cur)'
    BY <1>1, <1>10, <2>2, <2>5 DEF ApartBut
  <2> QED
    BY <1>1, <1>5, <1>10, <2>2, <2>6, <2>7 DEF BlocksApart
<1> QED
  BY <1>1, <1>2, <1>5, <1>8, <1>9, <1>13, <1>14, DownStep

\* The recovery ends and the volume is mounted.
LEMMA RecoverEndStep ==
  ASSUME Inv, RecoverEnd
  PROVE  Inv'
<1>1. /\ phase = "recovering" /\ (cur # 0 => IsFree(cur))
      /\ head' = 0 /\ cur' = 0 /\ phase' = "mounted"
      /\ inuse' = (IF saved # NotSaved THEN saved.inuse ELSE TableCrawled)
      /\ hint' = (IF saved # NotSaved THEN saved.hint ELSE HintStart)
      /\ saved' = NotSaved
      /\ lost' = lost \cup {i \in Chain(cur) : ~IsFree(i)}
      /\ UNCHANGED <<ent, ino, limbo, table, next, tsize, listed, open, task, calls, crashes, leaked>>
  BY DEF RecoverEnd, Iget
<1>2. /\ Types /\ Space /\ (saved # NotSaved => saved.hint \in Inodes)
      /\ (\A c \in Clients : task[c] = Idle /\ open[c] = 0) /\ (\A i \in Inodes : limbo[i] = {}) /\ listed = <<>>
  BY <1>1 DEF Inv, Space, Modes
<1>3. \A i \in Inodes : ~IsFree(i) => i \in InTable
  <2>1. SUFFICES ASSUME NEW i \in Inodes, ~IsFree(i) PROVE i \in InTable
    OBVIOUS
  <2>2. ~(i > table.count)
    BY <1>2, <2>1 DEF Space, NamesRight
  <2> QED
    BY <1>2, <2>1, <2>2, CountTypes, Consts DEF InTable
<1>4. TableCrawled \subseteq Blocks /\ table.blocks \subseteq TableCrawled
      /\ \A i \in Inodes : ~IsFree(i) => ino[i].blocks \subseteq TableCrawled
  <2>1. \A i \in Inodes : ino[i].blocks \subseteq Blocks
    BY <1>2, InodeTypes
  <2> QED
    BY <1>2, <1>3, <2>1, CountTypes DEF TableCrawled, Crawled, InTable
<1>5. Types'
  <2>1. inuse' \subseteq Blocks
    BY <1>1, <1>2, <1>4 DEF Types
  <2>2. hint' \in Inodes /\ head' \in 0 .. MaxIno /\ cur' \in 0 .. MaxIno
    BY <1>1, <1>2, Consts
  <2>3. lost' \subseteq Inodes
    BY <1>1, <1>2 DEF Types, Chain
  <2>4. saved' \in [inuse : SUBSET Blocks, hint : 0 .. MaxIno]
    BY <1>1, Consts DEF NotSaved
  <2> QED
    BY <1>1, <1>2, <2>1, <2>2, <2>3, <2>4 DEF Types
<1>6. Space'
  <2>1. Nameless
    <3>1. Leaving = {}
      BY <1>2 DEF Leaving, Idle
    <3>2. table.count <= table'.count
      BY <1>1, <1>2, CountTypes
    <3> QED
      BY <1>1, <3>1, <3>2 DEF Nameless, SameInode
  <2> QED
    BY <1>2, <1>5, <2>1, NamelessKeepsSpace
<1>7. LocksApart' /\ CommitRight' /\ GoneRight' /\ OpenRight' /\ SizeRight' /\ ListedRight'
  BY <1>1, <1>2, NobodyCalls
<1>8. SameList' /\ Modes'
  <2>1. 1 .. Len(listed') = {}
    BY <1>1, <1>2
  <2> QED
    BY <1>1, <1>2, <2>1 DEF SameList, Modes
<1>9. OrphansListed'
  <2>1. SUFFICES ASSUME NEW i \in Inodes, Orphan(i)' PROVE FALSE
    BY <1>1 DEF OrphansListed
  <2>2. Orphan(i) /\ i \notin lost'
    BY <1>1, <2>1 DEF Orphan, IsFree
  <2>3. i \in Chain(cur) /\ ~IsFree(i)
    BY <1>1, <2>2 DEF Inv, OrphansListed, Orphan
  <2> QED
    BY <1>1, <2>2, <2>3
<1>10. BlocksApart'
  <2>1. SUFFICES ASSUME lost' = {} PROVE BlocksApart'
    BY DEF BlocksApart
  <2>2. lost = {} /\ \A i \in Chain(cur) : IsFree(i)
    BY <1>1, <2>1
  <2>3. ApartBut(cur) /\ (saved # NotSaved => /\ table.blocks \subseteq saved.inuse
                                              /\ \A i \in Inodes : ~IsFree(i) => ino[i].blocks \subseteq saved.inuse)
    BY <1>1, <2>2 DEF Inv, BlocksApart
  <2>4. \A i \in Inodes : ~IsFree(i) => ~Doomed(i, cur)
    BY <2>2 DEF Doomed
  <2>5. /\ \A i \in Inodes : ~IsFree(i) => ino[i].blocks \cap table.blocks = {}
        /\ \A i, j \in Inodes : i # j /\ ~IsFree(i) /\ ~IsFree(j) => ino[i].blocks \cap ino[j].blocks = {}
    BY <2>3, <2>4 DEF ApartBut
  <2>6. /\ \A i \in Inodes : ~IsFree(i) => ino[i].blocks \subseteq inuse'
        /\ table.blocks \subseteq inuse'
    BY <1>1, <1>4, <2>3
  <2> QED
    BY <1>1, <2>5, <2>6 DEF BlocksApart, IsFree
<1> QED
  BY <1>5, <1>6, <1>7, <1>8, <1>9, <1>10 DEF Inv, Space
-----------------------------------------------------------------------------
(***************************************************************************)
(* The invariant holds.                                                    *)
(***************************************************************************)
\* It holds of a new volume.
LEMMA InitInv ==
  ASSUME Init
  PROVE  Inv
<1>1. /\ ent = [i \in Inodes |-> NoEntries]
      /\ ino = [i \in Inodes |-> IF i = Root THEN NewInode("dir", 2, {1}) ELSE Unused]
      /\ limbo = [i \in Inodes |-> {}] /\ table = [count |-> FirstTable, blocks |-> {}]
      /\ head = 0 /\ next = [i \in Inodes |-> 0] /\ tsize = [i \in Inodes |-> 0]
      /\ saved = NotSaved /\ inuse = {1} /\ hint = HintStart /\ listed = <<>>
      /\ open = [c \in Clients |-> 0] /\ task = [c \in Clients |-> Idle]
      /\ phase = "mounted" /\ cur = 0 /\ calls = 0 /\ crashes = 0 /\ lost = {} /\ leaked = {}
  BY DEF Init, NewTable
<1> PICK z, y : z = Cardinality({1}) /\ y = Cardinality({})
  OBVIOUS
<1>2. z = 1 /\ y = 0
  BY FS_Singleton, FS_EmptySet
<1>3. /\ \A i \in Inodes : \A n \in Names : ent[i][n] = 0
      /\ ino[Root] = [kind |-> "dir", nlink |-> 2, dtime |-> FALSE, size |-> 1, blocks |-> {1}]
      /\ \A i \in Inodes \ {Root} :
           ino[i] = [kind |-> "none", nlink |-> 0, dtime |-> FALSE, size |-> 0, blocks |-> {}]
  <2>1. NewInode("dir", 2, {1}) = [kind |-> "dir", nlink |-> 2, dtime |-> FALSE, size |-> z, blocks |-> {1}]
    BY DEF NewInode
  <2>2. Unused = [kind |-> "none", nlink |-> 0, dtime |-> FALSE, size |-> y, blocks |-> {}]
    BY DEF NewInode, Unused
  <2> QED
    BY <1>1, <1>2, <2>1, <2>2, Consts DEF NoEntries
<1>4. 1 \in Blocks
  BY VolumeAssumption DEF Blocks
<1>5. Types
  <2>1. ent \in [Inodes -> [Names -> 0 .. MaxIno]]
    BY <1>1, Consts DEF NoEntries
  <2>2. ino \in [Inodes -> InodeRec]
    <3> PICK a, b : a = {1} /\ b = {}
      OBVIOUS
    <3>2. a \in SUBSET Blocks /\ b \in SUBSET Blocks
      BY <1>4
    <3>3. [kind |-> "dir", nlink |-> 2, dtime |-> FALSE, size |-> 1, blocks |-> a] \in InodeRec
      BY <3>2 DEF InodeRec
    <3>4. [kind |-> "none", nlink |-> 0, dtime |-> FALSE, size |-> 0, blocks |-> b] \in InodeRec
      BY <3>2 DEF InodeRec
    <3>1. \A i \in Inodes : ino[i] \in InodeRec
      BY <1>3, <3>3, <3>4
    <3> QED
      BY <1>1, <3>1
  <2>3. table \in [count : FirstTable .. MaxIno, blocks : SUBSET Blocks]
    BY <1>1, Consts
  <2>4. /\ head \in 0 .. MaxIno /\ next \in [Inodes -> 0 .. MaxIno] /\ tsize \in [Inodes -> Nat]
        /\ inuse \subseteq Blocks /\ hint \in Inodes /\ listed \in Seq(Inodes \cup Clients)
        /\ open \in [Clients -> 0 .. MaxIno] /\ task \in [Clients -> Tasks] /\ cur \in 0 .. MaxIno
        /\ limbo \in [Inodes -> SUBSET Blocks]
    BY <1>1, <1>4, Consts DEF Tasks
  <2>5. saved \in [inuse : SUBSET Blocks, hint : 0 .. MaxIno] /\ crashes \in 0 .. MaxCrashes
    BY <1>1, Consts DEF NotSaved
  <2> QED
    BY <1>1, <2>1, <2>2, <2>3, <2>4, <2>5 DEF Types
<1>6. \A i \in Inodes : ~Named(i)
  BY <1>3, Consts DEF Named
<1>7. \A i \in Inodes : IsFree(i) <=> i # Root
  BY <1>3, Consts DEF IsFree
<1>8. NamesRight /\ Hangs /\ NamesAlive /\ DirsNamed
  <2>1. NamesRight
    BY <1>1, <1>3, <1>7, Consts DEF NamesRight, IsDir, Root
  <2>2. DirsNamed
    BY <1>1, <1>3 DEF DirsNamed, IsDir
  <2> QED
    BY <1>6, <2>1, <2>2 DEF Hangs, NamesAlive
<1>9. LinksRight
  <2>1. \A i \in Inodes : IsDir(i) /\ ino[i].nlink > 0 => i = Root
    BY <1>3
  <2>2. Cardinality(SubDirs(Root)) = 0
    <3>1. SubDirs(Root) = {}
      BY <1>3, Consts DEF SubDirs
    <3> QED
      BY <3>1, FS_EmptySet
  <2>3. ino[Root].nlink >= 2 + Cardinality(SubDirs(Root))
    BY <1>3, <2>2
  <2>4. IsDir(Root)
    BY <1>3 DEF IsDir
  <2> QED
    BY <1>3, <1>7, <2>1, <2>3, <2>4 DEF LinksRight
<1>10. LocksApart /\ CommitRight /\ GoneRight /\ OpenRight /\ SizeRight /\ ListedRight
  <2>1. \A c \in Clients : task[c].pc = "idle" /\ task[c].locks = {} /\ open[c] = 0
    BY <1>1 DEF Idle
  <2>2. LocksApart /\ OpenRight
    BY <2>1 DEF LocksApart, OpenRight, OpenOK
  <2>3. CommitRight /\ GoneRight
    BY <2>1 DEF CommitRight, CommitOK, GoneRight, GoneOK, Given
  <2>4. SizeRight
    BY <1>1, <2>1 DEF SizeRight, SizeOK, Sizing
  <2>5. ListedRight
    <3>1. 1 .. Len(listed) = {} /\ \A i \in Inodes : ~Contains(listed, i)
      BY <1>1 DEF Contains
    <3> QED
      BY <3>1 DEF ListedRight
  <2> QED
    BY <2>2, <2>3, <2>4, <2>5
<1>11. SameList
  <2>1. 1 .. Len(listed) = {}
    BY <1>1
  <2> QED
    BY <1>1, <2>1 DEF SameList
<1>12. OrphansListed /\ Modes
  <2>1. \A i \in Inodes : ~Orphan(i)
    BY <1>3, <1>7 DEF Orphan
  <2> QED
    BY <1>1, <2>1 DEF OrphansListed, Modes
<1>13. BlocksApart
  BY <1>1, <1>3, <1>7 DEF BlocksApart
<1> QED
  BY <1>5, <1>8, <1>9, <1>10, <1>11, <1>12, <1>13 DEF Inv

\* A step that changes nothing changes nothing of it.
LEMMA StutterStep ==
  ASSUME Inv, UNCHANGED vars
  PROVE  Inv'
<1>1. /\ ent' = ent /\ ino' = ino /\ limbo' = limbo /\ table' = table /\ head' = head /\ next' = next
      /\ tsize' = tsize /\ saved' = saved /\ inuse' = inuse /\ hint' = hint /\ listed' = listed /\ open' = open
      /\ task' = task /\ phase' = phase /\ cur' = cur /\ calls' = calls /\ crashes' = crashes
      /\ lost' = lost /\ leaked' = leaked
  BY DEF vars
<1>2. Types' /\ Modes'
  <2>1. Types'
    BY <1>1 DEF Inv, Types
  <2>2. Modes'
    BY <1>1 DEF Inv, Modes
  <2> QED
    BY <2>1, <2>2
<1>3. NamesRight' /\ Hangs' /\ NamesAlive'
  <2>1. NamesRight'
    BY <1>1 DEF Inv, NamesRight, IsFree, IsDir, Named
  <2>2. Hangs'
    BY <1>1 DEF Inv, Hangs, IsDir, Named, Up
  <2>3. NamesAlive'
    BY <1>1 DEF Inv, NamesAlive, Named
  <2> QED
    BY <2>1, <2>2, <2>3
<1>4. LinksRight' /\ DirsNamed'
  <2>1. LinksRight'
    BY <1>1 DEF Inv, LinksRight, IsFree, IsDir, Named, NamesOf, SubDirs
  <2>2. DirsNamed'
    BY <1>1 DEF Inv, DirsNamed, IsDir, Named, Leaving
  <2> QED
    BY <2>1, <2>2
<1>5. LocksApart' /\ CommitRight' /\ GoneRight'
  <2>1. LocksApart'
    BY <1>1 DEF Inv, LocksApart
  <2>2. CommitRight'
    BY <1>1 DEF Inv, CommitRight, CommitOK, IsDir, Up, Dropped
  <2>3. GoneRight'
    BY <1>1 DEF Inv, GoneRight, GoneOK, Named, IsFree
  <2> QED
    BY <2>1, <2>2, <2>3
<1>6. OpenRight' /\ SizeRight'
  <2>1. OpenRight'
    BY <1>1 DEF Inv, OpenRight, OpenOK, IsFree
  <2>2. SizeRight'
    BY <1>1 DEF Inv, SizeRight, SizeOK
  <2> QED
    BY <2>1, <2>2
<1>7. SameList' /\ ListedRight' /\ OrphansListed'
  <2>1. SameList'
    BY <1>1 DEF Inv, SameList, InodeOf
  <2>2. ListedRight'
    BY <1>1 DEF Inv, ListedRight, InodeOf, IsFree
  <2>3. OrphansListed'
    BY <1>1 DEF Inv, OrphansListed, Orphan, IsFree, Chain
  <2> QED
    BY <2>1, <2>2, <2>3
<1>8. BlocksApart'
  <2>1. \A i \in Inodes : (Doomed(i, head)' <=> Doomed(i, head)) /\ (Doomed(i, cur)' <=> Doomed(i, cur))
    BY <1>1 DEF Doomed, Chain
  <2> QED
    BY <1>1, <2>1 DEF Inv, BlocksApart, ApartBut, IsFree
<1> QED
  BY <1>2, <1>3, <1>4, <1>5, <1>6, <1>7, <1>8 DEF Inv

\* Every step that is no race keeps it.
LEMMA NextInv ==
  ASSUME Inv, races' = {}, [Next]_vars
  PROVE  Inv'
<1>1. ASSUME NEW c \in Clients, NEW d \in Inodes, NEW n \in Names,
             \/ Create(c, d, n) \/ Mknod(c, d, n) \/ Symlink(c, d, n) \/ Mkdir(c, d, n)
      PROVE  Inv'
  BY <1>1, MakingStep
<1>2. ASSUME NEW c \in Clients, NEW d \in Inodes, NEW n \in Names,
             \/ \E i \in Inodes : Link(c, d, n, i)
             \/ Unlink(c, d, n) \/ Rmdir(c, d, n)
             \/ \E e \in Inodes, m \in Names : Rename(c, d, n, e, m)
      PROVE  Inv'
  BY <1>2, LinkStep, UnlinkStep, RmdirStep, RenameStep
<1>3. ASSUME NEW c \in Clients, CreateAbort(c) \/ RemoveCommit(c) \/ EvictFree(c) \/ EvictDel(c)
      PROVE  Inv'
  BY <1>3, CreateAbortStep, RemoveCommitStep, EvictFreeStep, EvictDelStep
<1>4. ASSUME NEW c \in Clients, (\E i \in Inodes : Open(c, i)) \/ Close(c) \/ Write(c)
      PROVE  Inv'
  BY <1>4, OpenStep, CloseStep, WriteStep
<1>5. ASSUME NEW c \in Clients,
             (\E size \in 0 .. 1 : SetSize(c, size)) \/ SetSizeFree(c) \/ SetSizeWrite(c) \/ SetSizeEnd(c)
      PROVE  Inv'
  BY <1>5, SetSizeStep, SetSizeFreeStep, SetSizeWriteStep, SetSizeEndStep
<1>6. CASE Unmount \/ Crash \/ Mount \/ Recover \/ RecoverEnd
  BY <1>6, UnmountStep, CrashStep, MountStep, RecoverStep, RecoverEndStep
<1>7. CASE UNCHANGED vars
  BY <1>7, StutterStep
<1> QED
  BY <1>1, <1>2, <1>3, <1>4, <1>5, <1>6, <1>7 DEF Next

\* A race is never forgotten.
LEMMA RacesStay ==
  ASSUME [Next]_vars
  PROVE  races \subseteq races'
<1>1. ASSUME NEW c \in Clients, NEW d \in Inodes, NEW n \in Names,
             \/ Create(c, d, n) \/ Mknod(c, d, n) \/ Symlink(c, d, n) \/ Mkdir(c, d, n)
      PROVE  races \subseteq races'
  BY <1>1 DEF Create, Mknod, Symlink, Mkdir, Make, Races
<1>2. ASSUME NEW c \in Clients, NEW d \in Inodes, NEW n \in Names,
             \/ \E i \in Inodes : Link(c, d, n, i)
             \/ Unlink(c, d, n) \/ Rmdir(c, d, n)
             \/ \E e \in Inodes, m \in Names : Rename(c, d, n, e, m)
      PROVE  races \subseteq races'
  <2>1. ASSUME NEW r, NEW more, Removal(c, r, more) PROVE races' = races
    BY <2>1 DEF Removal
  <2>2. ASSUME NEW i \in Inodes, Link(c, d, n, i) PROVE races' = races
    BY <2>2 DEF Link
  <2>3. CASE Unlink(c, d, n)
    BY <2>1, <2>3 DEF Unlink
  <2>4. CASE Rmdir(c, d, n)
    BY <2>1, <2>4 DEF Rmdir
  <2>5. ASSUME NEW e \in Inodes, NEW m \in Names, Rename(c, d, n, e, m) PROVE races' = races
    BY <2>1, <2>5 DEF Rename
  <2> QED
    BY <1>2, <2>2, <2>3, <2>4, <2>5
<1>3. ASSUME NEW c \in Clients, CreateAbort(c) \/ RemoveCommit(c) \/ EvictFree(c) \/ EvictDel(c)
      PROVE  races \subseteq races'
  BY <1>3 DEF CreateAbort, RemoveCommit, EvictFree, EvictDel
<1>4. ASSUME NEW c \in Clients, (\E i \in Inodes : Open(c, i)) \/ Close(c) \/ Write(c)
      PROVE  races \subseteq races'
  BY <1>4 DEF Open, Close, Write
<1>5. ASSUME NEW c \in Clients,
             (\E size \in 0 .. 1 : SetSize(c, size)) \/ SetSizeFree(c) \/ SetSizeWrite(c) \/ SetSizeEnd(c)
      PROVE  races \subseteq races'
  BY <1>5 DEF SetSize, SetSizeFree, SetSizeWrite, SetSizeEnd, Races
<1>6. CASE Unmount \/ Crash \/ Mount \/ Recover \/ RecoverEnd
  BY <1>6 DEF Unmount, Crash, Mount, Recover, RecoverEnd
<1>7. CASE UNCHANGED vars
  BY <1>7 DEF vars
<1> QED
  BY <1>1, <1>2, <1>3, <1>4, <1>5, <1>6, <1>7 DEF Next

\* So it is an invariant until a race: until a new inode takes the number of one that
\* a call is still giving up, or an open file without a name is truncated.
THEOREM VolumeInvariant == Spec => [](races = {} => Inv)
<1>1. Init => Inv
  BY InitInv
<1>2. (races = {} => Inv) /\ [Next]_vars => (races = {} => Inv)'
  <2>1. ASSUME races = {} => Inv, [Next]_vars, races' = {} PROVE Inv'
    <3>1. Inv
      BY <2>1, RacesStay
    <3> QED
      BY <2>1, <3>1, NextInv
  <2> QED
    BY <2>1
<1> QED
  BY <1>1, <1>2, PTL DEF Spec

\* Only the two races make the list in persistent memory and the list in memory differ
\* while the volume is mounted, whatever the calls, failures and mounts were.
THEOREM VolumeListsAgree == Spec => []ListsAgree
<1>1. (races = {} => Inv) => ListsAgree
  BY DEF Inv, ListsAgree
<1> QED
  BY <1>1, VolumeInvariant, PTL

\* Every variable keeps its type, at least until a race: new inodes, blocks and hints stay
\* in range, whatever fails.
THEOREM VolumeTypes == Spec => [](races = {} => TypeOK)
<1>1. ASSUME races = {}, Inv PROVE TypeOK
  <2>1. Types
    BY <1>1 DEF Inv
  <2>2. \A i \in Inodes :
          /\ ino[i].kind \in {"none", "file", "dir", "link", "node"} /\ ino[i].nlink \in Nat /\ ino[i].dtime \in BOOLEAN
          /\ ino[i].size \in Nat /\ ino[i].blocks \subseteq Blocks /\ limbo[i] \subseteq Blocks
    BY <2>1, InodeTypes
  <2>3. \A f \in ToSet(listed) : f \in Inodes \cup Clients
    BY <2>1 DEF Types, ToSet
  <2>4. \A c \in Clients :
          task[c].pc \in {"idle", "abort", "commit", "evict", "del", "free", "size", "unlist"}
    BY <2>1, TaskTypes DEF Given, Sizing
  <2>5. table.count \in FirstTable .. MaxIno /\ table.blocks \subseteq Blocks
    BY <2>1, CountTypes
  <2> QED
    BY <1>1, <2>1, <2>2, <2>3, <2>4, <2>5 DEF TypeOK, Types
<1>2. (races = {} => Inv) => (races = {} => TypeOK)
  BY <1>1
<1> QED
  BY <1>2, VolumeInvariant, PTL

\* Until a new inode takes the number of one that a call is still giving up, or an open
\* file without a name is truncated: every name leads to an inode in use, a directory has
\* one name and hangs below the root, and the link counts are those of the names, whatever
\* the calls, failures and mounts were, but for the directories that a rename has replaced
\* with a count too high.
THEOREM VolumeNamespace == Spec => []NamespaceSound
<1>1. ASSUME races = {}, Inv PROVE NamespaceSound
  <2>1. Types /\ NamesRight /\ LinksRight /\ DirsNamed /\ Hangs
    BY <1>1 DEF Inv
  <2>2. SUFFICES ASSUME NEW i \in Inodes, i \in InTable
                 PROVE  /\ \A n \in Names : IsDir(i) /\ ~IsFree(i) /\ ent[i][n] # 0 => ~IsFree(ent[i][n])
                        /\ ~IsFree(i) /\ ~IsDir(i) => ino[i].nlink = Cardinality(Entries(i))
                        /\ ~IsFree(i) /\ IsDir(i) /\ ino[i].nlink > 0 /\ i \notin Leaving \cup leaked =>
                             /\ i # Root => Cardinality(Entries(i)) = 1 /\ Root \in Above(i)
                             /\ ino[i].nlink >= 2 + Cardinality({n \in Names : ent[i][n] # 0 /\ IsDir(ent[i][n])})
    BY DEF NamespaceSound, InTable
  <2>3. ASSUME NEW n \in Names, ent[i][n] # 0 PROVE ~IsFree(ent[i][n])
    <3> PICK j : j = ent[i][n]
      OBVIOUS
    <3>1. j \in 0 .. MaxIno
      BY <2>1, <2>2, InodeTypes
    <3>2. j \in Inodes /\ ino[j].nlink > 0
      BY <2>1, <2>2, <2>3, <3>1, Consts DEF Inodes, NamesRight
    <3>3. ino[j].nlink # 0
      BY <2>1, <3>2, InodeTypes
    <3> QED
      BY <3>3 DEF IsFree
  <2>4. ASSUME ~IsFree(i), ~IsDir(i) PROVE ino[i].nlink = Cardinality(Entries(i))
    BY <2>1, <2>2, <2>4, EntriesAreNames DEF LinksRight
  <2>5. ASSUME IsDir(i), ino[i].nlink > 0, i \notin Leaving \cup leaked, i # Root
        PROVE  Cardinality(Entries(i)) = 1 /\ Root \in Above(i)
    <3>1. Named(i)
      BY <2>1, <2>2, <2>5 DEF DirsNamed
    <3>2. PICK p \in Inodes, n \in Names : ent[p][n] = i
      BY <3>1 DEF Named
    <3>3. ASSUME NEW e \in NamesOf(i) PROVE e = <<p, n>>
      <4>1. PICK q \in Inodes, m \in Names : e = <<q, m>> /\ ent[q][m] = i
        BY <3>3 DEF NamesOf
      <4>2. p = q /\ n = m
        BY <2>1, <2>2, <2>5, <3>2, <4>1, Consts DEF LinksRight
      <4> QED
        BY <4>1, <4>2
    <3>4. NamesOf(i) = {<<p, n>>}
      <4>1. <<p, n>> \in NamesOf(i)
        BY <3>2 DEF NamesOf
      <4> QED
        BY <3>3, <4>1
    <3>5. Cardinality(Entries(i)) = 1
      BY <2>1, <2>2, <3>4, EntriesAreNames, FS_Singleton
    <3>6. Root \in Above(i)
      <4>1. \A T \in SUBSET Inodes : i \in T /\ Up(T) => Root \in T
        BY <2>1, <2>2, <2>5, <3>1 DEF Hangs
      <4> QED
        BY <2>1, <4>1, AboveIs, Consts
    <3> QED
      BY <3>5, <3>6
  <2>6. ASSUME IsDir(i), ino[i].nlink > 0, i \notin Leaving \cup leaked
        PROVE  ino[i].nlink >= 2 + Cardinality({n \in Names : ent[i][n] # 0 /\ IsDir(ent[i][n])})
    <3>1. i = Root \/ Named(i)
      BY <2>1, <2>2, <2>6 DEF DirsNamed
    <3> QED
      BY <2>1, <2>2, <2>6, <3>1 DEF LinksRight, SubDirs
  <2> QED
    BY <2>3, <2>4, <2>5, <2>6
<1>2. (races = {} => Inv) => NamespaceSound
  BY <1>1 DEF NamespaceSound
<1> QED
  BY <1>2, VolumeInvariant, PTL

\* While the volume is mounted no block belongs to two trees, or to a tree and the table,
\* and every block of either is in use, until one of the two races, or until a mount has
\* given up a truncation: nothing else gives a block two owners.
THEOREM VolumeBlocks == Spec => []BlocksOwned
<1>1. ASSUME races = {}, Inv PROVE BlocksOwned
  <2>1. SUFFICES ASSUME phase = "mounted", lost = {}
                 PROVE  LET owners == {i \in InTable : ~IsFree(i)} IN
                        /\ \A i \in owners : ino[i].blocks \subseteq inuse /\ ino[i].blocks \cap table.blocks = {}
                        /\ \A i, j \in owners : i # j => ino[i].blocks \cap ino[j].blocks = {}
                        /\ table.blocks \subseteq inuse
    BY DEF BlocksOwned
  <2>2. /\ \A i \in Inodes : ~IsFree(i) => ino[i].blocks \subseteq inuse /\ ino[i].blocks \cap table.blocks = {}
        /\ \A i, j \in Inodes : i # j /\ ~IsFree(i) /\ ~IsFree(j) => ino[i].blocks \cap ino[j].blocks = {}
        /\ table.blocks \subseteq inuse
    BY <1>1, <2>1 DEF Inv, BlocksApart
  <2> QED
    BY <2>2 DEF InTable
<1>2. (races = {} => Inv) => BlocksOwned
  BY <1>1 DEF BlocksOwned
<1> QED
  BY <1>2, VolumeInvariant, PTL

\* Until one of the two races, a file, link or directory that has lost its last name is on
\* the truncate list in persistent memory for as long as it has its inode, also across a
\* power failure: nothing else takes it off.
THEOREM VolumeNoOrphans == Spec => []NoOrphans
<1>1. ASSUME races = {}, Inv PROVE NoOrphans
  <2>1. Types /\ SameList /\ ListedRight /\ OrphansListed
    BY <1>1 DEF Inv
  <2>2. SUFFICES ASSUME phase \in {"mounted", "down"}, NEW i \in Inodes, Orphan(i)
                 PROVE  i \in Chain(head)
    BY DEF NoOrphans, InTable, Orphan
  <2>3. CASE phase = "mounted"
    <3>1. Contains(listed, i)
      BY <2>1, <2>2, <2>3 DEF OrphansListed
    <3> QED
      BY <2>1, <2>3, <3>1, ListedChained
  <2>4. CASE phase = "down"
    BY <2>1, <2>2, <2>4 DEF OrphansListed
  <2> QED
    BY <2>2, <2>3, <2>4
<1>2. (races = {} => Inv) => NoOrphans
  BY <1>1 DEF NoOrphans
<1> QED
  BY <1>2, VolumeInvariant, PTL
=============================================================================
