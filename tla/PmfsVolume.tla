----------------------------- MODULE PmfsVolume -----------------------------
(***************************************************************************)
(* A mounted PMFS volume, code/nvm-ref/pmfs: the namespace (namei.c), the  *)
(* inodes and the truncate list (inode.c), the blocks in use (balloc.c)    *)
(* and what a crash and the next mount make of them (super.c, bbuild.c).   *)
(*                                                                         *)
(* A transaction is one step, at its commit, which PmfsJournal justifies;  *)
(* what a handler does outside its transaction, or between two of them, is *)
(* a step of its own.  The tree of an inode is the set of its blocks: a    *)
(* file has one at most, a directory one or, with the meta block of a tree *)
(* of height one, three.  VFS takes the i_mutex of the directories and of  *)
(* the inode that goes away (locks), and keeps an inode that is open.      *)
(*                                                                         *)
(* Two things that the code lets happen ruin the volume: a new inode takes *)
(* the number of one that a call is still giving up, and a file that has   *)
(* lost its last name, but is open, is truncated.  The model lets them     *)
(* happen and records them in races; the properties say what holds until   *)
(* then.                                                                   *)
(***************************************************************************)
EXTENDS Integers, FiniteSetsExt, SequencesExt

CONSTANTS
  Clients, Names,
  MaxIno,       \* the inodes are 1 .. MaxIno; 1 is the root
  FirstTable,   \* inodes in the table of a new volume
  NBlocks,      \* blocks behind the journal
  RootRoom,     \* bound: names in the first block of the root; one in any other block
  MaxCalls,     \* bound: calls made, the ends of open files not counted
  MaxCrashes    \* bound: power failures

Inodes == 1 .. MaxIno

ASSUME VolumeAssumption ==
  /\ MaxIno \in Nat /\ FirstTable \in 2 .. MaxIno /\ NBlocks \in Nat \ {0} /\ RootRoom \in Nat
  /\ MaxCrashes \in Nat /\ MaxCalls \in Nat
  /\ IsFiniteSet(Names) /\ Clients \cap Inodes = {}

Root == 1
Blocks == 1 .. NBlocks
HintStart == 2   \* PMFS_FREE_INODE_HINT_START
NotSaved == [inuse |-> {}, hint |-> 0]

VARIABLES
  ent,      \* directory -> name -> inode, 0 for none
  ino,      \* inode -> the struct pmfs_inode
  limbo,    \* inode -> blocks whose way out of the tree is not yet persistent
  table,    \* the inode table: its number of inodes, and blocks it has grown by
  head, next, tsize,   \* the truncate list in persistent memory
  saved,    \* what the last unmount has left: the blocks in use and the hint
  inuse,    \* block_inuse_head
  hint,     \* s_free_inode_hint
  listed,   \* s_truncate: inodes, a client for the inode that it evicts
  open,     \* client -> the file it has open, or 0
  task,     \* client -> the call it is in, between two steps
  phase, cur,          \* mounted, down, recovering at inode cur, dead: BUG()
  calls, crashes,
  lost,     \* history: listed inodes that a mount has given up
  leaked,   \* history: directories replaced while their link count was too high
  races     \* history: "reuse", "truncate": which of the two has happened

vars == <<ent, ino, limbo, table, head, next, tsize, saved, inuse, hint, listed, open, task,
          phase, cur, calls, crashes, lost, leaked, races>>
mount == <<phase, cur, crashes, lost>>
system == <<mount, leaked>>
list == <<head, next, tsize, listed>>

NoEntries == [n \in Names |-> 0]
NewInode(kind, nlink, blocks) ==
  [kind |-> kind, nlink |-> nlink, dtime |-> FALSE, size |-> Cardinality(blocks), blocks |-> blocks]
Unused == NewInode("none", 0, {})
Idle == [pc |-> "idle", ino |-> 0, locks |-> {}]

\* The test that new_inode, read_inode and the crawl make.
IsFree(i) == ino[i].nlink = 0 /\ (ino[i].kind = "none" \/ ino[i].dtime)
IsDir(i) == ino[i].kind = "dir"
InTable == {i \in Inodes : i <= table.count}
Entries(i) == {e \in Inodes \X Names : IsDir(e[1]) /\ ~IsFree(e[1]) /\ ent[e[1]][e[2]] = i}
FreeBlocks == Blocks \ inuse
InUseBy(i) == {c \in Clients : open[c] = i}

\* pmfs_inode_by_name, pmfs_lookup; pmfs_empty_dir.
Lookup(d, n) == ent[d][n]
IsEmpty(i) == ent[i] = NoEntries

\* Directories in which a name can be made, and the inodes a call can find.
LiveDirs == {i \in InTable : IsDir(i) /\ ino[i].nlink > 0 /\ (i = Root \/ Entries(i) # {})}
Locked == UNION {task[c].locks : c \in Clients}
Ready(c, locks) ==
  phase = "mounted" /\ calls < MaxCalls /\ task[c] = Idle /\ locks \cap Locked = {}

\* pmfs_init_inode_table, pmfs_init.
NewTable == [count |-> FirstTable, blocks |-> {}]
Init ==
  /\ ent = [i \in Inodes |-> NoEntries]
  /\ ino = [i \in Inodes |-> IF i = Root THEN NewInode("dir", 2, {1}) ELSE Unused]
  /\ limbo = [i \in Inodes |-> {}]
  /\ table = NewTable
  /\ head = 0 /\ next = [i \in Inodes |-> 0] /\ tsize = [i \in Inodes |-> 0]
  /\ saved = NotSaved /\ inuse = {1} /\ hint = HintStart /\ listed = <<>>
  /\ open = [c \in Clients |-> 0] /\ task = [c \in Clients |-> Idle]
  /\ phase = "mounted" /\ cur = 0 /\ calls = 0 /\ crashes = 0
  /\ lost = {} /\ leaked = {} /\ races = {}

-----------------------------------------------------------------------------
(***************************************************************************)
(* The truncate list.                                                      *)
(***************************************************************************)
\* The inodes on the list in persistent memory from inode i on: the least set that
\* has i in it and, with every inode, the one behind it.
Chain(i) ==
  {j \in Inodes : \A T \in SUBSET Inodes :
     (i # 0 => i \in T) /\ (\A k \in T : next[k] # 0 => next[k] \in T) => j \in T}

\* pmfs_truncate_add.
TruncateAdd(i, size) ==
  IF Contains(listed, i) THEN UNCHANGED list
  ELSE /\ next' = [next EXCEPT ![i] = head] /\ tsize' = [tsize EXCEPT ![i] = size]
       /\ head' = i /\ listed' = <<i>> \o listed

\* The inode behind an entry of s_truncate: a client's is the one it evicts.
InodeOf(e) == IF e \in Clients THEN task[e].ino ELSE e

\* pmfs_truncate_del of entry e.
TruncateDelHead(e) ==
  IF ~Contains(listed, e) THEN UNCHANGED list
  ELSE /\ listed' = SelectSeq(listed, LAMBDA x : x # e) /\ head' = next[InodeOf(e)]
       /\ UNCHANGED <<next, tsize>>
TruncateDel(e) ==
  LET k == CHOOSE j \in 1 .. Len(listed) : listed[j] = e IN
  IF ~Contains(listed, e) THEN UNCHANGED list
  ELSE /\ listed' = RemoveAt(listed, k) /\ UNCHANGED tsize
       /\ IF k = 1 THEN head' = next[InodeOf(e)] /\ UNCHANGED next
          ELSE next' = [next EXCEPT ![InodeOf(listed[k - 1])] = next[InodeOf(e)]] /\ UNCHANGED head

-----------------------------------------------------------------------------
(***************************************************************************)
(* New names.                                                              *)
(***************************************************************************)
\* pmfs_add_entry: the blocks by which the directory must grow for one entry more,
\* one name to a block; the second data block brings the first meta block.
Growth(d) ==
  LET used == Cardinality({n \in Names : ent[d][n] # 0})
      more == Cardinality(ino[d].blocks) - 1
      room == (IF d = Root THEN RootRoom ELSE 1) + (IF more = 0 THEN 0 ELSE more - 1) IN
  IF used < room THEN 0 ELSE IF more = 0 THEN 2 ELSE 1
Lowest(S, n) == {b \in S : Cardinality({a \in S : a < b}) < n}

\* The inodes whose numbers are being given up by a call that has not ended.
Leaving == {task[c].ino : c \in {d \in Clients : task[d].pc \in {"del", "abort"}}}

\* pmfs_new_inode: the first free inode from the hint on; behind the last one the
\* table grows, in a transaction of its own.
Candidates == {i \in InTable : i >= hint /\ IsFree(i)}
Grows == Candidates = {}
TableBlock == IF Grows THEN Lowest(FreeBlocks, 1) ELSE {}
Found == IF Grows THEN table.count + 1 ELSE Min(Candidates)
CanFind == Found \in Inodes /\ (Grows => TableBlock # {})
Grown == IF Grows THEN [count |-> Found, blocks |-> table.blocks \cup TableBlock] ELSE table
HintBehindNoWrap(i) == i + 1
HintBehind(i) == IF i < Grown.count THEN i + 1 ELSE HintStart

\* A step that does this under the condition p is one of the races.
Races(what, p) == races' = IF p THEN races \cup {what} ELSE races

\* pmfs_free_inode: the hint h when inode i becomes free.
HintFreed(h, i) == IF i < h THEN i ELSE h

\* pmfs_new_inode and a name in d for it: an inode of this kind with nlink links and
\* so many blocks.  On an error the inode is evicted, in a transaction that commits,
\* before the call aborts its own; the link count of a directory stays in persistent
\* memory till then, and a block that only the tree of d took stays in use.
Make(c, d, n, kind, nlink, blocks) ==
  LET i == Found
      free == FreeBlocks \ TableBlock
      own == Lowest(free, blocks)
      more == Lowest(free \ own, Growth(d))
      ok == Cardinality(own) = blocks /\ Cardinality(more) = Growth(d) IN
  /\ Ready(c, {d}) /\ Lookup(d, n) = 0 /\ d \in LiveDirs /\ CanFind
  /\ Races("reuse", i \in Leaving)
  /\ table' = Grown
  /\ \/ /\ ok
        /\ ent' = [ent EXCEPT ![d][n] = i, ![i] = NoEntries]
        /\ ino' = [ino EXCEPT ![i] = NewInode(kind, nlink, own),
                              ![d].nlink = IF kind = "dir" THEN @ + 1 ELSE @,
                              ![d].blocks = @ \cup more,
                              ![d].size = @ + (Growth(d) + 1) \div 2]
        /\ inuse' = inuse \cup TableBlock \cup own \cup more
        /\ hint' = HintBehind(i)
        /\ UNCHANGED task
     \/ /\ ~ok
        /\ ino' = [ino EXCEPT ![i] = [NewInode(kind, IF kind = "dir" THEN 1 ELSE 0, {})
                                       EXCEPT !.dtime = kind # "node"]]
        /\ inuse' = inuse \cup TableBlock \cup (IF Cardinality(own) = blocks THEN more ELSE {})
        /\ hint' = IF kind = "node" THEN HintBehind(i) ELSE HintFreed(HintBehind(i), i)
        /\ task' = [task EXCEPT ![c] = [pc |-> "abort", ino |-> i, locks |-> {d}, undo |-> ino[i]]]
        /\ UNCHANGED ent
  /\ calls' = calls + 1
  /\ UNCHANGED <<limbo, list, saved, open, system>>

\* pmfs_create, pmfs_mknod, pmfs_symlink, pmfs_mkdir.
Create(c, d, n) == Make(c, d, n, "file", 1, 0)
Mknod(c, d, n) == Make(c, d, n, "node", 1, 0)
Symlink(c, d, n) == Make(c, d, n, "link", 1, 1)
Mkdir(c, d, n) == Make(c, d, n, "dir", 2, 1)

\* pmfs_abort_transaction of the call: the inode is what it was before.
CreateAbort(c) ==
  /\ task[c].pc = "abort"
  /\ ino' = [ino EXCEPT ![task[c].ino] = task[c].undo]
  /\ task' = [task EXCEPT ![c] = Idle]
  /\ UNCHANGED <<ent, limbo, table, list, saved, inuse, hint, open, calls, system, races>>

\* pmfs_link.
Link(c, d, n, i) ==
  LET more == Lowest(FreeBlocks, Growth(d))
      ok == Cardinality(more) = Growth(d) IN
  /\ Ready(c, {d, i}) /\ d \in LiveDirs /\ Lookup(d, n) = 0
  /\ i \in InTable /\ ~IsDir(i) /\ Entries(i) # {}
  /\ inuse' = inuse \cup more
  /\ IF ok THEN /\ ent' = [ent EXCEPT ![d][n] = i]
                /\ ino' = [ino EXCEPT ![i].nlink = @ + 1, ![d].blocks = @ \cup more,
                                      ![d].size = @ + (Growth(d) + 1) \div 2]
     ELSE UNCHANGED <<ent, ino>>
  /\ calls' = calls + 1
  /\ UNCHANGED <<limbo, table, list, saved, hint, open, task, system, races>>

-----------------------------------------------------------------------------
(***************************************************************************)
(* Names that go away.                                                     *)
(***************************************************************************)
\* What the transaction of pmfs_unlink, pmfs_rmdir or pmfs_rename writes: the name
\* (d, n) goes, (e, m) becomes moved's, and inode i loses the name it had.
DroppedOne(i, moved) ==
  IF IsDir(i) /\ moved = 0 THEN 0 ELSE Max({0, ino[i].nlink - 1})
Dropped(i, moved) ==
  IF IsDir(i) /\ moved = 0 THEN 0
  ELSE LET k == IF moved # 0 /\ IsDir(moved) THEN 2 ELSE 1 IN Max({0, ino[i].nlink - k})
LinksOf(d, e, i, moved) ==
  [j \in Inodes |->
     IF j = i THEN Dropped(i, moved)
     ELSE IF moved = 0 THEN (IF j = d /\ IsDir(i) THEN ino[j].nlink - 1 ELSE ino[j].nlink)
     ELSE IF i = 0 /\ IsDir(moved)
     THEN ino[j].nlink + (IF j = e THEN 1 ELSE 0) - (IF j = d THEN 1 ELSE 0)
     ELSE ino[j].nlink]

\* The transaction commits, and VFS drops the inode that has lost its name.
Commit(c, r, more) ==
  LET nlink == LinksOf(r.d, r.e, r.ino, r.moved)
      gone == r.ino # 0 /\ nlink[r.ino] = 0 /\ InUseBy(r.ino) = {} IN
  /\ ent' = IF r.moved = 0 THEN [ent EXCEPT ![r.d][r.n] = 0]
            ELSE [ent EXCEPT ![r.e][r.m] = r.moved, ![r.d][r.n] = 0]
  /\ ino' = [j \in Inodes |-> [ino[j] EXCEPT !.nlink = nlink[j],
               !.blocks = IF j = r.e THEN @ \cup more ELSE @,
               !.size = IF j = r.e THEN @ + (Cardinality(more) + 1) \div 2 ELSE @]]
  /\ inuse' = inuse \cup more
  /\ task' = [task EXCEPT ![c] = IF gone THEN [Idle EXCEPT !.pc = "evict", !.ino = r.ino] ELSE Idle]
  /\ leaked' = leaked \cup {i \in {r.ino} \cap Inodes : IsDir(i) /\ r.moved # 0 /\ ino[i].nlink > 2}

\* The inode that loses its last name is put on the truncate list before the commit.
RemovalUnlisted(c, r, more) ==
  /\ Commit(c, r, more)
  /\ calls' = calls + 1
  /\ UNCHANGED <<limbo, table, list, saved, hint, open, mount, races>>
Removal(c, r, more) ==
  /\ \/ /\ r.ino # 0 /\ Dropped(r.ino, r.moved) = 0
        /\ TruncateAdd(r.ino, ino[r.ino].size)
        /\ task' = [task EXCEPT ![c] = r]
        /\ UNCHANGED <<ent, ino, inuse, leaked>>
     \/ /\ r.ino # 0 => Dropped(r.ino, r.moved) # 0
        /\ Commit(c, r, more)
        /\ UNCHANGED list
  /\ calls' = calls + 1
  /\ UNCHANGED <<limbo, table, saved, hint, open, mount, races>>

RemoveCommit(c) ==
  /\ task[c].pc = "commit"
  /\ Commit(c, task[c], {})
  /\ UNCHANGED <<limbo, table, list, saved, hint, open, calls, mount, races>>

Call(d, n, e, m, i, moved) ==
  [pc |-> "commit", d |-> d, n |-> n, e |-> e, m |-> m, ino |-> i, moved |-> moved,
   locks |-> ({d, e, i} \cup (IF d # e THEN {-1} ELSE {})) \ {0}]

Unlink(c, d, n) ==
  LET i == Lookup(d, n) IN
  /\ Ready(c, {d, i}) /\ i # 0 /\ ~IsDir(i) /\ d \in LiveDirs
  /\ Removal(c, Call(d, n, d, n, i, 0), {})

\* pmfs_rmdir, pmfs_empty_dir.
Rmdir(c, d, n) ==
  LET i == Lookup(d, n) IN
  /\ Ready(c, {d, i}) /\ i # 0 /\ IsDir(i) /\ IsEmpty(i) /\ d \in LiveDirs
  /\ Removal(c, Call(d, n, d, n, i, 0), {})

\* The directories above and including d.
Above(d) ==
  LET dirs == LiveDirs IN
  {i \in Inodes : \A T \in SUBSET Inodes :
     d \in T /\ (\A p \in dirs : \A n \in Names : ent[p][n] \in T => p \in T) => i \in T}

\* pmfs_rename; VFS lets neither a directory move below itself, nor replace one above
\* it, nor the two be of different kinds; -1 among the locks is s_vfs_rename_mutex.
\* If there is no room for the new name the call aborts.
Rename(c, d, n, e, m) ==
  LET i == Lookup(d, n)
      old == Lookup(e, m)
      more == IF old = 0 THEN Lowest(FreeBlocks, Growth(e)) ELSE {}
      r == Call(d, n, e, m, old, i) IN
  /\ phase = "mounted" /\ task[c] = Idle /\ i # 0 /\ i # old /\ d \in LiveDirs /\ e \in LiveDirs
  /\ IsDir(i) => i \notin Above(e)
  /\ old # 0 => (IsDir(i) <=> IsDir(old)) /\ old \notin Above(d)
  /\ old # 0 /\ IsDir(i) => IsEmpty(old)
  /\ Ready(c, r.locks \cup {i})
  /\ IF old = 0 => Cardinality(more) = Growth(e) THEN Removal(c, r, more)
     ELSE /\ inuse' = inuse \cup more
          /\ calls' = calls + 1
          /\ UNCHANGED <<ent, ino, limbo, table, list, saved, hint, open, task, system, races>>

\* pmfs_evict_inode, pmfs_free_inode: the inode is free, then its blocks are, then the
\* truncate list forgets it.  The inode of a device node is not freed.
EvictFree(c) ==
  LET i == task[c].ino IN
  /\ task[c].pc = "evict"
  /\ IF ino[i].kind = "node" THEN UNCHANGED <<ino, inuse, hint>>
     ELSE /\ ino' = [ino EXCEPT ![i].dtime = TRUE, ![i].size = 0, ![i].blocks = {}]
          /\ inuse' = inuse \ ino[i].blocks
          /\ hint' = HintFreed(hint, i)
  /\ listed' = [k \in 1 .. Len(listed) |-> IF listed[k] = i THEN c ELSE listed[k]]
  /\ task' = [task EXCEPT ![c].pc = "del"]
  /\ UNCHANGED <<ent, limbo, table, head, next, tsize, saved, open, calls, system, races>>

EvictDel(c) ==
  /\ task[c].pc = "del"
  /\ TruncateDel(c)
  /\ task' = [task EXCEPT ![c] = Idle]
  /\ UNCHANGED <<ent, ino, limbo, table, saved, inuse, hint, open, calls, system, races>>

-----------------------------------------------------------------------------
(***************************************************************************)
(* Open files.                                                             *)
(***************************************************************************)
Open(c, i) ==
  /\ Ready(c, {}) /\ open[c] = 0
  /\ i \in InTable /\ ino[i].kind = "file" /\ Entries(i) # {}
  /\ open' = [open EXCEPT ![c] = i]
  /\ calls' = calls + 1
  /\ UNCHANGED <<ent, ino, limbo, table, list, saved, inuse, hint, task, system, races>>

\* The last one to close a file without a name evicts it.
Close(c) ==
  LET i == open[c] IN
  /\ phase = "mounted" /\ task[c] = Idle /\ i # 0
  /\ open' = [open EXCEPT ![c] = 0]
  /\ task' = IF ino[i].nlink = 0 /\ InUseBy(i) = {c}
             THEN [task EXCEPT ![c] = [Idle EXCEPT !.pc = "evict", !.ino = i]] ELSE task
  /\ UNCHANGED <<ent, ino, limbo, table, list, saved, inuse, hint, calls, system, races>>

\* pmfs_xip_file_write: the block is allocated in a transaction, if there is one.
Write(c) ==
  LET i == open[c]
      b == IF ino[i].blocks = {} THEN Lowest(FreeBlocks, 1) ELSE {} IN
  /\ open[c] # 0 /\ Ready(c, {i})
  /\ ino' = [ino EXCEPT ![i].blocks = @ \cup b,
                        ![i].size = IF ino[i].blocks \cup b # {} THEN 1 ELSE @]
  /\ inuse' = inuse \cup b
  /\ calls' = calls + 1
  /\ UNCHANGED <<ent, limbo, table, list, saved, hint, open, task, system, races>>

\* pmfs_notify_change with ATTR_SIZE, without a transaction: the inode is put on the
\* truncate list,
SetSizeUnlisted(c, size) ==
  LET i == open[c] IN
  /\ open[c] # 0 /\ Ready(c, {i}) /\ size # ino[i].size
  /\ Races("truncate", ino[i].nlink = 0)
  /\ task' = [task EXCEPT ![c] = [pc |-> "free", ino |-> i, locks |-> {i}, size |-> size]]
  /\ calls' = calls + 1
  /\ UNCHANGED <<ent, ino, limbo, table, list, saved, inuse, hint, open, system>>
SetSize(c, size) ==
  LET i == open[c] IN
  /\ open[c] # 0 /\ Ready(c, {i}) /\ size # ino[i].size
  /\ Races("truncate", ino[i].nlink = 0)
  /\ TruncateAdd(i, size)
  /\ task' = [task EXCEPT ![c] = [pc |-> "free", ino |-> i, locks |-> {i}, size |-> size]]
  /\ calls' = calls + 1
  /\ UNCHANGED <<ent, ino, limbo, table, saved, inuse, hint, open, system>>

\* pmfs_setsize: the blocks are free at once, the tree may say so later,
SetSizeFree(c) ==
  LET i == task[c].ino
      freed == IF task[c].size = 0 THEN ino[i].blocks ELSE {} IN
  /\ task[c].pc = "free"
  /\ ino' = [ino EXCEPT ![i].blocks = @ \ freed]
  /\ limbo' = [limbo EXCEPT ![i] = freed]
  /\ inuse' = inuse \ freed
  /\ task' = [task EXCEPT ![c].pc = "size"]
  /\ UNCHANGED <<ent, table, list, saved, hint, open, calls, system, races>>

\* the barrier, pmfs_update_isize,
SetSizeWrite(c) ==
  LET i == task[c].ino IN
  /\ task[c].pc = "size"
  /\ ino' = [ino EXCEPT ![i].size = task[c].size]
  /\ limbo' = [limbo EXCEPT ![i] = {}]
  /\ task' = [task EXCEPT ![c].pc = "unlist"]
  /\ UNCHANGED <<ent, table, list, saved, inuse, hint, open, calls, system, races>>

\* pmfs_truncate_del.
SetSizeEnd(c) ==
  /\ task[c].pc = "unlist"
  /\ TruncateDel(task[c].ino)
  /\ task' = [task EXCEPT ![c] = Idle]
  /\ UNCHANGED <<ent, ino, limbo, table, saved, inuse, hint, open, calls, system, races>>

-----------------------------------------------------------------------------
(***************************************************************************)
(* Unmount, power failure and mount.                                       *)
(***************************************************************************)
Volatile ==
  /\ inuse' = {} /\ hint' = HintStart /\ listed' = <<>> /\ cur' = 0 /\ phase' = "down"
  /\ open' = [c \in Clients |-> 0] /\ task' = [c \in Clients |-> Idle]

\* pmfs_put_super, pmfs_save_blocknode_mappings: the list of blocks is saved if there
\* is a block to save it in.
Save == IF FreeBlocks # {} THEN [inuse |-> inuse, hint |-> hint] ELSE NotSaved
Unmount ==
  /\ phase = "mounted"
  /\ \A c \in Clients : task[c] = Idle /\ open[c] = 0
  /\ saved' = Save
  /\ Volatile
  /\ UNCHANGED <<ent, ino, limbo, table, head, next, tsize, calls, crashes, lost, leaked, races>>

\* A transaction that had not committed is undone by the journal; a tree that was
\* not persistent may be the one it was.
Crash ==
  /\ phase # "down" /\ crashes < MaxCrashes
  /\ LET aborted == {c \in Clients : task[c].pc = "abort"} IN
     \E back \in [Inodes -> SUBSET UNION {limbo[i] : i \in Inodes}] :
       /\ \A i \in Inodes : back[i] \subseteq limbo[i]
       /\ ino' = [i \in Inodes |->
            IF \E c \in aborted : task[c].ino = i
            THEN task[CHOOSE c \in aborted : task[c].ino = i].undo
            ELSE [ino[i] EXCEPT !.blocks = @ \cup back[i]]]
  /\ limbo' = [i \in Inodes |-> {}]
  /\ crashes' = crashes + 1
  /\ Volatile
  /\ UNCHANGED <<ent, table, head, next, tsize, saved, calls, lost, leaked, races>>

\* pmfs_fill_super up to the truncate list.
Mount ==
  /\ phase = "down"
  /\ phase' = "recovering" /\ cur' = head
  /\ UNCHANGED <<ent, ino, limbo, table, list, saved, inuse, hint, open, task, calls, crashes, lost, leaked, races>>

\* pmfs_iget, pmfs_read_inode.
Iget(i) == ~IsFree(i)

\* One turn of pmfs_recover_truncate_list.  The list of blocks in use is still empty:
\* the first block that is freed meets BUG_ON(list_empty(head)).
Recover ==
  LET shrinks == IF ino[cur].nlink = 0 THEN TRUE ELSE tsize[cur] < ino[cur].size IN
  /\ phase = "recovering" /\ cur # 0 /\ Iget(cur)
  /\ IF shrinks /\ ino[cur].blocks # {} THEN phase' = "dead" /\ UNCHANGED <<ino, cur>>
     ELSE /\ ino' = IF ino[cur].kind = "node" THEN ino
                    ELSE IF ino[cur].nlink = 0 THEN [ino EXCEPT ![cur].dtime = TRUE, ![cur].size = 0]
                    ELSE [ino EXCEPT ![cur].size = tsize[cur]]
          /\ cur' = next[cur] /\ UNCHANGED phase
  /\ UNCHANGED <<ent, limbo, table, list, saved, inuse, hint, open, task, calls, crashes, lost, leaked, races>>

\* pmfs_inode_crawl, pmfs_inode_table_crawl_recursive: the blocks of the trees.
Crawled(S) == UNION {ino[i].blocks : i \in S}
TableCrawled == table.blocks \cup Crawled({i \in InTable : ~IsFree(i)})

\* The list ends, or with an inode that is already free: pmfs_iget fails, and what is
\* listed behind it is given up.  pmfs_setup_blocknode_map loads what was saved or
\* looks at every inode in use.
RecoverEnd ==
  /\ phase = "recovering" /\ (cur # 0 => ~Iget(cur))
  /\ head' = 0 /\ cur' = 0 /\ phase' = "mounted"
  /\ inuse' = IF saved # NotSaved THEN saved.inuse
              ELSE TableCrawled
  /\ hint' = IF saved # NotSaved THEN saved.hint ELSE HintStart
  /\ saved' = NotSaved
  /\ lost' = lost \cup {i \in Chain(cur) : ~IsFree(i)}
  /\ UNCHANGED <<ent, ino, limbo, table, next, tsize, listed, open, task, calls, crashes, leaked, races>>

Next ==
  \/ \E c \in Clients :
       \/ \E d \in Inodes, n \in Names :
            \/ Create(c, d, n) \/ Mknod(c, d, n) \/ Symlink(c, d, n) \/ Mkdir(c, d, n)
            \/ \E i \in Inodes : Link(c, d, n, i)
            \/ Unlink(c, d, n)
            \/ Rmdir(c, d, n)
            \/ \E e \in Inodes, m \in Names : Rename(c, d, n, e, m)
       \/ CreateAbort(c) \/ RemoveCommit(c) \/ EvictFree(c) \/ EvictDel(c)
       \/ \E i \in Inodes : Open(c, i)
       \/ Close(c) \/ Write(c)
       \/ \E size \in 0 .. 1 : SetSize(c, size)
       \/ SetSizeFree(c) \/ SetSizeWrite(c) \/ SetSizeEnd(c)
  \/ Unmount \/ Crash \/ Mount \/ Recover \/ RecoverEnd

Spec == Init /\ [][Next]_vars

-----------------------------------------------------------------------------
(***************************************************************************)
(* Properties.                                                             *)
(***************************************************************************)
\* Every variable holds a value of its kind.
TypeOK ==
  /\ ent \in [Inodes -> [Names -> 0 .. MaxIno]]
  /\ \A i \in Inodes :
       /\ ino[i].kind \in {"none", "file", "dir", "link", "node"} /\ ino[i].nlink \in Nat /\ ino[i].dtime \in BOOLEAN
       /\ ino[i].size \in Nat /\ ino[i].blocks \subseteq Blocks /\ limbo[i] \subseteq Blocks
  /\ table.count \in FirstTable .. MaxIno /\ table.blocks \subseteq Blocks
  /\ head \in 0 .. MaxIno /\ next \in [Inodes -> 0 .. MaxIno] /\ tsize \in [Inodes -> Nat]
  /\ inuse \subseteq Blocks /\ hint \in Inodes /\ open \in [Clients -> 0 .. MaxIno]
  /\ \A e \in ToSet(listed) : e \in Inodes \cup Clients
  /\ \A c \in Clients :
       task[c].pc \in {"idle", "abort", "commit", "evict", "del", "free", "size", "unlist"}
  /\ phase \in {"mounted", "down", "recovering", "dead"} /\ cur \in 0 .. MaxIno
  /\ crashes \in 0 .. MaxCrashes
  /\ lost \subseteq Inodes /\ leaked \subseteq Inodes /\ races \subseteq {"reuse", "truncate"}

\* Whatever the calls and failures, until a race: every name leads to an inode in use,
\* a directory has one name and hangs below the root, and the link counts are those of
\* the names.
\* (A directory that replaces another one leaves the count of the directory it comes
\* from too high: namei.c decrements it only where nothing is replaced.)
NamespaceSound ==
  races = {} => \A i \in InTable :
    /\ \A n \in Names : IsDir(i) /\ ~IsFree(i) /\ ent[i][n] # 0 => ~IsFree(ent[i][n])
    /\ ~IsFree(i) /\ ~IsDir(i) => ino[i].nlink = Cardinality(Entries(i))
    /\ ~IsFree(i) /\ IsDir(i) /\ ino[i].nlink > 0 /\ i \notin Leaving \cup leaked =>
         /\ i # Root => Cardinality(Entries(i)) = 1 /\ Root \in Above(i)
         /\ ino[i].nlink >= 2 + Cardinality({n \in Names : ent[i][n] # 0 /\ IsDir(ent[i][n])})

\* While the volume is mounted, no block belongs to two trees and every block of a
\* tree is in use, also after an unmount or a failure in the middle of a truncation
\* (until a race, and until a mount has given up a truncation: its blocks may be those
\* of others by then).
BlocksOwned ==
  phase = "mounted" /\ lost = {} /\ races = {} =>
    LET owners == {i \in InTable : ~IsFree(i)} IN
    /\ \A i \in owners : ino[i].blocks \subseteq inuse /\ ino[i].blocks \cap table.blocks = {}
    /\ \A i, j \in owners : i # j => ino[i].blocks \cap ino[j].blocks = {}
    /\ table.blocks \subseteq inuse

\* The list in persistent memory, followed from its head, is the list in memory,
SameList ==
  phase = "mounted" =>
    /\ head = IF listed = <<>> THEN 0 ELSE InodeOf(listed[1])
    /\ \A k \in 1 .. Len(listed) :
         next[InodeOf(listed[k])] = IF k = Len(listed) THEN 0 ELSE InodeOf(listed[k + 1])

\* until a race: an entry that goes away in the middle goes out of both (inode.c:1333).
ListsAgree == races = {} => SameList

\* Until a race, a file, link or directory without a name that still has its inode is on
\* the truncate list, where the next mount finds it, unless an earlier one gave it up.
NoOrphans ==
  phase \in {"mounted", "down"} /\ races = {} =>
    \A i \in InTable \ lost :
      ~IsFree(i) /\ ino[i].nlink = 0 /\ ino[i].kind # "node" => i \in Chain(head)

\* inode.c:1364-1373: what a power failure has interrupted is finished at the next
\* mount.  (The mount itself fails when there is a block to free.)
MountSucceeds == phase # "dead"
=============================================================================
