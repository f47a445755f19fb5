------------------------------ MODULE MemFile -------------------------------
(***************************************************************************)
(* What the memory devices of code/ch6 and code/ch7 have in common: some   *)
(* bytes of memory behind one mutex, which tasks read, write and clear at  *)
(* the position of a file they have open, or at one of their own (pread,   *)
(* pwrite).  MemDevice and GlobalMem extend it by the drivers' read and    *)
(* write; llseek and ioctl are the same in both and stand here, as they    *)
(* are in ch6/tdlcd.c.                                                     *)
(*                                                                         *)
(* The kernel does not lock the position of a character device: it is read *)
(* before the driver's handler and written back after it.  A copy moves    *)
(* one byte after the other.  What a byte holds is abstracted to the write *)
(* that wrote it, 0 if none has since the device was cleared.              *)
(***************************************************************************)
EXTENDS Integers

CONSTANTS
  Task,
  File,        \* the open files
  fileOf,      \* the file each task uses, which others may share
  Readers, Writers, Seekers, Clearers,    \* what the tasks do
  Faulting,    \* the tasks whose buffers may be bad
  NoTask,      \* nobody
  SIZE,        \* bytes of the device
  Sizes,       \* the sizes of reads and writes
  Positions,   \* the positions of preads and pwrites
  Offsets,     \* the offsets of seeks
  UintRange,   \* how many values an unsigned int has
  LoffMax,     \* the greatest loff_t
  MaxWrites    \* the bound on the number of writes

ASSUME MemAssumption ==
  /\ NoTask \notin Task
  /\ fileOf \in [Task -> File]
  /\ Readers \cup Writers \cup Seekers \cup Clearers \cup Faulting \subseteq Task
  /\ SIZE \in Nat \ {0} /\ Sizes \subseteq Nat /\ Positions \subseteq Nat
  /\ UintRange \in Nat /\ LoffMax \in Nat /\ SIZE < UintRange /\ 2 * UintRange <= LoffMax + 1
  /\ Offsets \subseteq -LoffMax - 1 .. LoffMax
  /\ MaxWrites \in Nat

VARIABLES
  mem,         \* dev->mem
  owner,       \* the task that has locked dev->mutex
  f_pos,       \* per file, its position
  pc,          \* per task, how far its call is
  plain,       \* per task, whether its call is at the file's position
  pos,         \* per task, pos
  count,       \* per task, count; in a seek the offset
  copied,      \* per task, how many bytes its copy has moved
  buf,         \* per task, what its read has got
  result,      \* per task, what its call returns
  stamp,       \* per task, the write it does
  written,     \* how many writes there were
  shadow,      \* dev->mem, if every write and clear were one step
  moments      \* per task, what its read may return

call == <<plain, pos, count, copied, buf, result, stamp>>
ghosts == <<shadow, moments>>
vars == <<mem, owner, f_pos, pc, call, written, ghosts>>

EFAULT == -1

-----------------------------------------------------------------------------
Cell == 0 .. SIZE - 1
Least(a, b) == IF a <= b THEN a ELSE b
Goto(t, l) == pc' = [pc EXCEPT ![t] = l]

\* The addition of two loff_t wraps.
Wrap(n) == ((n + LoffMax + 1) % (2 * (LoffMax + 1))) - LoffMax - 1

Init ==
  /\ mem = [i \in Cell |-> 0]
  /\ owner = NoTask
  /\ f_pos = [f \in File |-> 0]
  /\ pc = [t \in Task |-> "idle"]
  /\ plain = [t \in Task |-> FALSE]
  /\ pos = [t \in Task |-> 0] /\ count = [t \in Task |-> 0] /\ copied = [t \in Task |-> 0]
  /\ buf = [t \in Task |-> <<>>]
  /\ result = [t \in Task |-> 0]
  /\ stamp = [t \in Task |-> 0]
  /\ written = 0
  /\ shadow = mem
  /\ moments = [t \in Task |-> {}]

-----------------------------------------------------------------------------
(***************************************************************************)
(* The mutex.  mutex_unlock releases it whoever calls it.                  *)
(***************************************************************************)
MutexLock(t) == owner = NoTask /\ owner' = t
MutexUnlock == owner' = NoTask

(***************************************************************************)
(* What a sequence of whole writes and clears would leave, and what a read *)
(* that runs meanwhile may return.                                         *)
(***************************************************************************)
Part(m, p, n) == [i \in 0 .. n - 1 |-> m[p + i]]
Reading == {t \in Task : pc[t] \in {"r_lock", "r_copy"}}

Commit(m) ==
  /\ shadow' = m
  /\ moments' = [t \in Task |->
       IF t \in Reading THEN moments[t] \cup {Part(m, pos[t], count[t])} ELSE moments[t]]

\* The rest of a copy_from_user that fails is filled with zeroes.
Zeroed(t, m) ==
  [i \in Cell |-> IF i \in pos[t] + copied[t] .. pos[t] + count[t] - 1 THEN 0 ELSE m[i]]

\* What a write leaves that is one step: n whole bytes, and zeroes where copy_from_user failed.
Overwritten(t, m, n) ==
  [i \in Cell |-> IF i \in pos[t] .. pos[t] + n - 1 THEN stamp[t]
                  ELSE IF i \in pos[t] + n .. pos[t] + count[t] - 1 THEN 0 ELSE m[i]]

-----------------------------------------------------------------------------
(***************************************************************************)
(* The system calls read, write, pread and pwrite around the handlers.     *)
(***************************************************************************)
\* Where a call of t may go: to the file's position, or to one of its own.  A
\* negative position does not get to the driver.
Targets(t) ==
  {[plain |-> TRUE, pos |-> p] : p \in {f_pos[fileOf[t]]} \cap Nat} \cup
  {[plain |-> FALSE, pos |-> p] : p \in Positions}

\* A call of n bytes gets to the driver.
Enter(t, target, n) ==
  /\ plain' = [plain EXCEPT ![t] = target.plain]
  /\ pos' = [pos EXCEPT ![t] = target.pos]
  /\ count' = [count EXCEPT ![t] = n]
  /\ copied' = [copied EXCEPT ![t] = 0]

\* The file's position is written back, if the call has one and did not fail.
Return(t) ==
  /\ pc[t] = "return"
  /\ f_pos' = IF plain[t] /\ result[t] >= 0
              THEN [f_pos EXCEPT ![fileOf[t]] = pos[t] + result[t]] ELSE f_pos
  /\ Goto(t, "idle")
  /\ plain' = [plain EXCEPT ![t] = FALSE]
  /\ pos' = [pos EXCEPT ![t] = 0] /\ count' = [count EXCEPT ![t] = 0]
  /\ copied' = [copied EXCEPT ![t] = 0]
  /\ buf' = [buf EXCEPT ![t] = <<>>]
  /\ result' = [result EXCEPT ![t] = 0]
  /\ stamp' = [stamp EXCEPT ![t] = 0]
  /\ moments' = [moments EXCEPT ![t] = {}]
  /\ UNCHANGED <<mem, owner, written, shadow>>

-----------------------------------------------------------------------------
(***************************************************************************)
(* ioctl.                                                                  *)
(***************************************************************************)
ClearCall(t) ==
  /\ t \in Clearers /\ pc[t] = "idle"
  /\ Goto(t, "c_lock")
  /\ UNCHANGED <<mem, owner, f_pos, call, written, ghosts>>

\* Fault: without the mutex.
ClearUnlocked(t) ==
  /\ pc[t] = "c_lock"
  /\ mem' = [i \in Cell |-> 0]
  /\ Commit(mem')
  /\ Goto(t, "idle")
  /\ UNCHANGED <<owner, f_pos, call, written>>

\* memset under the mutex, no part of which another task sees that locks it.
Clear(t) ==
  /\ pc[t] = "c_lock"
  /\ MutexLock(t)
  /\ mem' = [i \in Cell |-> 0]
  /\ Commit(mem')
  /\ Goto(t, "c_unlock")
  /\ UNCHANGED <<f_pos, call, written>>

ClearReturn(t) ==
  /\ pc[t] = "c_unlock"
  /\ MutexUnlock
  /\ Goto(t, "idle")
  /\ UNCHANGED <<mem, f_pos, call, written, ghosts>>

-----------------------------------------------------------------------------
(***************************************************************************)
(* llseek.                                                                 *)
(***************************************************************************)
\* Fault: without the test.
SeekSetFree(t, offset) ==
  /\ t \in Seekers /\ pc[t] = "idle"
  /\ f_pos' = IF offset < 0 THEN f_pos ELSE [f_pos EXCEPT ![fileOf[t]] = offset % UintRange]
  /\ UNCHANGED <<mem, owner, pc, call, written, ghosts>>

\* From the start: the test looks at an unsigned int, and so does the new position.
SeekSet(t, offset) ==
  /\ t \in Seekers /\ pc[t] = "idle"
  /\ f_pos' = IF offset < 0 \/ offset % UintRange > SIZE THEN f_pos
              ELSE [f_pos EXCEPT ![fileOf[t]] = offset % UintRange]
  /\ UNCHANGED <<mem, owner, pc, call, written, ghosts>>

\* From where it is: two tests, and then the addition, each of which reads the
\* position; count holds the offset meanwhile, and pos what was read first.  The
\* tests (tdlcd.c:155, 159) are one step: that the position of a shared file moves
\* between them is left out; between them and the addition it may.
SeekCur(t, offset) ==
  /\ t \in Seekers /\ pc[t] = "idle"
  /\ Wrap(f_pos[fileOf[t]] + offset) \in 0 .. SIZE
  /\ count' = [count EXCEPT ![t] = offset]
  /\ pos' = [pos EXCEPT ![t] = f_pos[fileOf[t]]]
  /\ Goto(t, "s_move")
  /\ UNCHANGED <<mem, owner, f_pos, plain, copied, buf, result, stamp, written, ghosts>>

\* The compiler may read the position again, or add to what was read before.
SeekMove(t) ==
  /\ pc[t] = "s_move"
  /\ \E old \in {f_pos[fileOf[t]], pos[t]} :
       f_pos' = [f_pos EXCEPT ![fileOf[t]] = Wrap(old + count[t])]
  /\ Goto(t, "idle")
  /\ pos' = [pos EXCEPT ![t] = 0] /\ count' = [count EXCEPT ![t] = 0]
  /\ UNCHANGED <<mem, owner, plain, copied, buf, result, stamp, written, ghosts>>

Seek(t) == (\E offset \in Offsets : SeekSet(t, offset) \/ SeekCur(t, offset)) \/ SeekMove(t)
Ioctl(t) == ClearCall(t) \/ Clear(t) \/ ClearReturn(t)

-----------------------------------------------------------------------------
Byte == 0 .. MaxWrites

MemTypeOK ==
  /\ mem \in [Cell -> Byte] /\ shadow \in [Cell -> Byte]
  /\ owner \in Task \cup {NoTask}
  /\ DOMAIN f_pos = File
  /\ plain \in [Task -> BOOLEAN]
  /\ copied \in [Task -> Nat]
  /\ stamp \in [Task -> Byte] /\ written \in Byte
  /\ result \in [Task -> 0 .. SIZE \cup {EFAULT}]

Copying(t) == pc[t] \in {"r_copy", "w_copy"}

\* A copy stays in the device (tdlcd.c:81-88 and 115-122, globalmem.c:71-74, 97-100).
CopyInBounds ==
  \A t \in Task : Copying(t) => pos[t] >= 0 /\ pos[t] + count[t] <= SIZE /\ copied[t] <= count[t]

\* A read returns what the device held at one moment of the call.
ReadsAreAtomic ==
  \A t \in Task : pc[t] = "return" /\ stamp[t] = 0 /\ result[t] > 0 => buf[t] \in moments[t]

\* While nobody writes the device holds what whole writes and clears have left.
WritesDoNotMix == (\A t \in Task : pc[t] # "w_copy") => mem = shadow

\* A call returns with the mutex locked only if it is a write behind the end of
\* the device (tdlcd.c:115-118).
OnlyFarWritesKeepMutex ==
  [][\A t \in Task : /\ pc[t] \in {"r_copy", "w_copy", "w_lock", "c_unlock"}
                     /\ pc'[t] \in {"return", "idle"} /\ owner' = t
                     => pc[t] = "w_lock" /\ pos[t] > SIZE]_vars

\* The mutex is locked for the length of a copy only.
MutexIsReleased ==
  owner # NoTask => pc[owner] \in {"r_copy", "w_copy", "c_unlock"}

\* The position of a file that one task uses is in the device, or just behind it (llseek).
PositionInDevice ==
  \A f \in File :
    (\A t, u \in Task : fileOf[t] = f /\ fileOf[u] = f => t = u) => f_pos[f] \in 0 .. SIZE
=============================================================================
