--------------------------- MODULE MemDeviceProofs --------------------------
(***************************************************************************)
(* Proofs about MemDevice, for any number of tasks and open files, any way *)
(* of sharing them, any size of the device and any offsets.                *)
(*                                                                         *)
(* The inductive invariant IInv is proved part by part: one lemma per      *)
(* conjunct, one step per action.  The theorems at the end follow from it. *)
(***************************************************************************)
EXTENDS MemDevice, TLAPS

\* The sum of a seek wraps to a number.
LEMMA WrapIsInt ==
  ASSUME NEW n \in Int
  PROVE  Wrap(n) \in Int
<1>1. LoffMax \in Nat
  BY MemAssumption
<1>2. 2 * (LoffMax + 1) \in Nat \ {0} /\ n + LoffMax + 1 \in Int
  BY <1>1
<1>3. (n + LoffMax + 1) % (2 * (LoffMax + 1)) \in Int
  BY <1>2
<1>4. QED
  BY <1>1, <1>3 DEF Wrap

\* A seek leaves the position of its file only, and goes from where the file is or was.
LEMMA SeekMoves ==
  ASSUME IInv, NEW t \in Task, SeekMove(t)
  PROVE  /\ pc[t] = "s_move"
         /\ \E n \in Int :
              /\ f_pos' = [f_pos EXCEPT ![fileOf[t]] = n]
              /\ n \in {Wrap(f_pos[fileOf[t]] + count[t]), Wrap(pos[t] + count[t])}
<1>1. fileOf[t] \in File
  BY MemAssumption
<1>2. f_pos[fileOf[t]] + count[t] \in Int /\ pos[t] + count[t] \in Int
  BY <1>1 DEF IInv, Locals
<1>3. Wrap(f_pos[fileOf[t]] + count[t]) \in Int /\ Wrap(pos[t] + count[t]) \in Int
  BY <1>2, WrapIsInt
<1>4. QED
  BY <1>3 DEF SeekMove

\* A call goes to the position of its file, or to one that is no less a position.
LEMMA Targeted ==
  ASSUME IInv, NEW t \in Task, NEW to \in Targets(t)
  PROVE  /\ to.pos \in Nat /\ to.plain \in BOOLEAN
         /\ to.plain => to.pos = f_pos[fileOf[t]]
<1>1. CASE to \in {[plain |-> TRUE, pos |-> p] : p \in {f_pos[fileOf[t]]} \cap Nat}
  <2>1. PICK p \in {f_pos[fileOf[t]]} \cap Nat : to = [plain |-> TRUE, pos |-> p]
    BY <1>1
  <2>2. to.plain = TRUE /\ to.pos = p
    BY <2>1
  <2>3. QED
    BY <2>2
<1>2. CASE to \in {[plain |-> FALSE, pos |-> p] : p \in Positions}
  <2>1. PICK p \in Positions : to = [plain |-> FALSE, pos |-> p]
    BY <1>2
  <2>2. to.plain = FALSE /\ to.pos = p
    BY <2>1
  <2>3. QED
    BY <2>2, MemAssumption
<1>3. QED
  BY <1>1, <1>2 DEF Targets

\* A read cuts its size to what there is, or returns at once.
LEMMA ReadEnters ==
  ASSUME IInv, NEW t \in Task, ReadCall(t)
  PROVE  \E to \in Targets(t), n \in Nat :
           /\ Enter(t, to, n)
           /\ \/ to.pos > SIZE /\ n = 0 /\ Goto(t, "return") /\ UNCHANGED moments
              \/ /\ to.pos + n <= SIZE /\ Goto(t, "r_lock")
                 /\ moments' = [moments EXCEPT ![t] = {Part(shadow, to.pos, n)}]
<1>1. PICK n \in Sizes, to \in Targets(t) :
        IF to.pos > SIZE
        THEN Enter(t, to, 0) /\ Goto(t, "return") /\ UNCHANGED moments
        ELSE /\ Enter(t, to, Least(n, SIZE - to.pos))
             /\ Goto(t, "r_lock")
             /\ moments' = [moments EXCEPT ![t] = {Part(shadow, to.pos, Least(n, SIZE - to.pos))}]
  BY DEF ReadCall
<1>2. to.pos \in Nat /\ n \in Nat /\ SIZE \in Nat
  BY Targeted, MemAssumption
<1>3. CASE to.pos > SIZE
  <2>1. 0 \in Nat
    OBVIOUS
  <2>2. QED
    BY <1>1, <1>3, <2>1
<1>4. CASE ~(to.pos > SIZE)
  <2>1. /\ Least(n, SIZE - to.pos) \in Nat
        /\ to.pos + Least(n, SIZE - to.pos) <= SIZE
    BY <1>2, <1>4 DEF Least
  <2>2. QED
    BY <1>1, <1>4, <2>1
<1>5. QED
  BY <1>3, <1>4

\* A byte of a read's copy changes nothing but the count of them.
LEMMA ReadCopies ==
  ASSUME IInv, NEW t \in Task, ReadCopy(t)
  PROVE  /\ pc[t] = "r_copy" /\ copied[t] < count[t]
         /\ copied' = [copied EXCEPT ![t] = copied[t] + 1]
         /\ DOMAIN buf' = Task
         /\ UNCHANGED <<mem, owner, f_pos, pc, plain, pos, count, result, stamp, written, ghosts>>
BY DEF ReadCopy, IInv, Locals

\* What writes and clears leave are bytes.
LEMMA DataType ==
  ASSUME IInv, NEW t \in Task, NEW m \in [Cell -> Byte], NEW n
  PROVE  /\ [i \in Cell |-> 0] \in [Cell -> Byte]
         /\ Zeroed(t, m) \in [Cell -> Byte]
         /\ Overwritten(t, m, n) \in [Cell -> Byte]
BY MemAssumption DEF IInv, TypeOK, MemTypeOK, Byte, Zeroed, Overwritten

\* Every step keeps the types.
LEMMA TypeStep ==
  ASSUME IInv, [Next]_vars
  PROVE  TypeOK'
<1> USE MemAssumption DEF IInv, TypeOK, MemTypeOK, Locals, Byte, EFAULT, Least, Cut, Goto, MutexLock, MutexUnlock, Enter, Targets, call, ghosts
<1>1. ASSUME NEW t \in Task, ReadCall(t)
      PROVE  TypeOK'
  <2>1. PICK to \in Targets(t), n \in Nat :
          /\ Enter(t, to, n)
          /\ \/ to.pos > SIZE /\ n = 0 /\ Goto(t, "return") /\ UNCHANGED moments
             \/ /\ to.pos + n <= SIZE /\ Goto(t, "r_lock")
                /\ moments' = [moments EXCEPT ![t] = {Part(shadow, to.pos, n)}]
    BY <1>1, ReadEnters
  <2>2. /\ to.pos \in Nat /\ to.plain \in BOOLEAN
        /\ to.plain => to.pos = f_pos[fileOf[t]]
    BY Targeted
  <2>3. QED
    BY <1>1, <2>1, <2>2 DEF ReadCall
<1>2. ASSUME NEW t \in Task, ReadLock(t)
      PROVE  TypeOK'
  BY <1>2 DEF ReadLock
<1>3. ASSUME NEW t \in Task, ReadCopy(t)
      PROVE  TypeOK'
  BY <1>3, ReadCopies
<1>4. ASSUME NEW t \in Task, ReadDone(t)
      PROVE  TypeOK'
  BY <1>4 DEF ReadDone
<1>5. ASSUME NEW t \in Task, ReadFault(t)
      PROVE  TypeOK'
  BY <1>5 DEF ReadFault
<1>6. ASSUME NEW t \in Task, WriteCall(t)
      PROVE  TypeOK'
  <2>1. PICK n \in Sizes, to \in Targets(t) : Enter(t, to, n)
    BY <1>6 DEF WriteCall
  <2>2. to.plain \in BOOLEAN /\ written + 1 \in Byte
    BY <1>6, Targeted DEF WriteCall
  <2>3. QED
    BY <1>6, <2>1, <2>2 DEF WriteCall
<1>7. ASSUME NEW t \in Task, WriteLock(t)
      PROVE  TypeOK'
  BY <1>7 DEF WriteLock
<1>8. ASSUME NEW t \in Task, WriteFar(t)
      PROVE  TypeOK'
  BY <1>8 DEF WriteFar
<1>9. ASSUME NEW t \in Task, WriteCopy(t)
      PROVE  TypeOK'
  <2>1. stamp[t] \in Byte /\ copied[t] + 1 \in Nat
    OBVIOUS
  <2>2. mem' \in [Cell -> Byte] /\ copied' \in [Task -> Nat]
    BY <1>9, <2>1 DEF WriteCopy
  <2>3. QED
    BY <1>9, <2>2 DEF WriteCopy
<1>10. ASSUME NEW t \in Task, WriteDone(t)
      PROVE  TypeOK'
  <2>1. shadow' \in [Cell -> Byte]
    BY <1>10, DataType DEF WriteDone, Commit
  <2>2. QED
    BY <1>10, <2>1 DEF WriteDone
<1>11. ASSUME NEW t \in Task, WriteFault(t)
      PROVE  TypeOK'
  <2>1. shadow' \in [Cell -> Byte] /\ mem' \in [Cell -> Byte]
    BY <1>11, DataType DEF WriteFault, Commit
  <2>2. QED
    BY <1>11, <2>1 DEF WriteFault
<1>12. ASSUME NEW t \in Task, Return(t)
      PROVE  TypeOK'
  BY <1>12 DEF Return
<1>13. ASSUME NEW t \in Task, SeekMove(t)
      PROVE  TypeOK'
  BY <1>13 DEF SeekMove
<1>14. ASSUME NEW t \in Task, ClearCall(t)
      PROVE  TypeOK'
  BY <1>14 DEF ClearCall
<1>15. ASSUME NEW t \in Task, Clear(t)
      PROVE  TypeOK'
  BY <1>15, DataType DEF Clear, Commit
<1>16. ASSUME NEW t \in Task, ClearReturn(t)
      PROVE  TypeOK'
  BY <1>16 DEF ClearReturn
<1>17. ASSUME NEW t \in Task, NEW offset \in Offsets, SeekSet(t, offset)
      PROVE  TypeOK'
  BY <1>17 DEF SeekSet
<1>18. ASSUME NEW t \in Task, NEW offset \in Offsets, SeekCur(t, offset)
      PROVE  TypeOK'
  BY <1>18 DEF SeekCur
<1>19. CASE UNCHANGED vars
  BY <1>19 DEF vars
<1>20. QED
  BY <1>1, <1>2, <1>3, <1>4, <1>5, <1>6, <1>7, <1>8, <1>9, <1>10,
     <1>11, <1>12, <1>13, <1>14, <1>15, <1>16, <1>17, <1>18, <1>19 DEF Next, ReadStep, WriteStep, Seek, Ioctl

\* Every step keeps numbers where there are numbers.
LEMMA LocalsStep ==
  ASSUME IInv, [Next]_vars
  PROVE  Locals'
<1> USE MemAssumption DEF IInv, TypeOK, MemTypeOK, Locals, Byte, EFAULT, Least, Commit, Goto, MutexLock, MutexUnlock, Enter, Targets, call, ghosts
<1>1. ASSUME NEW t \in Task, ReadCall(t)
      PROVE  Locals'
  <2>1. PICK to \in Targets(t), n \in Nat :
          /\ Enter(t, to, n)
          /\ \/ to.pos > SIZE /\ n = 0 /\ Goto(t, "return") /\ UNCHANGED moments
             \/ /\ to.pos + n <= SIZE /\ Goto(t, "r_lock")
                /\ moments' = [moments EXCEPT ![t] = {Part(shadow, to.pos, n)}]
    BY <1>1, ReadEnters
  <2>2. /\ to.pos \in Nat /\ to.plain \in BOOLEAN
        /\ to.plain => to.pos = f_pos[fileOf[t]]
    BY Targeted
  <2>3. QED
    BY <1>1, <2>1, <2>2 DEF ReadCall
<1>2. ASSUME NEW t \in Task, ReadLock(t)
      PROVE  Locals'
  BY <1>2 DEF ReadLock
<1>3. ASSUME NEW t \in Task, ReadCopy(t)
      PROVE  Locals'
  BY <1>3 DEF ReadCopy
<1>4. ASSUME NEW t \in Task, ReadDone(t)
      PROVE  Locals'
  BY <1>4 DEF ReadDone
<1>5. ASSUME NEW t \in Task, ReadFault(t)
      PROVE  Locals'
  BY <1>5 DEF ReadFault
<1>6. ASSUME NEW t \in Task, WriteCall(t)
      PROVE  Locals'
  BY <1>6 DEF WriteCall
<1>7. ASSUME NEW t \in Task, WriteLock(t)
      PROVE  Locals'
  BY <1>7 DEF WriteLock
<1>8. ASSUME NEW t \in Task, WriteFar(t)
      PROVE  Locals'
  BY <1>8 DEF WriteFar
<1>9. ASSUME NEW t \in Task, WriteCopy(t)
      PROVE  Locals'
  BY <1>9 DEF WriteCopy
<1>10. ASSUME NEW t \in Task, WriteDone(t)
      PROVE  Locals'
  BY <1>10 DEF WriteDone
<1>11. ASSUME NEW t \in Task, WriteFault(t)
      PROVE  Locals'
  BY <1>11 DEF WriteFault
<1>12. ASSUME NEW t \in Task, Return(t)
      PROVE  Locals'
  <2>1. pos[t] + result[t] \in Int /\ fileOf[t] \in File
    OBVIOUS
  <2>2. f_pos' \in [File -> Int]
    BY <1>12, <2>1 DEF Return
  <2>3. QED
    BY <1>12, <2>2 DEF Return
<1>13. ASSUME NEW t \in Task, SeekMove(t)
      PROVE  Locals'
  <2>1. PICK n \in Int : f_pos' = [f_pos EXCEPT ![fileOf[t]] = n]
    BY <1>13, SeekMoves
  <2>2. f_pos' \in [File -> Int]
    BY <2>1
  <2>3. QED
    BY <1>13, <2>2 DEF SeekMove
<1>14. ASSUME NEW t \in Task, ClearCall(t)
      PROVE  Locals'
  BY <1>14 DEF ClearCall
<1>15. ASSUME NEW t \in Task, Clear(t)
      PROVE  Locals'
  BY <1>15 DEF Clear
<1>16. ASSUME NEW t \in Task, ClearReturn(t)
      PROVE  Locals'
  BY <1>16 DEF ClearReturn
<1>17. ASSUME NEW t \in Task, NEW offset \in Offsets, SeekSet(t, offset)
      PROVE  Locals'
  BY <1>17 DEF SeekSet
<1>18. ASSUME NEW t \in Task, NEW offset \in Offsets, SeekCur(t, offset)
      PROVE  Locals'
  <2>1. fileOf[t] \in File /\ f_pos[fileOf[t]] \in Int /\ offset \in Int
    OBVIOUS
  <2>2. QED
    BY <1>18, <2>1 DEF SeekCur
<1>19. CASE UNCHANGED vars
  BY <1>19 DEF vars
<1>20. QED
  BY <1>1, <1>2, <1>3, <1>4, <1>5, <1>6, <1>7, <1>8, <1>9, <1>10,
     <1>11, <1>12, <1>13, <1>14, <1>15, <1>16, <1>17, <1>18, <1>19 DEF Next, ReadStep, WriteStep, Seek, Ioctl

\* Nobody enters the critical section, or unlocks the mutex, but its holder.
LEMMA HoldingStep ==
  ASSUME IInv, [Next]_vars
  PROVE  Holding'
<1> USE MemAssumption DEF IInv, TypeOK, MemTypeOK, Locals, Holding, Commit, Goto, MutexLock, MutexUnlock, Enter, Targets, call, ghosts
<1>1. ASSUME NEW t \in Task, ReadCall(t)
      PROVE  Holding'
  BY <1>1 DEF ReadCall
<1>2. ASSUME NEW t \in Task, ReadLock(t)
      PROVE  Holding'
  BY <1>2 DEF ReadLock
<1>3. ASSUME NEW t \in Task, ReadCopy(t)
      PROVE  Holding'
  BY <1>3 DEF ReadCopy
<1>4. ASSUME NEW t \in Task, ReadDone(t)
      PROVE  Holding'
  BY <1>4 DEF ReadDone
<1>5. ASSUME NEW t \in Task, ReadFault(t)
      PROVE  Holding'
  BY <1>5 DEF ReadFault
<1>6. ASSUME NEW t \in Task, WriteCall(t)
      PROVE  Holding'
  BY <1>6 DEF WriteCall
<1>7. ASSUME NEW t \in Task, WriteLock(t)
      PROVE  Holding'
  BY <1>7 DEF WriteLock
<1>8. ASSUME NEW t \in Task, WriteFar(t)
      PROVE  Holding'
  BY <1>8 DEF WriteFar
<1>9. ASSUME NEW t \in Task, WriteCopy(t)
      PROVE  Holding'
  BY <1>9 DEF WriteCopy
<1>10. ASSUME NEW t \in Task, WriteDone(t)
      PROVE  Holding'
  BY <1>10 DEF WriteDone
<1>11. ASSUME NEW t \in Task, WriteFault(t)
      PROVE  Holding'
  BY <1>11 DEF WriteFault
<1>12. ASSUME NEW t \in Task, Return(t)
      PROVE  Holding'
  BY <1>12 DEF Return
<1>13. ASSUME NEW t \in Task, SeekMove(t)
      PROVE  Holding'
  BY <1>13 DEF SeekMove
<1>14. ASSUME NEW t \in Task, ClearCall(t)
      PROVE  Holding'
  BY <1>14 DEF ClearCall
<1>15. ASSUME NEW t \in Task, Clear(t)
      PROVE  Holding'
  BY <1>15 DEF Clear
<1>16. ASSUME NEW t \in Task, ClearReturn(t)
      PROVE  Holding'
  BY <1>16 DEF ClearReturn
<1>17. ASSUME NEW t \in Task, NEW offset \in Offsets, SeekSet(t, offset)
      PROVE  Holding'
  BY <1>17 DEF SeekSet
<1>18. ASSUME NEW t \in Task, NEW offset \in Offsets, SeekCur(t, offset)
      PROVE  Holding'
  BY <1>18 DEF SeekCur
<1>19. CASE UNCHANGED vars
  BY <1>19 DEF vars
<1>20. QED
  BY <1>1, <1>2, <1>3, <1>4, <1>5, <1>6, <1>7, <1>8, <1>9, <1>10,
     <1>11, <1>12, <1>13, <1>14, <1>15, <1>16, <1>17, <1>18, <1>19 DEF Next, ReadStep, WriteStep, Seek, Ioctl

\* Every step leaves the call's part of the device inside it.
LEMMA CutStep ==
  ASSUME IInv, [Next]_vars
  PROVE  Cut'
<1> USE MemAssumption DEF IInv, TypeOK, MemTypeOK, Locals, Byte, EFAULT, Cut, Least, Goto, MutexLock, MutexUnlock, Enter, Targets, call, ghosts
<1>1. ASSUME NEW t \in Task, ReadCall(t)
      PROVE  Cut'
  <2>1. PICK to \in Targets(t), n \in Nat :
          /\ Enter(t, to, n)
          /\ \/ to.pos > SIZE /\ n = 0 /\ Goto(t, "return") /\ UNCHANGED moments
             \/ /\ to.pos + n <= SIZE /\ Goto(t, "r_lock")
                /\ moments' = [moments EXCEPT ![t] = {Part(shadow, to.pos, n)}]
    BY <1>1, ReadEnters
  <2>2. /\ to.pos \in Nat /\ to.plain \in BOOLEAN
        /\ to.plain => to.pos = f_pos[fileOf[t]]
    BY Targeted
  <2>3. QED
    BY <1>1, <2>1, <2>2 DEF ReadCall
<1>2. ASSUME NEW t \in Task, ReadLock(t)
      PROVE  Cut'
  BY <1>2 DEF ReadLock
<1>3. ASSUME NEW t \in Task, ReadCopy(t)
      PROVE  Cut'
  <2>1. /\ pc[t] = "r_copy" /\ copied[t] < count[t]
        /\ copied' = [copied EXCEPT ![t] = copied[t] + 1]
        /\ UNCHANGED <<pc, pos, count, stamp>>
    BY <1>3, ReadCopies
  <2>2. copied'[t] <= count[t]
    BY <2>1
  <2>3. QED
    BY <2>1, <2>2
<1>4. ASSUME NEW t \in Task, ReadDone(t)
      PROVE  Cut'
  BY <1>4 DEF ReadDone
<1>5. ASSUME NEW t \in Task, ReadFault(t)
      PROVE  Cut'
  BY <1>5 DEF ReadFault
<1>6. ASSUME NEW t \in Task, WriteCall(t)
      PROVE  Cut'
  BY <1>6 DEF WriteCall
<1>7. ASSUME NEW t \in Task, WriteLock(t)
      PROVE  Cut'
  BY <1>7 DEF WriteLock
<1>8. ASSUME NEW t \in Task, WriteFar(t)
      PROVE  Cut'
  BY <1>8 DEF WriteFar
<1>9. ASSUME NEW t \in Task, WriteCopy(t)
      PROVE  Cut'
  <2>1. /\ pc[t] = "w_copy" /\ copied[t] < count[t]
        /\ copied' = [copied EXCEPT ![t] = copied[t] + 1]
        /\ UNCHANGED <<pc, pos, count, stamp>>
    BY <1>9 DEF WriteCopy
  <2>2. copied'[t] <= count[t]
    BY <2>1
  <2>3. QED
    BY <2>1, <2>2
<1>10. ASSUME NEW t \in Task, WriteDone(t)
      PROVE  Cut'
  BY <1>10 DEF WriteDone
<1>11. ASSUME NEW t \in Task, WriteFault(t)
      PROVE  Cut'
  BY <1>11 DEF WriteFault
<1>12. ASSUME NEW t \in Task, Return(t)
      PROVE  Cut'
  BY <1>12 DEF Return
<1>13. ASSUME NEW t \in Task, SeekMove(t)
      PROVE  Cut'
  BY <1>13 DEF SeekMove
<1>14. ASSUME NEW t \in Task, ClearCall(t)
      PROVE  Cut'
  BY <1>14 DEF ClearCall
<1>15. ASSUME NEW t \in Task, Clear(t)
      PROVE  Cut'
  BY <1>15 DEF Clear
<1>16. ASSUME NEW t \in Task, ClearReturn(t)
      PROVE  Cut'
  BY <1>16 DEF ClearReturn
<1>17. ASSUME NEW t \in Task, NEW offset \in Offsets, SeekSet(t, offset)
      PROVE  Cut'
  BY <1>17 DEF SeekSet
<1>18. ASSUME NEW t \in Task, NEW offset \in Offsets, SeekCur(t, offset)
      PROVE  Cut'
  BY <1>18 DEF SeekCur
<1>19. CASE UNCHANGED vars
  BY <1>19 DEF vars
<1>20. QED
  BY <1>1, <1>2, <1>3, <1>4, <1>5, <1>6, <1>7, <1>8, <1>9, <1>10,
     <1>11, <1>12, <1>13, <1>14, <1>15, <1>16, <1>17, <1>18, <1>19 DEF Next, ReadStep, WriteStep, Seek, Ioctl

\* A write or clear adds to the moments of the reads that run beside it.
LEMMA Commits ==
  ASSUME NEW m, Commit(m)
  PROVE  /\ shadow' = m
         /\ \A u \in Task : moments[u] \subseteq moments'[u]
         /\ \A u \in Reading : Part(m, pos[u], count[u]) \in moments'[u]
BY DEF Commit, Reading

\* Every step leaves the device what whole writes and the one under way make it.
LEMMA DataStep ==
  ASSUME IInv, [Next]_vars
  PROVE  DataAgrees'
<1> USE MemAssumption DEF IInv, TypeOK, MemTypeOK, Locals, Byte, EFAULT, Holding, Cut, DataAgrees, WritesDoNotMix, Goto, MutexLock, MutexUnlock, Enter, Targets, call, ghosts
<1>1. ASSUME NEW t \in Task, ReadCall(t)
      PROVE  DataAgrees'
  <2>1. \A u \in Task \ {t} : pc'[u] = pc[u] /\ pos'[u] = pos[u] /\ copied'[u] = copied[u]
    BY <1>1, ReadEnters
  <2>2. pc'[t] # "w_copy"
    BY <1>1, ReadEnters
  <2>3. UNCHANGED <<mem, shadow, stamp>> /\ pc[t] # "w_copy"
    BY <1>1 DEF ReadCall
  <2>4. QED
    BY <2>1, <2>2, <2>3
<1>2. ASSUME NEW t \in Task, ReadLock(t)
      PROVE  DataAgrees'
  BY <1>2 DEF ReadLock
<1>3. ASSUME NEW t \in Task, ReadCopy(t)
      PROVE  DataAgrees'
  BY <1>3, ReadCopies
<1>4. ASSUME NEW t \in Task, ReadDone(t)
      PROVE  DataAgrees'
  BY <1>4 DEF ReadDone
<1>5. ASSUME NEW t \in Task, ReadFault(t)
      PROVE  DataAgrees'
  BY <1>5 DEF ReadFault
<1>6. ASSUME NEW t \in Task, WriteCall(t)
      PROVE  DataAgrees'
  <2>1. \A u \in Task \ {t} :
          pc'[u] = pc[u] /\ pos'[u] = pos[u] /\ copied'[u] = copied[u] /\ stamp'[u] = stamp[u]
    BY <1>6 DEF WriteCall
  <2>2. pc'[t] # "w_copy" /\ pc[t] # "w_copy" /\ UNCHANGED <<mem, shadow>>
    BY <1>6 DEF WriteCall
  <2>3. QED
    BY <2>1, <2>2
<1>7. ASSUME NEW t \in Task, WriteLock(t)
      PROVE  DataAgrees'
  <2>1. mem = shadow /\ copied[t] = 0 /\ \A u \in Task : pc[u] # "w_copy"
    BY <1>7 DEF WriteLock
  <2>2. /\ UNCHANGED <<mem, shadow, pos, copied, stamp>>
        /\ pc' = [pc EXCEPT ![t] = "w_copy"]
    BY <1>7 DEF WriteLock
  <2>3. \A i \in Cell : i \notin pos[t] .. pos[t] + copied[t] - 1
    BY <2>1 DEF Cell
  <2>4. QED
    BY <2>1, <2>2, <2>3
<1>8. ASSUME NEW t \in Task, WriteFar(t)
      PROVE  DataAgrees'
  BY <1>8 DEF WriteFar
<1>9. ASSUME NEW t \in Task, WriteCopy(t)
      PROVE  DataAgrees'
  <2>1. pc[t] = "w_copy" /\ owner = t /\ \A u \in Task : pc[u] = "w_copy" => u = t
    BY <1>9 DEF WriteCopy
  <2>2. /\ UNCHANGED <<pc, pos, shadow, stamp>>
        /\ copied' = [copied EXCEPT ![t] = copied[t] + 1]
        /\ mem' = [mem EXCEPT ![pos[t] + copied[t]] = stamp[t]]
    BY <1>9 DEF WriteCopy
  <2>3. ASSUME NEW i \in Cell
        PROVE  mem'[i] = IF i \in pos[t] .. pos[t] + copied[t] THEN stamp[t] ELSE shadow[i]
    <3>1. mem[i] = IF i \in pos[t] .. pos[t] + copied[t] - 1 THEN stamp[t] ELSE shadow[i]
      BY <2>1
    <3>2. mem'[i] = IF i = pos[t] + copied[t] THEN stamp[t] ELSE mem[i]
      BY <2>2
    <3>3. pos[t] \in Int /\ copied[t] \in Nat /\ i \in Int
      BY DEF Cell
    <3>4. QED
      BY <3>1, <3>2, <3>3
  <2>4. copied'[t] - 1 = copied[t]
    BY <2>2
  <2>5. QED
    BY <2>1, <2>2, <2>3, <2>4
<1>10. ASSUME NEW t \in Task, WriteDone(t)
      PROVE  DataAgrees'
  <2>1. pc[t] = "w_copy" /\ owner = t /\ \A u \in Task : pc[u] = "w_copy" => u = t
    BY <1>10 DEF WriteDone
  <2>2. /\ shadow' = Overwritten(t, shadow, count[t]) /\ mem' = mem
        /\ copied[t] = count[t] /\ pc' = [pc EXCEPT ![t] = "return"]
    BY <1>10 DEF WriteDone, Commit
  <2>3. ASSUME NEW i \in Cell
        PROVE  mem[i] = Overwritten(t, shadow, count[t])[i]
    <3>1. mem[i] = IF i \in pos[t] .. pos[t] + copied[t] - 1 THEN stamp[t] ELSE shadow[i]
      BY <2>1
    <3>2. pos[t] \in Int /\ count[t] \in Int
      OBVIOUS
    <3>3. i \notin pos[t] + count[t] .. pos[t] + count[t] - 1
      BY <3>2 DEF Cell
    <3>4. QED
      BY <2>2, <3>1, <3>3 DEF Overwritten
  <2>4. mem = Overwritten(t, shadow, count[t])
    BY <2>3 DEF Overwritten
  <2>5. QED
    BY <2>1, <2>2, <2>4
<1>11. ASSUME NEW t \in Task, WriteFault(t)
      PROVE  DataAgrees'
  <2>1. pc[t] = "w_copy" /\ owner = t /\ \A u \in Task : pc[u] = "w_copy" => u = t
    BY <1>11 DEF WriteFault
  <2>2. /\ shadow' = Overwritten(t, shadow, copied[t]) /\ mem' = Zeroed(t, mem)
        /\ pc' = [pc EXCEPT ![t] = "return"]
    BY <1>11 DEF WriteFault, Commit
  <2>3. ASSUME NEW i \in Cell
        PROVE  Zeroed(t, mem)[i] = Overwritten(t, shadow, copied[t])[i]
    <3>1. mem[i] = IF i \in pos[t] .. pos[t] + copied[t] - 1 THEN stamp[t] ELSE shadow[i]
      BY <2>1
    <3>2. pos[t] \in Int /\ count[t] \in Int /\ copied[t] \in Nat /\ i \in Int
      BY DEF Cell
    <3>3. i \in pos[t] .. pos[t] + copied[t] - 1
          => i \notin pos[t] + copied[t] .. pos[t] + count[t] - 1
      BY <3>2
    <3>4. QED
      BY <3>1, <3>3 DEF Overwritten, Zeroed
  <2>4. Zeroed(t, mem) = Overwritten(t, shadow, copied[t])
    BY <2>3 DEF Overwritten, Zeroed
  <2>5. QED
    BY <2>1, <2>2, <2>4
<1>12. ASSUME NEW t \in Task, Return(t)
      PROVE  DataAgrees'
  BY <1>12 DEF Return
<1>13. ASSUME NEW t \in Task, SeekMove(t)
      PROVE  DataAgrees'
  BY <1>13 DEF SeekMove
<1>14. ASSUME NEW t \in Task, ClearCall(t)
      PROVE  DataAgrees'
  BY <1>14 DEF ClearCall
<1>15. ASSUME NEW t \in Task, Clear(t)
      PROVE  DataAgrees'
  <2>1. mem' = shadow' /\ \A u \in Task : pc[u] # "w_copy"
    BY <1>15 DEF Clear, Commit
  <2>2. QED
    BY <1>15, <2>1 DEF Clear
<1>16. ASSUME NEW t \in Task, ClearReturn(t)
      PROVE  DataAgrees'
  BY <1>16 DEF ClearReturn
<1>17. ASSUME NEW t \in Task, NEW offset \in Offsets, SeekSet(t, offset)
      PROVE  DataAgrees'
  BY <1>17 DEF SeekSet
<1>18. ASSUME NEW t \in Task, NEW offset \in Offsets, SeekCur(t, offset)
      PROVE  DataAgrees'
  BY <1>18 DEF SeekCur
<1>19. CASE UNCHANGED vars
  BY <1>19 DEF vars
<1>20. QED
  BY <1>1, <1>2, <1>3, <1>4, <1>5, <1>6, <1>7, <1>8, <1>9, <1>10,
     <1>11, <1>12, <1>13, <1>14, <1>15, <1>16, <1>17, <1>18, <1>19 DEF Next, ReadStep, WriteStep, Seek, Ioctl

\* Every step leaves the position of a file nobody shares inside the device.
LEMMA PositionsStep ==
  ASSUME IInv, [Next]_vars
  PROVE  PositionsAgree'
<1> USE MemAssumption DEF IInv, TypeOK, MemTypeOK, Locals, Byte, EFAULT, Holding, Cut, PositionsAgree, PositionInDevice, Alone, Goto, MutexLock, MutexUnlock, Enter, Targets, call, ghosts
<1>1. ASSUME NEW t \in Task, ReadCall(t)
      PROVE  PositionsAgree'
  <2>1. PICK to \in Targets(t), n \in Nat :
          /\ Enter(t, to, n)
          /\ \/ to.pos > SIZE /\ n = 0 /\ Goto(t, "return") /\ UNCHANGED moments
             \/ /\ to.pos + n <= SIZE /\ Goto(t, "r_lock")
                /\ moments' = [moments EXCEPT ![t] = {Part(shadow, to.pos, n)}]
    BY <1>1, ReadEnters
  <2>2. /\ to.pos \in Nat /\ to.plain \in BOOLEAN
        /\ to.plain => to.pos = f_pos[fileOf[t]]
    BY Targeted
  <2>3. QED
    BY <1>1, <2>1, <2>2 DEF ReadCall
<1>2. ASSUME NEW t \in Task, ReadLock(t)
      PROVE  PositionsAgree'
  BY <1>2 DEF ReadLock
<1>3. ASSUME NEW t \in Task, ReadCopy(t)
      PROVE  PositionsAgree'
  BY <1>3, ReadCopies
<1>4. ASSUME NEW t \in Task, ReadDone(t)
      PROVE  PositionsAgree'
  BY <1>4 DEF ReadDone
<1>5. ASSUME NEW t \in Task, ReadFault(t)
      PROVE  PositionsAgree'
  BY <1>5 DEF ReadFault
<1>6. ASSUME NEW t \in Task, WriteCall(t)
      PROVE  PositionsAgree'
  <2>1. PICK n \in Sizes, to \in Targets(t) : Enter(t, to, n)
    BY <1>6 DEF WriteCall
  <2>2. to.pos \in Nat /\ to.plain \in BOOLEAN /\ (to.plain => to.pos = f_pos[fileOf[t]])
    BY Targeted
  <2>3. QED
    BY <1>6, <2>1, <2>2 DEF WriteCall
<1>7. ASSUME NEW t \in Task, WriteLock(t)
      PROVE  PositionsAgree'
  BY <1>7 DEF WriteLock
<1>8. ASSUME NEW t \in Task, WriteFar(t)
      PROVE  PositionsAgree'
  BY <1>8 DEF WriteFar
<1>9. ASSUME NEW t \in Task, WriteCopy(t)
      PROVE  PositionsAgree'
  BY <1>9 DEF WriteCopy
<1>10. ASSUME NEW t \in Task, WriteDone(t)
      PROVE  PositionsAgree'
  BY <1>10 DEF WriteDone
<1>11. ASSUME NEW t \in Task, WriteFault(t)
      PROVE  PositionsAgree'
  BY <1>11 DEF WriteFault
<1>12. ASSUME NEW t \in Task, Return(t)
      PROVE  PositionsAgree'
  <2>1. /\ pc[t] = "return" /\ pc' = [pc EXCEPT ![t] = "idle"]
        /\ f_pos' = IF plain[t] /\ result[t] >= 0
                    THEN [f_pos EXCEPT ![fileOf[t]] = pos[t] + result[t]] ELSE f_pos
        /\ plain' = [plain EXCEPT ![t] = FALSE] /\ result' = [result EXCEPT ![t] = 0]
        /\ pos' = [pos EXCEPT ![t] = 0] /\ count' = [count EXCEPT ![t] = 0]
    BY <1>12 DEF Return
  <2>2. ASSUME NEW f \in File, Alone(f)
        PROVE  f_pos'[f] \in 0 .. SIZE
    <3>1. CASE f = fileOf[t] /\ plain[t] /\ result[t] >= 0
      <4>1. f_pos'[f] = pos[t] + result[t]
        BY <2>1, <3>1
      <4>2. pos[t] \in 0 .. SIZE
        BY <2>2, <3>1
      <4>3. result[t] > 0 => pos[t] + result[t] <= SIZE
        BY <2>1
      <4>4. result[t] \in Int
        OBVIOUS
      <4>5. QED
        BY <3>1, <4>1, <4>2, <4>3, <4>4
    <3>2. CASE ~(f = fileOf[t] /\ plain[t] /\ result[t] >= 0)
      BY <2>1, <2>2, <3>2
    <3>3. QED
      BY <3>1, <3>2
  <2>3. ASSUME NEW u \in Task, u # t, Alone(fileOf[u]), pc[u] = "s_move"
        PROVE  f_pos'[fileOf[u]] = f_pos[fileOf[u]]
    BY <2>1, <2>3
  <2>4. QED
    BY <2>1, <2>2, <2>3
<1>13. ASSUME NEW t \in Task, SeekMove(t)
      PROVE  PositionsAgree'
  BY <1>13 DEF SeekMove
<1>14. ASSUME NEW t \in Task, ClearCall(t)
      PROVE  PositionsAgree'
  BY <1>14 DEF ClearCall
<1>15. ASSUME NEW t \in Task, Clear(t)
      PROVE  PositionsAgree'
  BY <1>15 DEF Clear
<1>16. ASSUME NEW t \in Task, ClearReturn(t)
      PROVE  PositionsAgree'
  BY <1>16 DEF ClearReturn
<1>17. ASSUME NEW t \in Task, NEW offset \in Offsets, SeekSet(t, offset)
      PROVE  PositionsAgree'
  BY <1>17 DEF SeekSet
<1>18. ASSUME NEW t \in Task, NEW offset \in Offsets, SeekCur(t, offset)
      PROVE  PositionsAgree'
  BY <1>18 DEF SeekCur
<1>19. CASE UNCHANGED vars
  BY <1>19 DEF vars
<1>20. QED
  BY <1>1, <1>2, <1>3, <1>4, <1>5, <1>6, <1>7, <1>8, <1>9, <1>10,
     <1>11, <1>12, <1>13, <1>14, <1>15, <1>16, <1>17, <1>18, <1>19 DEF Next, ReadStep, WriteStep, Seek, Ioctl

\* Every step leaves a read under way with what the device holds.
LEMMA ReadsStep ==
  ASSUME IInv, [Next]_vars
  PROVE  ReadAgrees'
<1> USE MemAssumption DEF IInv, TypeOK, MemTypeOK, Locals, Byte, EFAULT, Holding, Cut, DataAgrees, WritesDoNotMix, ReadAgrees, ReadsAreAtomic, Reading, Goto, MutexLock, MutexUnlock, Enter, Targets, call, ghosts
<1>1. ASSUME NEW t \in Task, ReadCall(t)
      PROVE  ReadAgrees'
  <2>1. PICK to \in Targets(t), n \in Nat :
          /\ Enter(t, to, n)
          /\ \/ to.pos > SIZE /\ n = 0 /\ Goto(t, "return") /\ UNCHANGED moments
             \/ /\ to.pos + n <= SIZE /\ Goto(t, "r_lock")
                /\ moments' = [moments EXCEPT ![t] = {Part(shadow, to.pos, n)}]
    BY <1>1, ReadEnters
  <2>2. /\ pos'[t] = to.pos /\ count'[t] = n /\ copied'[t] = 0 /\ result'[t] = 0
        /\ pc'[t] \in {"return", "r_lock"}
    BY <1>1, <2>1 DEF ReadCall, PositionsAgree
  <2>3. /\ pc[t] = "idle" /\ UNCHANGED <<mem, shadow, buf, result, stamp>>
        /\ \A u \in Task \ {t} : /\ pc'[u] = pc[u] /\ pos'[u] = pos[u] /\ count'[u] = count[u]
                                /\ copied'[u] = copied[u] /\ moments'[u] = moments[u]
    BY <1>1, <2>1 DEF ReadCall
  <2>4. pc'[t] = "r_lock" => moments'[t] = {Part(shadow, pos'[t], count'[t])}
    BY <2>1, <2>2
  <2>5. QED
    BY <2>2, <2>3, <2>4 DEF Reading
<1>2. ASSUME NEW t \in Task, ReadLock(t)
      PROVE  ReadAgrees'
  BY <1>2 DEF ReadLock
<1>3. ASSUME NEW t \in Task, ReadCopy(t)
      PROVE  ReadAgrees'
  <2>1. /\ pc[t] = "r_copy" /\ copied[t] < count[t]
        /\ copied' = [copied EXCEPT ![t] = copied[t] + 1]
        /\ UNCHANGED <<mem, pc, pos, count, result, stamp, ghosts>>
    BY <1>3, ReadCopies
  <2>2. buf' = [buf EXCEPT ![t] =
                  [i \in 0 .. copied[t] |-> IF i < copied[t] THEN buf[t][i] ELSE mem[pos[t] + i]]]
    BY <1>3 DEF ReadCopy
  <2>3. buf'[t] = Part(mem', pos'[t], copied'[t])
    <3>1. copied[t] \in Nat /\ copied'[t] - 1 = copied[t] /\ pos'[t] = pos[t] /\ mem' = mem
      BY <2>1 DEF IInv, TypeOK, MemTypeOK
    <3>2. ASSUME NEW i \in 0 .. copied[t]
          PROVE  (IF i < copied[t] THEN buf[t][i] ELSE mem[pos[t] + i]) = mem[pos[t] + i]
      <4>1. CASE i < copied[t]
        <5>1. buf[t] = Part(mem, pos[t], copied[t])
          BY <2>1, <3>1, <4>1
        <5>2. i \in 0 .. copied[t] - 1
          BY <3>1, <4>1
        <5>3. QED
          BY <4>1, <5>1, <5>2 DEF Part
      <4>2. CASE ~(i < copied[t])
        BY <4>2
      <4>3. QED
        BY <4>1, <4>2
    <3>3. buf'[t] = [i \in 0 .. copied[t] |-> mem[pos[t] + i]]
      BY <2>2, <3>2
    <3>4. QED
      BY <3>1, <3>3 DEF Part
  <2>4. \A u \in Task \ {t} : buf'[u] = buf[u] /\ copied'[u] = copied[u]
    BY <2>1, <2>2
  <2>5. QED
    BY <2>1, <2>3, <2>4 DEF Reading
<1>4. ASSUME NEW t \in Task, ReadDone(t)
      PROVE  ReadAgrees'
  <2>1. /\ pc[t] = "r_copy" /\ copied[t] = count[t] /\ owner = t
        /\ result' = [result EXCEPT ![t] = count[t]] /\ pc' = [pc EXCEPT ![t] = "return"]
        /\ UNCHANGED <<mem, pos, count, copied, buf, stamp, ghosts>>
    BY <1>4 DEF ReadDone
  <2>2. mem = shadow
    BY <2>1
  <2>3. count[t] > 0 => buf[t] \in moments[t]
    BY <2>1, <2>2 DEF Reading
  <2>4. QED
    BY <2>1, <2>3 DEF Reading
<1>5. ASSUME NEW t \in Task, ReadFault(t)
      PROVE  ReadAgrees'
  BY <1>5 DEF ReadFault
<1>6. ASSUME NEW t \in Task, WriteCall(t)
      PROVE  ReadAgrees'
  BY <1>6 DEF WriteCall
<1>7. ASSUME NEW t \in Task, WriteLock(t)
      PROVE  ReadAgrees'
  BY <1>7 DEF WriteLock
<1>8. ASSUME NEW t \in Task, WriteFar(t)
      PROVE  ReadAgrees'
  BY <1>8 DEF WriteFar
<1>9. ASSUME NEW t \in Task, WriteCopy(t)
      PROVE  ReadAgrees'
  BY <1>9 DEF WriteCopy
<1>10. ASSUME NEW t \in Task, WriteDone(t)
      PROVE  ReadAgrees'
  <2>1. \A u \in Task : pc[u] # "r_copy"
    BY <1>10 DEF WriteDone
  <2>2. /\ \A u \in Task : moments[u] \subseteq moments'[u]
        /\ \A u \in Reading : Part(shadow', pos[u], count[u]) \in moments'[u]
        /\ DOMAIN moments' = Task
    BY <1>10, Commits DEF WriteDone, Commit
  <2>3. /\ pc' = [pc EXCEPT ![t] = "return"]
        /\ UNCHANGED <<pos, count, copied, buf, stamp>>
        /\ \A u \in Task \ {t} : result'[u] = result[u]
    BY <1>10 DEF WriteDone
  <2>4. ASSUME NEW u \in Task, pc'[u] = "return", stamp'[u] = 0, result'[u] > 0
        PROVE  buf'[u] \in moments'[u]
    <3>1. u # t /\ pc[u] = "return"
      BY <1>10, <2>3, <2>4 DEF WriteDone
    <3>2. QED
      BY <2>2, <2>3, <2>4, <3>1
  <2>5. QED
    BY <2>1, <2>2, <2>3, <2>4 DEF Reading
<1>11. ASSUME NEW t \in Task, WriteFault(t)
      PROVE  ReadAgrees'
  <2>1. \A u \in Task : pc[u] # "r_copy"
    BY <1>11 DEF WriteFault
  <2>2. /\ \A u \in Task : moments[u] \subseteq moments'[u]
        /\ \A u \in Reading : Part(shadow', pos[u], count[u]) \in moments'[u]
        /\ DOMAIN moments' = Task
    BY <1>11, Commits DEF WriteFault, Commit
  <2>3. /\ pc' = [pc EXCEPT ![t] = "return"]
        /\ UNCHANGED <<pos, count, copied, buf, stamp>>
        /\ \A u \in Task \ {t} : result'[u] = result[u]
    BY <1>11 DEF WriteFault
  <2>4. ASSUME NEW u \in Task, pc'[u] = "return", stamp'[u] = 0, result'[u] > 0
        PROVE  buf'[u] \in moments'[u]
    <3>1. u # t /\ pc[u] = "return"
      BY <1>11, <2>3, <2>4 DEF WriteFault
    <3>2. QED
      BY <2>2, <2>3, <2>4, <3>1
  <2>5. QED
    BY <2>1, <2>2, <2>3, <2>4 DEF Reading
<1>12. ASSUME NEW t \in Task, Return(t)
      PROVE  ReadAgrees'
  BY <1>12 DEF Return
<1>13. ASSUME NEW t \in Task, SeekMove(t)
      PROVE  ReadAgrees'
  BY <1>13 DEF SeekMove
<1>14. ASSUME NEW t \in Task, ClearCall(t)
      PROVE  ReadAgrees'
  BY <1>14 DEF ClearCall
<1>15. ASSUME NEW t \in Task, Clear(t)
      PROVE  ReadAgrees'
  <2>1. \A u \in Task : pc[u] # "r_copy"
    BY <1>15 DEF Clear
  <2>2. /\ \A u \in Task : moments[u] \subseteq moments'[u]
        /\ \A u \in Reading : Part(shadow', pos[u], count[u]) \in moments'[u]
        /\ DOMAIN moments' = Task
    BY <1>15, Commits DEF Clear, Commit
  <2>3. /\ pc' = [pc EXCEPT ![t] = "c_unlock"]
        /\ UNCHANGED <<pos, count, copied, buf, stamp>>
        /\ \A u \in Task \ {t} : result'[u] = result[u]
    BY <1>15 DEF Clear
  <2>4. ASSUME NEW u \in Task, pc'[u] = "return", stamp'[u] = 0, result'[u] > 0
        PROVE  buf'[u] \in moments'[u]
    <3>1. u # t /\ pc[u] = "return"
      BY <1>15, <2>3, <2>4 DEF Clear
    <3>2. QED
      BY <2>2, <2>3, <2>4, <3>1
  <2>5. QED
    BY <2>1, <2>2, <2>3, <2>4 DEF Reading
<1>16. ASSUME NEW t \in Task, ClearReturn(t)
      PROVE  ReadAgrees'
  BY <1>16 DEF ClearReturn
<1>17. ASSUME NEW t \in Task, NEW offset \in Offsets, SeekSet(t, offset)
      PROVE  ReadAgrees'
  BY <1>17 DEF SeekSet
<1>18. ASSUME NEW t \in Task, NEW offset \in Offsets, SeekCur(t, offset)
      PROVE  ReadAgrees'
  BY <1>18 DEF SeekCur
<1>19. CASE UNCHANGED vars
  BY <1>19 DEF vars
<1>20. QED
  BY <1>1, <1>2, <1>3, <1>4, <1>5, <1>6, <1>7, <1>8, <1>9, <1>10,
     <1>11, <1>12, <1>13, <1>14, <1>15, <1>16, <1>17, <1>18, <1>19 DEF Next, ReadStep, WriteStep, Seek, Ioctl

\* A new device has no call under way and the same data twice.
LEMMA InitHolds ==
  ASSUME Init
  PROVE  IInv
<1> USE MemAssumption DEF Init
<1>1. TypeOK
  BY DEF TypeOK, MemTypeOK, Cell, Byte
<1>2. Locals /\ Holding /\ Cut /\ PositionsAgree
  BY DEF Locals, Holding, Cut, PositionsAgree, PositionInDevice
<1>3. DataAgrees /\ ReadAgrees
  BY DEF DataAgrees, WritesDoNotMix, ReadAgrees, ReadsAreAtomic, Reading
<1>4. QED
  BY <1>1, <1>2, <1>3 DEF IInv

\* The inductive invariant.
THEOREM Invariance == Spec => []IInv
<1>1. IInv /\ [Next]_vars => IInv'
  <2> SUFFICES ASSUME IInv, [Next]_vars
               PROVE  IInv'
    OBVIOUS
  <2>1. TypeOK' /\ Locals' /\ Holding' /\ Cut'
    BY TypeStep, LocalsStep, HoldingStep, CutStep
  <2>2. DataAgrees' /\ ReadAgrees' /\ PositionsAgree'
    BY DataStep, ReadsStep, PositionsStep
  <2>3. QED
    BY <2>1, <2>2 DEF IInv
<1>2. QED
  BY <1>1, InitHolds, PTL DEF Spec

-----------------------------------------------------------------------------
\* Every variable keeps its type.
THEOREM TypeCorrect == Spec => []TypeOK
<1>1. IInv => TypeOK
  BY DEF IInv
<1>2. QED
  BY <1>1, Invariance, PTL

\* No copy leaves the device, whatever positions, sizes and offsets its callers
\* bring and whoever shares their file (tdlcd.c:81-88, 115-122).
THEOREM CopiesStayInDevice == Spec => []CopyInBounds
<1>1. IInv => CopyInBounds
  BY DEF IInv, Cut, CopyInBounds, Copying
<1>2. QED
  BY <1>1, Invariance, PTL

\* The mutex makes a read one step (tdlcd.c:90-101).
THEOREM ReadsAreWhole == Spec => []ReadsAreAtomic
<1>1. IInv => ReadsAreAtomic
  BY DEF IInv, ReadAgrees
<1>2. QED
  BY <1>1, Invariance, PTL

\* The mutex makes writes and clears one step, those that fail included (tdlcd.c:114-134).
THEOREM WritesAreWhole == Spec => []WritesDoNotMix
<1>1. IInv => WritesDoNotMix
  BY DEF IInv, DataAgrees
<1>2. QED
  BY <1>1, Invariance, PTL

\* No seek, read or write takes a file that one task uses out of the device
\* (tdlcd.c:139-171), although seeks compute with offsets that are cut and wrap.
THEOREM PositionsStayInDevice == Spec => []PositionInDevice
<1>1. IInv => PositionInDevice
  BY DEF IInv, PositionsAgree
<1>2. QED
  BY <1>1, Invariance, PTL

\* Every way out of every handler gives the mutex back, but that of a write
\* behind the end (tdlcd.c:115-118).
THEOREM MutexComesBack == Spec => OnlyFarWritesKeepMutex
<1> DEFINE Kept(t) == /\ pc[t] \in {"r_copy", "w_copy", "w_lock", "c_unlock"}
                      /\ pc'[t] \in {"return", "idle"} /\ owner' = t
                      => pc[t] = "w_lock" /\ pos[t] > SIZE
<1>1. IInv /\ [Next]_vars => [\A t \in Task : Kept(t)]_vars
  <2> SUFFICES ASSUME IInv, Next, NEW u \in Task
               PROVE  Kept(u)
    OBVIOUS
  <2> USE MemAssumption DEF IInv, TypeOK, MemTypeOK, Goto, MutexLock, MutexUnlock
  <2>1. ASSUME NEW t \in Task, ReadCall(t) \/ WriteCall(t)
        PROVE  Kept(u)
    BY <2>1, ReadEnters DEF ReadCall, WriteCall
  <2>2. ASSUME NEW t \in Task, ReadStep(t)
        PROVE  Kept(u)
    BY <2>2, ReadCopies DEF ReadStep, ReadLock, ReadDone, ReadFault
  <2>3. ASSUME NEW t \in Task, WriteStep(t)
        PROVE  Kept(u)
    BY <2>3 DEF WriteStep, WriteLock, WriteFar, WriteCopy, WriteDone, WriteFault
  <2>4. ASSUME NEW t \in Task, Return(t)
        PROVE  Kept(u)
    BY <2>4 DEF Return
  <2>5. ASSUME NEW t \in Task, Seek(t)
        PROVE  Kept(u)
    BY <2>5 DEF Seek, SeekSet, SeekCur, SeekMove
  <2>6. ASSUME NEW t \in Task, Ioctl(t)
        PROVE  Kept(u)
    BY <2>6 DEF Ioctl, ClearCall, Clear, ClearReturn
  <2>7. QED
    BY <2>1, <2>2, <2>3, <2>4, <2>5, <2>6 DEF Next
<1>2. QED
  BY <1>1, Invariance, PTL DEF Spec, OnlyFarWritesKeepMutex
=============================================================================
