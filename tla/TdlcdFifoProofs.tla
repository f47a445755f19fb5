-------------------------- MODULE TdlcdFifoProofs ---------------------------
(***************************************************************************)
(* Proofs about TdlcdFifo, for any number of tasks, any SIZE and any data. *)
(*                                                                         *)
(* The inductive invariant IInv is proved part by part: one lemma per      *)
(* conjunct, one step per action.  The theorems after it follow from it.   *)
(* The last part is the proof that the driver is a FIFO.                   *)
(***************************************************************************)
EXTENDS TdlcdFifo, SequenceTheorems, TLAPS

-----------------------------------------------------------------------------
(***************************************************************************)
(* What the operators on dev->mem yield.                                   *)
(***************************************************************************)
\* A stretch of dev->mem is a sequence of bytes, as long as it says.
LEMMA BytesIsSeq ==
  ASSUME SIZE \in Nat, mem \in [Cell -> Byte],
         NEW from \in Nat, NEW n \in Nat, from + n <= SIZE
  PROVE  /\ Bytes(from, n) \in Seq(Byte)
         /\ Len(Bytes(from, n)) = n
         /\ \A i \in 1 .. n : Bytes(from, n)[i] = mem[from + i - 1]
<1>1. Bytes(from, n) \in [1 .. n -> Byte]
  BY DEF Bytes, Cell
<1>2. QED
  BY <1>1 DEF Bytes

\* In whatever order memcpy goes, it moves bytes of dev->mem.
LEMMA MemcpyType ==
  ASSUME SIZE \in Nat, NEW m \in [Cell -> Byte], NEW from \in Nat, NEW n \in Nat,
         from + n <= SIZE, NEW order
  PROVE  Memcpy(m, from, n, order) \in [Cell -> Byte]
<1> SUFFICES ASSUME NEW i \in Cell, i < n, from # 0
             PROVE  i + from \in Cell /\ n + ((i - n) % from) \in Cell
  BY DEF Memcpy, Cell
<1>1. (i - n) % from \in 0 .. from - 1
  BY DEF Cell
<1>2. QED
  BY <1>1 DEF Cell

\* The bytes a write brings in are bytes.
LEMMA CopyInType ==
  ASSUME TypeOK, NEW t \in Task, NEW n \in 0 .. Len(data[t]), CopyIn(t, n)
  PROVE  mem' \in [Cell -> Byte]
BY DEF TypeOK, CopyIn, Cell

\* A transfer that agrees with the device stays inside dev->mem.
LEMMA TransfersInBounds ==
  ASSUME TypeOK, TransferAgrees
  PROVE  CopyInBounds
<1> SUFFICES ASSUME NEW t \in Task
             PROVE  /\ pc[t] = "r_consume" => count[t] <= current_len
                    /\ pc[t] = "w_commit"  => current_len + count[t] <= SIZE
  BY DEF CopyInBounds
<1>1. /\ SIZE \in Nat /\ current_len \in 0 .. SIZE /\ size[t] \in Nat
      /\ count[t] \in Nat /\ data[t] \in Seq(Byte)
  BY ConstantsAssumption DEF TypeOK
<1>2. Len(data[t]) \in Nat
  BY <1>1
<1>3. QED
  BY <1>1, <1>2 DEF TransferAgrees, Least

-----------------------------------------------------------------------------
(***************************************************************************)
(* The steps.                                                              *)
(***************************************************************************)
\* Types.  The bytes a transfer moves lie inside dev->mem and inside the user's
\* data because its count was cut before (TransfersInBounds).
LEMMA TypeOKStep ==
  ASSUME TypeOK, TransferAgrees, Next
  PROVE  TypeOK'
<1> SUFFICES ASSUME NEW t \in Task, Call(t) \/ Kernel(t) \/ PollTimeout(t) \/ Signal(t)
             PROVE  TypeOK'
  BY DEF Next
<1> USE ConstantsAssumption DEF TypeOK, ReadPC, WritePC, ClearPC, PollPC, Cell, POLLIN, POLLOUT
<1>1. CASE Open(t) \/ Fasync(t) \/ Release(t)
  BY <1>1 DEF Open, Fasync, Release, queues, locals, args
<1>2. CASE ReadCall(t)
  BY <1>2 DEF ReadCall, device, queues, Goto
<1>3. CASE WriteCall(t)
  BY <1>3 DEF WriteCall, device, queues, Goto
<1>4. CASE ClearCall(t)
  BY <1>4 DEF ClearCall, device, queues, locals, args, Goto
<1>5. CASE PollCall(t)
  BY <1>5 DEF PollCall, device, queues, Goto
<1>6. CASE ReadLock(t)
  BY <1>6 DEF ReadLock, device, locals, args, Goto, MutexLock
<1>7. CASE ReadWouldBlock(t)
  BY <1>7 DEF ReadWouldBlock, device, queues, args, Goto, MutexUnlock, EAGAIN
<1>8. CASE ReadSleep(t)
  BY <1>8 DEF ReadSleep, device, queues, locals, args, Goto, MutexUnlock
<1>9. CASE ReadInterrupted(t)
  BY <1>9 DEF ReadInterrupted, device, queues, args, Goto, ERESTARTSYS
<1>10. CASE ReadWoken(t)
  BY <1>10 DEF ReadWoken, device, queues, locals, args, Goto
<1>11. CASE ReadRelock(t)
  BY <1>11 DEF ReadRelock, device, queues, locals, args, Goto, MutexLock
<1>12. CASE ReadCopy(t)
  <2> DEFINE n == Least(count[t], current_len)
  <2>1. n \in 0 .. SIZE
    BY DEF Least
  <2>2. Bytes(0, n) \in Seq(Byte)
    BY <2>1, BytesIsSeq DEF Cell
  <2>3. count' = [count EXCEPT ![t] = n] /\ ubuf' = [ubuf EXCEPT ![t] = Bytes(0, n)]
    BY <1>12 DEF ReadCopy
  <2> HIDE DEF n
  <2>4. count' \in [Task -> Nat] /\ ubuf' \in [Task -> Seq(Byte)]
    BY <2>1, <2>2, <2>3
  <2>5. QED
    BY <1>12, <2>4 DEF ReadCopy, device, queues, args, Goto
<1>13. CASE ReadFault(t)
  <2>1. Least(count[t], current_len) \in Nat /\ Least(count[t], current_len) <= SIZE
    BY DEF Least
  <2>2. PICK k \in 0 .. Least(count[t], current_len) - 1 :
                ubuf' = [ubuf EXCEPT ![t] = Bytes(0, k)]
    BY <1>13 DEF ReadFault
  <2>3. Bytes(0, k) \in Seq(Byte)
    BY <2>1, <2>2, BytesIsSeq DEF Cell
  <2>4. count' = [count EXCEPT ![t] = Least(count[t], current_len)]
    BY <1>13 DEF ReadFault
  <2>5. count' \in [Task -> Nat] /\ ubuf' \in [Task -> Seq(Byte)]
    BY <2>1, <2>2, <2>3, <2>4
  <2>6. QED
    BY <1>13, <2>5 DEF ReadFault, device, queues, args, Goto, MutexUnlock, EFAULT
<1>14. CASE ReadConsume(t)
  <2>1. count[t] \in Nat /\ count[t] <= current_len
    BY <1>14, TransfersInBounds DEF ReadConsume, CopyInBounds
  <2>2. PICK order \in MemcpyOrders :
                mem' = Memcpy(mem, count[t], current_len - count[t], order)
    BY <1>14 DEF ReadConsume
  <2>3. mem' \in [Cell -> Byte]
    <3>1. /\ current_len - count[t] \in Nat /\ SIZE \in Nat
          /\ count[t] + (current_len - count[t]) <= SIZE
      BY <2>1
    <3>2. Memcpy(mem, count[t], current_len - count[t], order) \in [Cell -> Byte]
      BY <2>1, <3>1, MemcpyType
    <3>3. QED
      BY <2>2, <3>2
  <2>4. /\ current_len' \in 0 .. SIZE /\ ret' \in [Task -> Int]
        /\ pc' \in [Task -> {"user"} \cup ReadPC \cup WritePC \cup ClearPC \cup PollPC]
    BY <1>14, <2>1 DEF ReadConsume, Goto
  <2>5. state' \in [Task -> {"RUNNING", "INTERRUPTIBLE"}]
    BY <1>14 DEF ReadConsume, WakeUpInterruptible
  <2>6. QED
    BY <1>14, <2>3, <2>4, <2>5 DEF ReadConsume, queues, args, MutexUnlock
<1>15. CASE ReadReturn(t)
  BY <1>15 DEF ReadReturn, device, SyscallReturn, Goto
<1>16. CASE WriteLock(t)
  BY <1>16 DEF WriteLock, device, locals, args, Goto, MutexLock
<1>17. CASE WriteWouldBlock(t)
  BY <1>17 DEF WriteWouldBlock, device, queues, args, Goto, MutexUnlock, EAGAIN
<1>18. CASE WriteSleep(t)
  BY <1>18 DEF WriteSleep, device, queues, locals, args, Goto, MutexUnlock
<1>19. CASE WriteInterrupted(t)
  BY <1>19 DEF WriteInterrupted, device, queues, args, Goto, ERESTARTSYS
<1>20. CASE WriteWoken(t)
  BY <1>20 DEF WriteWoken, device, queues, locals, args, Goto
<1>21. CASE WriteRelock(t)
  BY <1>21 DEF WriteRelock, device, queues, locals, args, Goto, MutexLock
<1>22. CASE WriteCopy(t)
  <2>1. Least(count[t], SIZE - current_len) \in 0 .. Len(data[t])
    BY <1>22 DEF WriteCopy, Least, TransferAgrees
  <2>2. mem' \in [Cell -> Byte]
    BY <1>22, <2>1, CopyInType DEF WriteCopy
  <2>3. QED
    BY <1>22, <2>1, <2>2 DEF WriteCopy, queues, args, Goto
<1>23. CASE WriteFault(t)
  <2>1. Least(count[t], SIZE - current_len) \in 0 .. Len(data[t])
    BY <1>23 DEF WriteFault, Least, TransferAgrees
  <2>2. mem' \in [Cell -> Byte]
    BY <1>23, <2>1, CopyInType DEF WriteFault
  <2>3. QED
    BY <1>23, <2>1, <2>2 DEF WriteFault, queues, args, Goto, MutexUnlock, EFAULT
<1>24. CASE WriteCommit(t)
  <2>1. count[t] \in Nat /\ current_len + count[t] <= SIZE
    BY <1>24, TransfersInBounds DEF WriteCommit, CopyInBounds
  <2>2. state' \in [Task -> {"RUNNING", "INTERRUPTIBLE"}] /\ signal' \in [Task -> BOOLEAN]
    BY <1>24 DEF WriteCommit, WakeUpInterruptible, KillFasync
  <2>3. /\ current_len' \in 0 .. SIZE /\ ret' \in [Task -> Int]
        /\ pc' \in [Task -> {"user"} \cup ReadPC \cup WritePC \cup ClearPC \cup PollPC]
    BY <1>24, <2>1 DEF WriteCommit, Goto
  <2>4. QED
    BY <1>24, <2>2, <2>3 DEF WriteCommit, queues, args, MutexUnlock
<1>25. CASE WriteReturn(t)
  BY <1>25 DEF WriteReturn, device, SyscallReturn, Goto
<1>26. CASE ClearLock(t)
  BY <1>26 DEF ClearLock, device, queues, locals, args, Goto, MutexLock
<1>27. CASE Clear(t)
  BY <1>27 DEF Clear, queues, MutexUnlock, SyscallReturn, Goto
<1>28. CASE PollLock(t)
  BY <1>28 DEF PollLock, device, locals, args, Goto, MutexLock
<1>29. CASE PollReport(t)
  BY <1>29 DEF PollReport, device, queues, locals, args, Goto, MutexUnlock, Mask
<1>30. CASE PollSleep(t)
  BY <1>30 DEF PollSleep, device, queues, locals, args, Goto, MutexUnlock, Mask
<1>31. CASE PollInterrupted(t)
  BY <1>31 DEF PollInterrupted, device, queues, locals, args, Goto
<1>32. CASE PollWoken(t)
  BY <1>32 DEF PollWoken, device, queues, locals, args, Goto
<1>33. CASE PollTimeout(t)
  BY <1>33 DEF PollTimeout, device, queues, locals, args, Goto
<1>34. CASE PollReturn(t)
  BY <1>34 DEF PollReturn, device, SyscallReturn, Goto
<1>35. CASE Signal(t) \/ DeliverSignal(t)
  BY <1>35 DEF Signal, DeliverSignal, device, queues, locals, args
<1>36. QED
  BY <1>1, <1>2, <1>3, <1>4, <1>5, <1>6, <1>7, <1>8, <1>9, <1>10, <1>11, <1>12,
     <1>13, <1>14, <1>15, <1>16, <1>17, <1>18, <1>19, <1>20, <1>21, <1>22, <1>23,
     <1>24, <1>25, <1>26, <1>27, <1>28, <1>29, <1>30, <1>31, <1>32, <1>33, <1>34,
     <1>35
  DEF Call, Kernel, ReadStep, WriteStep, ClearStep, PollStep

\* The owner of dev->mutex is the handler inside its critical section.
LEMMA MutualExclusionStep ==
  ASSUME TypeOK, MutualExclusion, Next
  PROVE  MutualExclusion'
<1> SUFFICES ASSUME NEW t \in Task, Call(t) \/ Kernel(t) \/ PollTimeout(t) \/ Signal(t)
             PROVE  MutualExclusion'
  BY DEF Next
<1> USE ConstantsAssumption DEF TypeOK, MutualExclusion, LockedPC
<1>1. CASE Open(t) \/ Fasync(t) \/ Release(t)
  BY <1>1 DEF Open, Fasync, Release, queues, locals, args
<1>2. CASE ReadCall(t)
  BY <1>2 DEF ReadCall, device, queues, Goto
<1>3. CASE WriteCall(t)
  BY <1>3 DEF WriteCall, device, queues, Goto
<1>4. CASE ClearCall(t)
  BY <1>4 DEF ClearCall, device, queues, locals, args, Goto
<1>5. CASE PollCall(t)
  BY <1>5 DEF PollCall, device, queues, Goto
<1>6. CASE ReadLock(t)
  BY <1>6 DEF ReadLock, device, locals, args, Goto, MutexLock
<1>7. CASE ReadWouldBlock(t)
  BY <1>7 DEF ReadWouldBlock, device, queues, args, Goto, MutexUnlock, EAGAIN
<1>8. CASE ReadSleep(t)
  BY <1>8 DEF ReadSleep, device, queues, locals, args, Goto, MutexUnlock
<1>9. CASE ReadInterrupted(t)
  BY <1>9 DEF ReadInterrupted, device, queues, args, Goto, ERESTARTSYS
<1>10. CASE ReadWoken(t)
  BY <1>10 DEF ReadWoken, device, queues, locals, args, Goto
<1>11. CASE ReadRelock(t)
  BY <1>11 DEF ReadRelock, device, queues, locals, args, Goto, MutexLock
<1>12. CASE ReadCopy(t)
  BY <1>12 DEF ReadCopy, device, queues, args, Goto, Least, Bytes
<1>13. CASE ReadFault(t)
  BY <1>13 DEF ReadFault, device, queues, args, Goto, MutexUnlock, Least, Bytes,
     EFAULT
<1>14. CASE ReadConsume(t)
  BY <1>14 DEF ReadConsume, queues, args, Goto, MutexUnlock, WakeUpInterruptible,
     Memcpy
<1>15. CASE ReadReturn(t)
  BY <1>15 DEF ReadReturn, device, SyscallReturn, Goto
<1>16. CASE WriteLock(t)
  BY <1>16 DEF WriteLock, device, locals, args, Goto, MutexLock
<1>17. CASE WriteWouldBlock(t)
  BY <1>17 DEF WriteWouldBlock, device, queues, args, Goto, MutexUnlock, EAGAIN
<1>18. CASE WriteSleep(t)
  BY <1>18 DEF WriteSleep, device, queues, locals, args, Goto, MutexUnlock
<1>19. CASE WriteInterrupted(t)
  BY <1>19 DEF WriteInterrupted, device, queues, args, Goto, ERESTARTSYS
<1>20. CASE WriteWoken(t)
  BY <1>20 DEF WriteWoken, device, queues, locals, args, Goto
<1>21. CASE WriteRelock(t)
  BY <1>21 DEF WriteRelock, device, queues, locals, args, Goto, MutexLock
<1>22. CASE WriteCopy(t)
  BY <1>22 DEF WriteCopy, queues, args, Goto, CopyIn, Least
<1>23. CASE WriteFault(t)
  BY <1>23 DEF WriteFault, queues, args, Goto, MutexUnlock, CopyIn, Least, EFAULT
<1>24. CASE WriteCommit(t)
  BY <1>24 DEF WriteCommit, queues, args, Goto, MutexUnlock, WakeUpInterruptible,
     KillFasync
<1>25. CASE WriteReturn(t)
  BY <1>25 DEF WriteReturn, device, SyscallReturn, Goto
<1>26. CASE ClearLock(t)
  BY <1>26 DEF ClearLock, device, queues, locals, args, Goto, MutexLock
<1>27. CASE Clear(t)
  BY <1>27 DEF Clear, queues, MutexUnlock, SyscallReturn, Goto
<1>28. CASE PollLock(t)
  BY <1>28 DEF PollLock, device, locals, args, Goto, MutexLock
<1>29. CASE PollReport(t)
  BY <1>29 DEF PollReport, device, queues, locals, args, Goto, MutexUnlock, Mask
<1>30. CASE PollSleep(t)
  BY <1>30 DEF PollSleep, device, queues, locals, args, Goto, MutexUnlock, Mask
<1>31. CASE PollInterrupted(t)
  BY <1>31 DEF PollInterrupted, device, queues, locals, args, Goto
<1>32. CASE PollWoken(t)
  BY <1>32 DEF PollWoken, device, queues, locals, args, Goto
<1>33. CASE PollTimeout(t)
  BY <1>33 DEF PollTimeout, device, queues, locals, args, Goto
<1>34. CASE PollReturn(t)
  BY <1>34 DEF PollReturn, device, SyscallReturn, Goto
<1>35. CASE Signal(t) \/ DeliverSignal(t)
  BY <1>35 DEF Signal, DeliverSignal, device, queues, locals, args
<1>36. QED
  BY <1>1, <1>2, <1>3, <1>4, <1>5, <1>6, <1>7, <1>8, <1>9, <1>10, <1>11, <1>12,
     <1>13, <1>14, <1>15, <1>16, <1>17, <1>18, <1>19, <1>20, <1>21, <1>22, <1>23,
     <1>24, <1>25, <1>26, <1>27, <1>28, <1>29, <1>30, <1>31, <1>32, <1>33, <1>34,
     <1>35
  DEF Call, Kernel, ReadStep, WriteStep, ClearStep, PollStep

\* Every handler is on the queues its place says, and on no other.
LEMMA WaitersAreQueuedStep ==
  ASSUME TypeOK, WaitersAreQueued, Next
  PROVE  WaitersAreQueued'
<1> SUFFICES ASSUME NEW t \in Task, Call(t) \/ Kernel(t) \/ PollTimeout(t) \/ Signal(t)
             PROVE  WaitersAreQueued'
  BY DEF Next
<1> USE ConstantsAssumption DEF TypeOK, WaitersAreQueued, OnReadQueue, OnWriteQueue
<1>1. CASE Open(t) \/ Fasync(t) \/ Release(t)
  BY <1>1 DEF Open, Fasync, Release, queues, locals, args
<1>2. CASE ReadCall(t)
  BY <1>2 DEF ReadCall, device, queues, Goto
<1>3. CASE WriteCall(t)
  BY <1>3 DEF WriteCall, device, queues, Goto
<1>4. CASE ClearCall(t)
  BY <1>4 DEF ClearCall, device, queues, locals, args, Goto
<1>5. CASE PollCall(t)
  BY <1>5 DEF PollCall, device, queues, Goto
<1>6. CASE ReadLock(t)
  BY <1>6 DEF ReadLock, device, locals, args, Goto, MutexLock
<1>7. CASE ReadWouldBlock(t)
  BY <1>7 DEF ReadWouldBlock, device, queues, args, Goto, MutexUnlock, EAGAIN
<1>8. CASE ReadSleep(t)
  BY <1>8 DEF ReadSleep, device, queues, locals, args, Goto, MutexUnlock
<1>9. CASE ReadInterrupted(t)
  BY <1>9 DEF ReadInterrupted, device, queues, args, Goto, ERESTARTSYS
<1>10. CASE ReadWoken(t)
  BY <1>10 DEF ReadWoken, device, queues, locals, args, Goto
<1>11. CASE ReadRelock(t)
  BY <1>11 DEF ReadRelock, device, queues, locals, args, Goto, MutexLock
<1>12. CASE ReadCopy(t)
  BY <1>12 DEF ReadCopy, device, queues, args, Goto, Least, Bytes
<1>13. CASE ReadFault(t)
  BY <1>13 DEF ReadFault, device, queues, args, Goto, MutexUnlock, Least, Bytes,
     EFAULT
<1>14. CASE ReadConsume(t)
  BY <1>14 DEF ReadConsume, queues, args, Goto, MutexUnlock, WakeUpInterruptible,
     Memcpy
<1>15. CASE ReadReturn(t)
  BY <1>15 DEF ReadReturn, device, SyscallReturn, Goto
<1>16. CASE WriteLock(t)
  BY <1>16 DEF WriteLock, device, locals, args, Goto, MutexLock
<1>17. CASE WriteWouldBlock(t)
  BY <1>17 DEF WriteWouldBlock, device, queues, args, Goto, MutexUnlock, EAGAIN
<1>18. CASE WriteSleep(t)
  BY <1>18 DEF WriteSleep, device, queues, locals, args, Goto, MutexUnlock
<1>19. CASE WriteInterrupted(t)
  BY <1>19 DEF WriteInterrupted, device, queues, args, Goto, ERESTARTSYS
<1>20. CASE WriteWoken(t)
  BY <1>20 DEF WriteWoken, device, queues, locals, args, Goto
<1>21. CASE WriteRelock(t)
  BY <1>21 DEF WriteRelock, device, queues, locals, args, Goto, MutexLock
<1>22. CASE WriteCopy(t)
  BY <1>22 DEF WriteCopy, queues, args, Goto, CopyIn, Least
<1>23. CASE WriteFault(t)
  BY <1>23 DEF WriteFault, queues, args, Goto, MutexUnlock, CopyIn, Least, EFAULT
<1>24. CASE WriteCommit(t)
  BY <1>24 DEF WriteCommit, queues, args, Goto, MutexUnlock, WakeUpInterruptible,
     KillFasync
<1>25. CASE WriteReturn(t)
  BY <1>25 DEF WriteReturn, device, SyscallReturn, Goto
<1>26. CASE ClearLock(t)
  BY <1>26 DEF ClearLock, device, queues, locals, args, Goto, MutexLock
<1>27. CASE Clear(t)
  BY <1>27 DEF Clear, queues, MutexUnlock, SyscallReturn, Goto
<1>28. CASE PollLock(t)
  BY <1>28 DEF PollLock, device, locals, args, Goto, MutexLock
<1>29. CASE PollReport(t)
  BY <1>29 DEF PollReport, device, queues, locals, args, Goto, MutexUnlock, Mask
<1>30. CASE PollSleep(t)
  BY <1>30 DEF PollSleep, device, queues, locals, args, Goto, MutexUnlock, Mask
<1>31. CASE PollInterrupted(t)
  BY <1>31 DEF PollInterrupted, device, queues, locals, args, Goto
<1>32. CASE PollWoken(t)
  BY <1>32 DEF PollWoken, device, queues, locals, args, Goto
<1>33. CASE PollTimeout(t)
  BY <1>33 DEF PollTimeout, device, queues, locals, args, Goto
<1>34. CASE PollReturn(t)
  BY <1>34 DEF PollReturn, device, SyscallReturn, Goto
<1>35. CASE Signal(t) \/ DeliverSignal(t)
  BY <1>35 DEF Signal, DeliverSignal, device, queues, locals, args
<1>36. QED
  BY <1>1, <1>2, <1>3, <1>4, <1>5, <1>6, <1>7, <1>8, <1>9, <1>10, <1>11, <1>12,
     <1>13, <1>14, <1>15, <1>16, <1>17, <1>18, <1>19, <1>20, <1>21, <1>22, <1>23,
     <1>24, <1>25, <1>26, <1>27, <1>28, <1>29, <1>30, <1>31, <1>32, <1>33, <1>34,
     <1>35
  DEF Call, Kernel, ReadStep, WriteStep, ClearStep, PollStep

\* Nobody leaves the places that wait with the state it slept in.
LEMMA SleepsOnlyWaitingStep ==
  ASSUME TypeOK, SleepsOnlyWaiting, Next
  PROVE  SleepsOnlyWaiting'
<1> SUFFICES ASSUME NEW t \in Task, Call(t) \/ Kernel(t) \/ PollTimeout(t) \/ Signal(t)
             PROVE  SleepsOnlyWaiting'
  BY DEF Next
<1> USE ConstantsAssumption DEF TypeOK, SleepsOnlyWaiting
<1>1. CASE Open(t) \/ Fasync(t) \/ Release(t)
  BY <1>1 DEF Open, Fasync, Release, queues, locals, args
<1>2. CASE ReadCall(t)
  BY <1>2 DEF ReadCall, device, queues, Goto
<1>3. CASE WriteCall(t)
  BY <1>3 DEF WriteCall, device, queues, Goto
<1>4. CASE ClearCall(t)
  BY <1>4 DEF ClearCall, device, queues, locals, args, Goto
<1>5. CASE PollCall(t)
  BY <1>5 DEF PollCall, device, queues, Goto
<1>6. CASE ReadLock(t)
  BY <1>6 DEF ReadLock, device, locals, args, Goto, MutexLock
<1>7. CASE ReadWouldBlock(t)
  BY <1>7 DEF ReadWouldBlock, device, queues, args, Goto, MutexUnlock, EAGAIN
<1>8. CASE ReadSleep(t)
  BY <1>8 DEF ReadSleep, device, queues, locals, args, Goto, MutexUnlock
<1>9. CASE ReadInterrupted(t)
  BY <1>9 DEF ReadInterrupted, device, queues, args, Goto, ERESTARTSYS
<1>10. CASE ReadWoken(t)
  BY <1>10 DEF ReadWoken, device, queues, locals, args, Goto
<1>11. CASE ReadRelock(t)
  BY <1>11 DEF ReadRelock, device, queues, locals, args, Goto, MutexLock
<1>12. CASE ReadCopy(t)
  BY <1>12 DEF ReadCopy, device, queues, args, Goto, Least, Bytes
<1>13. CASE ReadFault(t)
  BY <1>13 DEF ReadFault, device, queues, args, Goto, MutexUnlock, Least, Bytes,
     EFAULT
<1>14. CASE ReadConsume(t)
  BY <1>14 DEF ReadConsume, queues, args, Goto, MutexUnlock, WakeUpInterruptible,
     Memcpy
<1>15. CASE ReadReturn(t)
  BY <1>15 DEF ReadReturn, device, SyscallReturn, Goto
<1>16. CASE WriteLock(t)
  BY <1>16 DEF WriteLock, device, locals, args, Goto, MutexLock
<1>17. CASE WriteWouldBlock(t)
  BY <1>17 DEF WriteWouldBlock, device, queues, args, Goto, MutexUnlock, EAGAIN
<1>18. CASE WriteSleep(t)
  BY <1>18 DEF WriteSleep, device, queues, locals, args, Goto, MutexUnlock
<1>19. CASE WriteInterrupted(t)
  BY <1>19 DEF WriteInterrupted, device, queues, args, Goto, ERESTARTSYS
<1>20. CASE WriteWoken(t)
  BY <1>20 DEF WriteWoken, device, queues, locals, args, Goto
<1>21. CASE WriteRelock(t)
  BY <1>21 DEF WriteRelock, device, queues, locals, args, Goto, MutexLock
<1>22. CASE WriteCopy(t)
  BY <1>22 DEF WriteCopy, queues, args, Goto, CopyIn, Least
<1>23. CASE WriteFault(t)
  BY <1>23 DEF WriteFault, queues, args, Goto, MutexUnlock, CopyIn, Least, EFAULT
<1>24. CASE WriteCommit(t)
  BY <1>24 DEF WriteCommit, queues, args, Goto, MutexUnlock, WakeUpInterruptible,
     KillFasync
<1>25. CASE WriteReturn(t)
  BY <1>25 DEF WriteReturn, device, SyscallReturn, Goto
<1>26. CASE ClearLock(t)
  BY <1>26 DEF ClearLock, device, queues, locals, args, Goto, MutexLock
<1>27. CASE Clear(t)
  BY <1>27 DEF Clear, queues, MutexUnlock, SyscallReturn, Goto
<1>28. CASE PollLock(t)
  BY <1>28 DEF PollLock, device, locals, args, Goto, MutexLock
<1>29. CASE PollReport(t)
  BY <1>29 DEF PollReport, device, queues, locals, args, Goto, MutexUnlock, Mask
<1>30. CASE PollSleep(t)
  BY <1>30 DEF PollSleep, device, queues, locals, args, Goto, MutexUnlock, Mask
<1>31. CASE PollInterrupted(t)
  BY <1>31 DEF PollInterrupted, device, queues, locals, args, Goto
<1>32. CASE PollWoken(t)
  BY <1>32 DEF PollWoken, device, queues, locals, args, Goto
<1>33. CASE PollTimeout(t)
  BY <1>33 DEF PollTimeout, device, queues, locals, args, Goto
<1>34. CASE PollReturn(t)
  BY <1>34 DEF PollReturn, device, SyscallReturn, Goto
<1>35. CASE Signal(t) \/ DeliverSignal(t)
  BY <1>35 DEF Signal, DeliverSignal, device, queues, locals, args
<1>36. QED
  BY <1>1, <1>2, <1>3, <1>4, <1>5, <1>6, <1>7, <1>8, <1>9, <1>10, <1>11, <1>12,
     <1>13, <1>14, <1>15, <1>16, <1>17, <1>18, <1>19, <1>20, <1>21, <1>22, <1>23,
     <1>24, <1>25, <1>26, <1>27, <1>28, <1>29, <1>30, <1>31, <1>32, <1>33, <1>34,
     <1>35
  DEF Call, Kernel, ReadStep, WriteStep, ClearStep, PollStep

\* The owner of the mutex is alone with current_len and dev->mem, so what a
\* transfer has found out about them stays true until it is done.
LEMMA TransferAgreesStep ==
  ASSUME TypeOK, TransferAgrees, MutualExclusion, Next
  PROVE  TransferAgrees'
<1> SUFFICES ASSUME NEW t \in Task, Call(t) \/ Kernel(t) \/ PollTimeout(t) \/ Signal(t)
             PROVE  TransferAgrees'
  BY DEF Next
<1> USE ConstantsAssumption DEF TypeOK, TransferAgrees, MutualExclusion, LockedPC
<1>1. CASE Open(t) \/ Fasync(t) \/ Release(t)
  <2>1. UNCHANGED <<pc, mem, current_len, size, data, count>>
    BY <1>1 DEF Open, Fasync, Release, locals, args
  <2>2. QED
    BY <2>1 DEF TransferAgrees
<1>2. CASE ReadCall(t)
  BY <1>2 DEF ReadCall, device, queues, Goto
<1>3. CASE WriteCall(t)
  BY <1>3 DEF WriteCall, device, queues, Goto
<1>4. CASE ClearCall(t)
  BY <1>4 DEF ClearCall, device, queues, locals, args, Goto
<1>5. CASE PollCall(t)
  BY <1>5 DEF PollCall, device, queues, Goto
<1>6. CASE ReadLock(t)
  BY <1>6 DEF ReadLock, device, locals, args, Goto, MutexLock
<1>7. CASE ReadWouldBlock(t)
  BY <1>7 DEF ReadWouldBlock, device, queues, args, Goto, MutexUnlock, EAGAIN
<1>8. CASE ReadSleep(t)
  BY <1>8 DEF ReadSleep, device, queues, locals, args, Goto, MutexUnlock
<1>9. CASE ReadInterrupted(t)
  BY <1>9 DEF ReadInterrupted, device, queues, args, Goto, ERESTARTSYS
<1>10. CASE ReadWoken(t)
  BY <1>10 DEF ReadWoken, device, queues, locals, args, Goto
<1>11. CASE ReadRelock(t)
  BY <1>11 DEF ReadRelock, device, queues, locals, args, Goto, MutexLock
<1>12. CASE ReadCopy(t)
  BY <1>12 DEF ReadCopy, device, queues, args, Goto, Least, Bytes
<1>13. CASE ReadFault(t)
  BY <1>13 DEF ReadFault, device, queues, args, Goto, MutexUnlock, Least, Bytes,
     EFAULT
<1>14. CASE ReadConsume(t)
  BY <1>14 DEF ReadConsume, queues, args, Goto, MutexUnlock, WakeUpInterruptible,
     Memcpy
<1>15. CASE ReadReturn(t)
  BY <1>15 DEF ReadReturn, device, SyscallReturn, Goto
<1>16. CASE WriteLock(t)
  BY <1>16 DEF WriteLock, device, locals, args, Goto, MutexLock
<1>17. CASE WriteWouldBlock(t)
  BY <1>17 DEF WriteWouldBlock, device, queues, args, Goto, MutexUnlock, EAGAIN
<1>18. CASE WriteSleep(t)
  BY <1>18 DEF WriteSleep, device, queues, locals, args, Goto, MutexUnlock
<1>19. CASE WriteInterrupted(t)
  BY <1>19 DEF WriteInterrupted, device, queues, args, Goto, ERESTARTSYS
<1>20. CASE WriteWoken(t)
  BY <1>20 DEF WriteWoken, device, queues, locals, args, Goto
<1>21. CASE WriteRelock(t)
  BY <1>21 DEF WriteRelock, device, queues, locals, args, Goto, MutexLock
<1>22. CASE WriteCopy(t)
  <2> DEFINE n == Least(count[t], SIZE - current_len)
  <2>1. /\ n \in Nat /\ n <= Len(data[t]) /\ n <= SIZE - current_len
        /\ n = Least(Len(data[t]), SIZE - current_len)
    BY <1>22 DEF WriteCopy, TransferAgrees, Least
  <2>2. \A i \in 1 .. n : mem'[current_len + i - 1] = data[t][i]
    BY <1>22, <2>1 DEF WriteCopy, CopyIn, Cell
  <2>3. /\ pc' = [pc EXCEPT ![t] = "w_commit"] /\ count' = [count EXCEPT ![t] = n]
        /\ current_len' = current_len /\ current_len # SIZE
        /\ UNCHANGED <<size, data, mutex>>
    BY <1>22 DEF WriteCopy, Goto, args
  <2>4. \A u \in Task : u # t => pc[u] \notin LockedPC
    BY <1>22 DEF WriteCopy, LockedPC, MutualExclusion
  <2> HIDE DEF n
  <2>5. SUFFICES ASSUME NEW u \in Task
                 PROVE  TransferAgrees!(u)'
    BY DEF TransferAgrees
  <2>6. CASE u = t
    BY <2>1, <2>2, <2>3, <2>6
  <2>7. CASE u # t
    BY <2>3, <2>4, <2>7 DEF TransferAgrees, LockedPC
  <2>8. QED
    BY <2>6, <2>7
<1>23. CASE WriteFault(t)
  BY <1>23 DEF WriteFault, queues, args, Goto, MutexUnlock, CopyIn, Least, EFAULT
<1>24. CASE WriteCommit(t)
  BY <1>24 DEF WriteCommit, queues, args, Goto, MutexUnlock, WakeUpInterruptible,
     KillFasync
<1>25. CASE WriteReturn(t)
  BY <1>25 DEF WriteReturn, device, SyscallReturn, Goto
<1>26. CASE ClearLock(t)
  BY <1>26 DEF ClearLock, device, queues, locals, args, Goto, MutexLock
<1>27. CASE Clear(t)
  BY <1>27 DEF Clear, queues, MutexUnlock, SyscallReturn, Goto
<1>28. CASE PollLock(t)
  BY <1>28 DEF PollLock, device, locals, args, Goto, MutexLock
<1>29. CASE PollReport(t)
  BY <1>29 DEF PollReport, device, queues, locals, args, Goto, MutexUnlock, Mask
<1>30. CASE PollSleep(t)
  BY <1>30 DEF PollSleep, device, queues, locals, args, Goto, MutexUnlock, Mask
<1>31. CASE PollInterrupted(t)
  BY <1>31 DEF PollInterrupted, device, queues, locals, args, Goto
<1>32. CASE PollWoken(t)
  BY <1>32 DEF PollWoken, device, queues, locals, args, Goto
<1>33. CASE PollTimeout(t)
  BY <1>33 DEF PollTimeout, device, queues, locals, args, Goto
<1>34. CASE PollReturn(t)
  BY <1>34 DEF PollReturn, device, SyscallReturn, Goto
<1>35. CASE Signal(t) \/ DeliverSignal(t)
  <2>1. UNCHANGED <<pc, mem, current_len, size, data, count>>
    BY <1>35 DEF Signal, DeliverSignal, device, locals, args
  <2>2. QED
    BY <2>1 DEF TransferAgrees
<1>36. QED
  BY <1>1, <1>2, <1>3, <1>4, <1>5, <1>6, <1>7, <1>8, <1>9, <1>10, <1>11, <1>12,
     <1>13, <1>14, <1>15, <1>16, <1>17, <1>18, <1>19, <1>20, <1>21, <1>22, <1>23,
     <1>24, <1>25, <1>26, <1>27, <1>28, <1>29, <1>30, <1>31, <1>32, <1>33, <1>34,
     <1>35
  DEF Call, Kernel, ReadStep, WriteStep, ClearStep, PollStep

\* A reader falls asleep on an empty device, and a writer that fills it finds
\* the reader on r_wait.
LEMMA NoLostReadWakeupStep ==
  ASSUME TypeOK, NoLostReadWakeup, WaitersAreQueued, TransferAgrees, SleepsOnlyWaiting, Next
  PROVE  NoLostReadWakeup'
<1> SUFFICES ASSUME NEW t \in Task, Call(t) \/ Kernel(t) \/ PollTimeout(t) \/ Signal(t)
             PROVE  NoLostReadWakeup'
  BY DEF Next
<1> USE ConstantsAssumption DEF TypeOK, NoLostReadWakeup, WaitersAreQueued, OnReadQueue, Asleep, TransferAgrees, SleepsOnlyWaiting
<1>1. CASE Open(t) \/ Fasync(t) \/ Release(t)
  BY <1>1 DEF Open, Fasync, Release, queues, locals, args
<1>2. CASE ReadCall(t)
  BY <1>2 DEF ReadCall, device, queues, Goto
<1>3. CASE WriteCall(t)
  BY <1>3 DEF WriteCall, device, queues, Goto
<1>4. CASE ClearCall(t)
  BY <1>4 DEF ClearCall, device, queues, locals, args, Goto
<1>5. CASE PollCall(t)
  BY <1>5 DEF PollCall, device, queues, Goto
<1>6. CASE ReadLock(t)
  BY <1>6 DEF ReadLock, device, locals, args, Goto, MutexLock
<1>7. CASE ReadWouldBlock(t)
  BY <1>7 DEF ReadWouldBlock, device, queues, args, Goto, MutexUnlock, EAGAIN
<1>8. CASE ReadSleep(t)
  BY <1>8 DEF ReadSleep, device, queues, locals, args, Goto, MutexUnlock
<1>9. CASE ReadInterrupted(t)
  BY <1>9 DEF ReadInterrupted, device, queues, args, Goto, ERESTARTSYS
<1>10. CASE ReadWoken(t)
  BY <1>10 DEF ReadWoken, device, queues, locals, args, Goto
<1>11. CASE ReadRelock(t)
  BY <1>11 DEF ReadRelock, device, queues, locals, args, Goto, MutexLock
<1>12. CASE ReadCopy(t)
  BY <1>12 DEF ReadCopy, device, queues, args, Goto, Least, Bytes
<1>13. CASE ReadFault(t)
  BY <1>13 DEF ReadFault, device, queues, args, Goto, MutexUnlock, Least, Bytes,
     EFAULT
<1>14. CASE ReadConsume(t)
  BY <1>14 DEF ReadConsume, queues, args, Goto, MutexUnlock, WakeUpInterruptible,
     Memcpy
<1>15. CASE ReadReturn(t)
  BY <1>15 DEF ReadReturn, device, SyscallReturn, Goto
<1>16. CASE WriteLock(t)
  BY <1>16 DEF WriteLock, device, locals, args, Goto, MutexLock
<1>17. CASE WriteWouldBlock(t)
  BY <1>17 DEF WriteWouldBlock, device, queues, args, Goto, MutexUnlock, EAGAIN
<1>18. CASE WriteSleep(t)
  BY <1>18 DEF WriteSleep, device, queues, locals, args, Goto, MutexUnlock
<1>19. CASE WriteInterrupted(t)
  BY <1>19 DEF WriteInterrupted, device, queues, args, Goto, ERESTARTSYS
<1>20. CASE WriteWoken(t)
  BY <1>20 DEF WriteWoken, device, queues, locals, args, Goto
<1>21. CASE WriteRelock(t)
  BY <1>21 DEF WriteRelock, device, queues, locals, args, Goto, MutexLock
<1>22. CASE WriteCopy(t)
  BY <1>22 DEF WriteCopy, queues, args, Goto, CopyIn, Least
<1>23. CASE WriteFault(t)
  BY <1>23 DEF WriteFault, queues, args, Goto, MutexUnlock, CopyIn, Least, EFAULT
<1>24. CASE WriteCommit(t)
  BY <1>24 DEF WriteCommit, queues, args, Goto, MutexUnlock, WakeUpInterruptible,
     KillFasync
<1>25. CASE WriteReturn(t)
  BY <1>25 DEF WriteReturn, device, SyscallReturn, Goto
<1>26. CASE ClearLock(t)
  BY <1>26 DEF ClearLock, device, queues, locals, args, Goto, MutexLock
<1>27. CASE Clear(t)
  BY <1>27 DEF Clear, queues, MutexUnlock, SyscallReturn, Goto
<1>28. CASE PollLock(t)
  BY <1>28 DEF PollLock, device, locals, args, Goto, MutexLock
<1>29. CASE PollReport(t)
  BY <1>29 DEF PollReport, device, queues, locals, args, Goto, MutexUnlock, Mask
<1>30. CASE PollSleep(t)
  BY <1>30 DEF PollSleep, device, queues, locals, args, Goto, MutexUnlock, Mask
<1>31. CASE PollInterrupted(t)
  BY <1>31 DEF PollInterrupted, device, queues, locals, args, Goto
<1>32. CASE PollWoken(t)
  BY <1>32 DEF PollWoken, device, queues, locals, args, Goto
<1>33. CASE PollTimeout(t)
  BY <1>33 DEF PollTimeout, device, queues, locals, args, Goto
<1>34. CASE PollReturn(t)
  BY <1>34 DEF PollReturn, device, SyscallReturn, Goto
<1>35. CASE Signal(t) \/ DeliverSignal(t)
  <2>1. UNCHANGED <<mem, current_len, mutex, r_wait, w_wait, state, pc, size, data, events, count, ubuf, ret>>
    BY <1>35 DEF Signal, DeliverSignal, device, queues, locals, args
  <2>2. \A u \in Task : signal'[u] \/ signal'[u] = signal[u] \/ pc[u] = "user"
    BY <1>35 DEF Signal, DeliverSignal
  <2>3. NoLostReadWakeup
    OBVIOUS
  <2> HIDE DEF TypeOK, WaitersAreQueued, OnReadQueue, TransferAgrees, SleepsOnlyWaiting
  <2> QED
    BY <2>1, <2>2, <2>3
<1>36. QED
  BY <1>1, <1>2, <1>3, <1>4, <1>5, <1>6, <1>7, <1>8, <1>9, <1>10, <1>11, <1>12,
     <1>13, <1>14, <1>15, <1>16, <1>17, <1>18, <1>19, <1>20, <1>21, <1>22, <1>23,
     <1>24, <1>25, <1>26, <1>27, <1>28, <1>29, <1>30, <1>31, <1>32, <1>33, <1>34,
     <1>35
  DEF Call, Kernel, ReadStep, WriteStep, ClearStep, PollStep

\* A transfer is cut to nothing only if nothing was asked for.
LEMMA NoEmptyTransferStep ==
  ASSUME TypeOK, TransferAgrees, NoEmptyTransfer, Next
  PROVE  NoEmptyTransfer'
<1> SUFFICES ASSUME NEW t \in Task, Call(t) \/ Kernel(t) \/ PollTimeout(t) \/ Signal(t)
             PROVE  NoEmptyTransfer'
  BY DEF Next
<1> USE ConstantsAssumption DEF TypeOK, TransferAgrees, NoEmptyTransfer
<1>1. CASE Open(t) \/ Fasync(t) \/ Release(t)
  BY <1>1 DEF Open, Fasync, Release, queues, locals, args
<1>2. CASE ReadCall(t)
  BY <1>2 DEF ReadCall, device, queues, Goto
<1>3. CASE WriteCall(t)
  BY <1>3 DEF WriteCall, device, queues, Goto
<1>4. CASE ClearCall(t)
  BY <1>4 DEF ClearCall, device, queues, locals, args, Goto
<1>5. CASE PollCall(t)
  BY <1>5 DEF PollCall, device, queues, Goto
<1>6. CASE ReadLock(t)
  BY <1>6 DEF ReadLock, device, locals, args, Goto, MutexLock
<1>7. CASE ReadWouldBlock(t)
  BY <1>7 DEF ReadWouldBlock, device, queues, args, Goto, MutexUnlock, EAGAIN
<1>8. CASE ReadSleep(t)
  BY <1>8 DEF ReadSleep, device, queues, locals, args, Goto, MutexUnlock
<1>9. CASE ReadInterrupted(t)
  BY <1>9 DEF ReadInterrupted, device, queues, args, Goto, ERESTARTSYS
<1>10. CASE ReadWoken(t)
  BY <1>10 DEF ReadWoken, device, queues, locals, args, Goto
<1>11. CASE ReadRelock(t)
  BY <1>11 DEF ReadRelock, device, queues, locals, args, Goto, MutexLock
<1>12. CASE ReadCopy(t)
  BY <1>12 DEF ReadCopy, device, queues, args, Goto, Least, Bytes
<1>13. CASE ReadFault(t)
  BY <1>13 DEF ReadFault, device, queues, args, Goto, MutexUnlock, Least, Bytes,
     EFAULT
<1>14. CASE ReadConsume(t)
  <2>1. count[t] = 0 => size[t] = 0
    BY <1>14 DEF ReadConsume, TransferAgrees, Least
  <2>2. QED
    BY <1>14, <2>1 DEF ReadConsume, queues, args, Goto
<1>15. CASE ReadReturn(t)
  BY <1>15 DEF ReadReturn, device, SyscallReturn, Goto
<1>16. CASE WriteLock(t)
  BY <1>16 DEF WriteLock, device, locals, args, Goto, MutexLock
<1>17. CASE WriteWouldBlock(t)
  BY <1>17 DEF WriteWouldBlock, device, queues, args, Goto, MutexUnlock, EAGAIN
<1>18. CASE WriteSleep(t)
  BY <1>18 DEF WriteSleep, device, queues, locals, args, Goto, MutexUnlock
<1>19. CASE WriteInterrupted(t)
  BY <1>19 DEF WriteInterrupted, device, queues, args, Goto, ERESTARTSYS
<1>20. CASE WriteWoken(t)
  BY <1>20 DEF WriteWoken, device, queues, locals, args, Goto
<1>21. CASE WriteRelock(t)
  BY <1>21 DEF WriteRelock, device, queues, locals, args, Goto, MutexLock
<1>22. CASE WriteCopy(t)
  BY <1>22 DEF WriteCopy, queues, args, Goto, CopyIn, Least
<1>23. CASE WriteFault(t)
  BY <1>23 DEF WriteFault, queues, args, Goto, MutexUnlock, CopyIn, Least, EFAULT
<1>24. CASE WriteCommit(t)
  <2>1. count[t] = 0 => data[t] = <<>>
    BY <1>24, EmptySeq DEF WriteCommit, TransferAgrees, Least
  <2>2. QED
    BY <1>24, <2>1 DEF WriteCommit, queues, args, Goto
<1>25. CASE WriteReturn(t)
  BY <1>25 DEF WriteReturn, device, SyscallReturn, Goto
<1>26. CASE ClearLock(t)
  BY <1>26 DEF ClearLock, device, queues, locals, args, Goto, MutexLock
<1>27. CASE Clear(t)
  BY <1>27 DEF Clear, queues, MutexUnlock, SyscallReturn, Goto
<1>28. CASE PollLock(t)
  BY <1>28 DEF PollLock, device, locals, args, Goto, MutexLock
<1>29. CASE PollReport(t)
  BY <1>29 DEF PollReport, device, queues, locals, args, Goto, MutexUnlock, Mask
<1>30. CASE PollSleep(t)
  BY <1>30 DEF PollSleep, device, queues, locals, args, Goto, MutexUnlock, Mask
<1>31. CASE PollInterrupted(t)
  BY <1>31 DEF PollInterrupted, device, queues, locals, args, Goto
<1>32. CASE PollWoken(t)
  BY <1>32 DEF PollWoken, device, queues, locals, args, Goto
<1>33. CASE PollTimeout(t)
  BY <1>33 DEF PollTimeout, device, queues, locals, args, Goto
<1>34. CASE PollReturn(t)
  BY <1>34 DEF PollReturn, device, SyscallReturn, Goto
<1>35. CASE Signal(t) \/ DeliverSignal(t)
  BY <1>35 DEF Signal, DeliverSignal, device, queues, locals, args
<1>36. QED
  BY <1>1, <1>2, <1>3, <1>4, <1>5, <1>6, <1>7, <1>8, <1>9, <1>10, <1>11, <1>12,
     <1>13, <1>14, <1>15, <1>16, <1>17, <1>18, <1>19, <1>20, <1>21, <1>22, <1>23,
     <1>24, <1>25, <1>26, <1>27, <1>28, <1>29, <1>30, <1>31, <1>32, <1>33, <1>34,
     <1>35
  DEF Call, Kernel, ReadStep, WriteStep, ClearStep, PollStep

-----------------------------------------------------------------------------
(***************************************************************************)
(* The inductive invariant.                                                *)
(***************************************************************************)
LEMMA InitIInv == Init => IInv
BY ConstantsAssumption
DEF Init, IInv, TypeOK, MutualExclusion, WaitersAreQueued, SleepsOnlyWaiting, TransferAgrees,
    NoLostReadWakeup, NoEmptyTransfer, Asleep, Cell, LockedPC, ReadPC, WritePC, PollPC, ClearPC,
    OnReadQueue, OnWriteQueue

\* Every step keeps the invariant.
LEMMA NextIInv == IInv /\ [Next]_vars => IInv'
<1> SUFFICES ASSUME IInv, [Next]_vars
             PROVE  IInv'
  OBVIOUS
<1>1. CASE Next
  BY <1>1, TypeOKStep, MutualExclusionStep, WaitersAreQueuedStep, SleepsOnlyWaitingStep,
     TransferAgreesStep, NoLostReadWakeupStep, NoEmptyTransferStep DEF IInv
<1>2. CASE UNCHANGED vars
  BY <1>2 DEF vars, IInv, TypeOK, MutualExclusion, WaitersAreQueued, SleepsOnlyWaiting,
     TransferAgrees, NoLostReadWakeup, NoEmptyTransfer, Asleep
<1>3. QED
  BY <1>1, <1>2

\* IInv holds in every state the driver reaches.
THEOREM Invariance == Spec => []IInv
BY InitIInv, NextIInv, PTL DEF Spec

-----------------------------------------------------------------------------
(***************************************************************************)
(* What follows from it.                                                   *)
(***************************************************************************)
\* The variables keep their types.
THEOREM TypeCorrect == Spec => []TypeOK
<1>1. IInv => TypeOK
  BY DEF IInv
<1>2. QED
  BY <1>1, Invariance, PTL

\* dev->mutex keeps the handlers of any number of tasks apart.
THEOREM HandlersExclude == Spec => []MutualExclusion
<1>1. IInv => MutualExclusion
  BY DEF IInv
<1>2. QED
  BY <1>1, Invariance, PTL

\* No transfer reads or writes outside what it has reserved of dev->mem.
THEOREM TransfersStayInBounds == Spec => []CopyInBounds
<1>1. IInv => CopyInBounds
  BY TransfersInBounds DEF IInv
<1>2. QED
  BY <1>1, Invariance, PTL

\* No wait entry outlives the stack frame it lies in.
THEOREM NoEntryOutlivesItsCall == Spec => []NoDanglingWaiter
<1>1. IInv => NoDanglingWaiter
  BY DEF IInv, WaitersAreQueued, NoDanglingWaiter, OnReadQueue, OnWriteQueue, ReadPC, WritePC,
         PollPC
<1>2. QED
  BY <1>1, Invariance, PTL

\* No task leaves the driver with current->state INTERRUPTIBLE.
THEOREM OnlyWaitersSleep == Spec => []SleepsOnlyWaiting
<1>1. IInv => SleepsOnlyWaiting
  BY DEF IInv
<1>2. QED
  BY <1>1, Invariance, PTL

\* No reader sleeps on a device that holds data, whoever else reads, writes,
\* polls, clears the device or sends signals.
THEOREM ReadersAreWoken == Spec => []NoLostReadWakeup
<1>1. IInv => NoLostReadWakeup
  BY DEF IInv
<1>2. QED
  BY <1>1, Invariance, PTL

\* A read or a write that asked for bytes never returns 0.
THEOREM TransfersAreNotEmpty == Spec => []NoEmptyTransfer
<1>1. IInv => NoEmptyTransfer
  BY DEF IInv
<1>2. QED
  BY <1>1, Invariance, PTL

-----------------------------------------------------------------------------
\* Nobody gets into the ioctl but by calling it.
LEMMA OthersStayOut ==
  ASSUME TypeOK, [Next]_vars, NEW u \in Task, pc[u] \notin ClearPC,
         \A c \in Task : ~ClearCall(c) /\ ~ClearLock(c)
  PROVE  pc'[u] \notin ClearPC
<1>1. CASE UNCHANGED vars
  BY <1>1 DEF vars
<1>2. ASSUME NEW t \in Task, Call(t) PROVE pc'[u] \notin ClearPC
  BY <1>2 DEF TypeOK, ClearPC, Call, Open, Fasync, Release, ReadCall, WriteCall, PollCall, Goto
<1>3. ASSUME NEW t \in Task, ReadStep(t) PROVE pc'[u] \notin ClearPC
  BY <1>3 DEF TypeOK, ClearPC, ReadStep, ReadLock, ReadWouldBlock, ReadSleep, ReadInterrupted, ReadWoken,
     ReadRelock, ReadCopy, ReadFault, ReadConsume, ReadReturn, Goto, SyscallReturn
<1>4. ASSUME NEW t \in Task, WriteStep(t) PROVE pc'[u] \notin ClearPC
  BY <1>4 DEF TypeOK, ClearPC, WriteStep, WriteLock, WriteWouldBlock, WriteSleep, WriteInterrupted,
     WriteWoken, WriteRelock, WriteCopy, WriteFault, WriteCommit, WriteReturn, Goto, SyscallReturn
<1>5. ASSUME NEW t \in Task, ClearStep(t) PROVE pc'[u] \notin ClearPC
  BY <1>5 DEF TypeOK, ClearPC, ClearStep, Clear, Goto, SyscallReturn
<1>6. ASSUME NEW t \in Task, PollStep(t) \/ PollTimeout(t) PROVE pc'[u] \notin ClearPC
  BY <1>6 DEF TypeOK, ClearPC, PollStep, PollLock, PollReport, PollSleep, PollInterrupted, PollWoken,
     PollTimeout, PollReturn, Goto, SyscallReturn
<1>7. ASSUME NEW t \in Task, Signal(t) \/ DeliverSignal(t) PROVE pc'[u] \notin ClearPC
  BY <1>7 DEF Signal, DeliverSignal
<1>8. QED
  BY <1>1, <1>2, <1>3, <1>4, <1>5, <1>6, <1>7 DEF Next, Kernel

-----------------------------------------------------------------------------
(***************************************************************************)
(* Writers: the only step that strands one is Clear.                       *)
(***************************************************************************)
LEMMA StrandingStep ==
  ASSUME IInv, [Next]_vars, NEW w \in Task, StrandedWriter(w)'
  PROVE  StrandedWriter(w) \/ \E c \in Task : Clear(c)
<1>1. CASE UNCHANGED vars
  BY <1>1 DEF vars, StrandedWriter, Asleep
<1> SUFFICES ASSUME NEW t \in Task, Call(t) \/ Kernel(t) \/ PollTimeout(t) \/ Signal(t),
                    ~Clear(t)
             PROVE  StrandedWriter(w)
  BY <1>1 DEF Next, Kernel, ClearStep
<1> USE ConstantsAssumption DEF IInv, TypeOK, StrandedWriter, Asleep
<1>2. CASE Open(t) \/ Fasync(t) \/ Release(t)
  BY <1>2 DEF Open, Fasync, Release, queues, locals, args
<1>3. CASE ReadCall(t)
  BY <1>3 DEF ReadCall, device, queues, Goto
<1>4. CASE WriteCall(t)
  BY <1>4 DEF WriteCall, device, queues, Goto
<1>5. CASE ClearCall(t)
  BY <1>5 DEF ClearCall, device, queues, locals, args, Goto
<1>6. CASE PollCall(t)
  BY <1>6 DEF PollCall, device, queues, Goto
<1>7. CASE ReadLock(t)
  BY <1>7 DEF ReadLock, device, locals, args, Goto, MutexLock
<1>8. CASE ReadWouldBlock(t)
  BY <1>8 DEF ReadWouldBlock, device, queues, args, Goto, MutexUnlock, EAGAIN
<1>9. CASE ReadSleep(t)
  BY <1>9 DEF ReadSleep, device, queues, locals, args, Goto, MutexUnlock
<1>10. CASE ReadInterrupted(t)
  BY <1>10 DEF ReadInterrupted, device, queues, args, Goto, ERESTARTSYS
<1>11. CASE ReadWoken(t)
  BY <1>11 DEF ReadWoken, device, queues, locals, args, Goto
<1>12. CASE ReadRelock(t)
  BY <1>12 DEF ReadRelock, device, queues, locals, args, Goto, MutexLock
<1>13. CASE ReadCopy(t)
  BY <1>13 DEF ReadCopy, device, queues, args, Goto, Least, Bytes
<1>14. CASE ReadFault(t)
  BY <1>14 DEF ReadFault, device, queues, args, Goto, MutexUnlock, Least, Bytes,
     EFAULT
<1>15. CASE ReadConsume(t)
  <2>1. w \in w_wait
    BY <1>15 DEF ReadConsume, Goto, WaitersAreQueued, OnWriteQueue
  <2>2. QED
    BY <1>15, <2>1 DEF ReadConsume, WakeUpInterruptible
<1>16. CASE ReadReturn(t)
  BY <1>16 DEF ReadReturn, device, SyscallReturn, Goto
<1>17. CASE WriteLock(t)
  BY <1>17 DEF WriteLock, device, locals, args, Goto, MutexLock
<1>18. CASE WriteWouldBlock(t)
  BY <1>18 DEF WriteWouldBlock, device, queues, args, Goto, MutexUnlock, EAGAIN
<1>19. CASE WriteSleep(t)
  BY <1>19 DEF WriteSleep, device, queues, locals, args, Goto, MutexUnlock
<1>20. CASE WriteInterrupted(t)
  BY <1>20 DEF WriteInterrupted, device, queues, args, Goto, ERESTARTSYS
<1>21. CASE WriteWoken(t)
  BY <1>21 DEF WriteWoken, device, queues, locals, args, Goto
<1>22. CASE WriteRelock(t)
  BY <1>22 DEF WriteRelock, device, queues, locals, args, Goto, MutexLock
<1>23. CASE WriteCopy(t)
  BY <1>23 DEF WriteCopy, queues, args, Goto, CopyIn, Least
<1>24. CASE WriteFault(t)
  BY <1>24 DEF WriteFault, queues, args, Goto, MutexUnlock, CopyIn, Least, EFAULT
<1>25. CASE WriteCommit(t)
  <2>1. current_len <= current_len' /\ current_len' <= SIZE
    <3>1. pc[t] = "w_commit" /\ current_len' = current_len + count[t]
      BY <1>25 DEF WriteCommit
    <3>2. CopyInBounds
      BY TransfersInBounds
    <3>3. current_len + count[t] <= SIZE
      BY <3>1, <3>2 DEF CopyInBounds
    <3>4. current_len \in Nat /\ count[t] \in Nat
      OBVIOUS
    <3> QED
      BY <3>1, <3>3, <3>4
  <2>2. QED
    BY <1>25, <2>1 DEF WriteCommit, Goto, WakeUpInterruptible, KillFasync, args
<1>26. CASE WriteReturn(t)
  BY <1>26 DEF WriteReturn, device, SyscallReturn, Goto
<1>27. CASE ClearLock(t)
  BY <1>27 DEF ClearLock, device, queues, locals, args, Goto, MutexLock
<1>28. CASE PollLock(t)
  BY <1>28 DEF PollLock, device, locals, args, Goto, MutexLock
<1>29. CASE PollReport(t)
  BY <1>29 DEF PollReport, device, queues, locals, args, Goto, MutexUnlock, Mask,
     POLLIN, POLLOUT
<1>30. CASE PollSleep(t)
  BY <1>30 DEF PollSleep, device, queues, locals, args, Goto, MutexUnlock, Mask,
     POLLIN, POLLOUT
<1>31. CASE PollInterrupted(t)
  BY <1>31 DEF PollInterrupted, device, queues, locals, args, Goto
<1>32. CASE PollWoken(t)
  BY <1>32 DEF PollWoken, device, queues, locals, args, Goto
<1>33. CASE PollTimeout(t)
  BY <1>33 DEF PollTimeout, device, queues, locals, args, Goto
<1>34. CASE PollReturn(t)
  BY <1>34 DEF PollReturn, device, SyscallReturn, Goto
<1>35. CASE Signal(t) \/ DeliverSignal(t)
  BY <1>35 DEF Signal, DeliverSignal, device, queues, locals, args
<1>36. QED
  BY <1>2, <1>3, <1>4, <1>5, <1>6, <1>7, <1>8, <1>9, <1>10, <1>11, <1>12, <1>13,
     <1>14, <1>15, <1>16, <1>17, <1>18, <1>19, <1>20, <1>21, <1>22, <1>23, <1>24,
     <1>25, <1>26, <1>27, <1>28, <1>29, <1>30, <1>31, <1>32, <1>33, <1>34, <1>35
  DEF Call, Kernel, ReadStep, WriteStep, ClearStep, PollStep

\* Only an ioctl leaves a writer asleep on a device that has room.
THEOREM OnlyClearStrands == Spec => OnlyClearStrandsWriters
<1>1. IInv /\ [Next]_vars
        => [\A t \in Task : StrandedWriter(t)' =>
              StrandedWriter(t) \/ \E c \in Task : Clear(c)]_vars
  BY StrandingStep
<1>2. QED
  BY <1>1, Invariance, PTL DEF Spec, OnlyClearStrandsWriters

\* Where nobody clears the device, no writer sleeps while there is room.
THEOREM WritersAreWoken == Clearers = {} => (Spec => []NoLostWriteWakeup)
<1> SUFFICES ASSUME Clearers = {}
             PROVE  Spec => []NoLostWriteWakeup
  OBVIOUS
<1> DEFINE NobodyClears == \A t \in Task : pc[t] \notin ClearPC
<1>1. Init => NobodyClears /\ NoLostWriteWakeup
  BY DEF Init, ClearPC, NoLostWriteWakeup, StrandedWriter, Asleep
<1>2. IInv /\ NobodyClears /\ NoLostWriteWakeup /\ [Next]_vars => (NobodyClears /\ NoLostWriteWakeup)'
  <2> SUFFICES ASSUME IInv, NobodyClears, NoLostWriteWakeup, [Next]_vars
               PROVE  NobodyClears' /\ NoLostWriteWakeup'
    OBVIOUS
  <2>1. \A c \in Task : ~Clear(c) /\ ~ClearLock(c) /\ ~ClearCall(c)
    BY DEF ClearPC, Clear, ClearLock, ClearCall
  <2>2. NobodyClears'
    BY <2>1, OthersStayOut DEF IInv
  <2>3. NoLostWriteWakeup'
    BY <2>1, StrandingStep DEF NoLostWriteWakeup
  <2>4. QED
    BY <2>2, <2>3
<1>3. QED
  BY <1>1, <1>2, Invariance, PTL DEF Spec

-----------------------------------------------------------------------------
(***************************************************************************)
(* The driver is a FIFO, if its memcpy goes up: TdlcdFifo implements       *)
(* ByteFifo under the mapping of its instance Fifo.  Most steps are        *)
(* stutters; a read takes effect at ReadCopy, a write at WriteCommit.      *)
(***************************************************************************)
calls == [t \in Task |-> AbstractCall(t)]

\* A step of t leaves the others where they are.
OthersStay(t) ==
  \A u \in Task \ {t} : /\ pc'[u] = pc[u] /\ size'[u] = size[u] /\ data'[u] = data[u]
                        /\ count'[u] = count[u] /\ ubuf'[u] = ubuf[u] /\ ret'[u] = ret[u]

\* A step of one task is a step of the abstract queue or leaves it alone.
LEMMA StepOfOneTask ==
  ASSUME TypeOK, NEW t \in Task, Call(t) \/ Kernel(t) \/ PollTimeout(t) \/ Signal(t)
  PROVE  OthersStay(t)
<1> USE DEF TypeOK, OthersStay, Goto, SyscallReturn, device, locals, args
<1>1. CASE Call(t)
  BY <1>1 DEF Call, Open, Fasync, Release, ReadCall, WriteCall, ClearCall, PollCall
<1>2. CASE ReadStep(t)
  BY <1>2 DEF ReadStep, ReadLock, ReadWouldBlock, ReadSleep, ReadInterrupted, ReadWoken,
     ReadRelock, ReadCopy, ReadFault, ReadConsume, ReadReturn
<1>3. CASE WriteStep(t)
  BY <1>3 DEF WriteStep, WriteLock, WriteWouldBlock, WriteSleep, WriteInterrupted, WriteWoken,
     WriteRelock, WriteCopy, WriteFault, WriteCommit, WriteReturn
<1>4. CASE ClearStep(t)
  BY <1>4 DEF ClearStep, ClearLock, Clear
<1>5. CASE PollStep(t)
  BY <1>5 DEF PollStep, PollLock, PollReport, PollSleep, PollInterrupted, PollWoken, PollReturn
<1>6. CASE PollTimeout(t) \/ Signal(t) \/ DeliverSignal(t)
  BY <1>6 DEF PollTimeout, Signal, DeliverSignal
<1>7. QED
  BY <1>1, <1>2, <1>3, <1>4, <1>5, <1>6 DEF Kernel

\* So it changes the call of t only.
LEMMA CallOfOneTask ==
  ASSUME NEW t \in Task, OthersStay(t)
  PROVE  calls' = [calls EXCEPT ![t] = AbstractCall(t)']
<1>1. \A u \in Task \ {t} : AbstractCall(u)' = AbstractCall(u)
  BY DEF OthersStay, AbstractCall
<1>2. QED
  BY <1>1 DEF calls

\* The queue, byte by byte.
LEMMA QueueFacts ==
  ASSUME IInv
  PROVE  /\ Leaving \in 0 .. current_len
         /\ Contents \in Seq(Byte)
         /\ Len(Contents) = current_len - Leaving
         /\ \A i \in 1 .. current_len - Leaving : Contents[i] = mem[Leaving + i - 1]
<1>1. Leaving \in 0 .. current_len
  BY ConstantsAssumption, TransfersInBounds DEF IInv, TypeOK, Leaving, CopyInBounds
<1>2. /\ SIZE \in Nat /\ mem \in [Cell -> Byte] /\ current_len \in 0 .. SIZE
  BY ConstantsAssumption DEF IInv, TypeOK
<1>3. current_len - Leaving \in Nat /\ Leaving + (current_len - Leaving) <= SIZE
  BY <1>1, <1>2
<1>4. Leaving \in Nat
  BY <1>1
<1> DEFINE n == current_len - Leaving
<1>5. n \in Nat /\ Leaving + n <= SIZE
  BY <1>3
<1> HIDE DEF n
<1>6. /\ Bytes(Leaving, n) \in Seq(Byte)
      /\ Len(Bytes(Leaving, n)) = n
      /\ \A i \in 1 .. n : Bytes(Leaving, n)[i] = mem[Leaving + i - 1]
  BY <1>2, <1>4, <1>5, BytesIsSeq
<1>7. QED
  BY <1>1, <1>6 DEF Contents, n

\* The bytes from the start of dev->mem.
LEMMA PrefixIsSeq ==
  ASSUME SIZE \in Nat, mem \in [Cell -> Byte], NEW n \in 0 .. SIZE
  PROVE  /\ Bytes(0, n) \in Seq(Byte)
         /\ Len(Bytes(0, n)) = n
         /\ \A i \in 1 .. n : Bytes(0, n)[i] = mem[i - 1]
<1>1. n \in Nat /\ 0 \in Nat /\ 0 + n <= SIZE
  OBVIOUS
<1>2. /\ Bytes(0, n) \in Seq(Byte) /\ Len(Bytes(0, n)) = n
      /\ \A i \in 1 .. n : Bytes(0, n)[i] = mem[0 + i - 1]
  BY <1>1, BytesIsSeq
<1>3. \A i \in 1 .. n : 0 + i - 1 = i - 1
  BY <1>1
<1>4. QED
  BY <1>2, <1>3

\* A stretch of a stretch.
LEMMA BytesIsSubSeq ==
  ASSUME SIZE \in Nat, mem \in [Cell -> Byte], NEW len \in 0 .. SIZE, NEW n \in 0 .. len
  PROVE  /\ Bytes(0, n) = SubSeq(Bytes(0, len), 1, n)
         /\ Bytes(n, len - n) = SubSeq(Bytes(0, len), n + 1, len)
<1>1. /\ Bytes(0, len) \in Seq(Byte) /\ Len(Bytes(0, len)) = len
      /\ \A i \in 1 .. len : Bytes(0, len)[i] = mem[0 + i - 1]
  BY BytesIsSeq
<1>2. /\ Bytes(0, n) \in Seq(Byte) /\ Len(Bytes(0, n)) = n
      /\ \A i \in 1 .. n : Bytes(0, n)[i] = mem[0 + i - 1]
  BY BytesIsSeq
<1>3. len - n \in Nat /\ n \in Nat /\ n + (len - n) <= SIZE
  OBVIOUS
<1>4. /\ Bytes(n, len - n) \in Seq(Byte) /\ Len(Bytes(n, len - n)) = len - n
      /\ \A i \in 1 .. len - n : Bytes(n, len - n)[i] = mem[n + i - 1]
  BY <1>3, BytesIsSeq
<1>5. /\ SubSeq(Bytes(0, len), 1, n) \in Seq(Byte) /\ Len(SubSeq(Bytes(0, len), 1, n)) = n
      /\ \A i \in 1 .. n : SubSeq(Bytes(0, len), 1, n)[i] = Bytes(0, len)[1 + i - 1]
  BY <1>1, SubSeqProperties
<1>6. /\ SubSeq(Bytes(0, len), n + 1, len) \in Seq(Byte)
      /\ Len(SubSeq(Bytes(0, len), n + 1, len)) = len - n
      /\ \A i \in 1 .. len - n : SubSeq(Bytes(0, len), n + 1, len)[i] = Bytes(0, len)[n + 1 + i - 1]
  BY <1>1, SubSeqProperties
<1>7. \A i \in 1 .. n : Bytes(0, n)[i] = SubSeq(Bytes(0, len), 1, n)[i]
  BY <1>1, <1>2, <1>5
<1>8. \A i \in 1 .. len - n : Bytes(n, len - n)[i] = SubSeq(Bytes(0, len), n + 1, len)[i]
  BY <1>1, <1>4, <1>6
<1>9. QED
  BY <1>2, <1>4, <1>5, <1>6, <1>7, <1>8, SeqEqual

\* A sequence that is q followed by the first n elements of d.
LEMMA Appended ==
  ASSUME NEW S, NEW q \in Seq(S), NEW d \in Seq(S), NEW n \in 0 .. Len(d),
         NEW r \in Seq(S), Len(r) = Len(q) + n,
         \A i \in 1 .. Len(q) : r[i] = q[i],
         \A i \in 1 .. n : r[Len(q) + i] = d[i]
  PROVE  r = q \o SubSeq(d, 1, n)
<1> DEFINE e == SubSeq(d, 1, n)
<1>1. e \in Seq(S) /\ Len(e) = n /\ \A i \in 1 .. n : e[i] = d[i]
  BY SubSeqProperties
<1> HIDE DEF e
<1>2. /\ q \o e \in Seq(S) /\ Len(q \o e) = Len(q) + n
      /\ \A i \in 1 .. Len(q) + n : (q \o e)[i] = IF i <= Len(q) THEN q[i] ELSE e[i - Len(q)]
  BY <1>1, ConcatProperties
<1>3. ASSUME NEW i \in 1 .. Len(r)
      PROVE  r[i] = (q \o e)[i]
  <2>1. CASE i <= Len(q)
    BY <1>2, <2>1
  <2>2. CASE i > Len(q)
    <3>1. i - Len(q) \in 1 .. n /\ Len(q) + (i - Len(q)) = i
      BY <2>2
    <3>2. r[i] = d[i - Len(q)]
      BY <3>1
    <3>3. QED
      BY <1>1, <1>2, <2>2, <3>1, <3>2
  <2>3. Len(q) \in Nat /\ i \in Int
    BY <1>3
  <2>4. i <= Len(q) \/ i > Len(q)
    BY <2>3
  <2>5. QED
    BY <2>1, <2>2, <2>4
<1>4. r = q \o e
  BY <1>2, <1>3, SeqEqual
<1>5. QED
  BY <1>4 DEF e

\* A step that leaves what the abstract queue sees alone is a stutter of it.
LEMMA SameQueue ==
  ASSUME current_len' - Leaving' = current_len - Leaving,
         \A i \in 1 .. current_len - Leaving : mem'[Leaving' + i - 1] = mem[Leaving + i - 1]
  PROVE  Contents' = Contents
BY DEF Contents, Bytes

\* While no reader is between its two steps, the queue is all there is.
LEMMA NobodyLeaving ==
  ASSUME IInv, NEW t \in Task, pc[t] \in LockedPC, pc[t] # "r_consume"
  PROVE  Leaving = 0
BY ConstantsAssumption DEF IInv, MutualExclusion, Leaving

-----------------------------------------------------------------------------
(***************************************************************************)
(* The initial states and the steps.                                       *)
(***************************************************************************)
LEMMA InitRefines == Init => Fifo!Init
<1> SUFFICES ASSUME Init
             PROVE  Fifo!Init
  OBVIOUS
<1>1. IInv
  BY InitIInv
<1>2. Contents = <<>>
  <2>1. Len(Contents) = 0
    BY <1>1, QueueFacts DEF Init, Leaving
  <2>2. QED
    BY <1>1, <2>1, QueueFacts, EmptySeq
<1>3. \A t \in Task : AbstractCall(t) = [op |-> "idle"]
  BY DEF Init, AbstractCall
<1>4. QED
  BY <1>2, <1>3 DEF Fifo!Init, Fifo!Idle

\* A step that changes neither the queue nor the call of its task.
LEMMA Stutter ==
  ASSUME NEW t \in Task, OthersStay(t), AbstractCall(t)' = AbstractCall(t), Contents' = Contents
  PROVE  UNCHANGED Fifo!vars
<1>1. calls' = calls
  BY CallOfOneTask DEF calls
<1>2. QED
  BY <1>1 DEF Fifo!vars, calls


\* The queue stays the same if another task has the mutex or nobody has it,
LEMMA QueueOfOthers ==
  ASSUME IInv, NEW t \in Task, OthersStay(t), mutex # t, UNCHANGED <<mem, current_len, mutex>>
  PROVE  Contents' = Contents
<1>1. Leaving' = Leaving
  BY DEF IInv, TypeOK, Leaving, OthersStay
<1>2. QED
  BY <1>1 DEF Contents, Bytes

\* if t takes the mutex,
LEMMA QueueAtLock ==
  ASSUME NEW t \in Task, mutex = NoTask, mutex' = t, pc'[t] # "r_consume",
         UNCHANGED <<mem, current_len>>
  PROVE  Contents' = Contents
<1>1. Leaving = 0 /\ Leaving' = 0
  BY ConstantsAssumption DEF Leaving
<1>2. QED
  BY <1>1 DEF Contents, Bytes

\* and if t, which has it, leaves the bytes below current_len alone.
LEMMA QueueOfOwner ==
  ASSUME IInv, NEW t \in Task, pc[t] \in LockedPC, pc[t] # "r_consume",
         mutex' = NoTask \/ (mutex' = t /\ pc'[t] # "r_consume"),
         UNCHANGED current_len, \A i \in 0 .. current_len - 1 : mem'[i] = mem[i]
  PROVE  Contents' = Contents
<1>1. Leaving = 0 /\ Leaving' = 0
  BY NobodyLeaving, ConstantsAssumption DEF Leaving
<1>2. current_len \in Nat
  BY ConstantsAssumption DEF IInv, TypeOK
<1>3. QED
  BY <1>1, <1>2 DEF Contents, Bytes

\* A stuttering step is one.
LEMMA StutterStep ==
  ASSUME IInv, NEW t \in Task, OthersStay(t), MemcpyOrders = {"up"},
         \/ Open(t) \/ Fasync(t) \/ Release(t) \/ ClearCall(t) \/ PollCall(t)
         \/ ReadLock(t) \/ ReadSleep(t) \/ ReadWoken(t) \/ ReadRelock(t) \/ ReadConsume(t)
         \/ WriteLock(t) \/ WriteSleep(t) \/ WriteWoken(t) \/ WriteRelock(t) \/ WriteCopy(t)
         \/ ClearLock(t) \/ PollStep(t) \/ PollTimeout(t) \/ Signal(t) \/ DeliverSignal(t)
  PROVE  UNCHANGED Fifo!vars
<1> SUFFICES AbstractCall(t)' = AbstractCall(t) /\ Contents' = Contents
  BY Stutter
<1>1. pc[t] \in LockedPC <=> mutex = t
  BY DEF IInv, MutualExclusion
<1> USE ConstantsAssumption DEF IInv, TypeOK
<1>2. CASE Open(t) \/ Fasync(t) \/ Release(t) \/ Signal(t) \/ DeliverSignal(t)
  <2>1. UNCHANGED <<pc, mem, current_len, mutex, locals>>
    BY <1>2 DEF Open, Fasync, Release, Signal, DeliverSignal, device
  <2>2. QED
    BY <2>1 DEF AbstractCall, Contents, Leaving, Bytes, locals, args
<1>3. CASE ClearCall(t) \/ PollCall(t)
  <2>1. Contents' = Contents
    BY <1>1, <1>3, QueueOfOthers DEF ClearCall, PollCall, LockedPC, device
  <2>2. QED
    <3>1. pc[t] = "user" /\ pc'[t] \in {"c_lock", "p_lock"}
      BY <1>3 DEF ClearCall, PollCall, Goto
    <3>2. AbstractCall(t)' = AbstractCall(t)
      BY <3>1 DEF AbstractCall
    <3> QED
      BY <2>1, <3>2
<1>4. CASE ReadWoken(t) \/ WriteWoken(t)
  <2>1. Contents' = Contents
    BY <1>1, <1>4, QueueOfOthers DEF ReadWoken, WriteWoken, LockedPC, device
  <2>2. QED
    BY <1>4, <2>1 DEF ReadWoken, WriteWoken, Goto, AbstractCall, locals, args
<1>5. CASE ReadLock(t) \/ ReadRelock(t) \/ WriteLock(t) \/ WriteRelock(t) \/ ClearLock(t) \/ PollLock(t)
  <2>1. Contents' = Contents
    BY <1>5, QueueAtLock
    DEF ReadLock, ReadRelock, WriteLock, WriteRelock, ClearLock, PollLock, MutexLock, Goto, device
  <2>2. QED
    BY <1>5, <2>1
    DEF ReadLock, ReadRelock, WriteLock, WriteRelock, ClearLock, PollLock, Goto, AbstractCall,
        locals, args
<1>6. CASE ReadSleep(t) \/ WriteSleep(t)
  <2>1. Contents' = Contents
    BY <1>6, QueueOfOwner DEF ReadSleep, WriteSleep, MutexUnlock, LockedPC, device
  <2>2. QED
    BY <1>6, <2>1 DEF ReadSleep, WriteSleep, Goto, AbstractCall, locals, args
<1>7. CASE PollReport(t) \/ PollSleep(t)
  <2>1. Contents' = Contents
    BY <1>7, QueueOfOwner DEF PollReport, PollSleep, MutexUnlock, LockedPC, device
  <2>2. QED
    <3>1. pc[t] = "p_check" /\ pc'[t] \in {"p_out", "p_sleep"}
      BY <1>7 DEF PollReport, PollSleep, Goto
    <3>2. AbstractCall(t)' = AbstractCall(t)
      BY <3>1 DEF AbstractCall
    <3> QED
      BY <2>1, <3>2
<1>8. CASE PollInterrupted(t) \/ PollWoken(t) \/ PollTimeout(t) \/ PollReturn(t)
  <2>1. Contents' = Contents
    BY <1>1, <1>8, QueueOfOthers
    DEF PollInterrupted, PollWoken, PollTimeout, PollReturn, LockedPC, device
  <2>2. QED
    BY <1>8, <2>1
    DEF PollInterrupted, PollWoken, PollTimeout, PollReturn, SyscallReturn, Goto, AbstractCall
<1>9. CASE WriteCopy(t)
  <2>1. \A i \in 0 .. current_len - 1 : mem'[i] = mem[i]
    BY <1>9 DEF WriteCopy, CopyIn, Cell
  <2>2. Contents' = Contents
    BY <1>1, <1>9, <2>1, QueueOfOwner DEF WriteCopy, Goto, LockedPC
  <2>3. QED
    BY <1>9, <2>2 DEF WriteCopy, Goto, AbstractCall, args
<1>10. CASE ReadConsume(t)
  <2>1. mutex = t /\ Leaving = count[t]
    BY <1>1, <1>10 DEF ReadConsume, LockedPC, Leaving
  <2>2. Leaving' = 0 /\ current_len' = current_len - count[t]
    BY <1>10 DEF ReadConsume, MutexUnlock, Leaving
  <2>3. count[t] \in 0 .. current_len
    BY <2>1, QueueFacts
  <2>4. \A i \in 0 .. current_len - count[t] - 1 : mem'[i] = mem[i + count[t]]
    BY <1>10, <2>3 DEF ReadConsume, Memcpy, Cell
  <2>5. /\ current_len' - Leaving' = current_len - Leaving
        /\ \A i \in 1 .. current_len - Leaving : mem'[Leaving' + i - 1] = mem[Leaving + i - 1]
    <3>1. current_len \in Nat /\ count[t] \in Nat
      OBVIOUS
    <3>2. SUFFICES ASSUME NEW i \in 1 .. current_len - count[t]
                   PROVE  mem'[0 + i - 1] = mem[count[t] + i - 1]
      BY <2>1, <2>2, <3>1
    <3>3. mem'[i - 1] = mem[(i - 1) + count[t]]
      BY <2>4, <3>1
    <3>4. 0 + i - 1 = i - 1 /\ (i - 1) + count[t] = count[t] + i - 1
      BY <3>1
    <3>5. QED
      BY <3>3, <3>4
  <2>6. Contents' = Contents
    BY <2>5, SameQueue
  <2>7. AbstractCall(t)' = AbstractCall(t)
    BY <1>10, <2>3 DEF ReadConsume, Goto, AbstractCall, args
  <2>8. QED
    BY <2>6, <2>7
<1>11. QED
  BY <1>2, <1>3, <1>4, <1>5, <1>6, <1>7, <1>8, <1>9, <1>10 DEF PollStep


-----------------------------------------------------------------------------
\* A call begins.
LEMMA BeginStep ==
  ASSUME IInv, NEW t \in Task, OthersStay(t), ReadCall(t) \/ WriteCall(t)
  PROVE  Fifo!Next
<1> USE DEF IInv, TypeOK
<1>1. pc[t] = "user" /\ mutex # t
  BY DEF ReadCall, WriteCall, MutualExclusion, LockedPC
<1>2. Contents' = Contents
  BY <1>1, QueueOfOthers DEF ReadCall, WriteCall, device
<1>3. calls[t] = Fifo!Idle
  BY <1>1 DEF calls, AbstractCall, Fifo!Idle
<1>4. CASE ReadCall(t)
  <2>1. PICK n \in ReadSizes : size' = [size EXCEPT ![t] = n]
    BY <1>4 DEF ReadCall
  <2>2. AbstractCall(t)' = Fifo!Reading(n)
    BY <1>4, <2>1 DEF ReadCall, Goto, AbstractCall, Fifo!Reading
  <2>3. Fifo!Begin(t)
    BY <1>2, <1>3, <2>2, CallOfOneTask DEF Fifo!Begin, calls
  <2>4. QED
    BY <2>3 DEF Fifo!Next
<1>5. CASE WriteCall(t)
  <2>1. PICK d \in Payloads : data' = [data EXCEPT ![t] = d]
    BY <1>5 DEF WriteCall
  <2>2. AbstractCall(t)' = Fifo!Writing(d)
    BY <1>5, <2>1 DEF WriteCall, Goto, AbstractCall, Fifo!Writing
  <2>3. Fifo!Begin(t)
    BY <1>2, <1>3, <2>2, CallOfOneTask DEF Fifo!Begin, calls
  <2>4. QED
    BY <2>3 DEF Fifo!Next
<1>6. QED
  BY <1>4, <1>5

\* A call ends.
LEMMA ReturnStep ==
  ASSUME IInv, NEW t \in Task, OthersStay(t), ReadReturn(t) \/ WriteReturn(t)
  PROVE  Fifo!Next
<1> USE DEF IInv, TypeOK
<1>1. pc[t] \in {"r_out2", "w_out2"} /\ mutex # t
  BY DEF ReadReturn, WriteReturn, MutualExclusion, LockedPC
<1>2. Contents' = Contents
  BY <1>1, QueueOfOthers DEF ReadReturn, WriteReturn, device
<1>3. calls[t].op = "done"
  BY <1>1 DEF calls, AbstractCall
<1>4. AbstractCall(t)' = Fifo!Idle
  BY DEF ReadReturn, WriteReturn, SyscallReturn, Goto, AbstractCall, Fifo!Idle
<1>5. Fifo!Return(t)
  BY <1>2, <1>3, <1>4, CallOfOneTask DEF Fifo!Return, calls
<1>6. QED
  BY <1>5 DEF Fifo!Next

\* A call fails; a write that does may leave bytes behind current_len.
LEMMA FailStep ==
  ASSUME IInv, NEW t \in Task, OthersStay(t),
         \/ ReadWouldBlock(t) \/ ReadInterrupted(t) \/ ReadFault(t)
         \/ WriteWouldBlock(t) \/ WriteInterrupted(t) \/ WriteFault(t)
  PROVE  Fifo!Next
<1> USE ConstantsAssumption DEF IInv, TypeOK
<1> SUFFICES Fifo!Fail(t)
  BY DEF Fifo!Next
<1>1. pc[t] \in LockedPC <=> mutex = t
  BY DEF MutualExclusion
<1>2. CASE ReadInterrupted(t) \/ WriteInterrupted(t)
  <2>1. Contents' = Contents
    BY <1>1, <1>2, QueueOfOthers DEF ReadInterrupted, WriteInterrupted, LockedPC, device
  <2>2. AbstractCall(t)' = Fifo!Done(-ERESTARTSYS, <<>>)
    BY <1>2 DEF ReadInterrupted, WriteInterrupted, Goto, AbstractCall, Fifo!Done, ERESTARTSYS
  <2>3. calls[t].op \in {"read", "write"}
    BY <1>2 DEF ReadInterrupted, WriteInterrupted, AbstractCall, calls
  <2>4. QED
    BY <2>1, <2>2, <2>3, CallOfOneTask DEF Fifo!Fail, calls
<1>3. CASE ReadFault(t) \/ WriteFault(t)
  <2>1. UNCHANGED current_len /\ \A i \in 0 .. current_len - 1 : mem'[i] = mem[i]
    BY <1>3 DEF ReadFault, WriteFault, CopyIn, Cell, device
  <2>2. Contents' = Contents
    BY <1>3, <2>1, QueueOfOwner DEF ReadFault, WriteFault, MutexUnlock, LockedPC
  <2>3. AbstractCall(t)' = Fifo!Done(-EFAULT, <<>>)
    BY <1>3 DEF ReadFault, WriteFault, Goto, AbstractCall, Fifo!Done, EFAULT
  <2>4. calls[t].op \in {"read", "write"}
    BY <1>3 DEF ReadFault, WriteFault, AbstractCall, calls
  <2>5. QED
    BY <2>2, <2>3, <2>4, CallOfOneTask DEF Fifo!Fail, calls
<1>4. CASE ReadWouldBlock(t) \/ WriteWouldBlock(t)
  <2>1. Contents' = Contents
    BY <1>4, QueueOfOwner DEF ReadWouldBlock, WriteWouldBlock, MutexUnlock, LockedPC, device
  <2>2. AbstractCall(t)' = Fifo!Done(-EAGAIN, <<>>)
    BY <1>4 DEF ReadWouldBlock, WriteWouldBlock, Goto, AbstractCall, Fifo!Done, EAGAIN
  <2>3. Len(Contents) = current_len
    <3>1. Leaving = 0
      BY <1>4, NobodyLeaving DEF ReadWouldBlock, WriteWouldBlock, LockedPC
    <3>2. QED
      BY <3>1, QueueFacts
  <2>4. /\ calls[t].op \in {"read", "write"}
        /\ calls[t].op = "read" => Contents = <<>>
        /\ calls[t].op = "write" => Len(Contents) = SIZE
    BY <1>4, <2>3, QueueFacts, EmptySeq DEF ReadWouldBlock, WriteWouldBlock, AbstractCall, calls
  <2>5. QED
    BY <2>1, <2>2, <2>4, CallOfOneTask DEF Fifo!Fail, Fifo!MustWait, calls
<1>5. QED
  BY <1>2, <1>3, <1>4

\* The device is emptied.
LEMMA ClearIsClear ==
  ASSUME IInv, NEW t \in Task, OthersStay(t), Clear(t)
  PROVE  Fifo!Next
<1> USE DEF IInv, TypeOK
<1>1. Contents' = <<>>
  BY DEF Clear, MutexUnlock, Contents, Leaving, Bytes
<1>2. AbstractCall(t)' = AbstractCall(t)
  BY DEF Clear, SyscallReturn, Goto, AbstractCall
<1>3. calls' = calls
  BY <1>2, CallOfOneTask DEF calls
<1>4. QED
  BY <1>1, <1>3 DEF Fifo!Next, Fifo!Clear, calls

-----------------------------------------------------------------------------
\* A read takes effect when it copies the bytes out.
LEMMA ReadEffect ==
  ASSUME IInv, NEW t \in Task, OthersStay(t), ReadCopy(t)
  PROVE  Fifo!Next
<1> DEFINE n == Least(count[t], current_len)
<1> DEFINE q == Bytes(0, current_len)
<1>1. /\ SIZE \in Nat /\ mem \in [Cell -> Byte] /\ current_len \in 1 .. SIZE
      /\ count[t] \in Nat /\ count[t] = size[t]
  BY ConstantsAssumption DEF IInv, TypeOK, ReadCopy, TransferAgrees
<1>2. n \in 0 .. current_len /\ n = Fifo!Least(size[t], current_len)
  BY <1>1 DEF Least, Fifo!Least
<1>3. mutex = t /\ mutex' = t /\ t # NoTask
  BY ConstantsAssumption DEF IInv, MutualExclusion, LockedPC, ReadCopy
<1>4. Leaving = 0 /\ Contents = q
  <2>1. Leaving = 0
    BY <1>3 DEF ReadCopy, Leaving
  <2>2. QED
    BY <1>1, <2>1 DEF Contents
<1>5. /\ pc' = [pc EXCEPT ![t] = "r_consume"] /\ count' = [count EXCEPT ![t] = n]
      /\ ubuf' = [ubuf EXCEPT ![t] = Bytes(0, n)] /\ UNCHANGED <<mem, current_len>>
  BY DEF ReadCopy, Goto, device
<1>6. pc'[t] = "r_consume" /\ count'[t] = n /\ ubuf'[t] = Bytes(0, n)
  BY <1>5 DEF IInv, TypeOK, ReadPC, WritePC, ClearPC, PollPC
<1> HIDE DEF n
<1>7. q \in Seq(Byte) /\ Len(q) = current_len /\ current_len \in 0 .. SIZE
  BY <1>1, PrefixIsSeq
<1>8. Bytes(0, n) = SubSeq(q, 1, n)
  BY <1>1, <1>2, <1>7, BytesIsSubSeq
<1>9. Contents' = SubSeq(q, n + 1, current_len)
  <2>1. Contents' = Bytes(n, current_len - n)
    BY <1>3, <1>5, <1>6 DEF Contents, Leaving, Bytes
  <2>2. QED
    BY <1>1, <1>2, <1>7, <2>1, BytesIsSubSeq
<1>10. AbstractCall(t)' = Fifo!Done(n, SubSeq(q, 1, n))
  BY <1>6, <1>8 DEF AbstractCall, Fifo!Done
<1>11. calls[t] = Fifo!Reading(size[t])
  BY DEF ReadCopy, AbstractCall, calls, Fifo!Reading
<1>12. q # <<>>
  BY <1>1, <1>7
<1> HIDE DEF q
<1>13. Fifo!Read(t)
  <2>1. calls[t].op = "read" /\ calls[t].n = size[t]
    BY <1>11 DEF Fifo!Reading
  <2>2. n = Fifo!Least(calls[t].n, Len(Contents))
    BY <1>2, <1>4, <1>7, <2>1
  <2>3. calls' = [calls EXCEPT ![t] = Fifo!Done(n, SubSeq(Contents, 1, n))]
    BY <1>4, <1>10, CallOfOneTask
  <2>4. Contents' = SubSeq(Contents, n + 1, Len(Contents))
    BY <1>4, <1>7, <1>9
  <2>5. QED
    BY <1>4, <1>12, <2>1, <2>2, <2>3, <2>4 DEF Fifo!Read, calls
<1>14. QED
  BY <1>13 DEF Fifo!Next

\* A write takes effect when current_len takes its bytes in.
LEMMA WriteEffect ==
  ASSUME IInv, NEW t \in Task, OthersStay(t), WriteCommit(t)
  PROVE  Fifo!Next
<1> DEFINE n == count[t]
<1> DEFINE d == data[t]
<1>1. /\ SIZE \in Nat /\ mem \in [Cell -> Byte] /\ current_len \in 0 .. SIZE /\ current_len # SIZE
      /\ n \in Nat /\ d \in Seq(Byte) /\ n = Least(Len(d), SIZE - current_len)
      /\ \A i \in 1 .. n : mem[current_len + i - 1] = d[i]
  BY ConstantsAssumption DEF IInv, TypeOK, WriteCommit, TransferAgrees
<1>2. n \in 0 .. Len(d) /\ n <= SIZE - current_len /\ n = Fifo!Least(Len(d), SIZE - current_len)
  BY <1>1 DEF Least, Fifo!Least
<1>3. Leaving = 0
  BY NobodyLeaving DEF WriteCommit, LockedPC
<1>4. /\ Contents \in Seq(Byte) /\ Len(Contents) = current_len
      /\ \A i \in 1 .. current_len : Contents[i] = mem[i - 1]
  BY <1>1, <1>3, QueueFacts
<1>5. Contents' = Bytes(0, current_len + n)
  BY DEF WriteCommit, MutexUnlock, Contents, Leaving, Bytes
<1>6. AbstractCall(t)' = Fifo!Done(n, <<>>)
  BY DEF IInv, TypeOK, WriteCommit, Goto, AbstractCall, Fifo!Done
<1>7. calls[t] = Fifo!Writing(d)
  BY DEF WriteCommit, AbstractCall, calls, Fifo!Writing
<1> HIDE DEF n, d
<1>8. Contents' = Contents \o SubSeq(d, 1, n)
  <2>1. current_len + n \in 0 .. SIZE
    BY <1>1, <1>2
  <2>2. mem' = mem
    BY DEF WriteCommit
  <2>3. /\ Contents' \in Seq(Byte) /\ Len(Contents') = current_len + n
        /\ \A i \in 1 .. current_len + n : Contents'[i] = mem[i - 1]
    BY <1>1, <1>5, <2>1, <2>2, PrefixIsSeq
  <2>4. \A i \in 1 .. current_len : Contents'[i] = Contents[i]
    <3>1. SUFFICES ASSUME NEW i \in 1 .. current_len
                   PROVE  Contents'[i] = Contents[i]
      OBVIOUS
    <3>2. i \in 1 .. current_len + n
      BY <1>1
    <3>3. QED
      BY <1>4, <2>3, <3>2
  <2>5. \A i \in 1 .. n : Contents'[current_len + i] = d[i]
    <3>1. SUFFICES ASSUME NEW i \in 1 .. n
                   PROVE  Contents'[current_len + i] = d[i]
      OBVIOUS
    <3>2. PICK j \in 1 .. current_len + n : j = current_len + i
      BY <1>1
    <3>3. Contents'[j] = mem[j - 1]
      BY <2>3
    <3>4. j - 1 = current_len + i - 1
      BY <1>1, <3>2
    <3>5. mem[current_len + i - 1] = d[i]
      BY <1>1
    <3>6. QED
      BY <3>2, <3>3, <3>4, <3>5
  <2>6. QED
    BY <1>1, <1>2, <1>4, <2>3, <2>4, <2>5, Appended
<1>9. Fifo!Write(t)
  <2>1. calls[t].op = "write" /\ calls[t].data = d
    BY <1>7 DEF Fifo!Writing
  <2>2. n = Fifo!Least(Len(calls[t].data), SIZE - Len(Contents))
    BY <1>2, <1>4, <2>1
  <2>3. calls' = [calls EXCEPT ![t] = Fifo!Done(n, <<>>)]
    BY <1>6, CallOfOneTask
  <2>4. Len(Contents) < SIZE
    BY <1>1, <1>4
  <2>5. QED
    BY <1>8, <2>1, <2>2, <2>3, <2>4 DEF Fifo!Write, calls
<1>10. QED
  BY <1>9 DEF Fifo!Next

-----------------------------------------------------------------------------
\* Every step of the driver is a step of the abstract queue or a stutter.
LEMMA StepRefines ==
  ASSUME IInv, MemcpyOrders = {"up"}, [Next]_vars
  PROVE  [Fifo!Next]_Fifo!vars
<1>1. CASE UNCHANGED vars
  BY <1>1 DEF vars, Fifo!vars, Contents, Leaving, Bytes, AbstractCall
<1>2. ASSUME NEW t \in Task, Call(t) \/ Kernel(t) \/ PollTimeout(t) \/ Signal(t)
      PROVE  [Fifo!Next]_Fifo!vars
  <2>1. OthersStay(t)
    BY <1>2, StepOfOneTask DEF IInv
  <2>2. QED
    BY <1>2, <2>1, StutterStep, BeginStep, ReturnStep, FailStep, ClearIsClear, ReadEffect, WriteEffect
    DEF Call, Kernel, ReadStep, WriteStep, ClearStep
<1>3. QED
  BY <1>1, <1>2 DEF Next

\* If memcpy copies overlapping ranges upwards, what any number of tasks
\* observe of the driver is one bounded queue of bytes: every read and write
\* is atomic, nothing is lost, invented, duplicated or reordered, and -EAGAIN
\* is told the truth.
THEOREM DriverIsFifo == MemcpyOrders = {"up"} => (Spec => IsFifo)
<1> SUFFICES ASSUME MemcpyOrders = {"up"}
             PROVE  Spec => IsFifo
  OBVIOUS
<1>1. IInv /\ [Next]_vars => [Fifo!Next]_Fifo!vars
  BY StepRefines
<1>2. QED
  BY <1>1, InitRefines, Invariance, PTL DEF Spec, IsFifo, Fifo!Spec
=============================================================================
