----------------------------- MODULE TdlcdFifo ------------------------------
(***************************************************************************)
(* The blocking FIFO character driver, code/tdlcd/tdlcd_fifo.c: one device *)
(* (struct tdlcd_dev) and the tasks that have its file open.               *)
(*                                                                         *)
(* A step is a stretch of one handler in which the only shared data it     *)
(* touches is either guarded by dev->mutex, which it holds, or by the      *)
(* spinlock of one wait queue.  The boundaries are the points at which     *)
(* another task can interfere: taking the mutex, giving it up, sleeping in *)
(* schedule(), the two user copies (they may fault, and sleep, with the    *)
(* mutex held), and leaving the wait queue, which is done without the      *)
(* mutex.                                                                  *)
(*                                                                         *)
(* A process is a task with one open file.  A signal that is pending when  *)
(* a call returns to user space is delivered there.                        *)
(***************************************************************************)
EXTENDS Integers, Sequences

CONSTANTS
  Task,          \* the tasks
  NoTask,        \* the owner of a free mutex
  NonBlock,      \* the tasks whose file has O_NONBLOCK in f_flags
  Readers, Writers, Clearers, Pollers, AsyncUsers,
                 \* the tasks that call read, write, ioctl, poll, fasync
  Signalled,     \* the tasks other processes may send a signal to
  Faulting,      \* the tasks whose user buffer may be unmapped
  SIZE,          \* the number of bytes of dev->mem
  Byte, Zero,    \* the values of a byte, and the one kzalloc and memset store
  ReadSizes,     \* the counts a read may ask for
  Payloads,      \* the data a write may bring
  MemcpyOrders   \* the orders in which the build's memcpy may go: subset of
                 \* {"up", "down"}

ASSUME ConstantsAssumption ==
  /\ NoTask \notin Task
  /\ NonBlock \subseteq Task
  /\ Readers \subseteq Task /\ Writers \subseteq Task
  /\ Clearers \subseteq Task /\ Pollers \subseteq Task
  /\ AsyncUsers \subseteq Task /\ Signalled \subseteq Task
  /\ Faulting \subseteq Task
  /\ SIZE \in Nat \ {0}
  /\ Zero \in Byte
  /\ ReadSizes \subseteq Nat
  /\ Payloads \subseteq Seq(Byte)
  /\ MemcpyOrders \subseteq {"up", "down"}

EAGAIN      == 11
EFAULT      == 14
ERESTARTSYS == 512

POLLIN  == "POLLIN"
POLLOUT == "POLLOUT"

VARIABLES
  mem,           \* dev->mem
  current_len,   \* dev->current_len
  mutex,         \* the owner of dev->mutex, or NoTask
  r_wait,        \* the tasks with an entry on dev->r_wait
  w_wait,        \* the tasks with an entry on dev->w_wait
  async_queue,   \* the tasks whose file is on dev->async_queue
  opened,        \* the tasks that have the device open
  state,         \* per task, current->state
  signal,        \* per task, signal_pending(current)
  pc,            \* per task, where in which handler it is
  size,          \* per task, the count a read asked for
  data,          \* per task, the bytes a write brought
  events,        \* per task, the events a poll asked for
  count,         \* per task, the local count of read and write
  ubuf,          \* per task, what a read put into the user's buffer
  ret            \* per task, the local ret

vars == <<mem, current_len, mutex, r_wait, w_wait, async_queue, opened,
          state, signal, pc, size, data, events, count, ubuf, ret>>

device == <<mem, current_len, async_queue, opened>>
queues == <<r_wait, w_wait>>
args == <<size, data, events>>
locals == <<args, count, ubuf, ret>>

Cell == 0 .. SIZE - 1

Init ==
  /\ mem = [i \in Cell |-> Zero]
  /\ current_len = 0
  /\ mutex = NoTask
  /\ r_wait = {} /\ w_wait = {}
  /\ async_queue = {}
  /\ opened = {}
  /\ state = [t \in Task |-> "RUNNING"]
  /\ signal = [t \in Task |-> FALSE]
  /\ pc = [t \in Task |-> "user"]
  /\ size = [t \in Task |-> 0]
  /\ data = [t \in Task |-> <<>>]
  /\ events = [t \in Task |-> {}]
  /\ count = [t \in Task |-> 0]
  /\ ubuf = [t \in Task |-> <<>>]
  /\ ret = [t \in Task |-> 0]

-----------------------------------------------------------------------------
(***************************************************************************)
(* The kernel services the driver calls.                                   *)
(***************************************************************************)
Goto(t, l) == pc' = [pc EXCEPT ![t] = l]

MutexLock(t) == mutex = NoTask /\ mutex' = t
MutexUnlock(t) == mutex' = NoTask

\* wake_up_interruptible(&q): every sleeper with an entry on q may run.
WakeUpInterruptible(q) ==
  state' = [t \in Task |-> IF t \in q THEN "RUNNING" ELSE state[t]]

\* kill_fasync(&dev->async_queue, SIGIO, POLL_IN)
KillFasync == signal' = [t \in Task |-> signal[t] \/ t \in async_queue]

\* The system call returns to user space: its locals are gone and a pending
\* signal is delivered.
SyscallReturn(t) ==
  /\ Goto(t, "user")
  /\ signal' = [signal EXCEPT ![t] = FALSE]
  /\ size' = [size EXCEPT ![t] = 0]
  /\ data' = [data EXCEPT ![t] = <<>>]
  /\ events' = [events EXCEPT ![t] = {}]
  /\ count' = [count EXCEPT ![t] = 0]
  /\ ubuf' = [ubuf EXCEPT ![t] = <<>>]
  /\ ret' = [ret EXCEPT ![t] = 0]

\* memcpy(dev->mem, dev->mem + from, n) when the two ranges overlap: the C
\* library leaves the order of the copy open.  Going up, every byte is read
\* before it is overwritten; going down, a byte below n has been replaced by
\* the time it is read, so that the last from bytes repeat all the way down.
Memcpy(m, from, n, order) ==
  [i \in Cell |->
     IF i >= n \/ from = 0 THEN m[i]
     ELSE IF order = "up" THEN m[i + from]
     ELSE m[n + ((i - n) % from)]]

Least(a, b) == IF a <= b THEN a ELSE b

\* The bytes mem[from .. from+n-1].
Bytes(from, n) == [i \in 1 .. n |-> mem[from + i - 1]]

-----------------------------------------------------------------------------
(***************************************************************************)
(* Faults.  No part of the driver: ways in which a step below could be     *)
(* wrong, each of which breaks a property.                                 *)
(***************************************************************************)
\* A signal makes read return past remove_wait_queue.
ReadInterruptedReturns(t) ==
  /\ pc[t] = "r_sched" /\ signal[t]
  /\ state' = [state EXCEPT ![t] = "RUNNING"]
  /\ SyscallReturn(t)
  /\ UNCHANGED <<device, mutex, queues>>

\* read moves nothing up.
ReadConsumeInPlace(t) ==
  /\ pc[t] = "r_consume"
  /\ current_len' = current_len - count[t]
  /\ ret' = [ret EXCEPT ![t] = count[t]]
  /\ WakeUpInterruptible(w_wait)
  /\ MutexUnlock(t)
  /\ Goto(t, "r_out2")
  /\ UNCHANGED <<mem, async_queue, opened, queues, signal, args, count, ubuf>>

\* read wakes its own queue.
ReadConsumeWakesReaders(t) ==
  /\ pc[t] = "r_consume"
  /\ mem' = Memcpy(mem, count[t], current_len - count[t], "up")
  /\ current_len' = current_len - count[t]
  /\ ret' = [ret EXCEPT ![t] = count[t]]
  /\ WakeUpInterruptible(r_wait)
  /\ MutexUnlock(t)
  /\ Goto(t, "r_out2")
  /\ UNCHANGED <<async_queue, opened, queues, signal, args, count, ubuf>>

\* A fault of copy_from_user is taken for a wake-up.
WriteFaultRetries(t) ==
  /\ pc[t] = "w_check" /\ current_len # SIZE /\ t \in Faulting
  /\ MutexUnlock(t)
  /\ Goto(t, "w_relock")
  /\ UNCHANGED <<device, queues, state, signal, locals>>

\* write counts what it was given, not what it took.
WriteCommitAll(t) ==
  /\ pc[t] = "w_commit"
  /\ current_len' = current_len + Len(data[t])
  /\ WakeUpInterruptible(r_wait)
  /\ KillFasync
  /\ ret' = [ret EXCEPT ![t] = count[t]]
  /\ MutexUnlock(t)
  /\ Goto(t, "w_out2")
  /\ UNCHANGED <<mem, async_queue, opened, queues, args, count, ubuf>>

\* write wakes its own queue.
WriteCommitWakesWriters(t) ==
  /\ pc[t] = "w_commit"
  /\ current_len' = current_len + count[t]
  /\ WakeUpInterruptible(w_wait)
  /\ KillFasync
  /\ ret' = [ret EXCEPT ![t] = count[t]]
  /\ MutexUnlock(t)
  /\ Goto(t, "w_out2")
  /\ UNCHANGED <<mem, async_queue, opened, queues, args, count, ubuf>>

\* poll forgets poll_wait(filp, &dev->w_wait, wait).
PollLockOneQueue(t) ==
  /\ pc[t] = "p_lock"
  /\ MutexLock(t)
  /\ r_wait' = r_wait \cup {t}
  /\ Goto(t, "p_check")
  /\ UNCHANGED <<device, w_wait, state, signal, locals>>

-----------------------------------------------------------------------------
(***************************************************************************)
(* open, release, fasync                                                   *)
(***************************************************************************)
Open(t) ==
  /\ pc[t] = "user" /\ t \notin opened
  /\ opened' = opened \cup {t}
  /\ UNCHANGED <<mem, current_len, async_queue, mutex, queues, state, signal, pc, locals>>

\* tdlcd_fasync(fd, filp, on): fasync_helper adds or removes the entry.
Fasync(t) ==
  /\ pc[t] = "user" /\ t \in opened \cap AsyncUsers
  /\ async_queue' \in {async_queue \cup {t}, async_queue \ {t}}
  /\ UNCHANGED <<mem, current_len, opened, mutex, queues, state, signal, pc, locals>>

Release(t) ==
  /\ pc[t] = "user" /\ t \in opened
  /\ opened' = opened \ {t}
  /\ async_queue' = async_queue \ {t}
  /\ UNCHANGED <<mem, current_len, mutex, queues, state, signal, pc, locals>>

-----------------------------------------------------------------------------
(***************************************************************************)
(* tdlcd_read                                                              *)
(***************************************************************************)
ReadCall(t) ==
  /\ pc[t] = "user" /\ t \in opened \cap Readers
  /\ \E n \in ReadSizes : /\ size' = [size EXCEPT ![t] = n]
                          /\ count' = [count EXCEPT ![t] = n]
  /\ Goto(t, "r_lock")
  /\ UNCHANGED <<device, mutex, queues, state, signal, data, events, ubuf, ret>>

ReadLock(t) ==
  /\ pc[t] = "r_lock"
  /\ MutexLock(t)
  /\ r_wait' = r_wait \cup {t}
  /\ Goto(t, "r_check")
  /\ UNCHANGED <<device, w_wait, state, signal, locals>>

ReadWouldBlock(t) ==
  /\ pc[t] = "r_check" /\ current_len = 0
  /\ t \in NonBlock
  /\ ret' = [ret EXCEPT ![t] = -EAGAIN]
  /\ MutexUnlock(t)
  /\ Goto(t, "r_out2")
  /\ UNCHANGED <<device, queues, state, signal, args, count, ubuf>>

ReadSleep(t) ==
  /\ pc[t] = "r_check" /\ current_len = 0
  /\ t \notin NonBlock
  /\ state' = [state EXCEPT ![t] = "INTERRUPTIBLE"]
  /\ MutexUnlock(t)
  /\ Goto(t, "r_sched")
  /\ UNCHANGED <<device, queues, signal, locals>>

ReadInterrupted(t) ==
  /\ pc[t] = "r_sched" /\ signal[t]
  /\ state' = [state EXCEPT ![t] = "RUNNING"]
  /\ ret' = [ret EXCEPT ![t] = -ERESTARTSYS]
  /\ Goto(t, "r_out2")
  /\ UNCHANGED <<device, mutex, queues, signal, args, count, ubuf>>

ReadWoken(t) ==
  /\ pc[t] = "r_sched" /\ state[t] = "RUNNING" /\ ~signal[t]
  /\ Goto(t, "r_relock")
  /\ UNCHANGED <<device, mutex, queues, state, signal, locals>>

ReadRelock(t) ==
  /\ pc[t] = "r_relock"
  /\ MutexLock(t)
  /\ Goto(t, "r_check")
  /\ UNCHANGED <<device, queues, state, signal, locals>>

\* count is cut to what there is, and copy_to_user succeeds.
ReadCopy(t) ==
  /\ pc[t] = "r_check" /\ current_len # 0
  /\ LET n == Least(count[t], current_len)
     IN  /\ count' = [count EXCEPT ![t] = n]
         /\ ubuf' = [ubuf EXCEPT ![t] = Bytes(0, n)]
  /\ Goto(t, "r_consume")
  /\ UNCHANGED <<device, mutex, queues, state, signal, args, ret>>

\* copy_to_user fails after some of the bytes.
ReadFault(t) ==
  /\ pc[t] = "r_check" /\ current_len # 0 /\ t \in Faulting
  /\ \E k \in 0 .. Least(count[t], current_len) - 1 :
       ubuf' = [ubuf EXCEPT ![t] = Bytes(0, k)]
  /\ count' = [count EXCEPT ![t] = Least(@, current_len)]
  /\ ret' = [ret EXCEPT ![t] = -EFAULT]
  /\ MutexUnlock(t)
  /\ Goto(t, "r_out2")
  /\ UNCHANGED <<device, queues, state, signal, args>>

ReadConsume(t) ==
  /\ pc[t] = "r_consume"
  /\ \E order \in MemcpyOrders :
       mem' = Memcpy(mem, count[t], current_len - count[t], order)
  /\ current_len' = current_len - count[t]
  /\ ret' = [ret EXCEPT ![t] = count[t]]
  /\ WakeUpInterruptible(w_wait)
  /\ MutexUnlock(t)
  /\ Goto(t, "r_out2")
  /\ UNCHANGED <<async_queue, opened, queues, signal, args, count, ubuf>>

ReadReturn(t) ==
  /\ pc[t] = "r_out2"
  /\ r_wait' = r_wait \ {t}
  /\ state' = [state EXCEPT ![t] = "RUNNING"]
  /\ SyscallReturn(t)
  /\ UNCHANGED <<device, mutex, w_wait>>

-----------------------------------------------------------------------------
(***************************************************************************)
(* tdlcd_write                                                             *)
(***************************************************************************)
WriteCall(t) ==
  /\ pc[t] = "user" /\ t \in opened \cap Writers
  /\ \E d \in Payloads : /\ data' = [data EXCEPT ![t] = d]
                         /\ count' = [count EXCEPT ![t] = Len(d)]
  /\ Goto(t, "w_lock")
  /\ UNCHANGED <<device, mutex, queues, state, signal, size, events, ubuf, ret>>

WriteLock(t) ==
  /\ pc[t] = "w_lock"
  /\ MutexLock(t)
  /\ w_wait' = w_wait \cup {t}
  /\ Goto(t, "w_check")
  /\ UNCHANGED <<device, r_wait, state, signal, locals>>

WriteWouldBlock(t) ==
  /\ pc[t] = "w_check" /\ current_len = SIZE
  /\ t \in NonBlock
  /\ ret' = [ret EXCEPT ![t] = -EAGAIN]
  /\ MutexUnlock(t)
  /\ Goto(t, "w_out2")
  /\ UNCHANGED <<device, queues, state, signal, args, count, ubuf>>

WriteSleep(t) ==
  /\ pc[t] = "w_check" /\ current_len = SIZE
  /\ t \notin NonBlock
  /\ state' = [state EXCEPT ![t] = "INTERRUPTIBLE"]
  /\ MutexUnlock(t)
  /\ Goto(t, "w_sched")
  /\ UNCHANGED <<device, queues, signal, locals>>

WriteInterrupted(t) ==
  /\ pc[t] = "w_sched" /\ signal[t]
  /\ state' = [state EXCEPT ![t] = "RUNNING"]
  /\ ret' = [ret EXCEPT ![t] = -ERESTARTSYS]
  /\ Goto(t, "w_out2")
  /\ UNCHANGED <<device, mutex, queues, signal, args, count, ubuf>>

WriteWoken(t) ==
  /\ pc[t] = "w_sched" /\ state[t] = "RUNNING" /\ ~signal[t]
  /\ Goto(t, "w_relock")
  /\ UNCHANGED <<device, mutex, queues, state, signal, locals>>

WriteRelock(t) ==
  /\ pc[t] = "w_relock"
  /\ MutexLock(t)
  /\ Goto(t, "w_check")
  /\ UNCHANGED <<device, queues, state, signal, locals>>

\* copy_from_user(dev->mem + current_len, buf, n)
CopyIn(t, n) ==
  mem' = [i \in Cell |-> IF i \in current_len .. current_len + n - 1
                         THEN data[t][i - current_len + 1] ELSE mem[i]]

\* count is cut to the room there is, and copy_from_user succeeds.
WriteCopy(t) ==
  /\ pc[t] = "w_check" /\ current_len # SIZE
  /\ LET n == Least(count[t], SIZE - current_len)
     IN  /\ count' = [count EXCEPT ![t] = n]
         /\ CopyIn(t, n)
  /\ Goto(t, "w_commit")
  /\ UNCHANGED <<current_len, async_queue, opened, mutex, queues, state, signal,
                 args, ubuf, ret>>

\* copy_from_user fails after some of the bytes.
WriteFault(t) ==
  /\ pc[t] = "w_check" /\ current_len # SIZE /\ t \in Faulting
  /\ \E k \in 0 .. Least(count[t], SIZE - current_len) - 1 : CopyIn(t, k)
  /\ count' = [count EXCEPT ![t] = Least(@, SIZE - current_len)]
  /\ ret' = [ret EXCEPT ![t] = -EFAULT]
  /\ MutexUnlock(t)
  /\ Goto(t, "w_out2")
  /\ UNCHANGED <<current_len, async_queue, opened, queues, state, signal, args, ubuf>>

WriteCommit(t) ==
  /\ pc[t] = "w_commit"
  /\ current_len' = current_len + count[t]
  /\ WakeUpInterruptible(r_wait)
  /\ KillFasync
  /\ ret' = [ret EXCEPT ![t] = count[t]]
  /\ MutexUnlock(t)
  /\ Goto(t, "w_out2")
  /\ UNCHANGED <<mem, async_queue, opened, queues, args, count, ubuf>>

WriteReturn(t) ==
  /\ pc[t] = "w_out2"
  /\ w_wait' = w_wait \ {t}
  /\ state' = [state EXCEPT ![t] = "RUNNING"]
  /\ SyscallReturn(t)
  /\ UNCHANGED <<device, mutex, r_wait>>

-----------------------------------------------------------------------------
(***************************************************************************)
(* tdlcd_ioctl(CTRL_CLC); the other commands change nothing.               *)
(***************************************************************************)
ClearCall(t) ==
  /\ pc[t] = "user" /\ t \in opened \cap Clearers
  /\ Goto(t, "c_lock")
  /\ UNCHANGED <<device, mutex, queues, state, signal, locals>>

ClearLock(t) ==
  /\ pc[t] = "c_lock"
  /\ MutexLock(t)
  /\ Goto(t, "c_clear")
  /\ UNCHANGED <<device, queues, state, signal, locals>>

Clear(t) ==
  /\ pc[t] = "c_clear"
  /\ current_len' = 0
  /\ mem' = [i \in Cell |-> Zero]
  /\ MutexUnlock(t)
  /\ SyscallReturn(t)
  /\ UNCHANGED <<async_queue, opened, queues, state>>

-----------------------------------------------------------------------------
(***************************************************************************)
(* poll and select: the kernel calls tdlcd_poll, which registers the task  *)
(* on both wait queues and reports what the device is ready for; the       *)
(* kernel calls it again whenever one of the queues is woken.              *)
(***************************************************************************)
Mask == {e \in {POLLIN, POLLOUT} : \/ e = POLLIN  /\ current_len # 0
                                   \/ e = POLLOUT /\ current_len # SIZE}

PollCall(t) ==
  /\ pc[t] = "user" /\ t \in opened \cap Pollers
  /\ \E e \in (SUBSET {POLLIN, POLLOUT}) \ {{}} : events' = [events EXCEPT ![t] = e]
  /\ Goto(t, "p_lock")
  /\ UNCHANGED <<device, mutex, queues, state, signal, size, data, count, ubuf, ret>>

PollLock(t) ==
  /\ pc[t] = "p_lock"
  /\ MutexLock(t)
  /\ r_wait' = r_wait \cup {t}
  /\ w_wait' = w_wait \cup {t}
  /\ Goto(t, "p_check")
  /\ UNCHANGED <<device, state, signal, locals>>

PollReport(t) ==
  /\ pc[t] = "p_check"
  /\ Mask \cap events[t] # {}
  /\ MutexUnlock(t)
  /\ Goto(t, "p_out")
  /\ UNCHANGED <<device, queues, state, signal, locals>>

PollSleep(t) ==
  /\ pc[t] = "p_check"
  /\ Mask \cap events[t] = {}
  /\ state' = [state EXCEPT ![t] = "INTERRUPTIBLE"]
  /\ MutexUnlock(t)
  /\ Goto(t, "p_sleep")
  /\ UNCHANGED <<device, queues, signal, locals>>

PollInterrupted(t) ==
  /\ pc[t] = "p_sleep" /\ signal[t]
  /\ state' = [state EXCEPT ![t] = "RUNNING"]
  /\ Goto(t, "p_out")
  /\ UNCHANGED <<device, mutex, queues, signal, locals>>

PollWoken(t) ==
  /\ pc[t] = "p_sleep" /\ state[t] = "RUNNING" /\ ~signal[t]
  /\ Goto(t, "p_lock")
  /\ UNCHANGED <<device, mutex, queues, state, signal, locals>>

PollTimeout(t) ==
  /\ pc[t] = "p_sleep"
  /\ state' = [state EXCEPT ![t] = "RUNNING"]
  /\ Goto(t, "p_out")
  /\ UNCHANGED <<device, mutex, queues, signal, locals>>

PollReturn(t) ==
  /\ pc[t] = "p_out"
  /\ r_wait' = r_wait \ {t}
  /\ w_wait' = w_wait \ {t}
  /\ SyscallReturn(t)
  /\ UNCHANGED <<device, mutex, state>>

-----------------------------------------------------------------------------
(***************************************************************************)
(* Signals that others send.                                               *)
(***************************************************************************)
Signal(t) ==
  /\ t \in Signalled /\ ~signal[t]
  /\ signal' = [signal EXCEPT ![t] = TRUE]
  /\ UNCHANGED <<device, mutex, queues, state, pc, locals>>

\* A signal that finds the task in user space is delivered there.
DeliverSignal(t) ==
  /\ pc[t] = "user" /\ signal[t]
  /\ signal' = [signal EXCEPT ![t] = FALSE]
  /\ UNCHANGED <<device, mutex, queues, state, pc, locals>>
-----------------------------------------------------------------------------
ReadStep(t) ==
  \/ ReadLock(t)  \/ ReadWouldBlock(t) \/ ReadSleep(t) \/ ReadInterrupted(t) \/ ReadWoken(t)
  \/ ReadRelock(t) \/ ReadCopy(t) \/ ReadFault(t) \/ ReadConsume(t) \/ ReadReturn(t)

WriteStep(t) ==
  \/ WriteLock(t) \/ WriteWouldBlock(t) \/ WriteSleep(t) \/ WriteInterrupted(t) \/ WriteWoken(t)
  \/ WriteRelock(t) \/ WriteCopy(t) \/ WriteFault(t) \/ WriteCommit(t) \/ WriteReturn(t)

ClearStep(t) == ClearLock(t) \/ Clear(t)

PollStep(t) ==
  \/ PollLock(t) \/ PollReport(t) \/ PollSleep(t) \/ PollInterrupted(t) \/ PollWoken(t)
  \/ PollReturn(t)

\* What a process does of its own accord.
Call(t) ==
  \/ Open(t) \/ Fasync(t) \/ Release(t)
  \/ ReadCall(t) \/ WriteCall(t) \/ ClearCall(t) \/ PollCall(t)

\* What the kernel does for it once it has called.
Kernel(t) ==
  ReadStep(t) \/ WriteStep(t) \/ ClearStep(t) \/ PollStep(t) \/ DeliverSignal(t)

Next == \E t \in Task : Call(t) \/ Kernel(t) \/ PollTimeout(t) \/ Signal(t)

Spec == Init /\ [][Next]_vars

(***************************************************************************)
(* Fairness.  The scheduler runs every runnable task, so a handler that    *)
(* can take a step eventually takes one; the kernel's mutex hands over to  *)
(* its oldest waiter, so a task that waits for it gets it although others  *)
(* keep taking it.  Nothing is assumed of the calls, the signals and the   *)
(* timeouts.                                                               *)
(***************************************************************************)
AcquireMutex(t) ==
  ReadLock(t) \/ ReadRelock(t) \/ WriteLock(t) \/ WriteRelock(t) \/ ClearLock(t) \/ PollLock(t)

FairSpec ==
  /\ Spec
  /\ \A t \in Task : WF_vars(Kernel(t)) /\ SF_vars(AcquireMutex(t))

-----------------------------------------------------------------------------
ReadPC  == {"r_lock", "r_check", "r_sched", "r_relock", "r_consume", "r_out2"}
WritePC == {"w_lock", "w_check", "w_sched", "w_relock", "w_commit", "w_out2"}
ClearPC == {"c_lock", "c_clear"}
PollPC  == {"p_lock", "p_check", "p_sleep", "p_out"}

\* The places at which a handler holds dev->mutex.
LockedPC == {"r_check", "r_consume", "w_check", "w_commit", "c_clear", "p_check"}

\* Every variable keeps its type; an error is returned as its negative.
TypeOK ==
  /\ mem \in [Cell -> Byte]
  /\ current_len \in 0 .. SIZE
  /\ mutex \in Task \cup {NoTask}
  /\ r_wait \subseteq Task /\ w_wait \subseteq Task
  /\ async_queue \subseteq Task /\ opened \subseteq Task
  /\ state \in [Task -> {"RUNNING", "INTERRUPTIBLE"}]
  /\ signal \in [Task -> BOOLEAN]
  /\ pc \in [Task -> {"user"} \cup ReadPC \cup WritePC \cup ClearPC \cup PollPC]
  /\ size \in [Task -> Nat]
  /\ data \in [Task -> Seq(Byte)]
  /\ events \in [Task -> SUBSET {POLLIN, POLLOUT}]
  /\ count \in [Task -> Nat]
  /\ ubuf \in [Task -> Seq(Byte)]
  /\ ret \in [Task -> Int]

\* The handlers exclude each other: the one that is past mutex_lock and short
\* of mutex_unlock is the owner of dev->mutex (every handler, lines 74-77, 94-140,
\* 153-204, 216-231).
MutualExclusion == \A t \in Task : pc[t] \in LockedPC <=> mutex = t

\* The bytes a handler has reserved by cutting count down stay reserved until
\* it uses them: a read never takes more than there is, a write never stores
\* beyond dev->mem, although each decides in one step and acts in another
\* (lines 118-131 and 178-190).
CopyInBounds ==
  \A t \in Task : /\ pc[t] = "r_consume" => count[t] <= current_len
                  /\ pc[t] = "w_commit"  => current_len + count[t] <= SIZE

\* A wait entry lives on the stack of the call that put it on the queue
\* (DECLARE_WAITQUEUE, lines 92 and 151), so on every way out, the failing ones
\* included, it must be off the queue before the call returns.
NoDanglingWaiter ==
  \A t \in Task : pc[t] \notin ReadPC \cup WritePC \cup PollPC => t \notin r_wait \cup w_wait

\* A task is only ever found asleep at one of the places that wait: no way
\* back to user space leaves current->state INTERRUPTIBLE (line 105, 143).
SleepsOnlyWaiting ==
  \A t \in Task : state[t] = "INTERRUPTIBLE" => pc[t] \in {"r_sched", "w_sched", "p_sleep"}

Asleep(t) == state[t] = "INTERRUPTIBLE" /\ ~signal[t]

\* No wake-up of a reader is lost between the test of current_len, the release
\* of the mutex and schedule(): a reader (or a poller for POLLIN) that sleeps has
\* nothing to read (lines 97-116 against 190-193).
NoLostReadWakeup ==
  \A t \in Task :
    Asleep(t) /\ (pc[t] = "r_sched" \/ (pc[t] = "p_sleep" /\ POLLIN \in events[t]))
      => current_len = 0

StrandedWriter(t) ==
  /\ Asleep(t) /\ current_len # SIZE
  /\ pc[t] = "w_sched" \/ (pc[t] = "p_sleep" /\ POLLOUT \in events[t])

\* The same for writers, where nobody clears the device: a writer (or a poller
\* for POLLOUT) that sleeps has no room (lines 156-176 against 131-135).
NoLostWriteWakeup == \A t \in Task : ~StrandedWriter(t)

\* Only an ioctl can leave a writer asleep on a device that has room: it sets
\* current_len to 0 and wakes nobody (lines 74-77).
OnlyClearStrandsWriters ==
  [][\A t \in Task : StrandedWriter(t)' => StrandedWriter(t) \/ \E c \in Task : Clear(c)]_vars

\* A read that asked for bytes is never answered with none, which its caller
\* would take for the end of the file, even when another reader was faster
\* after the wake-up (lines 97 and 118); nor does a write that has something to
\* write return 0.
NoEmptyTransfer ==
  \A t \in Task : /\ pc[t] = "r_out2" /\ ret[t] = 0 => size[t] = 0
                  /\ pc[t] = "w_out2" /\ ret[t] = 0 => data[t] = <<>>

-----------------------------------------------------------------------------
(***************************************************************************)
(* The inductive invariant: what the invariants above need to know of a    *)
(* handler that is under way.                                              *)
(***************************************************************************)
\* The places at which a task has an entry on r_wait, and on w_wait.  At p_lock
\* it has them unless this is the first call of tdlcd_poll.
OnReadQueue  == {"r_check", "r_sched", "r_relock", "r_consume", "r_out2",
                 "p_check", "p_sleep", "p_out"}
OnWriteQueue == {"w_check", "w_sched", "w_relock", "w_commit", "w_out2",
                 "p_check", "p_sleep", "p_out"}

WaitersAreQueued ==
  \A t \in Task : /\ pc[t] \in OnReadQueue  => t \in r_wait
                  /\ pc[t] \in OnWriteQueue => t \in w_wait
                  /\ t \in r_wait => pc[t] \in OnReadQueue  \cup {"p_lock"}
                  /\ t \in w_wait => pc[t] \in OnWriteQueue \cup {"p_lock"}

\* What the locals of a transfer say about the device.  The bytes of a write
\* lie behind current_len until the step that counts them in.
TransferAgrees ==
  \A t \in Task :
    /\ pc[t] \in {"r_lock", "r_check", "r_sched", "r_relock"} => count[t] = size[t]
    /\ pc[t] \in {"w_lock", "w_check", "w_sched", "w_relock"} => count[t] = Len(data[t])
    /\ pc[t] = "r_consume" =>
         /\ current_len # 0
         /\ count[t] = Least(size[t], current_len)
    /\ pc[t] = "w_commit" =>
         /\ current_len # SIZE
         /\ count[t] = Least(Len(data[t]), SIZE - current_len)
         /\ \A i \in 1 .. count[t] : mem[current_len + i - 1] = data[t][i]

IInv ==
  /\ TypeOK /\ MutualExclusion /\ WaitersAreQueued /\ SleepsOnlyWaiting
  /\ TransferAgrees /\ NoLostReadWakeup /\ NoEmptyTransfer
-----------------------------------------------------------------------------
(***************************************************************************)
(* The driver is a FIFO: it implements ByteFifo.  A read takes effect when *)
(* it has copied the bytes out, although they leave dev->mem only in a     *)
(* later step; a write takes effect when current_len grows.                *)
(***************************************************************************)
\* The bytes at the front that a reader has copied out and not yet removed.
Leaving == IF mutex # NoTask /\ pc[mutex] = "r_consume" THEN count[mutex] ELSE 0

Contents == Bytes(Leaving, current_len - Leaving)

AbstractCall(t) ==
  CASE pc[t] \in {"r_lock", "r_check", "r_sched", "r_relock"} -> [op |-> "read", n |-> size[t]]
    [] pc[t] \in {"w_lock", "w_check", "w_sched", "w_relock", "w_commit"} ->
         [op |-> "write", data |-> data[t]]
    [] pc[t] = "r_consume" -> [op |-> "done", res |-> count[t], data |-> ubuf[t]]
    [] pc[t] = "r_out2" -> [op |-> "done", res |-> ret[t],
                            data |-> IF ret[t] < 0 THEN <<>> ELSE ubuf[t]]
    [] pc[t] = "w_out2" -> [op |-> "done", res |-> ret[t], data |-> <<>>]
    [] OTHER -> [op |-> "idle"]

Fifo == INSTANCE ByteFifo WITH
  Capacity <- SIZE, WouldBlock <- -EAGAIN, Failures <- {-EFAULT, -ERESTARTSYS},
  queue <- Contents, call <- [t \in Task |-> AbstractCall(t)]

\* Whatever the tasks do, what they observe is a bounded queue of bytes.
IsFifo == Fifo!Spec
-----------------------------------------------------------------------------
(***************************************************************************)
(* Liveness, under FairSpec.                                               *)
(***************************************************************************)
\* A call never hangs except to wait for data or for room: nobody keeps the
\* mutex, and everybody who wants it gets it.
CallsReturnOrWait ==
  \A t \in Task : pc[t] # "user" ~> pc[t] \in {"user", "r_sched", "w_sched", "p_sleep"}

\* A writer with no rival is served for as long as somebody whose buffer is
\* good keeps reading: the premise is the reader's, what follows the driver's
\* (lines 156-176 against 130-135).  Of two writers one may find the device full
\* again each time it is woken.
WriterServed ==
  []<>(\E r \in Readers \ Faulting : pc[r] = "r_lock" /\ size[r] # 0)
    => \A w \in Writers : pc[w] \in WritePC ~> pc[w] = "user"

\* A select() for writing on a device that has room is told so.
WritablePollReturns ==
  \A t \in Task : (pc[t] = "p_sleep" /\ POLLOUT \in events[t] /\ current_len # SIZE)
                    ~> pc[t] # "p_sleep"
=============================================================================
