----------------------------- MODULE MemDevice ------------------------------
(***************************************************************************)
(* The memory device with a mutex, code/ch6/tdlcd.c: one of its TDLCD_NUM  *)
(* devices, which share nothing but their code.                            *)
(***************************************************************************)
EXTENDS MemFile

\* read looks at the position before it locks.
ReadCall(t) ==
  /\ t \in Readers /\ pc[t] = "idle"
  /\ \E n \in Sizes, to \in Targets(t) :
       IF to.pos > SIZE
       THEN Enter(t, to, 0) /\ Goto(t, "return") /\ UNCHANGED moments
       ELSE LET len == Least(n, SIZE - to.pos) IN
            /\ Enter(t, to, len)
            /\ Goto(t, "r_lock")
            /\ moments' = [moments EXCEPT ![t] = {Part(shadow, to.pos, len)}]
  /\ UNCHANGED <<mem, owner, f_pos, buf, result, stamp, written, shadow>>

ReadLock(t) ==
  /\ pc[t] = "r_lock"
  /\ MutexLock(t)
  /\ Goto(t, "r_copy")
  /\ UNCHANGED <<mem, f_pos, call, written, ghosts>>

ReadCopy(t) ==
  /\ pc[t] = "r_copy" /\ copied[t] < count[t]
  /\ buf' = [buf EXCEPT ![t] =
       [i \in 0 .. copied[t] |-> IF i < copied[t] THEN buf[t][i] ELSE mem[pos[t] + i]]]
  /\ copied' = [copied EXCEPT ![t] = @ + 1]
  /\ UNCHANGED <<mem, owner, f_pos, pc, plain, pos, count, result, stamp, written, ghosts>>

ReadDone(t) ==
  /\ pc[t] = "r_copy" /\ copied[t] = count[t]
  /\ result' = [result EXCEPT ![t] = count[t]]
  /\ MutexUnlock
  /\ Goto(t, "return")
  /\ UNCHANGED <<mem, f_pos, plain, pos, count, copied, buf, stamp, written, ghosts>>

\* Faults: another try, and an early return that forgets the mutex.
ReadFaultRetries(t) ==
  /\ t \in Faulting /\ pc[t] = "r_copy" /\ copied[t] < count[t]
  /\ copied' = [copied EXCEPT ![t] = 0]
  /\ MutexUnlock
  /\ Goto(t, "r_lock")
  /\ UNCHANGED <<mem, f_pos, plain, pos, count, buf, result, stamp, written, ghosts>>

ReadFaultKeeps(t) ==
  /\ t \in Faulting /\ pc[t] = "r_copy" /\ copied[t] < count[t]
  /\ result' = [result EXCEPT ![t] = EFAULT]
  /\ Goto(t, "return")
  /\ UNCHANGED <<mem, owner, f_pos, plain, pos, count, copied, buf, stamp, written, ghosts>>

ReadFault(t) ==
  /\ t \in Faulting /\ pc[t] = "r_copy" /\ copied[t] < count[t]
  /\ result' = [result EXCEPT ![t] = EFAULT]
  /\ MutexUnlock
  /\ Goto(t, "return")
  /\ UNCHANGED <<mem, f_pos, plain, pos, count, copied, buf, stamp, written, ghosts>>

WriteCall(t) ==
  /\ t \in Writers /\ pc[t] = "idle" /\ written < MaxWrites
  /\ \E n \in Sizes, to \in Targets(t) : Enter(t, to, n)
  /\ written' = written + 1
  /\ stamp' = [stamp EXCEPT ![t] = written + 1]
  /\ Goto(t, "w_lock")
  /\ UNCHANGED <<mem, owner, f_pos, buf, result, ghosts>>

WriteLock(t) ==
  /\ pc[t] = "w_lock" /\ pos[t] <= SIZE
  /\ MutexLock(t)
  /\ count' = [count EXCEPT ![t] = Least(@, SIZE - pos[t])]
  /\ Goto(t, "w_copy")
  /\ UNCHANGED <<mem, f_pos, plain, pos, copied, buf, result, stamp, written, ghosts>>

\* Behind the end write returns with the mutex locked.
WriteFar(t) ==
  /\ pc[t] = "w_lock" /\ pos[t] > SIZE
  /\ MutexLock(t)
  /\ Goto(t, "return")
  /\ UNCHANGED <<mem, f_pos, call, written, ghosts>>

WriteCopy(t) ==
  /\ pc[t] = "w_copy" /\ copied[t] < count[t]
  /\ mem' = [mem EXCEPT ![pos[t] + copied[t]] = stamp[t]]
  /\ copied' = [copied EXCEPT ![t] = @ + 1]
  /\ UNCHANGED <<owner, f_pos, pc, plain, pos, count, buf, result, stamp, written, ghosts>>

WriteDone(t) ==
  /\ pc[t] = "w_copy" /\ copied[t] = count[t]
  /\ result' = [result EXCEPT ![t] = count[t]]
  /\ Commit(Overwritten(t, shadow, count[t]))
  /\ MutexUnlock
  /\ Goto(t, "return")
  /\ UNCHANGED <<mem, f_pos, plain, pos, count, copied, buf, stamp, written>>

WriteFault(t) ==
  /\ t \in Faulting /\ pc[t] = "w_copy" /\ copied[t] < count[t]
  /\ result' = [result EXCEPT ![t] = EFAULT]
  /\ mem' = Zeroed(t, mem)
  /\ Commit(Overwritten(t, shadow, copied[t]))
  /\ MutexUnlock
  /\ Goto(t, "return")
  /\ UNCHANGED <<f_pos, plain, pos, count, copied, buf, stamp, written>>

-----------------------------------------------------------------------------
ReadStep(t) == ReadLock(t) \/ ReadCopy(t) \/ ReadDone(t) \/ ReadFault(t)
WriteStep(t) == WriteLock(t) \/ WriteFar(t) \/ WriteCopy(t) \/ WriteDone(t) \/ WriteFault(t)

Next ==
  \E t \in Task :
    ReadCall(t) \/ ReadStep(t) \/ WriteCall(t) \/ WriteStep(t) \/ Return(t) \/ Seek(t) \/ Ioctl(t)

Spec == Init /\ [][Next]_vars

\* The kernel keeps a task running that is in a call, and hands the mutex to the
\* oldest waiter.
Lock(t) == ReadLock(t) \/ WriteLock(t) \/ WriteFar(t) \/ Clear(t)

FairSpec ==
  /\ Spec
  /\ \A t \in Task :
       SF_vars(Lock(t)) /\ WF_vars(ReadStep(t) \/ WriteStep(t) \/ Return(t) \/ ClearReturn(t))

-----------------------------------------------------------------------------
TypeOK ==
  /\ MemTypeOK
  /\ pc \in [Task -> {"idle", "r_lock", "r_copy", "w_lock", "w_copy", "c_lock", "c_unlock",
                      "s_move", "return"}]

\* Every call returns, unless a write behind the end has kept the mutex
\* (tdlcd.c:115-118).
CallsReturn ==
  \A t \in Task :
    pc[t] \in {"r_lock", "w_lock", "c_lock"} ~> pc[t] = "idle" \/ ~MutexIsReleased
-----------------------------------------------------------------------------
(***************************************************************************)
(* What the proofs add to the properties to make them inductive.           *)
(***************************************************************************)
Locals ==
  /\ f_pos \in [File -> Int] /\ pos \in [Task -> Int] /\ count \in [Task -> Int]
  /\ DOMAIN buf = Task /\ DOMAIN moments = Task

\* Who is in the critical section has the mutex.
Holding == \A t \in Task : pc[t] \in {"r_copy", "w_copy", "c_unlock"} => owner = t

\* What a call has cut count to (tdlcd.c:81-88, 115-122).
Cut ==
  \A t \in Task :
    /\ pc[t] \in {"r_lock", "r_copy", "w_copy"} =>
         pos[t] >= 0 /\ count[t] >= 0 /\ pos[t] + count[t] <= SIZE /\ copied[t] <= count[t]
    /\ pc[t] = "w_lock" => pos[t] >= 0 /\ count[t] >= 0
    /\ pc[t] \in {"r_lock", "w_lock"} => copied[t] = 0
    /\ pc[t] \in {"w_lock", "w_copy"} => stamp[t] > 0

\* The device differs from the shadow by what the write under way has copied.
DataAgrees ==
  /\ WritesDoNotMix
  /\ \A t \in Task : pc[t] = "w_copy" =>
       \A i \in Cell :
         mem[i] = IF i \in pos[t] .. pos[t] + copied[t] - 1 THEN stamp[t] ELSE shadow[i]

\* A read under way has got what the device holds, which is among its moments.
ReadAgrees ==
  /\ ReadsAreAtomic
  /\ \A t \in Reading : Part(shadow, pos[t], count[t]) \in moments[t]
  /\ \A t \in Task : pc[t] = "r_copy" /\ copied[t] > 0 =>
       buf[t] = Part(mem, pos[t], copied[t])

\* Whether nobody shares a file.
Alone(f) == \A t, u \in Task : fileOf[t] = f /\ fileOf[u] = f => t = u

\* What a call under way may write back to the position of its file.
PositionsAgree ==
  /\ PositionInDevice
  /\ \A t \in Task :
       /\ pc[t] # "return" => result[t] = 0
       /\ pc[t] = "return" /\ result[t] > 0 => pos[t] >= 0 /\ pos[t] + result[t] <= SIZE
       /\ pc[t] \in {"idle", "s_move", "c_lock", "c_unlock"} => ~plain[t]
       /\ Alone(fileOf[t]) /\ plain[t] => pos[t] \in 0 .. SIZE
       /\ Alone(fileOf[t]) /\ pc[t] = "s_move" =>
            pos[t] = f_pos[fileOf[t]] /\ Wrap(pos[t] + count[t]) \in 0 .. SIZE

IInv ==
  TypeOK /\ Locals /\ Holding /\ Cut /\ DataAgrees /\ ReadAgrees /\ PositionsAgree
=============================================================================
