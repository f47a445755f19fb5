----------------------------- MODULE GlobalMem ------------------------------
(***************************************************************************)
(* The memory device of code/ch7/globalmem.c, whose read unlocks a mutex   *)
(* it has not locked.  ioctl and llseek are those of MemFile.              *)
(***************************************************************************)
EXTENDS MemFile

\* Nothing to read behind the end; else the copy starts at once.
ReadCall(t) ==
  /\ t \in Readers /\ pc[t] = "idle"
  /\ \E n \in Sizes, to \in Targets(t) :
       IF to.pos >= SIZE
       THEN Enter(t, to, 0) /\ Goto(t, "return") /\ UNCHANGED moments
       ELSE LET len == Least(n, SIZE - to.pos) IN
            /\ Enter(t, to, len)
            /\ Goto(t, "r_copy")
            /\ moments' = [moments EXCEPT ![t] = {Part(shadow, to.pos, len)}]
  /\ UNCHANGED <<mem, owner, f_pos, buf, result, stamp, written, shadow>>

ReadCopy(t) ==
  /\ pc[t] = "r_copy" /\ copied[t] < count[t]
  /\ buf' = [buf EXCEPT ![t] =
       [i \in 0 .. copied[t] |-> IF i < copied[t] THEN buf[t][i] ELSE mem[pos[t] + i]]]
  /\ copied' = [copied EXCEPT ![t] = @ + 1]
  /\ UNCHANGED <<mem, owner, f_pos, pc, plain, pos, count, result, stamp, written, ghosts>>

\* The mutex is unlocked, whoever has locked it.
ReadDone(t) ==
  /\ pc[t] = "r_copy"
  /\ \/ /\ copied[t] = count[t]
        /\ result' = [result EXCEPT ![t] = count[t]]
     \/ /\ t \in Faulting /\ copied[t] < count[t]
        /\ result' = [result EXCEPT ![t] = EFAULT]
  /\ MutexUnlock
  /\ Goto(t, "return")
  /\ UNCHANGED <<mem, f_pos, plain, pos, count, copied, buf, stamp, written, ghosts>>

\* Nothing to write behind the end; else count is cut before the mutex is locked.
WriteCall(t) ==
  /\ t \in Writers /\ pc[t] = "idle" /\ written < MaxWrites
  /\ \E n \in Sizes, to \in Targets(t) :
       IF to.pos >= SIZE
       THEN Enter(t, to, 0) /\ Goto(t, "return")
       ELSE Enter(t, to, Least(n, SIZE - to.pos)) /\ Goto(t, "w_lock")
  /\ written' = written + 1
  /\ stamp' = [stamp EXCEPT ![t] = written + 1]
  /\ UNCHANGED <<mem, owner, f_pos, buf, result, ghosts>>

WriteLock(t) ==
  /\ pc[t] = "w_lock"
  /\ MutexLock(t)
  /\ Goto(t, "w_copy")
  /\ UNCHANGED <<mem, f_pos, call, written, ghosts>>

WriteCopy(t) ==
  /\ pc[t] = "w_copy" /\ copied[t] < count[t]
  /\ mem' = [mem EXCEPT ![pos[t] + copied[t]] = stamp[t]]
  /\ copied' = [copied EXCEPT ![t] = @ + 1]
  /\ UNCHANGED <<owner, f_pos, pc, plain, pos, count, buf, result, stamp, written, ghosts>>

WriteDone(t) ==
  /\ pc[t] = "w_copy"
  /\ \/ /\ copied[t] = count[t]
        /\ result' = [result EXCEPT ![t] = count[t]]
     \/ /\ t \in Faulting /\ copied[t] < count[t]
        /\ result' = [result EXCEPT ![t] = EFAULT]
  /\ mem' = Zeroed(t, mem)
  /\ Commit(Overwritten(t, shadow, copied[t]))
  /\ MutexUnlock
  /\ Goto(t, "return")
  /\ UNCHANGED <<f_pos, plain, pos, count, copied, buf, stamp, written>>

-----------------------------------------------------------------------------
Next ==
  \E t \in Task :
    \/ ReadCall(t) \/ ReadCopy(t) \/ ReadDone(t)
    \/ WriteCall(t) \/ WriteLock(t) \/ WriteCopy(t) \/ WriteDone(t)
    \/ Return(t) \/ Seek(t) \/ Ioctl(t)

Spec == Init /\ [][Next]_vars

\* A type invariant for the values TLC explores.
TypeOK ==
  /\ MemTypeOK
  /\ pc \in [Task -> {"idle", "r_copy", "w_lock", "w_copy", "c_lock", "c_unlock", "s_move",
                      "return"}]
=============================================================================
