------------------------------ MODULE ByteFifo ------------------------------
(***************************************************************************)
(* What a FIFO character device promises to the processes that have it     *)
(* open, whatever the driver does inside: one bounded queue of bytes.      *)
(*   - a write appends, in one indivisible step, the longest prefix of the *)
(*     caller's data that fits, and returns its length;                    *)
(*   - a read removes, in one indivisible step, the longest prefix of the  *)
(*     queue the caller asked for, and returns exactly those bytes;        *)
(*   - a read takes effect only on a queue that holds something, a write   *)
(*     only on one that has room, and a call says that it would have had   *)
(*     to wait only when that is so;                                       *)
(*   - a call that fails leaves the queue alone; a clear empties it.       *)
(***************************************************************************)
EXTENDS Integers, Sequences

CONSTANTS
  Task,        \* the processes that call the device
  Capacity,    \* the number of bytes the device can hold
  ReadSizes,   \* the byte counts a read may ask for
  Payloads,    \* the byte sequences a write may bring
  WouldBlock,  \* the error code of a call that would have had to wait
  Failures     \* the other error codes a call may return

VARIABLES
  queue,       \* the bytes in the device, oldest first
  call         \* per task, the call it is in

vars == <<queue, call>>

-----------------------------------------------------------------------------
Least(a, b) == IF a <= b THEN a ELSE b

Idle == [op |-> "idle"]
\* A read of n bytes, and a write of the bytes d, that have not taken effect.
Reading(n) == [op |-> "read", n |-> n]
Writing(d) == [op |-> "write", data |-> d]
\* A call that is about to return res, a byte count or an error; "data" is
\* what a read delivered.
Done(res, d) == [op |-> "done", res |-> res, data |-> d]

Init ==
  /\ queue = <<>>
  /\ call = [t \in Task |-> Idle]

-----------------------------------------------------------------------------
Begin(t) ==
  /\ call[t] = Idle
  /\ \/ \E n \in ReadSizes : call' = [call EXCEPT ![t] = Reading(n)]
     \/ \E d \in Payloads : call' = [call EXCEPT ![t] = Writing(d)]
  /\ UNCHANGED queue

Read(t) ==
  /\ call[t].op = "read"
  /\ queue # <<>>
  /\ LET n == Least(call[t].n, Len(queue))
     IN  /\ call' = [call EXCEPT ![t] = Done(n, SubSeq(queue, 1, n))]
         /\ queue' = SubSeq(queue, n + 1, Len(queue))

Write(t) ==
  /\ call[t].op = "write"
  /\ Len(queue) < Capacity
  /\ LET d == call[t].data
         n == Least(Len(d), Capacity - Len(queue))
     IN  /\ call' = [call EXCEPT ![t] = Done(n, <<>>)]
         /\ queue' = queue \o SubSeq(d, 1, n)

MustWait(t) ==
  \/ call[t].op = "read"  /\ queue = <<>>
  \/ call[t].op = "write" /\ Len(queue) = Capacity

Fail(t) ==
  /\ call[t].op \in {"read", "write"}
  /\ \/ /\ MustWait(t)
        /\ call' = [call EXCEPT ![t] = Done(WouldBlock, <<>>)]
     \/ \E e \in Failures : call' = [call EXCEPT ![t] = Done(e, <<>>)]
  /\ UNCHANGED queue

Return(t) ==
  /\ call[t].op = "done"
  /\ call' = [call EXCEPT ![t] = Idle]
  /\ UNCHANGED queue

Clear ==
  /\ queue' = <<>>
  /\ UNCHANGED call

Next ==
  \/ Clear
  \/ \E t \in Task : Begin(t) \/ Read(t) \/ Write(t) \/ Fail(t) \/ Return(t)

Spec == Init /\ [][Next]_vars
=============================================================================
