----------------------------- MODULE GlobalFifo -----------------------------
(***************************************************************************)
(* The FIFO devices of code/globalfifo (ch8, ch9 and ch12 differ in how    *)
(* they find the device and in the signal a write sends).  What TdlcdFifo  *)
(* says of the bytes holds here too; this module is about the two wait     *)
(* queues, which are lists linked both ways with a lock each.  A reader    *)
(* adds itself to r_wait under the lock of r_wait, and removes itself      *)
(* under the lock of w_wait: remove_wait_queue finds the entry by its      *)
(* neighbours, whatever queue it is told.                                  *)
(*                                                                         *)
(* Adding and removing read the neighbours first and write them after, so  *)
(* each is two steps under its lock.  at[t] is where the call of task t    *)
(* is; q says which queue a call adds itself to.                           *)
(***************************************************************************)
EXTENDS Integers, Sequences, FiniteSetsExt

SIZE == 1     \* GLOBALFIFO_SIZE
Queues == {"r_wait", "w_wait"}
Heads == Queues
Nobody == "nobody"

\* next and prev link the heads and the entries of the calls (on their stacks).
FifoStart(tasks) ==
  [mem |-> <<>>, mutex |-> Nobody, lock |-> [w \in Queues |-> Nobody], async |-> {},
   next |-> [x \in Heads \cup tasks |-> x], prev |-> [x \in Heads \cup tasks |-> x],
   at |-> [t \in tasks |-> "out"], near |-> [t \in tasks |-> <<t, t>>],
   woken |-> {}, ret |-> [t \in tasks |-> "none"]]

\* The tasks of a queue, as a walk along next from its head finds them.
Walk(s, w) ==
  LET seen[n \in 0 .. 3] == IF n = 0 THEN <<s.next[w]>>
                            ELSE LET l == seen[n - 1] IN Append(l, s.next[l[Len(l)]])
      all == seen[3]
      back == {i \in DOMAIN all : all[i] = w}
  IN  {all[i] : i \in {j \in DOMAIN all : \A b \in back : j < b}}

Go(s, t, where) == [s EXCEPT !.at[t] = where]

\* mutex_lock; add_wait_queue, in two steps; the mutex stays taken.
Lock(s, t)   == IF s.at[t] \in {"out", "again"} /\ s.mutex = Nobody
                THEN {[s EXCEPT !.mutex = t, !.at[t] = IF @ = "out" THEN "add" ELSE "test"]} ELSE {}
Add(s, t, q) == IF s.at[t] = "add" /\ s.lock[q] = Nobody
                THEN {[s EXCEPT !.lock[q] = t, !.near[t] = <<q, s.next[q]>>, !.at[t] = "link"]} ELSE {}
Link(s, t, q) ==
  LET n == s.near[t][2]
  IN  IF s.at[t] # "link" THEN {}
      ELSE {[s EXCEPT !.prev = [@ EXCEPT ![n] = t, ![t] = q], !.next = [@ EXCEPT ![t] = n, ![q] = t],
                      !.lock[q] = Nobody, !.at[t] = "test"]}

\* wake_up_interruptible: whoever the walk finds, under the lock of the queue.
WakeUp(s, q) == [s EXCEPT !.woken = @ \cup Walk(s, q)]

\* The rest of read, with the mutex: O_NONBLOCK and a bad buffer leave by out, and nothing
\* to read puts the task to sleep without the mutex.
ReadTest(s, t, nonblock, fault) ==
  LET out == [s EXCEPT !.mutex = Nobody, !.at[t] = "remove"]
      took == [WakeUp(s, "w_wait") EXCEPT !.mem = Tail(s.mem), !.mutex = Nobody,
                                          !.at[t] = "remove", !.ret[t] = "done"]
  IN  IF s.at[t] # "test" THEN {}
      ELSE IF s.mem = <<>>
      THEN {IF nonblock THEN [out EXCEPT !.ret[t] = "EAGAIN"]
            ELSE [s EXCEPT !.mutex = Nobody, !.woken = @ \ {t}, !.at[t] = "sleep"]}
      ELSE IF fault THEN {[out EXCEPT !.ret[t] = "EFAULT"]}
      ELSE IF s.lock["w_wait"] = Nobody THEN {took} ELSE {}

\* write: the same, the other way round.
WriteTest(s, t, byte, nonblock, fault) ==
  LET out == [s EXCEPT !.mutex = Nobody, !.at[t] = "remove"]
      put == [WakeUp(s, "r_wait") EXCEPT !.mem = Append(s.mem, byte), !.mutex = Nobody,
                                         !.at[t] = "remove", !.ret[t] = "done"]
  IN  IF s.at[t] # "test" THEN {}
      ELSE IF Len(s.mem) = SIZE
      THEN {IF nonblock THEN [out EXCEPT !.ret[t] = "EAGAIN"]
            ELSE [s EXCEPT !.mutex = Nobody, !.woken = @ \ {t}, !.at[t] = "sleep"]}
      ELSE IF fault THEN {[out EXCEPT !.ret[t] = "EFAULT"]}
      ELSE IF s.lock["r_wait"] = Nobody THEN {put} ELSE {}

\* schedule returns once somebody has woken the task; a signal leaves by out2.
Resume(s, t, signal) ==
  IF s.at[t] # "sleep" THEN {}
  ELSE IF signal THEN {[Go(s, t, "remove") EXCEPT !.ret[t] = "ERESTARTSYS"]}
  ELSE IF t \in s.woken THEN {Go(s, t, "again")} ELSE {}

\* remove_wait_queue(&dev->w_wait, &wait), for read as for write: under is the queue
\* whose lock is taken.  The neighbours are those the entry has.
Remove(s, t, under) ==
  IF s.at[t] = "remove" /\ s.lock[under] = Nobody
  THEN {[s EXCEPT !.lock[under] = t, !.near[t] = <<s.prev[t], s.next[t]>>, !.at[t] = "unlink"]} ELSE {}
Unlink(s, t, under) ==
  LET p == s.near[t][1]
      n == s.near[t][2]
  IN  IF s.at[t] # "unlink" THEN {}
      ELSE {[s EXCEPT !.prev = [@ EXCEPT ![n] = p], !.next = [@ EXCEPT ![p] = n],
                      !.lock[under] = Nobody, !.at[t] = "out"]}
RemovesUnder == [q \in Queues |-> "w_wait"]

\* FIFO_CLEAR empties the device and wakes nobody; poll; the signal of ch9 and ch12.
Clear(s) == IF s.mutex = Nobody THEN {[s EXCEPT !.mem = <<>>]} ELSE {}
PollMask(s) == (IF s.mem # <<>> THEN {"POLLIN"} ELSE {})
                 \cup (IF Len(s.mem) # SIZE THEN {"POLLOUT"} ELSE {})
Fasync(s, file, on) == [s EXCEPT !.async = IF on THEN @ \cup {file} ELSE @ \ {file}]
=============================================================================
