---------------------------- MODULE MCGlobalFifo ----------------------------
(***************************************************************************)
(* What the wrong lock does to the wait queues of globalfifo, as facts     *)
(* about the states two readers and a writer reach.  No state of its own.  *)
(***************************************************************************)
EXTENDS GlobalFifo, TLC

Readers == {"r1", "r2"}
Writers == {"w1"}

QueueOf(t) == IF t \in Readers THEN "r_wait" ELSE "w_wait"

\* The steps of a call, when it removes itself under the lock that locks says.
CallSteps(s, t, locks) ==
  LET q == QueueOf(t)
  IN  Lock(s, t) \cup Add(s, t, q) \cup Link(s, t, q)
        \cup (IF t \in Readers THEN ReadTest(s, t, FALSE, FALSE) ELSE WriteTest(s, t, 1, FALSE, FALSE))
        \cup UNION {Resume(s, t, sig) : sig \in BOOLEAN}
        \cup Remove(s, t, locks[q]) \cup Unlink(s, t, locks[q])

Steps(s, locks) == UNION {CallSteps(s, t, locks) : t \in Readers \cup Writers} \cup Clear(s)
\* All states n steps reach: each step goes on from the states the one before has added.
Reached(locks, n) ==
  LET start == {FifoStart(Readers \cup Writers)}
      R[i \in 0 .. n] ==
        IF i = 0 THEN [all |-> start, new |-> start]
        ELSE LET r   == R[i - 1]
                 new == (UNION {Steps(s, locks) : s \in r.new}) \ r.all
             IN  [all |-> r.all \cup new, new |-> new]
  IN  R[n].all

RightLocks == [q \in Queues |-> q]
Repaired == Reached(RightLocks, 20)
AsWritten == Reached(RemovesUnder, 14)

\* The calls between adding and removing are in their queue, the ones that have ended are
\* not: nobody can be missed by a wake-up, and no stack that is gone is written.
Linked(s, t) == s.at[t] \in {"test", "sleep", "again", "remove"}
Gone(s, t) == s.at[t] = "out"
QueuesSound(s) ==
  \A w \in Queues : s.lock[w] = Nobody =>
    /\ \A t \in Readers \cup Writers :
         Linked(s, t) /\ QueueOf(t) = w /\ s.lock[QueueOf(t)] = Nobody => t \in Walk(s, w)
    /\ \A t \in Walk(s, w) : ~Gone(s, t)

\* With each queue's own lock the queues stay sound; with the one the code takes, a reader
\* that leaves beside another that comes can leave its entry behind, or take the other out.
ASSUME WrongLock ==
  /\ \A s \in Repaired : QueuesSound(s)
  /\ \E s \in AsWritten : \E t \in Readers : Gone(s, t) /\ t \in Walk(s, "r_wait")
  /\ \E s \in AsWritten : \E t \in Readers :
       s.at[t] = "sleep" /\ t \notin Walk(s, "r_wait") /\ s.lock["r_wait"] = Nobody

\* Clearing makes room and wakes nobody: a writer sleeps in front of an empty device.
ASSUME ClearWakesNobody ==
  \E s \in Repaired : s.at["w1"] = "sleep" /\ "w1" \notin s.woken
                                       /\ PollMask(s) = {"POLLOUT"}

\* Every way out of a call lets go of the mutex; the ones that fail move no byte.
ASSUME WaysOut ==
  LET s0 == [FifoStart(Readers \cup Writers) EXCEPT !.at["r1"] = "test", !.mutex = "r1"]
      s1 == [s0 EXCEPT !.mem = <<7>>]
  IN  /\ \A s \in ReadTest(s0, "r1", TRUE, FALSE) : s.mutex = Nobody /\ s.ret["r1"] = "EAGAIN"
      /\ \A s \in ReadTest(s1, "r1", FALSE, TRUE) : s.mutex = Nobody /\ s.mem = <<7>>
      /\ \A s \in ReadTest(s1, "r1", FALSE, FALSE) : s.mutex = Nobody /\ s.mem = <<>>
      /\ Fasync(Fasync(s0, "f", TRUE), "f", FALSE) = s0
=============================================================================
