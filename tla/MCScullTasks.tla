---------------------------- MODULE MCScullTasks ----------------------------
(***************************************************************************)
(* What the pipe and the access-controlled devices of scull do when        *)
(* several tasks use them, as facts about all the states their steps       *)
(* reach.  No state of their own.                                          *)
(***************************************************************************)
EXTENDS ScullPipe, ScullAccess, TLC

\* The states at most n steps away from some: Step gives the successors of one.
Within(n, start, Step(_)) ==
  LET R[i \in 0 .. n] ==
        IF i = 0 THEN start ELSE LET r == R[i - 1] IN r \cup UNION {Step(s) : s \in r}
  IN  R[n]

(***************************************************************************)
(* The pipe: a reader and two writers.                                     *)
(***************************************************************************)
PTasks == {"r", "w", "v"}
PipeStart(size) ==
  LET d == PipeOpen(PipeOpen(Pipe0, {"r"}, size, 1).dev, {"w"}, size, 1).dev
  IN  [dev |-> d, doing |-> [t \in PTasks |-> "out"], ret |-> [t \in PTasks |-> 0],
       got |-> <<>>, put |-> <<>>, told |-> {}]
Free(s) == {t \in PTasks : s.doing[t] \in {"out", "woken"}}

\* Two bytes at a time, each byte with its number; six bytes in all.
PipeSteps(s) ==
  LET k == Len(s.put)
  IN  {PipeRead(s, t, 2, FALSE) : t \in Free(s) \cap {"r"}}
        \cup {PipeWrite(s, t, <<k + 1, k + 2>>, FALSE) : t \in IF k < 4 THEN Free(s) \ {"r"} ELSE {}}
PipeStates == Within(9, {PipeStart(3)}, PipeSteps)

Asleep(s, q) == {t \in PTasks : s.doing[t] = q}

\* What is read is what was written, in its order; nobody sleeps on what has come.
ASSUME PipeIsFifo ==
  \A s \in PipeStates :
    /\ ~s.dev.harm
    /\ \A i \in DOMAIN s.got : s.got[i] = i
    /\ Len(s.put) - Len(s.got) = s.dev.size - 1 - SpaceFree(s.dev)
    /\ Asleep(s, "inq") # {} => s.dev.rp = s.dev.wp
    /\ Asleep(s, "outq") # {} => SpaceFree(s.dev) = 0
    /\ ("POLLIN" \in PipePoll(s.dev)) = (Len(s.put) > Len(s.got))

\* An open puts both positions back: what was written is lost, and a writer that slept for
\* space sleeps on with the whole buffer free; with the reader asleep too nobody moves.
ASSUME ReopenStopsAll ==
  LET Reopened(s) == [s EXCEPT !.dev = PipeOpen(s.dev, {"r"}, 3, 1).dev]
      after == Within(2, {Reopened(s) : s \in PipeStates}, PipeSteps)
  IN  /\ \E s \in after : Asleep(s, "inq") # {} /\ Asleep(s, "outq") # {} /\ SpaceFree(s.dev) > 0
      /\ \E s \in after : s.dev.rp = s.dev.wp /\ Len(s.put) > Len(s.got)

\* The last writer goes and the reader sleeps on: there is no end of the file.
ASSUME NoEndOfPipe ==
  \A s \in PipeStates :
    LET gone == PipeRelease(s.dev, {"w"}, "f")
    IN  Asleep(s, "inq") # {} => gone.writers = 0 /\ ~gone.none /\ gone.rp = gone.wp

\* Another size is taken over by the next open, the memory stays: a larger one is written
\* and read past its end.  A size of one never has space, one of zero always has some and
\* takes nothing.
ASSUME NewSize ==
  LET grown == [PipeStart(2) EXCEPT !.dev = PipeOpen(@, {"r"}, 4, 1).dev]
      Write4(s) == PipeWrite(s, "w", <<1, 2, 3>>, FALSE)
      One == PipeWrite(PipeStart(1), "w", <<1>>, FALSE)
      Nil == PipeWrite(PipeStart(0), "w", <<1>>, FALSE)
  IN  /\ Write4(grown).dev.harm
      /\ One.doing["w"] = "outq" /\ PipePoll(One.dev) = {}
      /\ Nil.doing["w"] = "out" /\ Nil.ret["w"] = 0 /\ PipePoll(Nil.dev) = {"POLLOUT"}

\* Memory is there while and only while somebody has the pipe open, and a file that is
\* closed is not signalled.
ASSUME OpensAndCloses ==
  LET d == PipeFasync(PipeStart(3).dev, "f", TRUE)
      half == PipeRelease(d, {"r"}, "f")
      none == PipeRelease(half, {"w"}, "g")
  IN  /\ ~d.none /\ ~half.none /\ none.none /\ half.async = {}
      /\ PipeWrite([PipeStart(3) EXCEPT !.dev = d], "w", <<1>>, TRUE).told = {"f"}
      /\ PipeOpen(none, {"r"}, 3, 0) = [dev |-> none, ret |-> NoMemory]
      /\ PipeShown(none) = [size |-> 3, rp |-> 0, wp |-> 0, readers |-> 0, writers |-> 0]
      /\ PipeRead(PipeStart(3), "r", 1, TRUE).ret["r"] = TryAgain

(***************************************************************************)
(* The devices with an open of their own: three tasks, two of one user.    *)
(***************************************************************************)
ATasks == {"a", "b", "c"}
User == [t \in ATasks |-> IF t = "c" THEN [uid |-> "u2", euid |-> "u2", root |-> FALSE]
                          ELSE [uid |-> "u1", euid |-> "u1", root |-> FALSE]]
Modes == {"O_WRONLY", "O_RDWR"}
At(s, t, what) == s.doing[t] \in what
BySemaphore(s) == UNION {Begin(s, t) \cup End(s, t) : t \in ATasks}

SingleSteps(s) ==
  {SingleOpen(s, t, m) : t \in {x \in ATasks : At(s, x, {"out"})}, m \in Modes}
    \cup {SingleUndo(s, t) : t \in {x \in ATasks : At(s, x, {"undo"})}}
    \cup {SingleRelease(s, t) : t \in {x \in ATasks : At(s, x, {"open"})}} \cup BySemaphore(s)
SingleStates == Within(8, {Closed(ATasks)}, SingleSteps)

\* One task at most has the device, and no trim meets a read or a write.  But a task that
\* is refused holds the device back for as long as its two steps take: another finds it
\* busy when nobody has it.
ASSUME SingleOpens ==
  /\ \A s \in SingleStates :
       /\ Cardinality(Holders(s)) <= 1 /\ ~s.races
       /\ s.available = 1 - Cardinality({t \in ATasks : At(s, t, {"open", "busy", "undo"})})
  /\ \E s \in SingleStates : Holders(s) = {} /\ s.available < 1

UserSteps(s) ==
  {UserOpen(s, t, User[t], m) : t \in {x \in ATasks : At(s, x, {"out"})}, m \in Modes}
    \cup {UserRelease(s, t) : t \in {x \in ATasks : At(s, x, {"open"})}} \cup BySemaphore(s)
UserStates == Within(8, {Closed(ATasks)}, UserSteps)

\* Nobody has the device beside another user, and nobody is refused while it is free; but
\* the trim of a second open of the same user meets the read or write of the first, which
\* the comment of scull_trim says it must not (main.c:57).
ASSUME UserOpens ==
  /\ \A s \in UserStates :
       /\ s.count = Cardinality(Holders(s))
       /\ \A t \in Holders(s) : User[t].uid = s.owner
       /\ \A t \in ATasks : At(s, t, {"out"}) /\ Holders(s) = {} =>
            At(UserOpen(s, t, User[t], "O_RDWR"), t, {"open"})
  /\ \E s \in UserStates : s.races

\* Who did su keeps the device of the user it came from, and root comes in at any time: the
\* owner may be someone who has not got it open, and is then let in beside them.
ASSUME OwnerIsGone ==
  LET su   == [uid |-> "u2", euid |-> "u1", root |-> FALSE]
      s1   == UserOpen(Closed(ATasks), "a", User["a"], "O_RDWR")
      s2   == UserRelease(UserOpen(s1, "c", su, "O_RDWR"), "a")
      s3   == UserOpen(s2, "b", [User["c"] EXCEPT !.root = TRUE], "O_RDWR")
  IN  Holders(s2) = {"c"} /\ s2.owner = "u1" /\ Holders(s3) = {"b", "c"} /\ s3.count = 2

WaitSteps(s) ==
  {WaitOpen(s, t, User[t], m, FALSE) : t \in {x \in ATasks : At(s, x, {"out", "woken"})}, m \in Modes}
    \cup {WaitRelease(s, t) : t \in {x \in ATasks : At(s, x, {"open"})}}
    \cup {WaitWake(s, t) : t \in {x \in ATasks : At(s, x, {"waking"})}} \cup BySemaphore(s)
WaitStates == Within(8, {Closed(ATasks)}, WaitSteps)

\* Who sleeps in an open has another user before it, or somebody about to wake it: no
\* wake-up is lost, though only the last release wakes anybody.
ASSUME WaitOpens ==
  /\ \A s \in WaitStates :
       /\ s.count = Cardinality(Holders(s))
       /\ \A t \in Holders(s) : User[t].uid = s.owner
       /\ \A t \in ATasks : At(s, t, {"asleep"}) =>
            \/ ~WaitAvailable(s, User[t])
            \/ \E x \in ATasks : At(s, x, {"waking"})
  /\ \E s \in WaitStates : s.races
  /\ WaitOpen([UserOpen(Closed(ATasks), "a", User["a"], "O_RDWR") EXCEPT !.owner = "u1"],
              "c", User["c"], "O_RDWR", TRUE).ret["c"] = "EAGAIN"

\* Every terminal has its device, which outlives its tasks; two tasks of one terminal are
\* as unguarded as two of one user.
ASSUME Clones ==
  LET one == CloneOpen({}, Closed(ATasks), "a", "tty1", "O_RDWR", 1)
      two == CloneOpen(one.devices, CHOOSE s \in Begin(one.s, "a") : TRUE, "b", "tty1", "O_WRONLY", 0)
  IN  /\ one.devices = {"tty1"} /\ two.devices = {"tty1"} /\ two.s.races
      /\ CloneOpen({}, Closed(ATasks), "a", "none", "O_RDWR", 1).s.ret["a"] = "EINVAL"
      /\ CloneOpen({}, Closed(ATasks), "a", "tty1", "O_RDWR", 0).s.ret["a"] = "ENOMEM"
=============================================================================
