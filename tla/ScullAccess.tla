---------------------------- MODULE ScullAccess -----------------------------
(***************************************************************************)
(* The four devices of code/examples/scull/access.c, which are scull       *)
(* devices with an open and a release of their own.  s is the state of one *)
(* of them: available for the first, count and owner for the two that go   *)
(* by user, and for every task what it is doing: "out", "open" (it has the *)
(* file), "busy" (it is in a read or write and has the semaphore of the    *)
(* device), "asleep" or "woken" in an open, or "undo", between the two     *)
(* steps of an open that is refused.  trimmed is set when an open for      *)
(* writing trims: with the semaphore it would have to wait for who is      *)
(* busy, and these do not take it.  A user has a uid, an euid and may be   *)
(* root.                                                                   *)
(***************************************************************************)
EXTENDS Integers, FiniteSets

Closed(tasks) == [available |-> 1, count |-> 0, owner |-> "none", races |-> FALSE,
                  doing |-> [t \in tasks |-> "out"], ret |-> [t \in tasks |-> "none"]]

Busy(s) == {t \in DOMAIN s.doing : s.doing[t] = "busy"}
Holders(s) == {t \in DOMAIN s.doing : s.doing[t] \in {"open", "busy"}}

\* The end of every open: trims when it is for writing only, whoever is busy.
Opened(s, t, mode) ==
  [s EXCEPT !.doing[t] = "open", !.ret[t] = "ok",
            !.races = @ \/ (mode = "O_WRONLY" /\ Busy(s) # {})]

\* A read or write of a task that has the file: it takes the semaphore and lets it go.
Begin(s, t) == IF s.doing[t] = "open" /\ Busy(s) = {} THEN {[s EXCEPT !.doing[t] = "busy"]} ELSE {}
End(s, t)   == IF s.doing[t] = "busy" THEN {[s EXCEPT !.doing[t] = "open"]} ELSE {}

\* scull_s_open: atomic_dec_and_test and, when that fails, atomic_inc, with anything
\* between the two.
SingleOpen(s, t, mode) ==
  IF s.available = 1 THEN Opened([s EXCEPT !.available = 0], t, mode)
  ELSE [s EXCEPT !.available = @ - 1, !.doing[t] = "undo"]
SingleUndo(s, t) == [s EXCEPT !.available = @ + 1, !.doing[t] = "out", !.ret[t] = "EBUSY"]
SingleRelease(s, t) == [s EXCEPT !.available = @ + 1, !.doing[t] = "out"]

\* The two devices that go by user share the test.  The second does not look at the count
\* in the same expression, but means the same.
Allowed(s, u) == s.count = 0 \/ s.owner \in {u.uid, u.euid} \/ u.root
Grab(s, u) == [s EXCEPT !.count = @ + 1, !.owner = IF s.count = 0 THEN u.uid ELSE @]

UserOpen(s, t, u, mode) ==
  IF Allowed(s, u) THEN Opened(Grab(s, u), t, mode)
  ELSE [s EXCEPT !.doing[t] = "out", !.ret[t] = "EBUSY"]
UserRelease(s, t) == [s EXCEPT !.count = @ - 1, !.doing[t] = "out"]

\* scull_w_open sleeps; the last release wakes everybody, after it has let go of the
\* lock: WaitRelease and WaitWake are two steps ("waking" is a task between them).
WaitAvailable(s, u) == Allowed(s, u)
WaitOpen(s, t, u, mode, nonblock) ==
  IF WaitAvailable(s, u) THEN Opened(Grab(s, u), t, mode)
  ELSE IF nonblock THEN [s EXCEPT !.doing[t] = "out", !.ret[t] = "EAGAIN"]
  ELSE [s EXCEPT !.doing[t] = "asleep"]
WaitRelease(s, t) ==
  [s EXCEPT !.count = @ - 1, !.doing[t] = IF s.count = 1 THEN "waking" ELSE "out"]
WaitWake(s, t) ==
  [s EXCEPT !.doing = [x \in DOMAIN s.doing |->
     IF x = t THEN "out" ELSE IF s.doing[x] = "asleep" THEN "woken" ELSE s.doing[x]]]

\* The device of a terminal: found in the list or made, and never taken away.  devices
\* are those there are, a task without a terminal has none.
CloneLookfor(devices, tty, mem) ==
  IF tty \in devices THEN [devices |-> devices, found |-> TRUE]
  ELSE [devices |-> IF mem = 0 THEN devices ELSE devices \cup {tty}, found |-> mem > 0]
CloneOpen(devices, s, t, tty, mode, mem) ==
  LET l == CloneLookfor(devices, tty, mem)
  IN  IF tty = "none" THEN [devices |-> devices, s |-> [s EXCEPT !.ret[t] = "EINVAL"]]
      ELSE IF ~l.found THEN [devices |-> l.devices, s |-> [s EXCEPT !.ret[t] = "ENOMEM"]]
      ELSE [devices |-> l.devices, s |-> Opened(s, t, mode)]
=============================================================================
