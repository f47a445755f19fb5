----------------------------- MODULE Lifecycle ------------------------------
(***************************************************************************)
(* How a kernel module acquires what it needs when it is loaded, what it   *)
(* gives back when a step of that fails, and when it is unloaded.          *)
(*                                                                         *)
(* A driver is the sequence of its steps and of the releases of its exit.  *)
(* Every step that can fail may fail, independently of the others, so that *)
(* Report collects what any run of init, and of init and exit, can do.     *)
(***************************************************************************)
EXTENDS Integers, SequencesExt, FiniteSets, TLC

End == 1000   \* more steps than any init has: a failure there ends it

\* kfree(p); if (p) kfree(p); if (p) { kfree(p); p = NULL; }; if (q) kfree(p).
Release(r, test, reset) == [res |-> r, test |-> test, reset |-> reset]
Free(rs) == [k \in DOMAIN rs |-> Release(rs[k], "", FALSE)]
FreeIf(rs) == [k \in DOMAIN rs |-> Release(rs[k], rs[k], FALSE)]
FreeReset(rs) == [k \in DOMAIN rs |-> Release(rs[k], rs[k], TRUE)]
Under(q, rs) == [k \in DOMAIN rs |-> Release(rs[k], q, FALSE)]

\* A step gets a resource.  When it fails, undo is released and so many of the steps
\* that follow are left out.  It has to fail where needs has a set none of which is held.
Step(r, fails, undo, skip) ==
  [get |-> r, public |-> FALSE, fails |-> fails, undo |-> undo, skip |-> skip,
   free |-> <<>>, needs |-> {}]
Have(r) == Step(r, FALSE, <<>>, 0)             \* cannot fail
Take(r, undo) == Step(r, TRUE, undo, End)      \* init fails
Lax(r) == Step(r, TRUE, <<>>, 0)               \* the failure is only reported, or not looked at
Skip(r, undo, n) == Step(r, TRUE, undo, n)
Drop(releases) == [Have("") EXCEPT !.free = releases]
Need(needs, undo) == [Have("") EXCEPT !.undo = undo, !.skip = End, !.needs = needs]

\* From this step on others can call the driver: a device, an interrupt, a proc entry.
Public(step) == [step EXCEPT !.public = TRUE]

\* The resources of device number i, and a sequence for every device.
Dev(r, i) == r \o ToString(i)
ForEach(n, Seqs(_)) == FlattenSeq([i \in 1 .. n |-> Seqs(i)])

\* uses: pairs of a public resource and what its handlers rely on.
Driver(steps, exit, uses) == [steps |-> steps, exit |-> exit, uses |-> uses]

-----------------------------------------------------------------------------
\* held, and seen: the pointers that are not NULL.
Start == {[skip |-> 0, held |-> {}, seen |-> {}, bad |-> {}, early |-> {}, late |-> {}]}

Released(d, s, releases) ==
  FoldLeft(LAMBDA t, x :
    IF x.test # "" /\ x.test \notin t.seen THEN t
    ELSE [t EXCEPT !.held = @ \ {x.res},
                   !.seen = IF x.reset THEN @ \ {x.res} ELSE @,
                   !.bad = IF x.res \in t.held THEN @ ELSE @ \cup {x.res},
                   !.late = @ \cup {u \in d.uses : u[2] = x.res /\ u[1] \in t.held}],
    s, releases)

Acquired(d, s, step) ==
  LET t == Released(d, s, step.free) IN
  IF step.get = "" THEN t
  ELSE [t EXCEPT !.held = @ \cup {step.get}, !.seen = @ \cup {step.get},
          !.early = @ \cup {u \in d.uses : step.public /\ u[1] = step.get /\ u[2] \notin t.held}]
Failed(d, s, step) == [Released(d, s, step.undo) EXCEPT !.skip = step.skip]

Loads(d) ==
  FoldLeft(LAMBDA S, step :
    UNION {IF s.skip > 0 THEN {[s EXCEPT !.skip = @ - 1]}
           ELSE IF \E N \in step.needs : N \cap s.held = {} THEN {Failed(d, s, step)}
           ELSE {Acquired(d, s, step)} \cup (IF step.fails THEN {Failed(d, s, step)} ELSE {}) : s \in S},
    Start, d.steps)

Ends(d) == {IF s.skip > 0 THEN s ELSE Released(d, s, d.exit) : s \in Loads(d)}

\* What is left when init has failed or exit has run; what is released that is not
\* held; who could be called before what it relies on was there, or after it had gone.
Report(d) ==
  LET S == Ends(d) IN
  [leaks |-> UNION {s.held : s \in S}, bad |-> UNION {s.bad : s \in S},
   early |-> UNION {s.early : s \in S}, late |-> UNION {s.late : s \in S}]
Clean == [leaks |-> {}, bad |-> {}, early |-> {}, late |-> {}]
=============================================================================
