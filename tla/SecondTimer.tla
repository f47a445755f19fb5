---------------------------- MODULE SecondTimer -----------------------------
(***************************************************************************)
(* The seconds device, code/second/second.c: every open arms the one timer *)
(* of the device, its handler counts a second and arms it again, a read    *)
(* returns the count, a close disarms the timer.                           *)
(*                                                                         *)
(* Calls of several tasks interleave between any two statements that touch *)
(* the device.  The handler runs in the timer interrupt: on a machine with *)
(* one CPU no task runs while it does, on SMP they run beside it.          *)
(* The clock counts jiffies, HZ of them a second; the interrupt is prompt: *)
(* no jiffy passes while a timer that is due has not been handled.  Two    *)
(* entries of the wheel with one due time are one entry here.              *)
(*                                                                         *)
(* The driver keeps neither a second opener out nor the handler away from  *)
(* release, and either ruins the timer.  The model lets both happen and    *)
(* records them in races; the properties say what holds until then.        *)
(***************************************************************************)
EXTENDS Integers

CONSTANTS
  Task,        \* the tasks that open the device
  SMP,         \* whether tasks run beside the handler
  HZ,          \* jiffies a second
  MaxTime      \* the bound on the clock

ASSUME SecondAssumption ==
  /\ SMP \in BOOLEAN
  /\ HZ \in Nat \ {0} /\ MaxTime \in Nat

NotPending == -1

VARIABLES
  module,    \* "out", "in", or "mute": loaded, but cdev_add failed
  pc,        \* per task, how far it is with open and release
  now,       \* jiffies
  links,     \* the places in the timer wheel that lead to the timer, by due time
  home,      \* the place the timer itself knows of (entry.pprev), or NotPending
  expires,   \* s_timer.expires
  handler,   \* how far the handler is
  counter,   \* second_devp->counter
  since,     \* per task, when its open returned
  off,       \* per task, by how many jiffies its last read was off
  races      \* what has raced: "open" with another opener, "close" with the handler

vars == <<module, pc, now, links, home, expires, handler, counter, since, off, races>>

Init ==
  /\ module = "out"
  /\ pc = [t \in Task |-> "closed"]
  /\ now = 0
  /\ links = {} /\ home = NotPending /\ expires = 0
  /\ handler = "idle"
  /\ counter = 0
  /\ since = [t \in Task |-> 0]
  /\ off = [t \in Task |-> 0]
  /\ races = {}

-----------------------------------------------------------------------------
(***************************************************************************)
(* The kernel's timers.  A timer is linked into the wheel at one place, so *)
(* long as nobody initialises it while it is: init_timer forgets the link  *)
(* but leaves it in the wheel.                                             *)
(***************************************************************************)
InitTimer == home' = NotPending /\ UNCHANGED links

\* add_timer, of a timer that is not pending, and mod_timer, of any.
ModTimer(due) ==
  /\ links' = (links \ {home}) \cup {due}
  /\ home' = due

DelTimer ==
  /\ links' = links \ {home}
  /\ home' = NotPending

\* Tasks run while the handler does only if there is another CPU.
TasksRun == handler = "idle" \/ SMP

Goto(t, l) == pc' = [pc EXCEPT ![t] = l]

\* A call that starts under the condition p takes part in a race of this kind.
Races(kind, p) == races' = IF p THEN races \cup {kind} ELSE races

\* Somebody else is opening the device, or has it open.
SecondOpener == \E u \in Task : pc[u] # "closed"

\* The handler runs, on another CPU than the caller.
BesideHandler == handler # "idle"

-----------------------------------------------------------------------------
(***************************************************************************)
(* Faults.  No part of the driver: ways in which a step below could be     *)
(* wrong, each of which breaks a property.                                 *)
(***************************************************************************)
\* The handler sets the timer for two seconds.
HandlerRearmLate ==
  /\ handler = "fired"
  /\ ModTimer(now + 2 * HZ)
  /\ handler' = "armed"
  /\ UNCHANGED <<module, pc, now, expires, counter, since, off, races>>

\* The handler does not arm the timer again.
HandlerRearmNot ==
  /\ handler = "fired"
  /\ handler' = "armed"
  /\ UNCHANGED <<module, pc, now, links, home, expires, counter, since, off, races>>

\* release does not call del_timer.
ReleaseKeepsTimer(t) ==
  /\ pc[t] = "open" /\ TasksRun
  /\ Goto(t, "closed")
  /\ Races("close", BesideHandler)
  /\ UNCHANGED <<module, now, links, home, expires, handler, counter, since, off>>

\* open sets the timer for two seconds.
OpenInitLate(t) ==
  /\ pc[t] = "closed" /\ module = "in" /\ TasksRun
  /\ InitTimer
  /\ Races("open", SecondOpener)
  /\ expires' = now + 2 * HZ
  /\ Goto(t, "o_add")
  /\ UNCHANGED <<module, now, handler, counter, since, off>>

-----------------------------------------------------------------------------
(***************************************************************************)
(* The module.  The reference an open file holds keeps it from unloading.  *)
(***************************************************************************)
\* kzalloc clears the device; an error of cdev_add is only printed.
Load ==
  /\ module = "out" /\ TasksRun
  /\ module' \in {"in", "mute"}
  /\ counter' = 0 /\ expires' = 0 /\ home' = NotPending
  /\ UNCHANGED <<pc, now, links, handler, since, off, races>>

\* cdev_del and kfree; the timer is not looked at.
Unload ==
  /\ module \in {"in", "mute"} /\ TasksRun
  /\ \A t \in Task : pc[t] = "closed"
  /\ module' = "out"
  /\ home' = NotPending
  /\ UNCHANGED <<pc, now, links, expires, handler, counter, since, off, races>>

-----------------------------------------------------------------------------
(***************************************************************************)
(* The calls.                                                              *)
(***************************************************************************)
OpenInit(t) ==
  /\ pc[t] = "closed" /\ module = "in" /\ TasksRun
  /\ InitTimer
  /\ Races("open", SecondOpener)
  /\ expires' = now + HZ
  /\ Goto(t, "o_add")
  /\ UNCHANGED <<module, now, handler, counter, since, off>>

\* add_timer has a BUG_ON a timer that is pending: the task dies in open, and
\* the module's reference with it.
OpenAdd(t) ==
  /\ pc[t] = "o_add" /\ TasksRun
  /\ IF home = NotPending
     THEN ModTimer(expires) /\ Goto(t, "o_reset")
     ELSE Goto(t, "dead") /\ UNCHANGED <<links, home>>
  /\ UNCHANGED <<module, now, expires, handler, counter, since, off, races>>

OpenReset(t) ==
  /\ pc[t] = "o_reset" /\ TasksRun
  /\ counter' = 0
  /\ since' = [since EXCEPT ![t] = now]
  /\ off' = [off EXCEPT ![t] = 0]
  /\ Goto(t, "open")
  /\ UNCHANGED <<module, now, links, home, expires, handler, races>>

\* A read whose put_user fails tells its caller nothing.
Read(t) ==
  /\ pc[t] = "open" /\ TasksRun
  /\ off' = [off EXCEPT ![t] = counter * HZ - (now - since[t])]
  /\ UNCHANGED <<module, pc, now, links, home, expires, handler, counter, since, races>>

Release(t) ==
  /\ pc[t] = "open" /\ TasksRun
  /\ DelTimer
  /\ Goto(t, "closed")
  /\ Races("close", BesideHandler)
  /\ UNCHANGED <<module, now, expires, handler, counter, since, off>>

-----------------------------------------------------------------------------
(***************************************************************************)
(* The clock and the handler.                                              *)
(***************************************************************************)
Tick ==
  /\ now < MaxTime
  /\ handler = "idle" /\ \A due \in links : due > now
  /\ now' = now + 1
  /\ UNCHANGED <<module, pc, links, home, expires, handler, counter, since, off, races>>

\* The interrupt takes a timer that is due out of the wheel and marks it as not
\* pending, at whichever place it has found it.
Expire ==
  /\ handler = "idle"
  /\ \E due \in links : due <= now /\ links' = links \ {due}
  /\ home' = NotPending
  /\ handler' = "fired"
  /\ UNCHANGED <<module, pc, now, expires, counter, since, off, races>>

HandlerRearm ==
  /\ handler = "fired"
  /\ ModTimer(now + HZ)
  /\ handler' = "armed"
  /\ UNCHANGED <<module, pc, now, expires, counter, since, off, races>>

HandlerCount ==
  /\ handler = "armed"
  /\ counter' = counter + 1
  /\ handler' = "idle"
  /\ UNCHANGED <<module, pc, now, links, home, expires, since, off, races>>

Opening(t) == OpenInit(t) \/ OpenAdd(t) \/ OpenReset(t)
Interrupt == Expire \/ HandlerRearm \/ HandlerCount

Next ==
  \/ Load \/ Unload \/ Tick \/ Interrupt
  \/ \E t \in Task : Opening(t) \/ Read(t) \/ Release(t)

Spec == Init /\ [][Next]_vars

\* Time goes on, and the interrupt comes.
FairSpec == Spec /\ WF_vars(Tick) /\ WF_vars(Interrupt)

-----------------------------------------------------------------------------
Calling == {"o_add", "o_reset", "open"}

TypeOK ==
  /\ module \in {"out", "in", "mute"}
  /\ pc \in [Task -> {"closed", "dead"} \cup Calling]
  /\ now \in 0 .. MaxTime
  /\ links \subseteq 0 .. MaxTime + HZ
  /\ home \in links \cup {NotPending}
  /\ expires \in 0 .. MaxTime + HZ
  /\ handler \in {"idle", "fired", "armed"}
  /\ counter \in Nat
  /\ since \in [Task -> 0 .. MaxTime]
  /\ off \in [Task -> Int]
  /\ races \subseteq {"open", "close"}

\* Until an open races with another opener or a close with the handler, the device
\* is there for every call and every run of the handler: unloading does not look at
\* the timer (second.c:110-115), so the last close must have disarmed it (line 45)
\* although the handler arms it again by itself (line 24).
DeviceOutlivesTimer ==
  /\ races = {}
  /\ links # {} \/ handler # "idle" \/ (\E t \in Task : pc[t] \in Calling)
  => module = "in"

\* Until then the wheel never leads to the timer by two ways, and never by one the
\* timer does not know of: open initialises a timer nobody uses (line 32).
TimerLinkedOnce == races = {} => links \subseteq {home}

\* Until then the timer is armed, or its handler runs, only while somebody has the
\* device open (lines 36 and 45).
ArmedOnlyOpen ==
  races = {} /\ (links # {} \/ handler # "idle")
  => \E t \in Task : pc[t] \in {"o_reset", "open"}

\* Until then what a task reads is the number of seconds since it opened the device
\* (second_test.c:20): the timer counts from the moment it is armed (lines 34 and
\* 36), open returns later (lines 38-40), beside the handler on SMP, and the clock
\* may tick between the two, so a read may be a second off, but the error never
\* grows (line 24).
SecondsAfterOpen == races = {} => \A t \in Task : off[t] \in -HZ .. HZ

\* While a task keeps the device open the count goes on, unless a race has
\* happened or the model's clock ends before the next second does (line 24).
CountGoesOn ==
  \A t \in Task : \A n \in 0 .. MaxTime :
    pc[t] = "open" /\ counter = n /\ now + HZ <= MaxTime
    ~> pc[t] # "open" \/ counter # n \/ races # {}

\* Until then no open finds the timer armed by somebody else: add_timer's BUG_ON
\* would kill the task (line 36).
OpenSurvives == races = {} => \A t \in Task : pc[t] # "dead"

-----------------------------------------------------------------------------
(***************************************************************************)
(* The inductive invariant behind the five safety properties, for one CPU  *)
(* and for several: what holds until a race.                               *)
(***************************************************************************)
OneAtATime ==
  /\ \A t, u \in Task : pc[t] # "closed" /\ pc[u] # "closed" => t = u
  /\ \A t \in Task : pc[t] # "closed" => pc[t] # "dead" /\ module = "in"

\* Until add_timer and after del_timer there is no timer.
TimerOff ==
  (\A t \in Task : pc[t] \in {"closed", "o_add"})
    => links = {} /\ home = NotPending /\ handler = "idle"

\* In between the timer is linked or has just been taken out by its handler.
TimerOn ==
  /\ \A t \in Task : pc[t] = "o_add" => expires <= now + HZ
  /\ \A t \in Task : pc[t] \in {"o_reset", "open"} =>
       IF handler = "fired" THEN links = {} /\ home = NotPending
       ELSE links = {home} /\ home # NotPending
  /\ home <= now + HZ
  /\ handler = "armed" => home = now + HZ

\* Open has just returned, and the timer was due before it did.
DueAtOpen(t) == home <= now /\ since[t] = now /\ counter = 0

\* When the handler runs the count it finds is behind by a second at most; until
\* the next run the timer's due time is ahead of the count by a second at most.
CountInStep ==
  \A t \in Task : pc[t] = "open" =>
    LET counted == counter * HZ IN
    IF handler = "idle"
    THEN DueAtOpen(t) \/ (home >= now /\ home - counted \in since[t] .. since[t] + HZ)
    ELSE now - counted \in since[t] .. since[t] + HZ

\* What holds until a race.
Calm == OneAtATime /\ TimerOff /\ TimerOn /\ CountInStep

\* What Spec keeps true.
IInv == TypeOK /\ SecondsAfterOpen /\ (races = {} => Calm)
=============================================================================
