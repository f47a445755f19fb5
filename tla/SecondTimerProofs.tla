-------------------------- MODULE SecondTimerProofs -------------------------
(***************************************************************************)
(* Proofs about SecondTimer, on one CPU or several, for any number of      *)
(* tasks, whatever they open and close: for any HZ and however long the    *)
(* clock runs.                                                             *)
(*                                                                         *)
(* The inductive invariant IInv is proved part by part: one lemma per      *)
(* conjunct, one step per action.  What holds until a race is proved of    *)
(* the steps that end without one.  The theorems follow from IInv.         *)
(***************************************************************************)
EXTENDS SecondTimer, TLAPS

\* Every step keeps the types.
LEMMA TypeStep ==
  ASSUME TypeOK, [Next]_vars
  PROVE  TypeOK'
<1> USE SecondAssumption DEF TypeOK, Calling, Goto, InitTimer, ModTimer, DelTimer, NotPending, Races
<1>1. CASE Load
  BY <1>1 DEF Load
<1>2. CASE Unload
  BY <1>2 DEF Unload
<1>3. CASE Tick
  BY <1>3 DEF Tick
<1>4. CASE Expire
  BY <1>4 DEF Expire
<1>5. CASE HandlerRearm
  BY <1>5 DEF HandlerRearm
<1>6. CASE HandlerCount
  BY <1>6 DEF HandlerCount
<1>7. CASE UNCHANGED vars
  BY <1>7 DEF vars
<1>8. ASSUME NEW t \in Task, OpenInit(t)
      PROVE  TypeOK'
  BY <1>8 DEF OpenInit
<1>9. ASSUME NEW t \in Task, OpenAdd(t)
      PROVE  TypeOK'
  BY <1>9 DEF OpenAdd
<1>11. ASSUME NEW t \in Task, OpenReset(t)
      PROVE  TypeOK'
  BY <1>11 DEF OpenReset
<1>12. ASSUME NEW t \in Task, Read(t)
      PROVE  TypeOK'
  BY <1>12 DEF Read
<1>13. ASSUME NEW t \in Task, Release(t)
      PROVE  TypeOK'
  BY <1>13 DEF Release
<1>14. QED
  BY <1>1, <1>2, <1>3, <1>4, <1>5, <1>6, <1>7, <1>8, <1>9, <1>11, <1>12, <1>13
     DEF Next, Opening, Interrupt

\* A race is never forgotten.
LEMMA RacesGrow ==
  ASSUME [Next]_vars
  PROVE  races \subseteq races'
BY DEF Next, Opening, Interrupt, vars, Races, Load, Unload, Tick, Expire, HandlerRearm,
       HandlerCount, OpenInit, OpenAdd, OpenReset, Read, Release

\* Without a race a task that opens the device finds it closed.
LEMMA OpenInitAlone ==
  ASSUME NEW t \in Task, OpenInit(t), races' = {}
  PROVE  \A u \in Task : pc[u] = "closed"
BY DEF OpenInit, Races, SecondOpener

\* Without a race no release meets the handler.
LEMMA ReleaseAlone ==
  ASSUME NEW t \in Task, Release(t), races' = {}
  PROVE  handler = "idle"
BY DEF Release, Races, BesideHandler

\* Before a race nobody finds the timer pending in add_timer.
LEMMA OpenAddArms ==
  ASSUME Calm, NEW t \in Task, OpenAdd(t)
  PROVE  /\ pc[t] = "o_add" /\ \A u \in Task : pc[u] # "closed" => u = t
         /\ links = {} /\ home = NotPending /\ handler = "idle"
         /\ ModTimer(expires)
         /\ Goto(t, "o_reset")
         /\ UNCHANGED <<module, now, expires, handler, counter, since, off>>
<1>1. pc[t] = "o_add" /\ \A u \in Task : pc[u] # "closed" => u = t
  BY DEF Calm, OneAtATime, OpenAdd
<1>2. links = {} /\ home = NotPending /\ handler = "idle"
  BY <1>1 DEF Calm, TimerOff
<1>3. QED
  BY <1>1, <1>2 DEF OpenAdd

\* Every step without a race leaves the tasks taking turns, and none dies.
LEMMA TurnsStep ==
  ASSUME TypeOK, Calm, [Next]_vars, races' = {}
  PROVE  OneAtATime'
<1> USE SecondAssumption DEF Calm, TypeOK, OneAtATime, TimerOff, Calling, TasksRun, Goto
<1>1. CASE Load
  BY <1>1 DEF Load
<1>2. CASE Unload
  BY <1>2 DEF Unload
<1>3. CASE Tick
  BY <1>3 DEF Tick
<1>4. CASE Expire
  BY <1>4 DEF Expire
<1>5. CASE HandlerRearm
  BY <1>5 DEF HandlerRearm
<1>6. CASE HandlerCount
  BY <1>6 DEF HandlerCount
<1>7. CASE UNCHANGED vars
  BY <1>7 DEF vars
<1>8. ASSUME NEW t \in Task, OpenInit(t)
      PROVE  OneAtATime'
  <2>1. \A u \in Task : pc[u] = "closed"
    BY <1>8, OpenInitAlone
  <2>2. QED
    BY <1>8, <2>1 DEF OpenInit
<1>9. ASSUME NEW t \in Task, OpenAdd(t)
      PROVE  OneAtATime'
  BY <1>9, OpenAddArms
<1>11. ASSUME NEW t \in Task, OpenReset(t)
      PROVE  OneAtATime'
  BY <1>11 DEF OpenReset
<1>12. ASSUME NEW t \in Task, Read(t)
      PROVE  OneAtATime'
  BY <1>12 DEF Read
<1>13. ASSUME NEW t \in Task, Release(t)
      PROVE  OneAtATime'
  <2>1. handler = "idle"
    BY <1>13, ReleaseAlone
  <2>2. QED
    BY <1>13, <2>1 DEF Release
<1>14. QED
  BY <1>1, <1>2, <1>3, <1>4, <1>5, <1>6, <1>7, <1>8, <1>9, <1>11, <1>12, <1>13
     DEF Next, Opening, Interrupt

\* Every step that leaves the device closed leaves it without a timer.
LEMMA OffStep ==
  ASSUME TypeOK, Calm, [Next]_vars, races' = {}
  PROVE  TimerOff'
<1> USE SecondAssumption DEF Calm, TypeOK, OneAtATime, TimerOff, TimerOn, Calling, TasksRun, Goto, InitTimer, ModTimer, DelTimer, NotPending
<1>1. CASE Load
  BY <1>1 DEF Load
<1>2. CASE Unload
  BY <1>2 DEF Unload
<1>3. CASE Tick
  BY <1>3 DEF Tick
<1>4. CASE Expire
  BY <1>4 DEF Expire
<1>5. CASE HandlerRearm
  BY <1>5 DEF HandlerRearm
<1>6. CASE HandlerCount
  BY <1>6 DEF HandlerCount
<1>7. CASE UNCHANGED vars
  BY <1>7 DEF vars
<1>8. ASSUME NEW t \in Task, OpenInit(t)
      PROVE  TimerOff'
  <2>1. \A u \in Task : pc[u] = "closed"
    BY <1>8, OpenInitAlone
  <2>2. QED
    BY <1>8, <2>1 DEF OpenInit
<1>9. ASSUME NEW t \in Task, OpenAdd(t)
      PROVE  TimerOff'
  BY <1>9, OpenAddArms
<1>11. ASSUME NEW t \in Task, OpenReset(t)
      PROVE  TimerOff'
  BY <1>11 DEF OpenReset
<1>12. ASSUME NEW t \in Task, Read(t)
      PROVE  TimerOff'
  BY <1>12 DEF Read
<1>13. ASSUME NEW t \in Task, Release(t)
      PROVE  TimerOff'
  <2>1. handler = "idle"
    BY <1>13, ReleaseAlone
  <2>2. QED
    BY <1>13, <2>1 DEF Release
<1>14. QED
  BY <1>1, <1>2, <1>3, <1>4, <1>5, <1>6, <1>7, <1>8, <1>9, <1>11, <1>12, <1>13
     DEF Next, Opening, Interrupt

\* Every step that leaves the device open leaves it with one timer.
LEMMA OnStep ==
  ASSUME TypeOK, Calm, [Next]_vars, races' = {}
  PROVE  TimerOn'
<1> USE SecondAssumption DEF Calm, TypeOK, OneAtATime, TimerOff, TimerOn, Calling, TasksRun, Goto, InitTimer, ModTimer, DelTimer, NotPending
<1>1. CASE Load
  BY <1>1 DEF Load
<1>2. CASE Unload
  BY <1>2 DEF Unload
<1>3. CASE Tick
  BY <1>3 DEF Tick
<1>4. CASE Expire
  BY <1>4 DEF Expire
<1>5. CASE HandlerRearm
  <2>1. now \in Nat /\ HZ \in Nat /\ now + HZ # NotPending
    OBVIOUS
  <2>2. handler = "fired" /\ home' = now + HZ /\ links' = (links \ {home}) \cup {now + HZ}
        /\ handler' = "armed" /\ UNCHANGED <<pc, now, expires>>
    BY <1>5 DEF HandlerRearm
  <2>3. ASSUME NEW t \in Task, pc[t] \in {"o_reset", "open"}
        PROVE  links' = {home'}
    BY <2>2, <2>3
  <2>4. QED
    BY <2>1, <2>2, <2>3
<1>6. CASE HandlerCount
  BY <1>6 DEF HandlerCount
<1>7. CASE UNCHANGED vars
  BY <1>7 DEF vars
<1>8. ASSUME NEW t \in Task, OpenInit(t)
      PROVE  TimerOn'
  <2>1. \A u \in Task : pc[u] = "closed"
    BY <1>8, OpenInitAlone
  <2>2. QED
    BY <1>8, <2>1 DEF OpenInit
<1>9. ASSUME NEW t \in Task, OpenAdd(t)
      PROVE  TimerOn'
  <2>1. pc[t] = "o_add" /\ \A u \in Task : pc[u] # "closed" => u = t
    BY <1>9, OpenAddArms
  <2>2. links = {} /\ home = NotPending /\ handler = "idle"
    BY <2>1
  <2>3. expires \in Nat /\ now \in Nat /\ expires <= now + HZ /\ expires # NotPending
    BY <2>1
  <2>4. links' = {expires} /\ home' = expires
    BY <1>9, <2>2, OpenAddArms
  <2>5. handler' = "idle" /\ now' = now /\ expires' = expires
        /\ \A u \in Task : pc'[u] # "o_add"
    BY <1>9, <2>1, <2>2, OpenAddArms
  <2>6. QED
    BY <2>3, <2>4, <2>5
<1>11. ASSUME NEW t \in Task, OpenReset(t)
      PROVE  TimerOn'
  BY <1>11 DEF OpenReset
<1>12. ASSUME NEW t \in Task, Read(t)
      PROVE  TimerOn'
  BY <1>12 DEF Read
<1>13. ASSUME NEW t \in Task, Release(t)
      PROVE  TimerOn'
  <2>1. handler = "idle"
    BY <1>13, ReleaseAlone
  <2>2. QED
    BY <1>13, <2>1 DEF Release
<1>14. QED
  BY <1>1, <1>2, <1>3, <1>4, <1>5, <1>6, <1>7, <1>8, <1>9, <1>11, <1>12, <1>13
     DEF Next, Opening, Interrupt

\* Every step keeps the count in step with the clock.
LEMMA CountStep ==
  ASSUME TypeOK, Calm, [Next]_vars, races' = {}
  PROVE  CountInStep'
<1> USE SecondAssumption DEF Calm, TypeOK, OneAtATime, TimerOff, TimerOn, CountInStep, DueAtOpen, Calling, TasksRun, Goto, InitTimer, ModTimer, DelTimer, NotPending
<1>1. CASE Load
  BY <1>1 DEF Load
<1>2. CASE Unload
  BY <1>2 DEF Unload
<1>3. CASE Tick
  BY <1>3 DEF Tick
<1>4. CASE Expire
  BY <1>4 DEF Expire
<1>5. CASE HandlerRearm
  BY <1>5 DEF HandlerRearm
<1>6. CASE HandlerCount
  BY <1>6 DEF HandlerCount
<1>7. CASE UNCHANGED vars
  BY <1>7 DEF vars
<1>8. ASSUME NEW t \in Task, OpenInit(t)
      PROVE  CountInStep'
  <2>1. \A u \in Task : pc[u] = "closed"
    BY <1>8, OpenInitAlone
  <2>2. QED
    BY <1>8, <2>1 DEF OpenInit
<1>9. ASSUME NEW t \in Task, OpenAdd(t)
      PROVE  CountInStep'
  BY <1>9, OpenAddArms
<1>11. ASSUME NEW t \in Task, OpenReset(t)
      PROVE  CountInStep'
  BY <1>11 DEF OpenReset
<1>12. ASSUME NEW t \in Task, Read(t)
      PROVE  CountInStep'
  BY <1>12 DEF Read
<1>13. ASSUME NEW t \in Task, Release(t)
      PROVE  CountInStep'
  <2>1. handler = "idle"
    BY <1>13, ReleaseAlone
  <2>2. QED
    BY <1>13, <2>1 DEF Release
<1>14. QED
  BY <1>1, <1>2, <1>3, <1>4, <1>5, <1>6, <1>7, <1>8, <1>9, <1>11, <1>12, <1>13
     DEF Next, Opening, Interrupt

\* Every read before a race returns the seconds since open, to a second.
LEMMA ReadStep ==
  ASSUME TypeOK, Calm, SecondsAfterOpen, races = {}, [Next]_vars
  PROVE  SecondsAfterOpen'
<1> USE SecondAssumption DEF Calm, TypeOK, OneAtATime, TimerOn, CountInStep, DueAtOpen, SecondsAfterOpen, TasksRun, Goto
<1>1. CASE Load
  BY <1>1 DEF Load
<1>2. CASE Unload
  BY <1>2 DEF Unload
<1>3. CASE Tick
  BY <1>3 DEF Tick
<1>4. CASE Expire
  BY <1>4 DEF Expire
<1>5. CASE HandlerRearm
  BY <1>5 DEF HandlerRearm
<1>6. CASE HandlerCount
  BY <1>6 DEF HandlerCount
<1>7. CASE UNCHANGED vars
  BY <1>7 DEF vars
<1>8. ASSUME NEW t \in Task, OpenInit(t)
      PROVE  SecondsAfterOpen'
  BY <1>8 DEF OpenInit
<1>9. ASSUME NEW t \in Task, OpenAdd(t)
      PROVE  SecondsAfterOpen'
  BY <1>9, OpenAddArms
<1>11. ASSUME NEW t \in Task, OpenReset(t)
      PROVE  SecondsAfterOpen'
  BY <1>11 DEF OpenReset
<1>12. ASSUME NEW t \in Task, Read(t)
      PROVE  SecondsAfterOpen'
  BY <1>12 DEF Read
<1>13. ASSUME NEW t \in Task, Release(t)
      PROVE  SecondsAfterOpen'
  BY <1>13 DEF Release
<1>14. QED
  BY <1>1, <1>2, <1>3, <1>4, <1>5, <1>6, <1>7, <1>8, <1>9, <1>11, <1>12, <1>13
     DEF Next, Opening, Interrupt

-----------------------------------------------------------------------------
\* Until a race the timer is where the driver thinks it is and the count in step.
THEOREM Invariance == Spec => []IInv
<1>1. Init => IInv
  BY SecondAssumption
     DEF Init, IInv, Calm, TypeOK, OneAtATime, TimerOff, TimerOn, CountInStep,
         SecondsAfterOpen, Calling, NotPending
<1>2. ASSUME IInv, [Next]_vars
      PROVE  IInv'
  <2>1. TypeOK'
    BY <1>2, TypeStep DEF IInv
  <2>2. CASE races' = {}
    <3>1. races = {}
      BY <1>2, <2>2, RacesGrow
    <3>2. TypeOK /\ Calm /\ SecondsAfterOpen
      BY <1>2, <3>1 DEF IInv
    <3>3. Calm'
      BY <1>2, <2>2, <3>2, TurnsStep, OffStep, OnStep, CountStep DEF Calm
    <3>4. SecondsAfterOpen'
      BY <1>2, <3>1, <3>2, ReadStep
    <3>5. QED
      BY <2>1, <3>3, <3>4 DEF IInv
  <2>3. CASE races' # {}
    BY <2>1, <2>3 DEF IInv, SecondsAfterOpen
  <2>4. QED
    BY <2>2, <2>3
<1>3. IInv /\ [Next]_vars => IInv'
  BY <1>2
<1>4. QED
  BY <1>1, <1>3, PTL DEF Spec

\* The types are as declared, also after a race.
THEOREM TypeCorrect == Spec => []TypeOK
BY Invariance, PTL DEF IInv

\* Nothing but an open beside another's, or a close beside the handler, makes the
\* module go away under an armed timer, a running handler or an open file: its exit
\* does not look at the timer.
THEOREM TimerDiesFirst == Spec => []DeviceOutlivesTimer
<1>1. IInv => DeviceOutlivesTimer
  BY DEF IInv, Calm, OneAtATime, TimerOff, TypeOK, Calling, DeviceOutlivesTimer
<1>2. QED
  BY <1>1, Invariance, PTL

\* Without these two races there is one way to the timer, the one del_timer knows.
THEOREM LinkedOnce == Spec => []TimerLinkedOnce
<1>1. IInv => TimerLinkedOnce
  BY DEF IInv, Calm, OneAtATime, TimerOff, TimerOn, TypeOK, Calling, TimerLinkedOnce
<1>2. QED
  BY <1>1, Invariance, PTL

\* Without them a closed device has no timer, on several CPUs as well: the handler
\* that arms the timer again is the only one to fear.
THEOREM ClosedIsQuiet == Spec => []ArmedOnlyOpen
<1>1. IInv => ArmedOnlyOpen
  BY DEF IInv, Calm, OneAtATime, TimerOff, TypeOK, Calling, ArmedOnlyOpen
<1>2. QED
  BY <1>1, Invariance, PTL

\* Without them no open dies in add_timer.
THEOREM OpensSurvive == Spec => []OpenSurvives
<1>1. IInv => OpenSurvives
  BY DEF IInv, Calm, OneAtATime, OpenSurvives
<1>2. QED
  BY <1>1, Invariance, PTL

\* Without them a read is a second off at most, however long the device is open and
\* whatever runs beside the handler.
THEOREM CountsSeconds == Spec => []SecondsAfterOpen
BY Invariance, PTL DEF IInv
=============================================================================
