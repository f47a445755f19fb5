SPECIFICATION FairSpec
CONSTANTS
  t1 = t1
  t2 = t2
  Task = {t1, t2}
  SMP = TRUE
  HZ = 2
  MaxTime = 6
INVARIANTS TypeOK DeviceOutlivesTimer SecondsAfterOpen
PROPERTIES CountGoesOn
CONSTRAINT RacesEarly
CHECK_DEADLOCK FALSE
