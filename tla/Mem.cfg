SPECIFICATION FairSpec
CONSTANTS
  t1 = t1
  t2 = t2
  t3 = t3
  f1 = f1
  f2 = f2
  NoTask = NoTask
  Task = {t1, t2, t3}
  File = {f1, f2}
  fileOf <- MCFiles
  Readers = {t1}
  Writers = {t2, t3}
  Seekers = {t1, t3}
  Clearers = {t2}
  Faulting = {t1, t3}
  SIZE = 2
  Sizes = {1, 3}
  Positions = {}
  Offsets <- MCOffsets
  UintRange = 4
  LoffMax = 7
  MaxWrites = 2
INVARIANTS WritesDoNotMix PositionInDevice
PROPERTIES OnlyFarWritesKeepMutex CallsReturn
CHECK_DEADLOCK FALSE
