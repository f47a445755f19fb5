SPECIFICATION Spec
CONSTANTS
  t1 = t1
  t2 = t2
  t3 = t3
  f1 = f1
  f2 = f2
  f3 = f3
  NoTask = NoTask
  Task = {t1, t2, t3}
  File = {f1, f2, f3}
  fileOf <- MCOwnFiles
  Readers = {t1}
  Writers = {t2, t3}
  Seekers = {}
  Clearers = {}
  Faulting = {}
  SIZE = 2
  Sizes = {1, 3}
  Positions = {1}
  Offsets <- MCNoOffsets
  UintRange = 4
  LoffMax = 7
  MaxWrites = 2
INVARIANTS WritesDoNotMix
