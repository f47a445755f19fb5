SPECIFICATION Spec
CONSTANTS
  t1 = t1
  t2 = t2
  t3 = t3
  Task = {t1}
  Readers = {t1}
  Writers = {t1}
  Commanders = {}
  Words = 2
  Segments <- MCMixed
  Capacity = 3
  MaxSector = 2
  MaxWrites = 2
  Modes = {"QUEUE"}
INVARIANT InPlace
