SPECIFICATION FairSpec
CONSTANTS
  t1 = t1
  t2 = t2
  t3 = t3
  Task = {t1, t2}
  Readers = {t2}
  Writers = {t1,t2}
  Commanders = {t1}
  Words = 2
  Segments <- MCSegments
  Capacity = 4
  MaxSector = 2
  MaxWrites = 2
  Modes = {"QUEUE", "NOQUEUE"}
INVARIANTS EvenInPlace QueueReadsAreWhole StaysInBounds
PROPERTIES RequestsEnd
