SPECIFICATION Spec
CONSTANTS
  t1 = t1
  t2 = t2
  t3 = t3
  Task = {t1, t2}
  Readers = {t1, t2}
  Writers = {t1, t2}
  Words = 2
  Segments <- MCSegments
  MaxSector = 2
  MaxWrites = 2
  CapacityMb = {1, 2}
  MbSectors = 3
  UintRange = 6
INVARIANTS TypeOK InPlace NoStaleData
