SPECIFICATION Spec
CONSTANTS
  t1 = t1
  t2 = t2
  a = a
  b = b
  None = None
  Tasks = {t1, t2}
  Objs = {a, b}
  JSize = 5
  MaxGen = 3
  MaxEntries = 2
  MaxTrans = 3
  MaxCrashes = 2
INVARIANTS RecoveryIsAtomic OnlyOwnChanges ReservationsApart LiveEntriesKept
SYMMETRY Symmetry
CHECK_DEADLOCK FALSE
