SPECIFICATION Spec
CONSTANTS
  Clients = {c1, c2}
  Names = {a, b}
  MaxIno = 3
  FirstTable = 3
  NBlocks = 4
  RootRoom = 2
  MaxCalls = 7
  MaxCrashes = 1
  Fan = 2
  MaxHeight = 3
  BlkSize = 2
  Null = Null
  BlockEnd = 9
  PerBlock = 2
INVARIANTS MountSucceeds
SYMMETRY Symmetry
CHECK_DEADLOCK FALSE
