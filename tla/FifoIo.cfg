SPECIFICATION Spec
CONSTANTS
  t1 = t1
  t2 = t2
  t3 = t3
  a = a
  b = b
  z = z
  NoTask = NoTask
  Task = {t1, t2, t3}
  NonBlock = {t2}
  Readers = {t1, t2}
  Writers = {t2, t3}
  Clearers = {t3}
  Pollers = {t3}
  AsyncUsers = {t1}
  Signalled = {t3}
  Faulting = {t1, t3}
  SIZE = 2
  Byte = {z, a, b}
  Zero = z
  ReadSizes = {1, 3}
  Payloads <- MCIoPayloads
  MemcpyOrders = {"up"}
INVARIANTS TypeOK NoDanglingWaiter NoLostReadWakeup
PROPERTIES IsFifo OnlyClearStrandsWriters
