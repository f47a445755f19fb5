SPECIFICATION FairSpec
CONSTANTS
  t1 = t1
  t2 = t2
  t3 = t3
  a = a
  b = b
  z = z
  NoTask = NoTask
  Task = {t1, t2, t3}
  NonBlock = {}
  Readers = {t1}
  Writers = {t2}
  Clearers = {}
  Pollers = {t3}
  AsyncUsers = {}
  Signalled = {t1}
  Faulting = {t2}
  SIZE = 2
  Byte = {z, a, b}
  Zero = z
  ReadSizes = {1, 2}
  Payloads <- MCShortPayloads
  MemcpyOrders = {"up"}
PROPERTIES CallsReturnOrWait WriterServed WritablePollReturns
