SPECIFICATION Spec
CONSTANTS
 c1 = c1
 c2 = c2
 Clients <- MCClients
 Blocks <- ThreeBlocks
 SPB = 2
 NumBuffers = 1
 Stride = 1
 NumBlocks = 2
 BatchSize = 2
 Requests <- MCRequests
 MaxRequests = 3
 FlushEach = FALSE
 Null = Null
INVARIANTS TypeOK NoPanic RingIsLinked NoLostWrite FreshReads Durable NoCircularWait
PROPERTIES RequestsEnd
CONSTRAINT OneFua
CHECK_DEADLOCK FALSE
