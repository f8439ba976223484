SPECIFICATION Spec
CONSTANTS
  Buffers = {b1, b2, b3}
  NoBuffer = NoBuffer
  MaxBlocks = 6
INVARIANTS PoolPartition BlocksAccounted
PROPERTIES BlockStable OrderedDelivery NoStall ShutdownEnds
\* The reader stops at MaxBlocks, and the daemon stops when it is told to.
CHECK_DEADLOCK FALSE
