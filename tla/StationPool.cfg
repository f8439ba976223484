SPECIFICATION Spec
CONSTANTS
  NStations = 5
  WantThreads = 3
  MaxBlocks = 3
INVARIANT NoWorkInSerial
PROPERTIES PoolCloses ImplementsBarrier
