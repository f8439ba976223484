SPECIFICATION PortSpec
CONSTANTS
  WorkerThreads = {w1, w2}
  Conns = {c1}
  None = None
  MaxQueued = 1
PROPERTY DestructorReturns
CHECK_DEADLOCK FALSE
