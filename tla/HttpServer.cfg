SPECIFICATION PortSpec
CONSTANTS
  WorkerThreads = {w1, w2}
  Conns = {c1, c2, c3, c4}
  None = None
  MaxQueued = 1
INVARIANT OneOwner
PROPERTY Served
\* The server stops when the daemon does, and see HttpServerStop.cfg.
CHECK_DEADLOCK FALSE
