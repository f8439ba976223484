SPECIFICATION Spec
CONSTANTS
  NStations = 2
  WordSize = 3
  Listeners = {l1, l2}
  None = None
  Posts = {p1}
  KeepAlive = 1
  PostTimeout = 1
  PostLife = 1
  Linger = 1
  FailOpen = 3
INVARIANTS SilenceBounded CopyOutFollows
PROPERTIES ListenedIsServed UnlistenedIsGated
\* Nothing happens by itself once the relay is gone and every station is on.
CHECK_DEADLOCK FALSE
