SPECIFICATION Spec
CONSTANTS
  Workers = {w1, w2, w3}
  FeedBlocks = 2
  Timeout = 5
  MaxReq = 4
INVARIANTS AnswerIsFresh RefusalIsHonest
PROPERTY EveryScanEnds
