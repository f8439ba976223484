SPECIFICATION DecoderSpec
CONSTANTS
  BlockBits = 2
  kMaxBadBlocks = 2
  StaleBits = 9
  NameLen = 4
  TextLen = 8
  kRtRevealMinChars = 3
  Programmes <- MCProgrammes
INVARIANTS GroupsAreWhole ShownIsSent CodeDetects
PROPERTIES LockIsTrue Arrives
