SPECIFICATION Spec
CONSTANTS
  Pollers = {p1, p2}
  NoOne = NoOne
  MinGain = 1
  Ceiling = 4
  GainStep = 2
  Interval = 2
  Warmup = 2
INVARIANTS NoUseAfterFree ChipHasCommandedGain
PROPERTY LoopNeverBlocks
