SPECIFICATION Spec
CONSTANTS
  Plans <- MCPlans
  Signals <- MCSignals
  Noise <- MCNoise
  BlockLen = 2
  AudioDecim = 3
  Warmup = 5
  Hang = 5
  OpenDb = 10
  kAfcRange = 3
  HiCutLo = 1
  HiCutHi = 4
  HiCutMin = 1
  HiCutMax = 4
  BlendLo = 1
  BlendHi = 5
  MpLo = 1
  MpHi = 3
  PilotThr = 5
  LockCoh = 8
  UnlockCoh = 6
  Full = 2
  AgcTarget = 2
  AgcMax = 2
INVARIANT NoiseNeverTunes
PROPERTIES HangIsHonoured Settles
