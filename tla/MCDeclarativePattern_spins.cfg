SPECIFICATION FairDSpec
CONSTANTS
  NumCycles = 2
  Clock <- TwoClock
  UserChannels = {}
  KeyChannels = {k0, k1, k2}
  k0 = k0
  k1 = k1
  k2 = k2
  SharedChannels = {}
  Timed = FALSE
  TimeoutCycles = 0
  MaxActive = 4
  StepLimit = 4
  MaxDelay = 2
  MaxEpoch = 1
  Requests = {}
  NoRequest = NoRequest
  Programs <- RecordingLoop
  Waves <- MCWaves
  Windows <- AnyWindow
  Signals = {"a", "b"}
  Values = {0, 1}
  Names = {"x"}
  KeyOf <- KeyPerId
  Req = "a"
  Resp = "b"
PROPERTY PatternEnds
CHECK_DEADLOCK FALSE
