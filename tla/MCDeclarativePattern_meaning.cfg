SPECIFICATION DSpec
CONSTANTS
  NumCycles = 4
  Clock <- FourClock
  UserChannels = {}
  KeyChannels = {k0, k1, k2}
  k0 = k0
  k1 = k1
  k2 = k2
  SharedChannels = {}
  Timed = TRUE
  TimeoutCycles = 3
  MaxActive = 4
  StepLimit = 12
  MaxDelay = 2
  MaxEpoch = 1
  Requests = {4, 6, 8, 9}
  NoRequest = NoRequest
  Programs <- StepLists
  Waves <- MCWaves
  Windows <- AnyWindow
  Signals = {"a", "b"}
  Values = {0, 1, 2}
  Names = {"x"}
  KeyOf <- KeyPerId
  Req = "a"
  Resp = "b"
INVARIANTS
  VerdictIsMeaning
  PairsInOrder
  ReportComplete
PROPERTY IsRuntime
CHECK_DEADLOCK FALSE
