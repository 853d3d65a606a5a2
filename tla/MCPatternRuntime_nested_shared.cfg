SPECIFICATION Spec
CONSTANTS
  NumCycles = 2
  Clock <- TwoClock
  UserChannels = {u}
  KeyChannels = {k}
  SharedChannels = {u}
  Timed = FALSE
  TimeoutCycles = 0
  MaxActive = 2
  StepLimit = 2
  MaxDelay = 0
  MaxEpoch = 2
  Requests = {}
  NoRequest = NoRequest
INVARIANTS
  ExclusiveEverywhere
CHECK_DEADLOCK FALSE
