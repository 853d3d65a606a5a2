SPECIFICATION Spec
CONSTANTS
  NumCycles = 2
  Clock <- TwoClock
  UserChannels = {u, s}
  KeyChannels = {k}
  SharedChannels = {s}
  Timed = FALSE
  TimeoutCycles = 0
  MaxActive = 1
  StepLimit = 2
  MaxDelay = 0
  MaxEpoch = 2
  Requests = {}
  NoRequest = NoRequest
INVARIANTS
  Exclusive
  OldestWins
PROPERTY KeepsContract
CHECK_DEADLOCK FALSE
