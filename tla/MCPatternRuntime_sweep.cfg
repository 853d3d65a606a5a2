SPECIFICATION FairSpec
CONSTANTS
  NumCycles = 3
  Clock <- ThreeClock
  UserChannels = {u}
  KeyChannels = {}
  SharedChannels = {}
  Timed = TRUE
  TimeoutCycles = 2
  MaxActive = 2
  StepLimit = 2
  MaxDelay = 2
  MaxEpoch = 1
  Requests = {}
  NoRequest = NoRequest
INVARIANTS
  TypeOK
  NothingLost
  VerdictInTime
  DelayNeverLate
  InFlightBounded
PROPERTIES
  VerdictFinal
  RunEnds
CHECK_DEADLOCK FALSE
