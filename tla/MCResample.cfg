SPECIFICATION Spec
CONSTANTS
  Times = {0, 1, 2, 3}
  MaxChanges = 3
  MaxClock = 3
  ChangeLists <- SomeChanges
  ClockLists <- SomeClocks
  SampleValue = 1
  ClockOffset = 4
  Beyond = 0
INVARIANTS
  InBounds
  SampledRight
  AllSampled
CHECK_DEADLOCK FALSE
