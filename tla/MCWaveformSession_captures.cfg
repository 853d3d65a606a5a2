SPECIFICATION Spec
CONSTANTS
  NoWidth = NoWidth
  NoMask = NoMask
  Repeat = Repeat
  WordBits = 4
  MaxShiftWidth = 12
  SafeInt = 31
  Loaded <- MCLoaded
  Operands <- MCOperands
  Scalars <- MCScalars
  Shape <- MCShape
  MaxSteps = 2
  Reports <- MCReports
  Statuses <- MCStatuses
INVARIANT CapturesKeepPrecision
CHECK_DEADLOCK FALSE
