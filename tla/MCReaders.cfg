SPECIFICATION Spec
CONSTANTS
  NoWidth = NoWidth
  NoMask = NoMask
  Repeat = Repeat
  Unset = Unset
  WordBits = 2
  MaxShiftWidth = 4
  Files <- MCFiles
  Declared <- MCDeclared
  Loads <- MCLoads
  MaxLoads = 2
  Interrupts = TRUE
INVARIANTS VcdRight FstRight FsdbRight OthersStayWhole
CHECK_DEADLOCK FALSE
