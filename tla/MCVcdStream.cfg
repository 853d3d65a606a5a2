SPECIFICATION Spec
CONSTANTS
  NoTime = NoTime
  Malformed = Malformed
  TooLarge = TooLarge
  End = "$end"
  Stamp <- MCStamp
  Scalar <- MCScalar
  Vector <- MCVector
  Port <- MCPort
  Strengths <- MCStrengths
  Wrappers <- MCWrappers
  Sections <- MCSections
  Width <- MCWidth
  Unsized <- MCUnsized
  BitMap <- MCBitMap
  Files <- MCFiles
  Walks <- MCWalks
  MaxWalks <- MCMaxWalks
INVARIANTS InFileOrder SkipsItsOwnBody ReplayIsPart AliasesAgree OneEventAtATime RangeCoversForward
CHECK_DEADLOCK FALSE
