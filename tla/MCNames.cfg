CONSTANTS
  Headers <- MCHeaders
  MaxDepth = 3
  MaxVars = 8
  MaxWidth = 4
  MaxBits = 3
  MaxInitial = 2
  Regex <- MCRegex
  FstNames <- MCFstNames
  ModuleOf <- MCModuleOf
  Composites <- MCComposites
  Queries <- MCQueries
  Pairs <- MCPairs
  Exprs <- MCExprs
  NoRoot <- MCNoRoot
SPECIFICATION Spec
INVARIANTS
  EveryVarFound
  NoPhantomBits
  MatchExact
  FoundLoads
  LoadedTogether
CHECK_DEADLOCK FALSE
