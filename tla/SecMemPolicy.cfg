CONSTANTS
  HeadSize = 1
  Align = 4
  PageSize = 5
  MinimumPoolSize = 5
  StandardPoolSize = 5
  SizeMod = 1024
  UIntMod = 20
  InitSizes = {0, 7}
  Requests = {3}
  ChunkSizes = {4, 12}
  MaxOverflow = 1
  MaxTerms = 1
  Starts <- AllStarts
  FlagSets <- AllFlagSets
SPECIFICATION Spec
INVARIANTS
  FipsConfined
  WarningIssued
CHECK_DEADLOCK FALSE
