CONSTANTS
  HeadSize = 1
  Align = 4
  PageSize = 5
  MinimumPoolSize = 10
  StandardPoolSize = 15
  SizeMod = 1024
  UIntMod = 45
  InitSizes = {1}
  Requests = {4, 6}
  ChunkSizes = {}
  MaxOverflow = 1
  MaxTerms = 0
  Starts <- PlainStart
  FlagSets <- NoFlagSets
SPECIFICATION Spec
INVARIANTS
  WellFormed
  BlocksServe
  WipedWhenFree
PROPERTY
  StatsExact
  ImplementsHeap
CHECK_DEADLOCK FALSE
