CONSTANTS
  Threads = {a, b}
  MaxPools = 3
SPECIFICATION ListSpec
INVARIANT
  AnswerRight
PROPERTY
  WalkEnds
