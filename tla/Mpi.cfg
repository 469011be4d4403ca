SPECIFICATION Spec
CONSTANTS
  LimbBits = 2
  Threshold = 2
  MaxWindow = 2
  MaxLimbs = 2
  Minds = {"top", "floor", "sign"}
  ProbeLimbs = {42, 43, 44}
  PowLimbs = 2
  ExpoLimbs = 3
INVARIANTS
  ValuesRight
  ComparesRight
  ProbesRight
