SPECIFICATION Spec
CONSTANTS
  BlockLen = 3
  LenField = 1
  Lane = 2
  Rate = 4
  OutLen = 3
  Algos = {"sha", "blake", "shake"}
  BufSize = 3
  Chunks = {0, 1, 2, 5}
  OutChunks = {0, 1, 5}
  MaxBytes = 7
  MaxOut = 7
  Customs = {0}
  MaxEntries = 2
  Keys = {k1, k2}
INVARIANTS
  DigestRight
  StreamRight
