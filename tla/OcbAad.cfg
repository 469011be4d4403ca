SPECIFICATION Spec
CONSTANTS
  BlockLen = 3
  CtrMod = 4
  IvLow = 2
  MaxData = 6
  MaxAad = 9
  CountMod = 7
  MaxParts = 2
  TableSize = 1
  Modes = {"ocb"}
  Keys = 1
  Messages = 1
  AadBound = 9
  DataBound = 3
  Untracked = 1
  AadChunks = {1, 4}
  DataChunks = {0, 3}
INVARIANT NoAssertion
