SPECIFICATION Spec
CONSTANTS
  BlockLen = 3
  CtrMod = 4
  IvLow = 2
  MaxData = 6
  MaxAad = 5
  CountMod = 7
  MaxParts = 2
  TableSize = 4
  Modes = {"gcm", "ccm", "eax", "ocb", "poly1305", "siv", "gcmsiv"}
  Keys = 2
  Messages = 2
  AadBound = 7
  DataBound = 12
  Untracked = 1
  AadChunks = {0, 1, 4}
  DataChunks = {0, 1, 2, 4, 7}
INVARIANTS
  Exact
  StreamOnce
  GeneratedIvs
  Verified
