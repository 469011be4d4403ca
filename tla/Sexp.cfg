SPECIFICATION Spec
CONSTANTS
  DataMod = 256
  MaxCells = 22
  AskCells = 14
  MaxText = 5
  MaxParams = 2
  GivenOptional = FALSE
INVARIANTS
  Represents
  ReadersAgree
  LeftClean
