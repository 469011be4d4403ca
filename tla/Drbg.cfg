SPECIFICATION Spec
CONSTANTS
  Procs = {1, 2}
  Threads = {"a", "b"}
  MaxRequests = 2
  MaxBytes = 2
  UIntMod = 16
  Lens = {5}
  Flags = {"pr", "nocore"}
  Failing = {"entropy", "open"}
  Prefs = {"fips", "system"}
  FipsModes = {TRUE, FALSE}
  MaxCalls = 3
  MaxControls = 1
INVARIANTS
  Unrepeated
  InTime
  NoncesUnique
  Reported
PROPERTY
  RequestsEnd
CHECK_DEADLOCK FALSE
