SPECIFICATION Spec
CONSTANTS
    p = p
    q = q
    Procs = {p, q}
    POOLSIZE = 2
    Builds = {"posix", "cygwin", "unlocked"}
    MaxUpdates = 3
    MaxFaults = 2
INVARIANT OneImage
INVARIANT LockedNeverFatal
INVARIANT RestsUsable
PROPERTY Finishes
