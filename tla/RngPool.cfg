SPECIFICATION Spec
CONSTANTS
    a = a
    b = b
    Threads = {a, b}
    POOLSIZE = 5
    MinSeed = 3
    SeedBytes = 2
    WordBytes = 1
    Chunk = 2
    Lens = {0, 2, 7}
    Levels = {1, 2}
    QuickTest = FALSE
    Closing = TRUE
    Pth = TRUE
    MaxPid = 2
PROPERTY OutputSeeded
PROPERTY OutputBacked
PROPERTY OutputStamped
PROPERTY Unlocks
