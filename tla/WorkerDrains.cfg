CONSTANTS
    Caller = {"x", "y"}
    Client = {"k1", "k2"}
    Nobody = Nobody
    MaxCut = 2
    Posture <- MCPosture
    LastJob = 2
    Sweeper = "x"
    Runner = {"r1", "r2"}
    MaxFile = 3
    Body = {"b1", "b1x", "b2", "b2x", "b3", "b9"}
    Directory <- MCDirectory
    CanonicalDirs <- MCCanonicalDirs
    Chain <- MCChain
    NoBody = NoBody
    MaxRun = 4
SPECIFICATION MCSpec
CHECK_DEADLOCK FALSE
INVARIANTS
    RunsUntilSignalled
