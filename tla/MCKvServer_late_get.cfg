CONSTANTS
    c1 = c1
    k1 = k1
    Key = {k1}
    NoSnapshot = NoSnapshot
    NServer = 2
    Client = {c1}
    SnapshotsOn = FALSE
    MaxRequest = 2
    MaxTimeout = 1
    MaxFail = 1
    MaxInstall = 0
    MaxRestart = 0
    Requests = 2
    MaxLog = 4
    MaxQueue = 1
    MaxCall = 2
    MaxFault = 2
    Kinds = {"Append", "Get"}
SPECIFICATION Spec
SYMMETRY Symmetry
CONSTRAINT Bound
CHECK_DEADLOCK FALSE
INVARIANTS
    WritesOnce
