CONSTANTS
    c1 = c1
    c2 = c2
    k1 = k1
    Key = {k1}
    NoSnapshot = NoSnapshot
    NServer = 2
    Client = {c1, c2}
    SnapshotsOn = FALSE
    MaxRequest = 2
    MaxTimeout = 1
    MaxFail = 1
    MaxInstall = 0
    MaxRestart = 0
    Requests = 2
    MaxLog = 3
    MaxQueue = 1
    MaxCall = 2
    MaxFault = 1
    Kinds = {"Append", "Get"}
SPECIFICATION Spec
SYMMETRY Symmetry
CONSTRAINT Bound
CHECK_DEADLOCK FALSE
INVARIANTS
    AckedIsCommitted
    ReadsCurrent
    ChannelOwned
