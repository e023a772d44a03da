CONSTANTS
    c1 = c1
    k1 = k1
    Key = {k1}
    NoSnapshot = NoSnapshot
    NServer = 2
    Client = {c1}
    SnapshotsOn = TRUE
    MaxRequest = 2
    MaxTimeout = 1
    MaxFail = 0
    MaxInstall = 1
    MaxRestart = 1
    Requests = 2
    MaxLog = 2
    MaxQueue = 2
    MaxCall = 2
    MaxFault = 1
    Kinds = {"Put", "Append", "Get"}
SPECIFICATION Spec
SYMMETRY Symmetry
CONSTRAINT Bound
CHECK_DEADLOCK FALSE
INVARIANTS
    TypeOK
    AckedIsCommitted
    ReplicaMatchesLog
