CONSTANTS
    s1 = s1
    s2 = s2
    s3 = s3
    Server = {s1, s2, s3}
    c1 = c1
    Command = {c1}
    NoVote = NoVote
    SnapshotsOn = TRUE
    MaxTerm = 3
    MaxIndex = 2
    MaxRound = 2
    MaxRestart = 1
    MaxElection = 3
    MaxCall = 6
    MaxBeat = 2
SPECIFICATION Spec
SYMMETRY Symmetry
CONSTRAINT Recovery
CHECK_DEADLOCK FALSE
INVARIANTS
    ElectionSafety
    NoDoubleWin
    TypeOK
    CommitWithinLog
    LogContiguous
PROPERTIES
    LastLogIndexMonotonic
    DurableVoteStable
