CONSTANTS
    s1 = s1
    s2 = s2
    s3 = s3
    Server = {s1, s2, s3}
    c1 = c1
    c2 = c2
    Command = {c1, c2}
    NoVote = NoVote
    SnapshotsOn = FALSE
    MaxTerm = 2
    MaxIndex = 2
    MaxRound = 2
    MaxRestart = 0
    MaxElection = 2
    MaxCall = 3
    MaxBeat = 2
SPECIFICATION ElectedSpec
SYMMETRY Symmetry
CONSTRAINT Bound
CHECK_DEADLOCK FALSE
INVARIANTS
    EntryIdentity
    CommitCarried
    CommittedOnMajority
    NoRivalAppend
    AckedEntriesStay
