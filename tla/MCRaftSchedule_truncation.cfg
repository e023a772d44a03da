CONSTANTS
    s1 = s1
    s2 = s2
    s3 = s3
    Server = {s1, s2, s3}
    A = s1
    B = s2
    C = s3
    c1 = c1
    Command = {c1}
    NoVote = NoVote
    SnapshotsOn = FALSE
    MaxTerm = 4
    MaxIndex = 3
    MaxRound = 2
    MaxRestart = 0
    MaxElection = 4
    MaxCall = 2
    MaxBeat = 3
SPECIFICATION ElectedSpec
CONSTRAINT Schedule
CHECK_DEADLOCK FALSE
INVARIANT LeaderCompleteness
