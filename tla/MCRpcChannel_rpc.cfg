CONSTANTS
    t1 = t1
    t2 = t2
    Thread = {t1, t2}
    Methods = {"RequestVote", "AppendEntries", "InstallSnapshot",
               "Get", "PutAppend"}
    Long <- MCLong
    Args <- MCArgs
    Replies <- MCReplies
    RecvMax = 3
    MaxCall = 2
    MaxConn = 2
    MaxSplit = 1
    MaxBreak = 1
SPECIFICATION Spec
SYMMETRY Symmetry
CONSTRAINT LastIsGet
CHECK_DEADLOCK FALSE
INVARIANTS
    AtMostOnce
    HandledAsAsked
    OwnReplyOneByOne
    NoLeak
    AnswerOnItsWay
