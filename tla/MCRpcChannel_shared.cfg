CONSTANTS
    t1 = t1
    t2 = t2
    Thread = {t1, t2}
    Methods = {"AppendEntries", "RequestVote"}
    Long <- MCLong
    Args <- MCArgs
    Replies <- MCReplies
    RecvMax = 8
    MaxCall = 2
    MaxConn = 2
    MaxSplit = 0
    MaxBreak = 0
SPECIFICATION Spec
SYMMETRY Symmetry
CHECK_DEADLOCK FALSE
INVARIANT OwnReply
