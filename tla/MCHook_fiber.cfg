CONSTANTS
    f1 = f1
    f2 = f2
    f3 = f3
    c1 = c1
    c2 = c2
    d1 = d1
    Fiber = {f1, f2, f3}
    Caller = {c1, c2}
    Fd = {d1}
    Pipe = Pipe
    None = None
    IntMax = 3
    MaxTimeout = 2
    ConnectTimeout = 2
    Call <- MCCall
    Programs <- MCPrograms
SPECIFICATION Spec
CHECK_DEADLOCK FALSE
INVARIANTS
    NoPanic
    WokenOnce
    PendingIsRegistered
    NoOversleep
    ExitLeavesNothing
PROPERTIES
    TasksRun
    CallsReturn
    StopReturns
