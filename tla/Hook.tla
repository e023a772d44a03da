-------------------------------- MODULE Hook --------------------------------
(***************************************************************************)
(* The calls of libc that hook.cpp replaces for the fibers of a worker     *)
(* thread, over IoManager.tla, and the descriptors that fd_manager.cpp     *)
(* knows.  A call that has to wait suspends the fiber and not the thread.  *)
(* No fiber makes the same call twice.                                     *)
(*                                                                         *)
(* Every descriptor of the model is a socket, and the epoll_ctl of an open *)
(* socket succeeds.                                                        *)
(***************************************************************************)
EXTENDS IoManager

CONSTANT ConnectTimeout     \* s_connect_timeout

ASSUME ConnectTimeoutAssumption == ConnectTimeout \in Nat

VARIABLES fdCtx,    \* FdManager::fdCtxs_: the FdCtx of a descriptor, or None
          open,     \* the descriptors that are open
          blocking, \* the ones for which the kernel has no O_NONBLOCK
          wait,     \* the call that a fiber is in
          result    \* what the last call of a fiber returned

hookVars == <<fdCtx, open, blocking, wait, result>>
vars == <<ioVars, fdCtx, open, blocking, wait, result>>

\* The fiber is in no call.
Body == [at |-> "body"]

\* What a call of a fiber leaves alone.
unusedVars == <<idleThreadCnt, isStopped, idleTerm, waitFor, ready, cbs, caller>>
stayVars == <<unusedVars, activeThreadCnt, state, pc, current>>

Init ==
    /\ tasks = <<>> /\ activeThreadCnt = 0 /\ idleThreadCnt = 0 /\ isStopped = FALSE
    /\ state = [f \in Fiber |-> "NONE"]
    /\ pc = "start" /\ current = None /\ idleTerm = FALSE /\ waitFor = 0
    /\ ready = [fd \in {} |-> {}] /\ cbs = <<>>
    /\ timers = {} /\ tickled = FALSE
    /\ events = [fd \in Fd |-> {}]
    /\ ctx = [fd \in Fd |-> [e \in Event |-> None]]
    /\ pendingEventCnt = 0 /\ pipe = FALSE /\ edge = {}
    /\ avail = [fd \in Fd |-> {}]
    /\ caller = [c \in Caller |-> "free"]
    /\ todo \in Programs
    /\ panic = FALSE
    /\ fdCtx = [fd \in Fd |-> None]
    /\ open = {} /\ blocking = {}
    /\ wait = [f \in Fiber |-> Body]
    /\ result = [f \in Fiber |-> "none"]

Returns(f, r) ==
    /\ wait' = [wait EXCEPT ![f] = Body]
    /\ result' = [result EXCEPT ![f] = r]

-----------------------------------------------------------------------------
(* fd_manager.cpp *)

\* The constructor and FdCtx::init, which makes a socket non-blocking.
NewFdCtx == [userNonblock |-> FALSE, sysNonblock |-> TRUE, recvTimeout |-> 0, sendTimeout |-> 0]

\* FdManager::get with autoCreate, and FdManager::del.
Created(fd) == IF fdCtx[fd] = None THEN NewFdCtx ELSE fdCtx[fd]

Forgotten(fd) == [fdCtx EXCEPT ![fd] = None]

\* FdCtx::getTimeout and setTimeout: anything but SO_RCVTIMEO is the send timeout.
GetTimeout(c, type) == IF type = "SO_RCVTIMEO" THEN c.recvTimeout ELSE c.sendTimeout

SetTimeout(c, type, ms) == IF type = "SO_RCVTIMEO" THEN [c EXCEPT !.recvTimeout = ms]
                                                   ELSE [c EXCEPT !.sendTimeout = ms]

-----------------------------------------------------------------------------
(* The calls of a fiber that runs.  *)

InBody(f) == Running(f) /\ wait[f].at = "body"

\* sleep, usleep, nanosleep: a timer whose callback schedules the fiber.
Sleep(f, call) ==
    /\ InBody(f) /\ Calls(f, {"sleep"})
    /\ AddTimer(NewTimer(call.ms, FALSE, Wake(f)))
    /\ wait' = [wait EXCEPT ![f] = [at |-> "sleep"]]
    /\ Leave(f, "READY")
    /\ UNCHANGED <<tasks, unusedVars, eventVars, edge, avail, panic, fdCtx, open, blocking, result>>

SleepReturns(f) ==
    /\ Running(f) /\ wait[f].at = "sleep"
    /\ Returns(f, "ok")
    /\ UNCHANGED <<ioVars, fdCtx, open, blocking>>

\* socket, and accept for the descriptor it returns.
Socket(f, call) ==
    /\ InBody(f) /\ Calls(f, {"socket"})
    /\ \E fd \in Fd \ open :
         /\ open' = open \cup {fd}
         /\ fdCtx' = [fdCtx EXCEPT ![fd] = Created(fd)]
         /\ blocking' = IF fdCtx[fd] = None THEN blocking \ {fd} ELSE blocking \cup {fd}
    /\ UNCHANGED <<tasks, pipe, stayVars, timerVars, eventVars, edge, avail, panic, wait, result>>

\* do_io, up to its loop: a descriptor of which nothing is known, or that the
\* program made non-blocking itself, gets the call of libc, and the answer that
\* call gives; if the kernel would block, the thread does.
Io(f, call) ==
    /\ InBody(f) /\ Calls(f, {"io"})
    /\ LET c == fdCtx[call.fd] IN
       IF c = None \/ (c # None /\ c.userNonblock)
       THEN /\ call.event \in avail[call.fd] \/ call.fd \notin blocking
            /\ Returns(f, IF call.fd \notin open THEN "EBADF"
                          ELSE IF call.event \in avail[call.fd] THEN "ok" ELSE "EAGAIN")
       ELSE /\ wait' = [wait EXCEPT ![f] =
                          [at |-> "try", call |-> call, timeout |-> GetTimeout(c, call.event),
                           cancelled |-> FALSE]]
            /\ UNCHANGED result
    /\ UNCHANGED <<tasks, pipe, stayVars, timerVars, eventVars, edge, avail, panic, fdCtx, open, blocking>>

\* The call of libc in the loop of do_io: it succeeds, and leaves the socket
\* ready or not, or fails, or has to wait and sets the timer of the call.
Try(f) ==
    LET w == wait[f] IN
    /\ Running(f) /\ w.at = "try"
    /\ IF w.call.fd \notin open
       THEN Returns(f, "EBADF") /\ UNCHANGED <<timerVars, pipe, avail, edge>>
       ELSE IF w.call.event \in avail[w.call.fd]
       THEN /\ Returns(f, "ok")
            /\ avail' \in {avail, [avail EXCEPT ![w.call.fd] = @ \ {w.call.event}]}
            /\ UNCHANGED <<timerVars, pipe, edge>>
       ELSE /\ w.call.fd \notin blocking
            /\ AddTimer(NewTimer(w.timeout, FALSE, Timeout(f, w.call)))
            /\ wait' = [wait EXCEPT ![f].at = "register"]
            /\ UNCHANGED <<avail, edge, result>>
    /\ UNCHANGED <<tasks, stayVars, eventVars, todo, panic, fdCtx, open, blocking>>

\* connect_with_timeout, up to its addEvent: the connection is there at once,
\* fails at once, or is on its way.
Connect(f, call) ==
    /\ InBody(f) /\ Calls(f, {"connect"})
    /\ LET c == fdCtx[call.fd] IN
       \/ /\ Returns(f, IF call.fd \in open THEN "ok" ELSE "EBADF")
          /\ UNCHANGED <<timerVars, pipe>>
       \/ /\ c # None /\ ~c.userNonblock
          /\ AddTimer(NewTimer(ConnectTimeout, FALSE, Timeout(f, call)))
          /\ wait' = [wait EXCEPT ![f] = 
                          [at |-> "register", call |-> call, timeout |-> ConnectTimeout,
                           cancelled |-> FALSE]]
          /\ UNCHANGED result
    /\ UNCHANGED <<tasks, stayVars, eventVars, edge, avail, panic, fdCtx, open, blocking>>

\* addEvent and yield.
Register(f) ==
    LET w == wait[f] IN
    /\ Running(f) /\ w.at = "register"
    /\ AddEvent(w.call.fd, w.call.event, Resume(f))
    /\ wait' = [wait EXCEPT ![f].at = "wait"]
    /\ Leave(f, "READY")
    /\ UNCHANGED <<tasks, pipe, unusedVars, timerVars, avail, todo, fdCtx, open, blocking, result>>

\* The fiber goes on: it cancels the timer, and has timed out, or tries again.
\* A connect asks the socket how it went.
Woken(f) ==
    LET w == wait[f] IN
    /\ Running(f) /\ w.at = "wait"
    /\ timers' = Cancel(timers, Timeout(f, w.call))
    /\ IF w.cancelled THEN Returns(f, "ETIMEDOUT")
       ELSE IF w.call.op = "connect" THEN Returns(f, IF w.call.fd \in open THEN "ok" ELSE "EBADF")
       ELSE wait' = [wait EXCEPT ![f].at = "try"] /\ UNCHANGED result
    /\ UNCHANGED <<tasks, pipe, stayVars, tickled, eventVars, edge, avail, todo, panic, fdCtx, open, blocking>>

\* close: what waits for the descriptor is woken, the descriptor is forgotten
\* and closed.
Close(f, call) ==
    /\ InBody(f) /\ Calls(f, {"close"})
    /\ IF fdCtx[call.fd] # None THEN CancelAll(call.fd)
       ELSE edge' = edge \ {call.fd} /\ UNCHANGED <<tasks, pipe, eventVars>>
    /\ fdCtx' = Forgotten(call.fd)
    /\ open' = open \ {call.fd}
    /\ avail' = [avail EXCEPT ![call.fd] = {}]
    /\ blocking' = blocking \ {call.fd}
    /\ UNCHANGED <<stayVars, timerVars, panic, wait, result>>

\* setsockopt with a timeout.
SetSockOpt(f, call) ==
    /\ InBody(f) /\ Calls(f, {"timeout"})
    /\ fdCtx' = IF fdCtx[call.fd] = None THEN fdCtx
                ELSE [fdCtx EXCEPT ![call.fd] = SetTimeout(@, call.type, call.ms)]
    /\ UNCHANGED <<tasks, pipe, stayVars, timerVars, eventVars, edge, avail, panic, open, blocking,
                   wait, result>>

\* fcntl(F_SETFL) records what the program wants and keeps the kernel's flag,
\* unless the program has wanted O_NONBLOCK before.
Fcntl(f, call) ==
    /\ InBody(f) /\ Calls(f, {"fcntl"})
    /\ LET c == fdCtx[call.fd] IN
       IF c = None \/ (c # None /\ c.userNonblock)
       THEN /\ blocking' = IF call.on THEN blocking \ {call.fd} ELSE blocking \cup {call.fd}
            /\ UNCHANGED fdCtx
       ELSE /\ fdCtx' = [fdCtx EXCEPT ![call.fd].userNonblock = call.on]
            /\ blocking' = IF c.sysNonblock THEN blocking \ {call.fd} ELSE blocking \cup {call.fd}
    /\ UNCHANGED <<tasks, pipe, stayVars, timerVars, eventVars, edge, avail, panic, open, wait, result>>

\* fcntl(F_GETFL) hides the O_NONBLOCK that the program has not set itself.
GetFl(f, call) ==
    /\ InBody(f) /\ Calls(f, {"getfl"})
    /\ LET c == fdCtx[call.fd]
           nonblock == call.fd \notin blocking
       IN Returns(f, IF nonblock /\ (c = None \/ (c # None /\ c.userNonblock))
                     THEN "O_NONBLOCK" ELSE "blocking")
    /\ UNCHANGED <<tasks, pipe, stayVars, timerVars, eventVars, edge, avail, panic, fdCtx, open,
                   blocking>>

\* ioctl(FIONBIO) records what the program wants and changes the kernel's flag.
Ioctl(f, call) ==
    /\ InBody(f) /\ Calls(f, {"ioctl"})
    /\ fdCtx' = IF fdCtx[call.fd] = None THEN fdCtx
                ELSE [fdCtx EXCEPT ![call.fd].userNonblock = call.on]
    /\ blocking' = IF call.on THEN blocking \ {call.fd} ELSE blocking \cup {call.fd}
    /\ UNCHANGED <<tasks, pipe, stayVars, timerVars, eventVars, edge, avail, panic, open, wait, result>>

\* The manager's own operations, called by a fiber: addEvent with a callback,
\* delEvent, cancelEvent and scheduler.
Watch(f, call) ==
    /\ InBody(f) /\ Calls(f, {"watch", "unwatch", "trigger", "schedule"})
    /\ CASE call.op = "watch"    -> /\ call.fd \in open
                                    /\ AddEvent(call.fd, call.event, Start(call.fiber))
                                    /\ UNCHANGED <<tasks, pipe>>
         [] call.op = "unwatch"  -> DelEvent(call.fd, call.event) /\ UNCHANGED <<tasks, pipe, panic>>
         [] call.op = "trigger"  -> CancelEvent(call.fd, call.event) /\ UNCHANGED panic
         [] call.op = "schedule" -> /\ Schedule(<<Start(call.fiber)>>)
                                    /\ UNCHANGED <<edge, eventVars, panic>>
    /\ UNCHANGED <<stayVars, timerVars, avail, hookVars>>

\* The body of the fiber ends: Fiber::mainFunc.
Finish(f) ==
    /\ InBody(f) /\ todo[f] = <<>>
    /\ Leave(f, "TERM")
    /\ UNCHANGED <<tasks, pipe, unusedVars, timerVars, eventVars, edge, avail, todo, panic, hookVars>>

FiberStep(f) ==
    \/ /\ todo[f] # <<>>
       /\ LET call == Head(todo[f]) IN
          \/ Sleep(f, call) \/ Socket(f, call) \/ Io(f, call) \/ Connect(f, call)
          \/ Close(f, call) \/ SetSockOpt(f, call) \/ Fcntl(f, call)
          \/ GetFl(f, call) \/ Ioctl(f, call)
          \/ Watch(f, call)
    \/ SleepReturns(f) \/ Try(f) \/ Register(f) \/ Woken(f) \/ Finish(f)

-----------------------------------------------------------------------------
(* The callbacks of timers.  Each runs in a fiber of its own and does not   *)
(* yield.                                                                   *)

\* The callback that sleep() gives its timer.
RunWake ==
    /\ current.do = "wake"
    /\ Schedule(<<Resume(current.fiber)>>)
    /\ UNCHANGED <<eventVars, edge, wait>>

\* Slip: the call is given up and the event is not cancelled.
RunTimeoutOnly ==
    /\ current.do = "timeout"
    /\ LET f == current.fiber
           w == wait[f]
       IN /\ wait' = IF w.at = "wait" /\ w.call = current.call
                     THEN [wait EXCEPT ![f].cancelled = TRUE] ELSE wait
          /\ UNCHANGED <<tasks, pipe, edge, eventVars>>

\* onTimer and the callback of do_io or connect: nothing is done for a call that
\* has returned or has timed out already.
RunTimeout ==
    /\ current.do = "timeout"
    /\ LET f == current.fiber
           w == wait[f]
       IN IF w.at = "wait" /\ w.call = current.call /\ ~w.cancelled
          THEN /\ wait' = [wait EXCEPT ![f].cancelled = TRUE]
               /\ CancelEvent(w.call.fd, w.call.event)
          ELSE UNCHANGED <<tasks, pipe, edge, eventVars, wait>>

RunTick == current.do = "tick" /\ UNCHANGED <<tasks, pipe, edge, eventVars, wait>>

RunCallback ==
    /\ pc = "run" /\ current # None
    /\ RunWake \/ RunTimeout \/ RunTick
    /\ activeThreadCnt' = activeThreadCnt - 1
    /\ current' = None
    /\ pc' = "pick"
    /\ UNCHANGED <<unusedVars, state, timerVars, avail, todo, panic, fdCtx, open, blocking, result>>

-----------------------------------------------------------------------------
WorkerStep ==
    \/ Worker /\ UNCHANGED hookVars
    \/ \E f \in Fiber : FiberStep(f)
    \/ RunCallback

ThreadStep(c) == CallerStep(c) /\ UNCHANGED hookVars

ClockStep == Elapses /\ UNCHANGED hookVars

KernelStep == \E fd \in open, event \in Event : Arrives(fd, event) /\ UNCHANGED hookVars

Next == WorkerStep \/ (\E c \in Caller : ThreadStep(c)) \/ ClockStep \/ KernelStep

\* The operating system runs the worker and the threads, and time passes.
Fairness ==
    /\ WF_vars(WorkerStep)
    /\ \A c \in Caller : WF_vars(ThreadStep(c))
    /\ WF_vars(ClockStep)

Spec == Init /\ [][Next]_vars /\ Fairness

-----------------------------------------------------------------------------
\* No CondPanic fails: run() never takes a fiber that is not suspended (one that
\* was scheduled twice, or that has ended), and no event is registered twice.
NoPanic == ~panic

\* What will make fiber f go on: its place in the task list, an event, the timer
\* of its sleep, or the callback of that timer on its way.
Wakes(t, f) == t # None /\ t.do \in {"resume", "wake"} /\ t.fiber = f

WakeUps(f) ==
    Cardinality({i \in DOMAIN tasks : Wakes(tasks[i], f)})
    + Cardinality({i \in DOMAIN cbs : Wakes(cbs[i], f)})
    + Cardinality({t \in timers : Wakes(t.cb, f)})
    + Cardinality({w \in Fd \X Event : Wakes(ctx[w[1]][w[2]], f)})
    + (IF pc = "run" /\ Wakes(current, f) /\ current.do = "wake" THEN 1 ELSE 0)

\* A suspended fiber has one thing that wakes it, never none (it would be lost)
\* and never two (it would be resumed inside a later call); any other fiber has
\* none.  An event, a timeout, a cancelled event and a close compete for it.
WokenOnce == \A f \in Fiber : WakeUps(f) = IF state[f] = "READY" THEN 1 ELSE 0

\* pendingEventCnt_ is the number of registered events: stop() waits for it to
\* be 0, and it is kept apart from events_, in six places.
PendingIsRegistered ==
    pendingEventCnt = Cardinality({w \in Fd \X Event : w[2] \in events[w[1]]})

\* While the worker waits in epoll_wait for longer than until the first timer,
\* the thread that set that timer has tickled the worker or is about to.
NoOversleep ==
    (pc = "wait" /\ \E t \in timers : waitFor = Forever \/ t.left < waitFor)
        => pipe \/ \E c \in Caller : caller[c] \in {"trickle", "stop"}

\* The worker does not end while a fiber is suspended, an event is awaited or a
\* task is queued.
ExitLeavesNothing ==
    pc = "exit" => /\ tasks = <<>> /\ pendingEventCnt = 0
                   /\ \A f \in Fiber : state[f] \in {"NONE", "TERM"}

\* What is queued is run, however its tickle and the worker's way into
\* epoll_wait fell together: the list, taken from its front, gets empty.
TasksRun == (tasks # <<>>) ~> (tasks = <<>>)

\* Every call of a fiber returns: its event, its timeout or a close ends it.
CallsReturn == (\E f \in Fiber : wait[f].at # "body") ~> (\A f \in Fiber : wait[f].at = "body")

\* stop() returns, unless a repeating timer is set.
StopReturns == (isStopped /\ \A t \in timers : ~t.repeat) ~> (pc = "exit")

\* Every time that a program or connect() asks for fits into an int.
DelaysFit ==
    /\ ConnectTimeout <= IntMax
    /\ \A c \in Call : c.op \in {"sleep", "timer", "reset", "timeout"} => c.ms <= IntMax

=============================================================================
