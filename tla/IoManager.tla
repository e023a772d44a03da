------------------------------ MODULE IoManager ------------------------------
(***************************************************************************)
(* The fiber scheduler: Scheduler, its worker thread and its task list     *)
(* (scheduler.cpp), the I/O manager it runs under (io_manager.cpp), the    *)
(* timers it waits for (Timers.tla), and epoll, the tickle pipe and the    *)
(* sockets of the kernel, as far as the code sees them.                    *)
(*                                                                         *)
(* The program has one worker thread and does not lend it the thread that  *)
(* creates the manager (FIBER_THREAD_NUM, FIBER_USE_CALLER_THREAD in       *)
(* config.hpp, raft.cpp:50), and so has the model.  Other threads schedule *)
(* tasks, set timers and stop the manager.  The worker is the only thread  *)
(* that runs fibers, adds events or handles them.                          *)
(***************************************************************************)
EXTENDS Timers, FiniteSets, SequencesExt

CONSTANTS Fiber,        \* the fibers the program creates
          Caller,       \* the threads outside the scheduler
          Call,         \* the calls they make: records with an op and its arguments
          Programs,     \* what each of them calls, in order; one program is run
          Fd,           \* descriptors of sockets
          Pipe,         \* tickleFds_[0], as epoll reports it
          IntMax,       \* the greatest int: 2^31 - 1
          MaxTimeout,   \* MAX_TIMEOUT of idle(), an int
          None

ASSUME MaxTimeoutAssumption == IntMax \in Nat /\ MaxTimeout \in 1 .. IntMax

ASSUME ProgramsAssumption ==
    /\ Programs \subseteq [Fiber \cup Caller -> Seq(Call)]
    /\ \A c \in Call :
         /\ c.op \in {"sleep", "timer", "reset", "timeout"} => c.ms \in Nat
         /\ c.op \in {"io", "connect", "close", "timeout", "fcntl", "getfl", "ioctl", "watch",
                     "unwatch", "trigger"} => c.fd \in Fd
         /\ c.op \in {"io", "connect", "watch", "unwatch", "trigger"} => c.event \in {"READ", "WRITE"}
         /\ c.op \in {"schedule", "watch"} => c.fiber \in Fiber
         /\ c.op \in {"timer", "reset", "refresh", "cancel"} => c.cb.do = "tick"

\* Every callback that a program schedules or waits with gets a fiber of its own.
ASSUME StartsAssumption ==
    \A p \in Programs : \A a, b \in Fiber \cup Caller : \A i \in DOMAIN p[a], j \in DOMAIN p[b] :
        /\ p[a][i].op \in {"schedule", "watch"} /\ p[b][j].op \in {"schedule", "watch"}
        /\ p[a][i].fiber = p[b][j].fiber
        => a = b /\ i = j

\* delEvent is called for an event that no other fiber of the program waits for:
\* it takes the event back and wakes nobody.
ASSUME UnwatchAssumption ==
    \A p \in Programs : \A a, b \in Fiber \cup Caller : \A i \in DOMAIN p[a], j \in DOMAIN p[b] :
        /\ p[a][i].op = "unwatch" /\ p[b][j].op \in {"io", "connect"}
        /\ p[a][i].fd = p[b][j].fd /\ p[a][i].event = p[b][j].event
        => a = b

ASSUME NoneAssumption ==
    \A f \in Fiber, do \in {"resume", "start", "wake"} : None # [do |-> do, fiber |-> f]

VARIABLES tasks,            \* tasks_
          activeThreadCnt,  \* activeThreadCnt_
          idleThreadCnt,    \* idleThreadCnt_
          isStopped,        \* isStopped_
          state,            \* Fiber::state_, or "NONE" before the fiber is created
          pc,               \* where the worker is in run() and idle()
          current,          \* the task that run() has taken
          idleTerm,         \* whether the idle fiber has ended
          waitFor,          \* next_timeout, then what is left of it in epoll_wait
          ready,            \* the events of epoll_wait that are still to be handled
          cbs,              \* the callbacks of listExpiredCb still to be scheduled
          timers,           \* timers_
          tickled,          \* tickled_
          events,           \* FdContext::events_, by descriptor
          ctx,              \* FdContext::read_ and write_: what waits for the event
          pendingEventCnt,  \* pendingEventCnt_
          pipe,             \* whether there is anything in the tickle pipe
          edge,             \* the descriptors epoll has something to report of
          avail,            \* the events that are true of a socket
          caller,           \* where the other threads are
          todo,             \* the calls that a fiber or a thread has still to make
          panic             \* whether a CondPanic has failed

schedulerVars == <<tasks, activeThreadCnt, idleThreadCnt, isStopped>>
workerVars == <<pc, current, idleTerm, waitFor, ready, cbs>>
timerVars == <<timers, tickled>>
eventVars == <<events, ctx, pendingEventCnt>>
ioVars == <<schedulerVars, state, workerVars, timerVars, eventVars, pipe, edge, avail, caller, todo,
            panic>>

Event == {"READ", "WRITE"}

\* What a task list or a timer can hold: a fiber, a callback that is the body of
\* a fiber of the program, the callback with which sleep() wakes a fiber, the
\* one with which a call on a socket times out, and one that leaves no trace.
Resume(f) == [do |-> "resume", fiber |-> f]
Start(f) == [do |-> "start", fiber |-> f]
Wake(f) == [do |-> "wake", fiber |-> f]
Timeout(f, c) == [do |-> "timeout", fiber |-> f, call |-> c]
Tick == [do |-> "tick"]

-----------------------------------------------------------------------------
(* What the threads call.  None of these operators is an action.  *)

\* IOManager::trickle: nothing is written unless a worker is idle.
Trickle == pipe \/ idleThreadCnt > 0

\* Scheduler::scheduler, called by the worker for each task of ts: only the task
\* that finds the list empty tickles.
Schedule(ts) ==
    /\ tasks' = tasks \o ts
    /\ pipe' = IF ts # <<>> /\ tasks = <<>> THEN Trickle ELSE pipe

\* TimerManager::addTimer, as far as the lock is held.
InsertTimer(t, front) ==
    /\ front \in Fronts(timers, t)
    /\ timers' = timers \cup {t}
    /\ tickled' = (tickled \/ front)

\* addTimer, called by a fiber: the worker is not idle, so that
\* OnTimerInsertedAtFront writes nothing.
AddTimer(t) == \E front \in BOOLEAN :
    /\ InsertTimer(t, front)
    /\ pipe' = IF front /\ ~tickled THEN Trickle ELSE pipe

\* epoll_ctl with the events evs for fd: epoll reports what is true already.
Rearmed(fd, evs) == IF avail[fd] \cap evs # {} THEN edge \cup {fd} ELSE edge \ {fd}

\* IOManager::addEvent: task is the fiber that is running, or a callback.
AddEvent(fd, event, task) ==
    /\ panic' = (panic \/ event \in events[fd])
    /\ edge' = Rearmed(fd, events[fd] \cup {event})
    /\ pendingEventCnt' = pendingEventCnt + 1
    /\ events' = [events EXCEPT ![fd] = @ \cup {event}]
    /\ ctx' = [ctx EXCEPT ![fd][event] = task]

\* IOManager::delEvent
DelEvent(fd, event) ==
    IF event \in events[fd]
    THEN /\ edge' = Rearmed(fd, events[fd] \ {event})
         /\ pendingEventCnt' = pendingEventCnt - 1
         /\ events' = [events EXCEPT ![fd] = @ \ {event}]
         /\ ctx' = [ctx EXCEPT ![fd][event] = None]
    ELSE UNCHANGED <<edge, eventVars>>

\* What waits for the event, if it is one of evs and is registered.
Waiting(fd, event, evs) == IF event \in evs \cap events[fd] THEN <<ctx[fd][event]>> ELSE <<>>

\* Slip: the event stays registered.
TriggerEventsKept(fd, evs) ==
    /\ Schedule(Waiting(fd, "READ", evs) \o Waiting(fd, "WRITE", evs))
    /\ UNCHANGED <<events, ctx>>

\* FdContext::triggerEvent for the events of evs, READ first.
TriggerEvents(fd, evs) ==
    /\ Schedule(Waiting(fd, "READ", evs) \o Waiting(fd, "WRITE", evs))
    /\ events' = [events EXCEPT ![fd] = @ \ evs]
    /\ ctx' = [ctx EXCEPT ![fd] = [e \in Event |-> IF e \in evs THEN None ELSE @[e]]]

\* Slip: the event is not counted off.
CancelEventKeepsCount(fd, event) ==
    IF event \in events[fd]
    THEN /\ edge' = Rearmed(fd, events[fd] \ {event})
         /\ TriggerEvents(fd, {event})
         /\ UNCHANGED pendingEventCnt
    ELSE UNCHANGED <<tasks, pipe, edge, eventVars>>

\* IOManager::cancelEvent
CancelEvent(fd, event) ==
    IF event \in events[fd]
    THEN /\ edge' = Rearmed(fd, events[fd] \ {event})
         /\ TriggerEvents(fd, {event})
         /\ pendingEventCnt' = pendingEventCnt - 1
    ELSE UNCHANGED <<tasks, pipe, edge, eventVars>>

\* Slip: the events are forgotten and what waits for them is not woken.
CancelAllSilently(fd) ==
    /\ edge' = edge \ {fd}
    /\ events' = [events EXCEPT ![fd] = {}]
    /\ ctx' = [ctx EXCEPT ![fd] = [e \in Event |-> None]]
    /\ pendingEventCnt' = pendingEventCnt - Cardinality(events[fd])
    /\ UNCHANGED <<tasks, pipe>>

\* Slip: the events are not counted off.
CancelAllKeepsCount(fd) ==
    /\ edge' = edge \ {fd}
    /\ TriggerEvents(fd, events[fd])
    /\ UNCHANGED pendingEventCnt

\* IOManager::cancelAll
CancelAll(fd) ==
    /\ edge' = edge \ {fd}
    /\ TriggerEvents(fd, events[fd])
    /\ pendingEventCnt' = pendingEventCnt - Cardinality(events[fd])

\* Fiber::yield, and the rest of run() after resume().  A fiber of cb_fiber goes
\* on being held by its own stack.
Leave(f, s) ==
    /\ state' = [state EXCEPT ![f] = s]
    /\ activeThreadCnt' = activeThreadCnt - 1
    /\ current' = None
    /\ pc' = "pick"

\* A fiber or a thread makes its next call, which is one of the operations ops.
Calls(a, ops) == todo[a] # <<>> /\ Head(todo[a]).op \in ops
                 /\ todo' = [todo EXCEPT ![a] = Tail(@)]

Running(f) == pc = "run" /\ state[f] = "RUNNING"

-----------------------------------------------------------------------------
(* The worker thread: Scheduler::run and IOManager::idle.  *)

\* The worker thread begins run().
BeginRun ==
    /\ pc = "start"
    /\ pc' = "pick"
    /\ UNCHANGED <<schedulerVars, state, current, idleTerm, waitFor, ready, cbs, timerVars,
                   eventVars, pipe, edge, avail, caller, todo, panic>>

\* run() takes the first task, counts itself active and switches to the fiber,
\* or to a new one for a callback of the program.
Take ==
    /\ pc = "pick" /\ tasks # <<>>
    /\ LET t == Head(tasks) IN
         /\ tasks' = Tail(tasks)
         /\ current' = t
         /\ panic' = (panic \/ (t.do = "resume" /\ state[t.fiber] # "READY"))
         /\ state' = IF t.do \in {"resume", "start"} THEN [state EXCEPT ![t.fiber] = "RUNNING"]
                                                     ELSE state
         /\ pipe' = IF Tail(tasks) # <<>> THEN Trickle ELSE pipe
    /\ activeThreadCnt' = activeThreadCnt + 1
    /\ pc' = "run"
    /\ UNCHANGED <<idleThreadCnt, isStopped, idleTerm, waitFor, ready, cbs, timerVars,
                   eventVars, edge, avail, caller, todo>>

\* run() finds the list empty: it ends, or is about to become idle.
FindNone ==
    /\ pc = "pick" /\ tasks = <<>>
    /\ pc' = IF idleTerm THEN "exit" ELSE "none"
    /\ UNCHANGED <<schedulerVars, state, current, idleTerm, waitFor, ready, cbs, timerVars,
                   eventVars, pipe, edge, avail, caller, todo, panic>>

\* idleThreadCnt_++ and the switch to the idle fiber.
BecomeIdle ==
    /\ pc = "none"
    /\ idleThreadCnt' = idleThreadCnt + 1
    /\ pc' = "idle"
    /\ UNCHANGED <<tasks, activeThreadCnt, isStopped, state, current, idleTerm, waitFor, ready, cbs,
                   timerVars, eventVars, pipe, edge, avail, caller, todo, panic>>

\* Slip: tickled_ is not reset.
AskNextTimerTickled ==
    /\ pc = "idle"
    /\ waitFor' \in {Forever} \cup {t.left : t \in timers}
    /\ IsNextTimer(timers, waitFor')
    /\ pc' = "stopping"
    /\ UNCHANGED <<schedulerVars, state, current, idleTerm, ready, cbs, timerVars, eventVars,
                   pipe, edge, avail, caller, todo, panic>>

\* TimerManager::getNextTimer, the first part of IOManager::stopping.
AskNextTimer ==
    /\ pc = "idle"
    /\ waitFor' \in {Forever} \cup {t.left : t \in timers}
    /\ IsNextTimer(timers, waitFor')
    /\ tickled' = FALSE
    /\ pc' = "stopping"
    /\ UNCHANGED <<schedulerVars, state, current, idleTerm, ready, cbs, timers, eventVars,
                   pipe, edge, avail, caller, todo, panic>>

\* Slip: the task list is not looked at.
StoppingEarly == waitFor = Forever /\ pendingEventCnt = 0 /\ isStopped

\* IOManager::stopping(timeout) and Scheduler::stopping.
Stopping == waitFor = Forever /\ pendingEventCnt = 0
            /\ isStopped /\ activeThreadCnt = 0 /\ tasks = <<>>

\* idle() returns, and run() is back with an idle fiber that has ended ...
EndIdle ==
    /\ pc = "stopping" /\ Stopping
    /\ idleTerm' = TRUE
    /\ idleThreadCnt' = idleThreadCnt - 1
    /\ pc' = "pick"
    /\ UNCHANGED <<tasks, activeThreadCnt, isStopped, state, current, waitFor, ready, cbs,
                   timerVars, eventVars, pipe, edge, avail, caller, todo, panic>>

\* Slip: a wait without an end where there is no timer.
EpollTimeoutNone(next) == next

\* (int) of an unsigned number: the value that has the same low bits.
asInt(n) == IF n <= IntMax THEN n
            ELSE ((n + IntMax + 1) % (2 * (IntMax + 1))) - (IntMax + 1)

\* ... or waits, for MAX_TIMEOUT at most, of what an int can hold of next; to
\* epoll_wait, a negative timeout is none.
EpollTimeout(next) ==
    IF next = Forever \/ asInt(next) > MaxTimeout THEN MaxTimeout
    ELSE IF asInt(next) < 0 THEN Forever
    ELSE asInt(next)

EnterWait ==
    /\ pc = "stopping" /\ ~Stopping
    /\ waitFor' = EpollTimeout(waitFor)
    /\ pc' = "wait"
    /\ UNCHANGED <<schedulerVars, state, current, idleTerm, ready, cbs, timerVars, eventVars,
                   pipe, edge, avail, caller, todo, panic>>

\* epoll_wait returns: it reports, edge-triggered, what the sockets are ready
\* for, and the tickle pipe, or the time is up.
Reported == {fd \in edge : avail[fd] \cap events[fd] # {}}

LeaveWait ==
    /\ pc = "wait"
    /\ pipe \/ Reported # {} \/ waitFor = 0
    /\ ready' = [fd \in Reported \cup (IF pipe THEN {Pipe} ELSE {}) |->
                  IF fd = Pipe THEN {} ELSE avail[fd] \cap events[fd]]
    /\ edge' = {}
    /\ pc' = "expire"
    /\ UNCHANGED <<schedulerVars, state, current, idleTerm, waitFor, cbs, timerVars, eventVars,
                   pipe, avail, caller, todo, panic>>

\* listExpiredCb: the callbacks of the timers that are due, by time and address.
ListExpired ==
    /\ pc = "expire"
    /\ \E order \in SetToSeqs(Due(timers)) : cbs' = [i \in DOMAIN order |-> order[i].cb]
    /\ timers' = Expired(timers)
    /\ pc' = "handle"
    /\ UNCHANGED <<schedulerVars, state, current, idleTerm, waitFor, ready, tickled, eventVars,
                   pipe, edge, avail, caller, todo, panic>>

\* idle() schedules the callbacks one by one.
ScheduleExpired ==
    /\ pc = "handle" /\ cbs # <<>>
    /\ Schedule(<<Head(cbs)>>)
    /\ cbs' = Tail(cbs)
    /\ UNCHANGED <<activeThreadCnt, idleThreadCnt, isStopped, state, pc, current, idleTerm, waitFor,
                   ready, timerVars, eventVars, edge, avail, caller, todo, panic>>

\* idle() drains the pipe ...
Drain ==
    /\ pc = "handle" /\ cbs = <<>>
    /\ Pipe \in DOMAIN ready
    /\ pipe' = FALSE
    /\ ready' = [fd \in DOMAIN ready \ {Pipe} |-> ready[fd]]
    /\ UNCHANGED <<schedulerVars, state, pc, current, idleTerm, waitFor, cbs, timerVars, eventVars,
                   edge, avail, caller, todo, panic>>

\* ... and handles one socket: epoll goes on watching what is left, and what
\* waits for the events that came is scheduled.
Handle(fd) ==
    /\ pc = "handle" /\ cbs = <<>>
    /\ fd \in DOMAIN ready \ {Pipe}
    /\ LET realEvents == ready[fd] IN
         /\ edge' = Rearmed(fd, events[fd] \ realEvents)
         /\ TriggerEvents(fd, realEvents)
         /\ pendingEventCnt' = pendingEventCnt - Cardinality(realEvents)
    /\ ready' = [other \in DOMAIN ready \ {fd} |-> ready[other]]
    /\ UNCHANGED <<activeThreadCnt, idleThreadCnt, isStopped, state, pc, current, idleTerm, waitFor,
                   cbs, timerVars, avail, caller, todo, panic>>

\* The idle fiber yields and run() counts the worker as not idle.
YieldIdle ==
    /\ pc = "handle" /\ cbs = <<>> /\ DOMAIN ready = {}
    /\ idleThreadCnt' = idleThreadCnt - 1
    /\ pc' = "pick"
    /\ UNCHANGED <<tasks, activeThreadCnt, isStopped, state, current, idleTerm, waitFor, ready, cbs,
                   timerVars, eventVars, pipe, edge, avail, caller, todo, panic>>

Worker ==
    \/ BeginRun \/ Take \/ FindNone \/ BecomeIdle \/ AskNextTimer \/ EndIdle \/ EnterWait \/ LeaveWait
    \/ ListExpired \/ ScheduleExpired \/ Drain \/ (\E fd \in Fd : Handle(fd)) \/ YieldIdle

-----------------------------------------------------------------------------
(* The other threads.  None of them uses the manager once one has begun to  *)
(* destroy it, which calls stop().                                          *)

Free(c) == caller[c] = "free" /\ ~isStopped

\* scheduler(cb): the push, under the lock, and whether a tickle is needed.
CallerSchedule(c, call) ==
    /\ Free(c) /\ Calls(c, {"schedule"})
    /\ tasks' = Append(tasks, Start(call.fiber))
    /\ caller' = [caller EXCEPT ![c] = IF tasks = <<>> THEN "trickle" ELSE "free"]
    /\ UNCHANGED <<activeThreadCnt, idleThreadCnt, isStopped, state, workerVars, timerVars,
                   eventVars, pipe, edge, avail, panic>>

\* addTimer: the insertion, under the lock, and whether a tickle is needed.
CallerAddTimer(c, call) ==
    /\ Free(c) /\ Calls(c, {"timer"})
    /\ \E front \in BOOLEAN :
         /\ InsertTimer(NewTimer(call.ms, call.repeat, call.cb), front)
         /\ caller' = [caller EXCEPT ![c] = IF front /\ ~tickled THEN "trickle" ELSE "free"]
    /\ UNCHANGED <<schedulerVars, state, workerVars, eventVars, pipe, edge, avail, panic>>

\* Timer::reset inserts the timer anew, if it is still set and anything changes.
CallerResetTimer(c, call) ==
    /\ Free(c) /\ Calls(c, {"reset"})
    /\ LET mine == {t \in timers : t.cb = call.cb /\ (call.fromNow \/ call.ms # t.ms)} IN
       \/ mine = {} /\ UNCHANGED <<timerVars, caller>>
       \/ \E t \in mine, front \in BOOLEAN :
            /\ \E left \in Starts(t, call.ms, call.fromNow) :
                 LET new == [t EXCEPT !.left = left, !.ms = call.ms] IN
                 /\ front \in Fronts(timers \ {t}, new)
                 /\ timers' = (timers \ {t}) \cup {new}
            /\ tickled' = (tickled \/ front)
            /\ caller' = [caller EXCEPT ![c] = IF front /\ ~tickled THEN "trickle" ELSE "free"]
    /\ UNCHANGED <<schedulerVars, state, workerVars, eventVars, pipe, edge, avail, panic>>

\* Timer::refresh and Timer::cancel: no tickle, the first timer only gets later.
CallerRefreshTimer(c, call) ==
    /\ Free(c) /\ Calls(c, {"refresh"})
    /\ timers' = Refresh(timers, call.cb)
    /\ UNCHANGED <<schedulerVars, state, workerVars, tickled, eventVars, pipe, edge, avail,
                   caller, panic>>

CallerCancelTimer(c, call) ==
    /\ Free(c) /\ Calls(c, {"cancel"})
    /\ timers' = Cancel(timers, call.cb)
    /\ UNCHANGED <<schedulerVars, state, workerVars, tickled, eventVars, pipe, edge, avail,
                   caller, panic>>

\* trickle(), outside the locks, after a push, an insertion or in stop().
CallerTrickle(c) ==
    /\ caller[c] \in {"trickle", "stop"}
    /\ pipe' = Trickle
    /\ caller' = [caller EXCEPT ![c] = IF @ = "stop" THEN "join" ELSE "free"]
    /\ UNCHANGED <<schedulerVars, state, workerVars, timerVars, eventVars, edge, avail, todo, panic>>

\* Scheduler::stop: stopping() asks for the next timer, isStopped_ is set.
CallerStop(c) ==
    /\ Free(c) /\ Calls(c, {"stop"})
    /\ \A d \in Caller : caller[d] = "free"
    /\ tickled' = FALSE
    /\ isStopped' = TRUE
    /\ caller' = [caller EXCEPT ![c] = "stop"]
    /\ UNCHANGED <<tasks, activeThreadCnt, idleThreadCnt, state, workerVars, timers, eventVars,
                   pipe, edge, avail, panic>>

\* stop() has joined the worker.
CallerJoined(c) ==
    /\ caller[c] = "join" /\ pc = "exit"
    /\ caller' = [caller EXCEPT ![c] = "joined"]
    /\ UNCHANGED <<schedulerVars, state, workerVars, timerVars, eventVars, pipe, edge, avail,
                   todo, panic>>

CallerStep(c) ==
    \/ /\ todo[c] # <<>>
       /\ LET call == Head(todo[c]) IN
          \/ CallerSchedule(c, call) \/ CallerAddTimer(c, call) \/ CallerResetTimer(c, call)
          \/ CallerRefreshTimer(c, call) \/ CallerCancelTimer(c, call)
    \/ CallerTrickle(c) \/ CallerStop(c) \/ CallerJoined(c)

-----------------------------------------------------------------------------
(* The clock and the kernel.  *)

\* A millisecond passes; idle() calls epoll_wait in the one in which it has asked
\* for the next timer.
Elapses ==
    /\ pc # "stopping"
    /\ \/ \E t \in timers : t.left > 0
       \/ pc = "wait" /\ waitFor > 0
    /\ timers' = Elapse(timers)
    /\ waitFor' = IF pc = "wait" /\ waitFor > 0 THEN waitFor - 1 ELSE waitFor
    /\ UNCHANGED <<schedulerVars, state, pc, current, idleTerm, ready, cbs, tickled, eventVars,
                   pipe, edge, avail, caller, todo, panic>>

\* A socket becomes ready for an event, or gets more of it.
Arrives(fd, event) ==
    /\ ~(event \in avail[fd] /\ (fd \in edge \/ event \notin events[fd]))
    /\ avail' = [avail EXCEPT ![fd] = @ \cup {event}]
    /\ edge' = IF event \in events[fd] THEN edge \cup {fd} ELSE edge
    /\ UNCHANGED <<schedulerVars, state, workerVars, timerVars, eventVars, pipe, caller, todo, panic>>
=============================================================================
