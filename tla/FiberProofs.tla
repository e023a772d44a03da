---------------------------- MODULE FiberProofs ----------------------------
(***************************************************************************)
(* For every program, any number of fibers, threads and sockets, and all   *)
(* times: the worker never sleeps past a timer if the times fit into an    *)
(* int (IInv), and, whatever they are and until a CondPanic fails, a       *)
(* suspended fiber is held by exactly one task, event or timer, the        *)
(* pending events are counted, and the worker ends with nothing left       *)
(* (WInv).  No CondPanic fails if no two fibers await one event            *)
(* (AwaitedOK).  The tasks of a fiber are counted in 0, 1 and more, so     *)
(* that no set of descriptors need be finite.                              *)
(***************************************************************************)
EXTENDS Hook, TLAPS, FiniteSetTheorems

\* The times that are asked for.
Delay == {ms \in Nat : DelaysFit => ms <= IntMax}

\* A record that NewTimer can have made, after some time.
TimerOK(t) ==
    /\ t = [left |-> t.left, ms |-> t.ms, repeat |-> t.repeat, cb |-> t.cb]
    /\ t.left \in Nat /\ t.ms \in Nat /\ t.left <= t.ms
    /\ t.ms \in Delay

\* Records of that kind.
TimersOK(ts) == \A t \in ts : TimerOK(t)

\* No timer of ts is due within n.
NotBefore(ts, n) == \A t \in ts : n <= t.left

-----------------------------------------------------------------------------
(* The operators of Timers.tla.  *)

\* A new timer is well-formed (Timer::Timer).
LEMMA NewTimerOK ==
    ASSUME NEW ms \in Delay, NEW repeat, NEW cb
    PROVE  TimerOK(NewTimer(ms, repeat, cb))
  <1>1. ms \in Nat
    BY DEF Delay
  <1> QED
    BY <1>1 DEF TimerOK, NewTimer

\* Time keeps timers well-formed, and brings no timer nearer than one unit.
LEMMA ElapseOK ==
    ASSUME NEW ts, TimersOK(ts)
    PROVE  /\ TimersOK(Elapse(ts))
           /\ \A n \in Nat : NotBefore(ts, n) => NotBefore(Elapse(ts), IF n > 0 THEN n - 1 ELSE n)
  <1>1. ASSUME NEW t \in ts
        PROVE  LET e == [t EXCEPT !.left = IF @ = 0 THEN 0 ELSE @ - 1] IN
               TimerOK(e) /\ e.left = (IF t.left = 0 THEN 0 ELSE t.left - 1)
    <2>1. TimerOK(t)
      BY DEF TimersOK
    <2> DEFINE l == IF t.left = 0 THEN 0 ELSE t.left - 1
    <2>2. [t EXCEPT !.left = IF @ = 0 THEN 0 ELSE @ - 1]
            = [left |-> l, ms |-> t.ms, repeat |-> t.repeat, cb |-> t.cb]
      BY <2>1 DEF TimerOK
    <2>3. l \in Nat /\ l <= t.ms
      BY <2>1 DEF TimerOK
    <2> QED
      BY <2>1, <2>2, <2>3 DEF TimerOK
  <1>2. TimersOK(Elapse(ts))
    BY <1>1 DEF TimersOK, Elapse
  <1>3. ASSUME NEW n \in Nat, NotBefore(ts, n)
        PROVE  NotBefore(Elapse(ts), IF n > 0 THEN n - 1 ELSE n)
    BY <1>1, <1>3 DEF NotBefore, Elapse, TimersOK, TimerOK
  <1> QED
    BY <1>2, <1>3

\* What listExpiredCb leaves is well-formed.
LEMMA ExpiredOK ==
    ASSUME NEW ts, TimersOK(ts)
    PROVE  TimersOK(Expired(ts))
  <1>1. ASSUME NEW t \in ts
        PROVE  TimerOK([t EXCEPT !.left = t.ms])
    <2>1. TimerOK(t)
      BY DEF TimersOK
    <2>2. [t EXCEPT !.left = t.ms] = [left |-> t.ms, ms |-> t.ms, repeat |-> t.repeat, cb |-> t.cb]
      BY <2>1 DEF TimerOK
    <2> QED
      BY <2>1, <2>2 DEF TimerOK
  <1> QED
    BY <1>1 DEF TimersOK, Expired, Due

\* Timer::cancel and Timer::refresh bring no timer nearer.
LEMMA CancelOK ==
    ASSUME NEW ts, NEW cb, TimersOK(ts)
    PROVE  /\ TimersOK(Cancel(ts, cb))
           /\ \A n \in Int : NotBefore(ts, n) => NotBefore(Cancel(ts, cb), n)
  BY DEF TimersOK, Cancel, NotBefore

\* Refreshing keeps timers well-formed and brings none nearer (Timer::refresh).
LEMMA RefreshOK ==
    ASSUME NEW ts, NEW cb, TimersOK(ts)
    PROVE  /\ TimersOK(Refresh(ts, cb))
           /\ \A n \in Int : NotBefore(ts, n) => NotBefore(Refresh(ts, cb), n)
  <1>1. ASSUME NEW t \in ts
        PROVE  LET r == [t EXCEPT !.left = t.ms] IN TimerOK(r) /\ t.left <= r.left
    <2>1. TimerOK(t)
      BY DEF TimersOK
    <2>2. [t EXCEPT !.left = t.ms] = [left |-> t.ms, ms |-> t.ms, repeat |-> t.repeat, cb |-> t.cb]
      BY <2>1 DEF TimerOK
    <2> QED
      BY <2>1, <2>2 DEF TimerOK
  <1>2. TimersOK(Refresh(ts, cb))
    BY <1>1 DEF TimersOK, Refresh
  <1>3. ASSUME NEW n \in Int, NotBefore(ts, n)
        PROVE  NotBefore(Refresh(ts, cb), n)
    BY <1>1, <1>2, <1>3 DEF NotBefore, Refresh, TimersOK, TimerOK
  <1> QED
    BY <1>2, <1>3

\* Timer::reset leaves the timer well-formed.
LEMMA StartsOK ==
    ASSUME NEW t, TimerOK(t), NEW ms \in Delay, NEW fromNow, NEW left \in Starts(t, ms, fromNow)
    PROVE  TimerOK([t EXCEPT !.left = left, !.ms = ms])
  <1>0. ms \in Nat
    BY DEF Delay
  <1> DEFINE d == t.left - t.ms + ms
  <1>1. d \in Int /\ d <= ms
    BY <1>0 DEF TimerOK
  <1>2. left \in Nat /\ left <= ms
    <2>1. CASE fromNow
      BY <1>0, <2>1 DEF Starts
    <2>2. CASE ~fromNow /\ d <= 0
      BY <1>0, <1>1, <2>2 DEF Starts
    <2>3. CASE ~fromNow /\ d > 0
      <3>1. left = d \/ left \in 0 .. d
        BY <1>1, <2>3 DEF Starts, TimerOK
      <3> QED
        BY <1>0, <1>1, <2>3, <3>1
    <2>4. fromNow \/ (~fromNow /\ d <= 0) \/ (~fromNow /\ d > 0)
      BY <1>1
    <2> QED
      BY <2>1, <2>2, <2>3, <2>4
  <1>3. TimerOK(t)
    OBVIOUS
  <1>4. [t EXCEPT !.left = left, !.ms = ms]
          = [left |-> left, ms |-> ms, repeat |-> t.repeat, cb |-> t.cb]
    <2> DEFINE u == [left |-> left, ms |-> t.ms, repeat |-> t.repeat, cb |-> t.cb]
    <2>1. [t EXCEPT !.left = left] = u
      BY <1>3 DEF TimerOK
    <2>2. [u EXCEPT !.ms = ms] = [left |-> left, ms |-> ms, repeat |-> t.repeat, cb |-> t.cb]
      OBVIOUS
    <2>3. [t EXCEPT !.left = left, !.ms = ms] = [[t EXCEPT !.left = left] EXCEPT !.ms = ms]
      OBVIOUS
    <2> HIDE DEF u
    <2> QED
      BY <2>1, <2>2, <2>3
  <1> QED
    BY <1>0, <1>2, <1>4 DEF TimerOK

\* A timer that addTimer does not find at the front is not the first to be due.
LEMMA NotFront ==
    ASSUME NEW ts, TimersOK(ts), NEW t, TimerOK(t), FALSE \in Fronts(ts, t), NEW n \in Int,
           NotBefore(ts, n)
    PROVE  NotBefore(ts \cup {t}, n)
  BY DEF Fronts, NotBefore, TimersOK, TimerOK

-----------------------------------------------------------------------------
(* The inductive invariant.  *)

\* The worker has counted itself idle.
IdleAt == {"idle", "stopping", "wait", "expire", "handle"}

\* A fiber in do_io or connect has the record of that call.
WaitOK(w) ==
    w.at \in {"try", "register", "wait"} =>
        /\ w = [at |-> w.at, call |-> w.call, timeout |-> w.timeout, cancelled |-> w.cancelled]
        /\ w.timeout \in Delay
        /\ w.call \in Call /\ w.call.op \in {"io", "connect"}

\* What FdManager knows of a descriptor, if anything.
FdCtxOK(c) ==
    c # None =>
        /\ c = [userNonblock |-> c.userNonblock, sysNonblock |-> c.sysNonblock,
                recvTimeout |-> c.recvTimeout, sendTimeout |-> c.sendTimeout]
        /\ c.recvTimeout \in Delay /\ c.sendTimeout \in Delay

\* The variables of the callers, the calls and the descriptors have their types.
CallsOK == todo \in [Fiber \cup Caller -> Seq(Call)]

CallersOK == caller \in [Caller -> {"free", "trickle", "stop", "join", "joined"}]

WaitsOK == wait = [f \in Fiber |-> wait[f]] /\ \A f \in Fiber : WaitOK(wait[f])

FdCtxsOK == fdCtx = [fd \in Fd |-> fdCtx[fd]] /\ \A fd \in Fd : FdCtxOK(fdCtx[fd])

\* idleThreadCnt_ counts the one worker while it is in idle().
IdleOK == idleThreadCnt = IF pc \in IdleAt THEN 1 ELSE 0

\* Something will end the worker's wait at once.
Tickled == pipe \/ \E c \in Caller : caller[c] \in {"trickle", "stop"}

\* The worker has asked for the next timer and has not yet returned from
\* epoll_wait.
Sleeping == pc \in {"stopping", "wait"}

\* tickled_ is set only by a thread that tickles the worker ...
TickledOK == Sleeping /\ tickled => Tickled

\* ... and without a tickle the time for which it waits is right, as long as it
\* fits into an int.
WaitForOK ==
    /\ Sleeping => waitFor \in Nat \cup {Forever}
    /\ pc = "stopping" => waitFor \in Delay \cup {Forever}
    /\ DelaysFit /\ pc = "wait" => waitFor \in Nat
    /\ DelaysFit /\ Sleeping /\ ~Tickled =>
         IF waitFor = Forever THEN timers = {} ELSE NotBefore(timers, waitFor)

\* What NoOversleep is inductive with.
IInv ==
    /\ TimersOK(timers) /\ CallsOK /\ CallersOK /\ WaitsOK /\ FdCtxsOK
    /\ IdleOK /\ TickledOK /\ WaitForOK

-----------------------------------------------------------------------------
(* The calls of a fiber.  *)

\* A call that is made is a member of Call.
LEMMA NextCall ==
    ASSUME NEW a \in Fiber \cup Caller, NEW ops, CallsOK, Calls(a, ops)
    PROVE  CallsOK' /\ Head(todo[a]) \in Call /\ Head(todo[a]).op \in ops
  <1>1. todo[a] \in Seq(Call) /\ todo[a] # <<>>
    BY DEF CallsOK, Calls
  <1>2. Head(todo[a]) \in Call /\ Tail(todo[a]) \in Seq(Call)
    BY <1>1
  <1>3. todo' = [todo EXCEPT ![a] = Tail(@)]
    BY DEF Calls
  <1> QED
    BY <1>2, <1>3 DEF CallsOK, Calls

\* A running fiber neither counts the worker idle nor tickles it.
FiberFrame == pc = "run" /\ pc' \in {"run", "pick"} /\ UNCHANGED <<idleThreadCnt, caller>>

\* A step of a fiber, between resume() and yield(), leaves the worker awake, so
\* that only the shapes of its data remain to be shown.
LEMMA FrameInv ==
    ASSUME IInv, FiberFrame, TimersOK(timers)', CallsOK', WaitsOK', FdCtxsOK'
    PROVE  IInv'
  BY DEF IInv, FiberFrame, IdleOK, IdleAt, TickledOK, WaitForOK, Sleeping, CallersOK

\* addTimer of a fiber keeps the timers well-formed.
LEMMA AddTimerOK ==
    ASSUME TimersOK(timers), NEW t, TimerOK(t), AddTimer(t)
    PROVE  TimersOK(timers)'
  BY DEF AddTimer, InsertTimer, TimersOK

\* The end of a call keeps the records of the calls.
LEMMA ReturnsOK ==
    ASSUME WaitsOK, NEW f, NEW r, Returns(f, r)
    PROVE  WaitsOK'
  BY DEF WaitsOK, WaitOK, Returns, Body

\* A new call of fiber f has the record of a call.
LEMMA NewWaitOK ==
    ASSUME WaitsOK, NEW f, NEW w, WaitOK(w), wait' = [wait EXCEPT ![f] = w]
    PROVE  WaitsOK'
  BY DEF WaitsOK

\* A call that goes on keeps its record.
LEMMA NextWaitOK ==
    ASSUME WaitsOK, NEW f \in Fiber, wait[f].at \in {"try", "register", "wait"},
           NEW at \in {"try", "register", "wait"}, wait' = [wait EXCEPT ![f].at = at]
    PROVE  WaitsOK'
  <1> DEFINE w == wait[f]
             u == [at |-> at, call |-> w.call, timeout |-> w.timeout, cancelled |-> w.cancelled]
  <1>1. WaitOK(w)
    BY DEF WaitsOK
  <1>2. [w EXCEPT !.at = at] = u
    BY <1>1 DEF WaitOK
  <1>3. WaitOK(u)
    BY <1>1 DEF WaitOK
  <1>4. wait' = [wait EXCEPT ![f] = [w EXCEPT !.at = at]]
    OBVIOUS
  <1>5. wait' = [wait EXCEPT ![f] = u]
    BY <1>2, <1>4
  <1> HIDE DEF u
  <1> QED
    BY <1>3, <1>5, NewWaitOK

\* The time that connect() waits for is one of them ...
LEMMA ConnectTimeoutOK == ConnectTimeout \in Delay
  BY ConnectTimeoutAssumption DEF Delay, DelaysFit

\* ... and so is that of a descriptor without a timeout.
LEMMA NoTimeoutOK == 0 \in Delay
  BY MaxTimeoutAssumption DEF Delay

\* setTimeout changes one of the two timeouts and keeps the rest.
LEMMA SetTimeoutOK ==
    ASSUME NEW c, c # None, FdCtxOK(c), NEW type, NEW ms \in Delay
    PROVE  FdCtxOK(SetTimeout(c, type, ms))
<1>1. PICK u, s, r, w :
        c = [userNonblock |-> u, sysNonblock |-> s, recvTimeout |-> r, sendTimeout |-> w]
  BY DEF FdCtxOK
<1>2. r \in Delay /\ w \in Delay
  BY <1>1 DEF FdCtxOK
<1>3. CASE type = "SO_RCVTIMEO"
  <2>1. SetTimeout(c, type, ms) = [userNonblock |-> u, sysNonblock |-> s,
                                   recvTimeout |-> ms, sendTimeout |-> w]
    BY <1>1, <1>3 DEF SetTimeout
  <2> QED BY <1>2, <2>1 DEF FdCtxOK
<1>4. CASE type # "SO_RCVTIMEO"
  <2>1. SetTimeout(c, type, ms) = [userNonblock |-> u, sysNonblock |-> s,
                                   recvTimeout |-> r, sendTimeout |-> ms]
    BY <1>1, <1>4 DEF SetTimeout
  <2> QED BY <1>2, <2>1 DEF FdCtxOK
<1> QED BY <1>3, <1>4

\* A record of a descriptor that is replaced by a well-formed one.
LEMMA FdCtxChanged ==
    ASSUME FdCtxsOK, NEW fd \in Fd, NEW c, FdCtxOK(c), fdCtx' = [fdCtx EXCEPT ![fd] = c]
    PROVE  FdCtxsOK'
BY DEF FdCtxsOK

\* The user's wish for a blocking or a non-blocking descriptor is recorded.
LEMMA SetUserNonblockOK ==
    ASSUME NEW c, c # None, FdCtxOK(c), NEW on
    PROVE  FdCtxOK([c EXCEPT !.userNonblock = on])
<1>1. PICK u, s, r, w :
        c = [userNonblock |-> u, sysNonblock |-> s, recvTimeout |-> r, sendTimeout |-> w]
  BY DEF FdCtxOK
<1>2. r \in Delay /\ w \in Delay
  BY <1>1 DEF FdCtxOK
<1>3. [c EXCEPT !.userNonblock = on] = [userNonblock |-> on, sysNonblock |-> s,
                                        recvTimeout |-> r, sendTimeout |-> w]
  BY <1>1
<1> QED BY <1>2, <1>3 DEF FdCtxOK

\* The calls that a fiber begins keep the invariant.
LEMMA BeginInv ==
    ASSUME IInv, NEW f \in Fiber, NEW call, todo[f] # <<>>, call = Head(todo[f]),
           \/ Sleep(f, call) \/ Socket(f, call) \/ Io(f, call) \/ Connect(f, call)
           \/ Close(f, call) \/ SetSockOpt(f, call) \/ Fcntl(f, call)
           \/ GetFl(f, call) \/ Ioctl(f, call) \/ Watch(f, call)
    PROVE  IInv'
  <1> USE DEF IInv
  <1>0. ASSUME NEW ops, Calls(f, ops)
        PROVE  CallsOK' /\ call \in Call /\ call.op \in ops
    BY <1>0, NextCall
  <1>1. CASE Sleep(f, call)
    <2>1. CallsOK' /\ call \in Call /\ call.op \in {"sleep"}
      BY <1>0, <1>1 DEF Sleep
    <2>2. call.ms \in Delay
      BY <2>1, ProgramsAssumption DEF Delay, DelaysFit
    <2>3. TimersOK(timers)'
      BY <1>1, <2>2, NewTimerOK, AddTimerOK DEF Sleep
    <2>4. WaitsOK'
      <3>1. WaitOK([at |-> "sleep"])
        BY DEF WaitOK
      <3> QED
        BY <1>1, <3>1, NewWaitOK DEF Sleep
    <2>5. FiberFrame /\ FdCtxsOK'
      BY <1>1 DEF Sleep, InBody, Running, Leave, unusedVars, FiberFrame, FdCtxsOK
    <2> QED
      BY <2>1, <2>3, <2>4, <2>5, FrameInv
  <1>2. CASE Socket(f, call)
    <2>1. CallsOK'
      BY <1>0, <1>2 DEF Socket
    <2>2. TimersOK(timers)' /\ WaitsOK' /\ FiberFrame
      BY <1>2 DEF Socket, stayVars, unusedVars, timerVars, WaitsOK, InBody, Running, FiberFrame
    <2>3. FdCtxsOK'
      <3>1. PICK fd \in Fd : fdCtx' = [fdCtx EXCEPT ![fd] = Created(fd)]
        BY <1>2 DEF Socket
      <3>2. FdCtxOK(Created(fd))
        BY NoTimeoutOK DEF Created, NewFdCtx, FdCtxOK, FdCtxsOK
      <3> QED
        BY <3>1, <3>2, FdCtxChanged
    <2> QED
      BY <2>1, <2>2, <2>3, FrameInv
  <1>3. CASE Io(f, call)
    <2>1. CallsOK' /\ call \in Call /\ call.op \in {"io"}
      BY <1>0, <1>3 DEF Io
    <2>2. TimersOK(timers)' /\ FdCtxsOK' /\ FiberFrame
      BY <1>3 DEF Io, stayVars, unusedVars, timerVars, FdCtxsOK, InBody, Running, FiberFrame
    <2>3. WaitsOK'
      <3> DEFINE c == fdCtx[call.fd]
                 w == [at |-> "try", call |-> call, timeout |-> GetTimeout(c, call.event),
                       cancelled |-> FALSE]
      <3>1. CASE \E r : Returns(f, r)
        BY <3>1, ReturnsOK
      <3>2. CASE c # None /\ wait' = [wait EXCEPT ![f] = w]
        <4>1. FdCtxOK(c)
          BY <2>1, ProgramsAssumption DEF FdCtxsOK
        <4>2. GetTimeout(c, call.event) \in Delay
          BY <3>2, <4>1 DEF FdCtxOK, GetTimeout
        <4>3. WaitOK(w)
          BY <2>1, <4>2 DEF WaitOK
        <4> HIDE DEF w
        <4> QED
          BY <3>2, <4>3, NewWaitOK
      <3> QED
        BY <1>3, <3>1, <3>2 DEF Io
    <2> QED
      BY <2>1, <2>2, <2>3, FrameInv
  <1>4. CASE Connect(f, call)
    <2>1. CallsOK' /\ call \in Call /\ call.op \in {"connect"}
      BY <1>0, <1>4 DEF Connect
    <2>2. FdCtxsOK' /\ FiberFrame
      BY <1>4 DEF Connect, stayVars, unusedVars, FdCtxsOK, InBody, Running, FiberFrame
    <2>3. WaitsOK' /\ TimersOK(timers)'
      <3> DEFINE w == [at |-> "register", call |-> call, timeout |-> ConnectTimeout,
                       cancelled |-> FALSE]
      <3>1. CASE \E r : Returns(f, r) /\ UNCHANGED timerVars
        BY <3>1, ReturnsOK DEF timerVars
      <3>2. CASE AddTimer(NewTimer(ConnectTimeout, FALSE, Timeout(f, call)))
                 /\ wait' = [wait EXCEPT ![f] = w]
        <4>1. WaitOK(w)
          BY <2>1, ConnectTimeoutOK DEF WaitOK
        <4> HIDE DEF w
        <4> QED
          BY <3>2, <4>1, NewWaitOK, NewTimerOK, AddTimerOK, ConnectTimeoutOK
      <3> QED
        BY <1>4, <3>1, <3>2 DEF Connect
    <2> QED
      BY <2>1, <2>2, <2>3, FrameInv
  <1>5. CASE Close(f, call)
    <2>1. CallsOK'
      BY <1>0, <1>5 DEF Close
    <2>2. TimersOK(timers)' /\ WaitsOK' /\ FiberFrame
      BY <1>5 DEF Close, stayVars, unusedVars, timerVars, WaitsOK, InBody, Running, FiberFrame
    <2>3. FdCtxsOK'
      BY <1>5 DEF Close, Forgotten, FdCtxsOK, FdCtxOK
    <2> QED
      BY <2>1, <2>2, <2>3, FrameInv
  <1>6. CASE SetSockOpt(f, call)
    <2>1. CallsOK' /\ call \in Call /\ call.op \in {"timeout"}
      BY <1>0, <1>6 DEF SetSockOpt
    <2>2. TimersOK(timers)' /\ WaitsOK' /\ FiberFrame
      BY <1>6 DEF SetSockOpt, stayVars, unusedVars, timerVars, WaitsOK, InBody, Running, FiberFrame
    <2>3. FdCtxsOK'
      <3>1. CASE fdCtx' = fdCtx
        BY <3>1 DEF FdCtxsOK
      <3>2. CASE fdCtx[call.fd] # None
                 /\ fdCtx' = [fdCtx EXCEPT ![call.fd] = SetTimeout(@, call.type, call.ms)]
        <4>1. call.ms \in Delay /\ call.fd \in Fd
          BY <2>1, ProgramsAssumption DEF Delay, DelaysFit
        <4>2. FdCtxOK(SetTimeout(fdCtx[call.fd], call.type, call.ms))
          BY <3>2, <4>1, SetTimeoutOK DEF FdCtxsOK
        <4> QED
          BY <3>2, <4>1, <4>2, FdCtxChanged
      <3> QED
        BY <1>6, <3>1, <3>2 DEF SetSockOpt
    <2> QED
      BY <2>1, <2>2, <2>3, FrameInv
  <1>7. CASE Fcntl(f, call) \/ Ioctl(f, call)
    <2>1. /\ InBody(f) /\ (Calls(f, {"fcntl"}) \/ Calls(f, {"ioctl"}))
          /\ UNCHANGED <<stayVars, timerVars, wait>>
          /\ \/ fdCtx' = fdCtx
             \/ /\ fdCtx[call.fd] # None
                /\ fdCtx' = [fdCtx EXCEPT ![call.fd].userNonblock = call.on]
      <3>1. CASE Fcntl(f, call)
        BY <3>1 DEF Fcntl
      <3>2. CASE Ioctl(f, call)
        BY <3>2 DEF Ioctl
      <3> QED
        BY <1>7, <3>1, <3>2
    <2>2. CallsOK' /\ call \in Call /\ call.op \in {"fcntl", "ioctl"}
      BY <1>0, <2>1
    <2>3. TimersOK(timers)' /\ WaitsOK' /\ FiberFrame
      BY <2>1 DEF stayVars, unusedVars, timerVars, WaitsOK, InBody, Running, FiberFrame
    <2>4. FdCtxsOK'
      <3>1. CASE fdCtx' = fdCtx
        BY <3>1 DEF FdCtxsOK
      <3>2. CASE /\ fdCtx[call.fd] # None
                 /\ fdCtx' = [fdCtx EXCEPT ![call.fd].userNonblock = call.on]
        <4> DEFINE c == fdCtx[call.fd]
        <4>1. call.fd \in Fd
          BY <2>2, ProgramsAssumption
        <4>2. c # None /\ FdCtxOK(c)
          BY <3>2, <4>1 DEF FdCtxsOK
        <4>3. fdCtx' = [fdCtx EXCEPT ![call.fd] = [c EXCEPT !.userNonblock = call.on]]
          BY <3>2
        <4> HIDE DEF c
        <4> QED
          BY <4>1, <4>2, <4>3, SetUserNonblockOK, FdCtxChanged
      <3> QED
        BY <2>1, <3>1, <3>2
    <2> QED
      BY <2>2, <2>3, <2>4, FrameInv
  <1>8. CASE GetFl(f, call)
    <2>1. CallsOK'
      BY <1>0, <1>8 DEF GetFl
    <2>2. TimersOK(timers)' /\ FdCtxsOK' /\ FiberFrame
      BY <1>8 DEF GetFl, stayVars, unusedVars, timerVars, FdCtxsOK, InBody, Running, FiberFrame
    <2>3. WaitsOK'
      BY <1>8, ReturnsOK DEF GetFl
    <2> QED
      BY <2>1, <2>2, <2>3, FrameInv
  <1>9. CASE Watch(f, call)
    <2>1. CallsOK'
      BY <1>0, <1>9 DEF Watch
    <2>2. TimersOK(timers)' /\ FdCtxsOK' /\ WaitsOK' /\ FiberFrame
      BY <1>9 DEF Watch, stayVars, unusedVars, timerVars, hookVars, FdCtxsOK, WaitsOK, InBody,
                  Running, FiberFrame
    <2> QED
      BY <2>1, <2>2, FrameInv
  <1> QED
    BY <1>1, <1>2, <1>3, <1>4, <1>5, <1>6, <1>7, <1>8, <1>9

\* The calls that a fiber goes on with keep the invariant.
LEMMA GoOnInv ==
    ASSUME IInv, NEW f \in Fiber,
           SleepReturns(f) \/ Try(f) \/ Register(f) \/ Woken(f) \/ Finish(f)
    PROVE  IInv'
  <1> USE DEF IInv
  <1>1. CASE SleepReturns(f)
    <2>1. WaitsOK'
      BY <1>1, ReturnsOK DEF SleepReturns
    <2>2. TimersOK(timers)' /\ CallsOK' /\ FdCtxsOK' /\ FiberFrame
      BY <1>1 DEF SleepReturns, ioVars, schedulerVars, workerVars, timerVars, CallsOK, FdCtxsOK,
                  Running, FiberFrame
    <2> QED
      BY <2>1, <2>2, FrameInv
  <1>2. CASE Try(f)
    <2>1. CallsOK' /\ FdCtxsOK' /\ FiberFrame
      BY <1>2 DEF Try, stayVars, unusedVars, CallsOK, FdCtxsOK, Running, FiberFrame
    <2>2. WaitsOK' /\ TimersOK(timers)'
      <3>1. CASE \E r : Returns(f, r) /\ UNCHANGED timerVars
        BY <3>1, ReturnsOK DEF timerVars
      <3>2. CASE /\ wait[f].at = "try"
                 /\ AddTimer(NewTimer(wait[f].timeout, FALSE, Timeout(f, wait[f].call)))
                 /\ wait' = [wait EXCEPT ![f].at = "register"]
        <4>1. wait[f].timeout \in Delay
          BY <3>2 DEF WaitsOK, WaitOK
        <4> QED
          BY <3>2, <4>1, NextWaitOK, NewTimerOK, AddTimerOK
      <3> QED
        BY <1>2, <3>1, <3>2 DEF Try
    <2> QED
      BY <2>1, <2>2, FrameInv
  <1>3. CASE Register(f)
    <2>1. WaitsOK'
      BY <1>3, NextWaitOK DEF Register
    <2>2. TimersOK(timers)' /\ CallsOK' /\ FdCtxsOK' /\ FiberFrame
      BY <1>3 DEF Register, Leave, unusedVars, timerVars, CallsOK, FdCtxsOK, Running, FiberFrame
    <2> QED
      BY <2>1, <2>2, FrameInv
  <1>4. CASE Woken(f)
    <2>1. CallsOK' /\ FdCtxsOK' /\ FiberFrame
      BY <1>4 DEF Woken, stayVars, unusedVars, CallsOK, FdCtxsOK, Running, FiberFrame
    <2>2. TimersOK(timers)'
      BY <1>4, CancelOK DEF Woken
    <2>3. WaitsOK'
      <3>1. CASE \E r : Returns(f, r)
        BY <3>1, ReturnsOK
      <3>2. CASE wait[f].at = "wait" /\ wait' = [wait EXCEPT ![f].at = "try"]
        BY <3>2, NextWaitOK
      <3> QED
        BY <1>4, <3>1, <3>2 DEF Woken
    <2> QED
      BY <2>1, <2>2, <2>3, FrameInv
  <1>5. CASE Finish(f)
    <2>1. TimersOK(timers)' /\ CallsOK' /\ FdCtxsOK' /\ WaitsOK' /\ FiberFrame
      BY <1>5 DEF Finish, Leave, unusedVars, timerVars, hookVars, CallsOK, FdCtxsOK, WaitsOK,
                  InBody, Running, FiberFrame
    <2> QED
      BY <2>1, FrameInv
  <1> QED
    BY <1>1, <1>2, <1>3, <1>4, <1>5

\* A call whose timer has set timer_info::cancelled keeps its record.
LEMMA CancelledOK ==
    ASSUME NEW w, WaitOK(w), w.at = "wait", NEW x
    PROVE  WaitOK([w EXCEPT !.cancelled = x])
  <1> DEFINE u == [at |-> w.at, call |-> w.call, timeout |-> w.timeout, cancelled |-> x]
  <1>1. WaitOK(w) /\ w.at = "wait"
    OBVIOUS
  <1>2. [w EXCEPT !.cancelled = x] = u
    BY <1>1 DEF WaitOK
  <1>3. WaitOK(u)
    BY <1>1 DEF WaitOK
  <1> HIDE DEF u
  <1> QED
    BY <1>2, <1>3

\* The callback of a timer keeps the invariant.
LEMMA CallbackInv ==
    ASSUME IInv, RunCallback
    PROVE  IInv'
  <1> USE DEF IInv
  <1>1. TimersOK(timers)' /\ CallsOK' /\ FdCtxsOK' /\ FiberFrame
    BY DEF RunCallback, unusedVars, timerVars, CallsOK, FdCtxsOK, FiberFrame
  <1>2. WaitsOK'
    <2>1. CASE wait' = wait
      BY <2>1 DEF WaitsOK
    <2>2. CASE RunTimeout /\ wait' # wait
      <3> DEFINE f == current.fiber
                 w == wait[f]
      <3>1. w.at = "wait" /\ wait' = [wait EXCEPT ![f] = [w EXCEPT !.cancelled = TRUE]]
        BY <2>2 DEF RunTimeout
      <3>2. CASE f \in Fiber
        <4>1. WaitOK(w)
          BY <3>2 DEF WaitsOK
        <4>2. WaitOK([w EXCEPT !.cancelled = TRUE])
          BY <3>1, <4>1, CancelledOK
        <4> HIDE DEF f, w
        <4> QED
          BY <3>1, <4>2, NewWaitOK
      <3>3. CASE f \notin Fiber
        BY <3>1, <3>3 DEF WaitsOK
      <3> QED
        BY <3>2, <3>3
    <2> QED
      BY <2>1, <2>2 DEF RunCallback, RunWake, RunTick
  <1> QED
    BY <1>1, <1>2, FrameInv

-----------------------------------------------------------------------------
(* The worker, the other threads, the clock and the kernel.  *)

\* What getNextTimer returns is the time to the first timer.
LEMMA NextTimerOK ==
    ASSUME NEW ts, TimersOK(ts), NEW next, IsNextTimer(ts, next)
    PROVE  /\ next \in Delay \cup {Forever}
           /\ IF next = Forever THEN ts = {} ELSE NotBefore(ts, next)
  <1>1. ASSUME NEW t \in ts
        PROVE  t.left \in Delay /\ t.left \in Nat
    <2>1. t.left \in Nat /\ t.ms \in Nat /\ t.left <= t.ms /\ t.ms \in Delay
      BY DEF TimersOK, TimerOK
    <2>2. DelaysFit => t.ms <= IntMax
      BY <2>1 DEF Delay
    <2>3. DelaysFit => t.left <= IntMax
      BY <2>1, <2>2, MaxTimeoutAssumption
    <2> QED
      BY <2>1, <2>3 DEF Delay
  <1> QED
    BY <1>1 DEF IsNextTimer, NotBefore, Forever

\* A time that is asked for is a number of milliseconds.
LEMMA DelayIsNat == Delay \subseteq Nat
  BY DEF Delay

\* The cast to int leaves a number that fits, and makes an int of any other.
LEMMA CastOK ==
    ASSUME NEW n \in Nat
    PROVE  asInt(n) \in Int /\ (n <= IntMax => asInt(n) = n)
  <1>1. IntMax \in Nat
    BY MaxTimeoutAssumption
  <1>2. CASE n <= IntMax
    BY <1>2 DEF asInt
  <1>3. CASE ~(n <= IntMax)
    <2>1. PICK d \in Nat : d = 2 * (IntMax + 1)
      BY <1>1
    <2>2. d > 0 /\ n + IntMax + 1 \in Int
      BY <1>1, <2>1
    <2>3. PICK m \in Int : m = (n + IntMax + 1) % d
      BY <2>2
    <2>4. asInt(n) = m - (IntMax + 1)
      BY <1>3, <2>1, <2>3 DEF asInt
    <2> QED
      BY <1>1, <1>3, <2>4
  <1> QED
    BY <1>2, <1>3

\* Waiting for MAX_TIMEOUT at most never is to wait for longer.
LEMMA EpollTimeoutOK ==
    ASSUME NEW next \in Delay \cup {Forever}
    PROVE  /\ EpollTimeout(next) \in Nat \cup {Forever}
           /\ DelaysFit =>
                /\ EpollTimeout(next) \in Nat
                /\ \A ts : TimersOK(ts) /\ (IF next = Forever THEN ts = {} ELSE NotBefore(ts, next))
                           => NotBefore(ts, EpollTimeout(next))
  <1>1. MaxTimeout \in Nat
    BY MaxTimeoutAssumption
  <1>2. CASE next = Forever
    BY <1>1, <1>2 DEF EpollTimeout, NotBefore
  <1>3. CASE next # Forever
    <2>1. next \in Nat /\ (DelaysFit => next <= IntMax)
      BY <1>3 DEF Delay
    <2>2. PICK n \in Int : n = asInt(next) /\ (DelaysFit => n = next)
      BY <2>1, CastOK
    <2>3. EpollTimeout(next) = IF n > MaxTimeout THEN MaxTimeout ELSE IF n < 0 THEN Forever ELSE n
      BY <1>3, <2>2 DEF EpollTimeout
    <2>4. ASSUME DelaysFit
          PROVE  EpollTimeout(next) \in Nat /\ EpollTimeout(next) <= next
      BY <1>1, <2>1, <2>2, <2>3, <2>4
    <2>5. EpollTimeout(next) \in Nat \cup {Forever}
      BY <1>1, <2>2, <2>3
    <2> QED
      BY <1>3, <2>1, <2>4, <2>5 DEF NotBefore, TimersOK, TimerOK
  <1> QED
    BY <1>2, <1>3

\* A step of the worker outside the fibers keeps the invariant.
LEMMA WorkerInv ==
    ASSUME IInv, Worker, UNCHANGED hookVars
    PROVE  IInv'
  <1> USE DEF IInv
  <1>1. CallsOK' /\ CallersOK' /\ WaitsOK' /\ FdCtxsOK' /\ caller' = caller
    BY DEF Worker, BeginRun, Take, FindNone, BecomeIdle, AskNextTimer, EndIdle, EnterWait, LeaveWait,
           ListExpired, ScheduleExpired, Drain, Handle, YieldIdle, hookVars, CallsOK, CallersOK,
           WaitsOK, FdCtxsOK
  <1>2. IdleOK'
    <2>1. CASE BecomeIdle
      BY <2>1 DEF BecomeIdle, IdleOK, IdleAt
    <2>2. CASE EndIdle \/ YieldIdle
      BY <2>2 DEF EndIdle, YieldIdle, IdleOK, IdleAt
    <2>3. CASE idleThreadCnt' = idleThreadCnt /\ (pc' \in IdleAt <=> pc \in IdleAt)
      BY <2>3 DEF IdleOK
    <2>4. CASE BeginRun \/ Take \/ FindNone
      BY <2>3, <2>4 DEF BeginRun, Take, FindNone, schedulerVars, IdleAt
    <2>5. CASE AskNextTimer \/ EnterWait \/ LeaveWait \/ ListExpired
      BY <2>3, <2>5 DEF AskNextTimer, EnterWait, LeaveWait, ListExpired, schedulerVars, IdleAt
    <2>6. CASE ScheduleExpired \/ Drain \/ \E fd \in Fd : Handle(fd)
      BY <2>3, <2>6 DEF ScheduleExpired, Drain, Handle, schedulerVars, IdleAt
    <2> QED
      BY <2>1, <2>2, <2>4, <2>5, <2>6 DEF Worker
  <1>3. TimersOK(timers)'
    <2>1. CASE ListExpired
      BY <2>1, ExpiredOK DEF ListExpired
    <2>2. CASE timers' = timers
      BY <2>2
    <2> QED
      BY <2>1, <2>2 DEF Worker, BeginRun, Take, FindNone, BecomeIdle, AskNextTimer, EndIdle,
         EnterWait, LeaveWait, ScheduleExpired, Drain, Handle, YieldIdle, timerVars
  <1>4. TickledOK' /\ WaitForOK'
    <2>1. CASE AskNextTimer
      <3>1. /\ waitFor' \in Delay \cup {Forever}
            /\ IF waitFor' = Forever THEN timers = {} ELSE NotBefore(timers, waitFor')
        BY <2>1, NextTimerOK DEF AskNextTimer
      <3>2. pc' = "stopping" /\ tickled' = FALSE /\ timers' = timers
        BY <2>1 DEF AskNextTimer
      <3> QED
        BY <3>1, <3>2, DelayIsNat DEF TickledOK, WaitForOK, Sleeping
    <2>2. CASE EnterWait
      <3>1. waitFor \in Delay \cup {Forever} /\ waitFor' = EpollTimeout(waitFor)
        BY <2>2 DEF EnterWait, WaitForOK
      <3>2. waitFor' \in Nat \cup {Forever} /\ (DelaysFit => waitFor' \in Nat /\ waitFor' # Forever)
        BY <3>1, EpollTimeoutOK DEF Forever
      <3>3. /\ pc = "stopping" /\ pc' = "wait" /\ UNCHANGED <<timers, tickled, pipe>>
        BY <2>2 DEF EnterWait, timerVars
      <3>4. Tickled' = Tickled
        BY <1>1, <3>3 DEF Tickled
      <3>5. DelaysFit /\ ~Tickled => NotBefore(timers, waitFor')
        BY <3>1, <3>3, EpollTimeoutOK DEF WaitForOK, Sleeping
      <3> QED
        BY <3>2, <3>3, <3>4, <3>5 DEF TickledOK, WaitForOK, Sleeping
    <2>3. CASE pc' \notin {"stopping", "wait"}
      BY <2>3 DEF TickledOK, WaitForOK, Sleeping
    <2> QED
      BY <2>1, <2>2, <2>3 DEF Worker, BeginRun, Take, FindNone, BecomeIdle, EndIdle, LeaveWait,
         ListExpired, ScheduleExpired, Drain, Handle, YieldIdle
  <1> QED
    BY <1>1, <1>2, <1>3, <1>4

\* A step of another thread keeps the invariant: one that brings a timer to the
\* front tickles the worker, unless another does already.
LEMMA ThreadInv ==
    ASSUME IInv, NEW c \in Caller, CallerStep(c), UNCHANGED hookVars
    PROVE  IInv'
  <1> DEFINE call == Head(todo[c])
  <1>0. \/ CallerSchedule(c, call) \/ CallerAddTimer(c, call) \/ CallerResetTimer(c, call)
        \/ CallerRefreshTimer(c, call) \/ CallerCancelTimer(c, call)
        \/ CallerTrickle(c) \/ CallerStop(c) \/ CallerJoined(c)
    BY DEF CallerStep
  <1> HIDE DEF call
  <1> USE DEF IInv
  <1>1. WaitsOK' /\ FdCtxsOK' /\ CallersOK'
    <2>1. WaitsOK' /\ FdCtxsOK'
      BY DEF hookVars, WaitsOK, FdCtxsOK
    <2>2. CASE caller' = caller
      BY <2>1, <2>2 DEF CallersOK
    <2>3. CASE \E to \in {"free", "trickle", "stop", "join", "joined"} :
                 caller' = [caller EXCEPT ![c] = to]
      BY <2>1, <2>3 DEF CallersOK
    <2>4. \/ caller' = caller
          \/ \E to \in {"free", "trickle", "stop", "join", "joined"} :
               caller' = [caller EXCEPT ![c] = to]
      BY <1>0 DEF CallerSchedule, CallerAddTimer, CallerResetTimer, CallerRefreshTimer,
                  CallerCancelTimer, CallerTrickle, CallerStop, CallerJoined
    <2> QED
      BY <2>2, <2>3, <2>4
  <1>2. CallsOK'
    <2>1. CASE todo' = todo
      BY <2>1 DEF CallsOK
    <2>2. CASE \E ops : Calls(c, ops)
      BY <2>2, NextCall
    <2>3. CASE \/ CallerSchedule(c, call) \/ CallerAddTimer(c, call)
               \/ CallerResetTimer(c, call) \/ CallerRefreshTimer(c, call)
               \/ CallerCancelTimer(c, call)
      BY <2>2, <2>3 DEF CallerSchedule, CallerAddTimer, CallerResetTimer,
         CallerRefreshTimer, CallerCancelTimer
    <2>4. CASE CallerTrickle(c) \/ CallerJoined(c)
      BY <2>1, <2>4 DEF CallerTrickle, CallerJoined
    <2>5. CASE CallerStop(c)
      BY <2>2, <2>5 DEF CallerStop
    <2> QED
      BY <1>0, <2>3, <2>4, <2>5
  <1>3. pc' = pc /\ waitFor' = waitFor /\ idleThreadCnt' = idleThreadCnt /\ IdleOK'
    BY <1>0 DEF CallerSchedule, CallerAddTimer, CallerResetTimer, CallerRefreshTimer,
           CallerCancelTimer, CallerTrickle, CallerStop, CallerJoined, schedulerVars, workerVars, IdleOK
  <1>4. ASSUME Tickled', TimersOK(timers)'
        PROVE  IInv'
    BY <1>1, <1>2, <1>3, <1>4 DEF TickledOK, WaitForOK, Sleeping
  <1>5. ASSUME Free(c), UNCHANGED pipe, Tickled, \A d \in Caller \ {c} : caller'[d] = caller[d]
        PROVE  Tickled'
    BY <1>5 DEF Tickled, Free
  \* A thread that has put t into ts, which is timers without t.
  <1>6. ASSUME NEW ts, TimersOK(ts), \A n \in Int : NotBefore(timers, n) => NotBefore(ts, n),
               NEW t, TimerOK(t), timers # {} \/ ts = {}, NEW front \in Fronts(ts, t),
               Free(c), UNCHANGED pipe, timers' = ts \cup {t}, tickled' = (tickled \/ front),
               caller' = [caller EXCEPT ![c] = IF front /\ ~tickled THEN "trickle" ELSE "free"]
        PROVE  IInv'
    <2>1. TimersOK(timers)'
      BY <1>6 DEF TimersOK
    <2>2. CASE front /\ ~tickled
      <3>1. Tickled'
        BY <1>6, <2>2 DEF Tickled, CallersOK
      <3> QED
        BY <1>4, <2>1, <3>1
    <2>3. CASE Sleeping /\ front /\ tickled
      <3>1. Tickled'
        BY <1>5, <1>6, <2>3 DEF TickledOK, CallersOK
      <3> QED
        BY <1>4, <2>1, <3>1
    <2>4. CASE Sleeping /\ ~front
      <3>1. Tickled => Tickled'
        BY <1>5, <1>6 DEF CallersOK
      <3>2. tickled' => tickled
        BY <1>6, <2>4
      <3>3. ts # {} /\ FALSE \in Fronts(ts, t)
        BY <1>6, <2>4 DEF Fronts
      <3>4. waitFor \in Nat \cup {Forever} /\ timers # {}
        BY <1>6, <2>4, <3>3 DEF WaitForOK, Sleeping
      <3>5. DelaysFit /\ ~Tickled => waitFor # Forever /\ NotBefore(timers', waitFor)
        <4>1. SUFFICES ASSUME DelaysFit, ~Tickled PROVE waitFor # Forever /\ NotBefore(timers', waitFor)
          OBVIOUS
        <4>2. waitFor \in Nat /\ waitFor # Forever /\ NotBefore(timers, waitFor)
          BY <2>4, <3>4, <4>1 DEF WaitForOK, Forever
        <4>3. NotBefore(ts, waitFor)
          BY <1>6, <4>2
        <4>4. waitFor \in Int
          BY <4>2
        <4>5. NotBefore(ts \cup {t}, waitFor)
          BY <1>6, <3>3, <4>3, <4>4, NotFront, Zenon
        <4> QED
          BY <1>6, <4>2, <4>5
      <3> QED
        BY <1>1, <1>2, <1>3, <2>1, <2>4, <3>1, <3>2, <3>4, <3>5 DEF TickledOK, WaitForOK, Sleeping
    <2>5. CASE ~Sleeping
      BY <1>1, <1>2, <1>3, <2>1, <2>5 DEF TickledOK, WaitForOK, Sleeping
    <2> QED
      BY <2>2, <2>3, <2>4, <2>5 DEF Fronts
  \* A thread that only makes timers later.
  <1>7. ASSUME TimersOK(timers)', timers # {} \/ timers' = {}, Free(c), UNCHANGED <<tickled, pipe>>,
               \A n \in Int : NotBefore(timers, n) => NotBefore(timers', n),
               \A d \in Caller \ {c} : caller'[d] = caller[d]
        PROVE  IInv'
    <2>1. Tickled => Tickled'
      BY <1>5, <1>7
    <2> QED
      BY <1>1, <1>2, <1>3, <1>7, <2>1 DEF TickledOK, WaitForOK, Sleeping, Forever
  <1>8. CASE CallerSchedule(c, call)
    <2>1. TimersOK(timers)' /\ timers' = timers /\ UNCHANGED <<tickled, pipe>> /\ Free(c)
          /\ \A d \in Caller \ {c} : caller'[d] = caller[d]
      BY <1>8 DEF CallerSchedule, timerVars, CallersOK
    <2> QED
      BY <1>7, <2>1
  <1>9. CASE CallerAddTimer(c, call)
    <2>1. call \in Call /\ call.op \in {"timer"}
      BY <1>9, NextCall DEF CallerAddTimer, call
    <2> DEFINE t == NewTimer(call.ms, call.repeat, call.cb)
    <2>2. TimerOK(t)
      <3>1. call.ms \in Delay
        BY <2>1, ProgramsAssumption DEF Delay, DelaysFit
      <3> QED
        BY <3>1, NewTimerOK
    <2>3. PICK front \in BOOLEAN :
             /\ front \in Fronts(timers, t)
             /\ timers' = timers \cup {t} /\ tickled' = (tickled \/ front)
             /\ caller' = [caller EXCEPT ![c] = IF front /\ ~tickled THEN "trickle" ELSE "free"]
      BY <1>9 DEF CallerAddTimer, InsertTimer
    <2>4. Free(c) /\ UNCHANGED pipe
      BY <1>9 DEF CallerAddTimer
    <2> HIDE DEF t
    <2> QED
      BY <1>6, <2>2, <2>3, <2>4
  <1>10. CASE CallerResetTimer(c, call)
    <2>1. call \in Call /\ call.op \in {"reset"}
      <3>1. Calls(c, {"reset"})
        BY <1>10 DEF CallerResetTimer
      <3> QED
        BY <3>1, NextCall DEF call
    <2>2. Free(c) /\ UNCHANGED pipe
      BY <1>10 DEF CallerResetTimer
    <2>3. CASE UNCHANGED <<timerVars, caller>>
      BY <1>7, <2>2, <2>3 DEF timerVars
    <2>4. SUFFICES ASSUME ~UNCHANGED <<timerVars, caller>> PROVE IInv'
      BY <2>3
    <2>5. PICK t \in timers, front \in BOOLEAN :
             /\ \E left \in Starts(t, call.ms, call.fromNow) :
                  LET new == [t EXCEPT !.left = left, !.ms = call.ms] IN
                  /\ front \in Fronts(timers \ {t}, new)
                  /\ timers' = (timers \ {t}) \cup {new}
             /\ tickled' = (tickled \/ front)
             /\ caller' = [caller EXCEPT ![c] = IF front /\ ~tickled THEN "trickle" ELSE "free"]
      BY <1>10, <2>4 DEF CallerResetTimer
    <2>6. PICK left \in Starts(t, call.ms, call.fromNow) :
            LET new == [t EXCEPT !.left = left, !.ms = call.ms] IN
            front \in Fronts(timers \ {t}, new) /\ timers' = (timers \ {t}) \cup {new}
      BY <2>5
    <2> DEFINE ts == timers \ {t}
               new == [t EXCEPT !.left = left, !.ms = call.ms]
    <2>7. TimerOK(new)
      <3>1. call.ms \in Delay
        BY <2>1, ProgramsAssumption DEF Delay, DelaysFit
      <3> QED
        BY <3>1, StartsOK DEF TimersOK
    <2>8. TimersOK(ts) /\ timers # {} /\ \A n \in Int : NotBefore(timers, n) => NotBefore(ts, n)
      BY DEF TimersOK, NotBefore
    <2>9. /\ front \in Fronts(ts, new)
          /\ timers' = ts \cup {new} /\ tickled' = (tickled \/ front)
          /\ caller' = [caller EXCEPT ![c] = IF front /\ ~tickled THEN "trickle" ELSE "free"]
      BY <2>5, <2>6
    <2> HIDE DEF ts, new
    <2> QED
      BY <1>6, <2>7, <2>8, <2>9, <2>2
  <1>11. CASE CallerRefreshTimer(c, call)
    <2>1. timers' = Refresh(timers, call.cb) /\ UNCHANGED <<tickled, pipe, caller>> /\ Free(c)
      BY <1>11 DEF CallerRefreshTimer
    <2>2. TimersOK(timers)' /\ \A n \in Int : NotBefore(timers, n) => NotBefore(timers', n)
      BY <2>1, RefreshOK
    <2>3. timers # {} \/ timers' = {}
      BY <2>1 DEF Refresh
    <2> QED
      BY <1>7, <2>1, <2>2, <2>3
  <1>12. CASE CallerCancelTimer(c, call)
    <2>1. timers' = Cancel(timers, call.cb) /\ UNCHANGED <<tickled, pipe, caller>> /\ Free(c)
      BY <1>12 DEF CallerCancelTimer
    <2>2. TimersOK(timers)' /\ \A n \in Int : NotBefore(timers, n) => NotBefore(timers', n)
      BY <2>1, CancelOK
    <2>3. timers # {} \/ timers' = {}
      BY <2>1 DEF Cancel
    <2> QED
      BY <1>7, <2>1, <2>2, <2>3
  <1>13. CASE CallerTrickle(c)
    <2>1. TimersOK(timers)' /\ UNCHANGED timerVars
      BY <1>13 DEF CallerTrickle, timerVars
    <2>2. CASE Sleeping
      <3>1. idleThreadCnt > 0
        BY <2>2 DEF IdleOK, IdleAt, Sleeping
      <3>2. Tickled'
        BY <1>13, <3>1 DEF CallerTrickle, Trickle, Tickled
      <3> QED
        BY <1>4, <2>1, <3>2
    <2>3. CASE ~Sleeping
      BY <1>1, <1>2, <1>3, <2>1, <2>3 DEF TickledOK, WaitForOK, Sleeping
    <2> QED
      BY <2>2, <2>3
  <1>14. CASE CallerStop(c)
    <2>1. Tickled'
      BY <1>14 DEF CallerStop, Tickled, CallersOK
    <2>2. TimersOK(timers)'
      BY <1>14 DEF CallerStop
    <2> QED
      BY <1>4, <2>1, <2>2
  <1>15. CASE CallerJoined(c)
    BY <1>1, <1>2, <1>3, <1>15 DEF CallerJoined, timerVars, TickledOK, WaitForOK, Sleeping
  <1> QED
    BY <1>0, <1>8, <1>9, <1>10, <1>11, <1>12, <1>13, <1>14, <1>15

\* Time passes for the timers and for epoll_wait alike.
LEMMA ElapsesInv ==
    ASSUME IInv, ClockStep
    PROVE  IInv'
  <1> USE DEF IInv
  <1>1. /\ CallsOK' /\ CallersOK' /\ WaitsOK' /\ FdCtxsOK' /\ IdleOK'
        /\ pc # "stopping" /\ UNCHANGED <<pc, tickled, pipe, caller>>
    BY DEF ClockStep, Elapses, hookVars, schedulerVars, CallsOK, CallersOK, WaitsOK, FdCtxsOK, IdleOK
  <1>2. timers' = Elapse(timers) /\ TimersOK(timers)'
    BY ElapseOK DEF ClockStep, Elapses
  <1>3. Tickled' <=> Tickled
    BY <1>1 DEF Tickled
  <1>4. CASE pc = "wait"
    <2>1. /\ waitFor \in Nat \cup {Forever} /\ (DelaysFit => waitFor \in Nat)
          /\ waitFor' = IF waitFor > 0 THEN waitFor - 1 ELSE waitFor
      BY <1>4 DEF ClockStep, Elapses, WaitForOK, Sleeping
    <2>2. /\ waitFor' \in Nat \cup {Forever}
          /\ DelaysFit => waitFor' \in Nat /\ waitFor # Forever /\ waitFor' # Forever
      BY <2>1 DEF Forever
    <2>3. DelaysFit /\ ~Tickled => NotBefore(timers', waitFor')
      BY <1>2, <1>4, <2>1, <2>2, ElapseOK DEF WaitForOK, Sleeping
    <2> QED
      BY <1>1, <1>2, <1>3, <1>4, <2>2, <2>3 DEF TickledOK, WaitForOK, Sleeping
  <1>5. CASE pc # "wait"
    BY <1>1, <1>2, <1>5 DEF TickledOK, WaitForOK, Sleeping
  <1> QED
    BY <1>4, <1>5

\* What the kernel reports of sockets (epoll) changes nothing of the invariant.
LEMMA StutterInv ==
    ASSUME IInv, UNCHANGED <<schedulerVars, pc, waitFor, timerVars, pipe, caller, todo, hookVars>>
    PROVE  IInv'
  BY DEF IInv, schedulerVars, timerVars, hookVars, CallsOK, CallersOK, WaitsOK, FdCtxsOK, IdleOK,
         TickledOK, WaitForOK, Sleeping, Tickled

\* IOManager's constructor leaves no timer, no task and no tickle.
LEMMA InitInv == Init => IInv
  <1> SUFFICES ASSUME Init PROVE IInv
    OBVIOUS
  <1>1. TimersOK(timers) /\ CallsOK /\ CallersOK
    BY ProgramsAssumption DEF Init, TimersOK, CallsOK, CallersOK
  <1>2. WaitsOK /\ FdCtxsOK
    BY DEF Init, WaitsOK, WaitOK, Body, FdCtxsOK, FdCtxOK
  <1>3. IdleOK /\ TickledOK /\ WaitForOK
    BY DEF Init, IdleOK, IdleAt, TickledOK, WaitForOK, Sleeping
  <1> QED
    BY <1>1, <1>2, <1>3 DEF IInv

\* Every step of the worker, a fiber, another thread, the clock and the kernel
\* keeps the invariant.
LEMMA NextInv == IInv /\ [Next]_vars => IInv'
  <1> SUFFICES ASSUME IInv, [Next]_vars PROVE IInv'
    OBVIOUS
  <1>1. CASE Worker /\ UNCHANGED hookVars
    BY <1>1, WorkerInv
  <1>2. CASE \E f \in Fiber : FiberStep(f)
    BY <1>2, BeginInv, GoOnInv DEF FiberStep
  <1>3. CASE RunCallback
    BY <1>3, CallbackInv
  <1>4. CASE \E c \in Caller : ThreadStep(c)
    BY <1>4, ThreadInv DEF ThreadStep
  <1>5. CASE ClockStep
    BY <1>5, ElapsesInv
  <1>6. CASE KernelStep
    BY <1>6, StutterInv DEF KernelStep, Arrives, workerVars
  <1>7. CASE UNCHANGED vars
    BY <1>7, StutterInv DEF vars, ioVars, hookVars, workerVars
  <1> QED
    BY <1>1, <1>2, <1>3, <1>4, <1>5, <1>6, <1>7 DEF Next, WorkerStep

\* The worker never waits in epoll_wait for longer than until the first timer
\* unless a thread has tickled it or is about to: addTimer's rule, that only the
\* thread that sets tickled_ tickles, loses no timer, although stop() and the
\* worker reset tickled_ in between (TimerManager::getNextTimer, addTimer, idle).
\* The times have to fit into an int, to which idle() casts them
\* (io_manager.cpp:262).
THEOREM NeverOversleeps == Spec => [](DelaysFit => NoOversleep)
  <1>1. IInv => (DelaysFit => NoOversleep)
    <2> SUFFICES ASSUME IInv, DelaysFit, pc = "wait", NEW t \in timers,
                        waitFor = Forever \/ t.left < waitFor
                 PROVE  Tickled
      BY DEF NoOversleep, Tickled
    <2>1. waitFor \in Nat /\ waitFor # Forever /\ t.left \in Nat
      BY DEF IInv, WaitForOK, Forever, TimersOK, TimerOK
    <2>2. ~Tickled => waitFor <= t.left
      BY <2>1 DEF IInv, WaitForOK, Sleeping, NotBefore
    <2> QED
      BY <2>1, <2>2
  <1> QED
    BY <1>1, InitInv, NextInv, PTL DEF Spec
-----------------------------------------------------------------------------
(* What wakes a fiber and what starts one.  *)

\* The callbacks of timers, and what an event wakes or starts.
Callback ==
    {Wake(f) : f \in Fiber} \cup {Timeout(f, c) : f \in Fiber, c \in Call}
    \cup {c.cb : c \in {d \in Call : d.op = "timer"}}

Waiter == {Resume(f) : f \in Fiber} \cup {Start(f) : f \in Fiber}

Task == Callback \cup Waiter

\* A task of one of the kinds ks for fiber f, and where such tasks are.
Holds(t, ks, f) == t # None /\ t.do \in ks /\ t.fiber = f

InSeq(s, ks, f) == {i \in DOMAIN s : Holds(s[i], ks, f)}

InTimers(ts, ks, f) == {t \in ts : Holds(t.cb, ks, f)}

InCtx(c, ks, f) == {w \in Fd \X Event : Holds(c[w[1]][w[2]], ks, f)}

\* The calls to come that start f.
Unstarted(td, f) ==
    {w \in (Fiber \cup Caller) \X Nat :
        /\ w[2] \in DOMAIN td[w[1]]
        /\ td[w[1]][w[2]].op \in {"schedule", "watch"} /\ td[w[1]][w[2]].fiber = f}

\* 0, 1, or more.
Count(S) == IF S = {} THEN 0 ELSE IF \E x \in S : S = {x} THEN 1 ELSE 2

\* In how many places such tasks are.
Held(ks, f) ==
    Count(InSeq(tasks, ks, f)) + Count(InSeq(cbs, ks, f))
    + Count(InTimers(timers, ks, f)) + Count(InCtx(ctx, ks, f))

\* The kinds of tasks that make a suspended fiber go on, and that begin a new one.
Wakers == {"resume", "wake"}

Starters == {"start"}

\* The callback that wakes f runs.
Waking(f) == IF pc = "run" /\ Holds(current, {"wake"}, f) THEN 1 ELSE 0

\* A fiber that is suspended has one waker, one that has not begun one starter
\* at most, and no other fiber has either.
FiberOK(f) ==
    /\ Held(Wakers, f) + Waking(f) = IF state[f] = "READY" THEN 1 ELSE 0
    /\ Held(Starters, f) + Count(Unstarted(todo, f)) <= IF state[f] = "NONE" THEN 1 ELSE 0

\* The lists, the timers and the events hold tasks of their kinds.
TasksOK ==
    /\ tasks \in Seq(Task) /\ cbs \in Seq(Callback) /\ (cbs # <<>> => pc = "handle")
    /\ current # None => current \in Task

TimerCbsOK ==
    IsFiniteSet(timers) /\ \A t \in timers : t.cb \in Callback /\ (t.repeat => t.cb.do = "tick")

EventsOK ==
    /\ events \in [Fd -> SUBSET Event]
    /\ ctx = [fd \in Fd |-> [e \in Event |-> ctx[fd][e]]]
    /\ \A fd \in Fd, e \in Event : IF e \in events[fd] THEN ctx[fd][e] \in Waiter
                                                       ELSE ctx[fd][e] = None

\* Between epoll_wait and the end of the loop over its events nothing is
\* registered or given up.
ReadyOK ==
    pc \in {"expire", "handle"} =>
        \A fd \in (DOMAIN ready \ {Pipe}) \cap Fd : ready[fd] \subseteq events[fd]

\* The fiber that runs is the one that run() has taken.
StatesOK ==
    /\ state \in [Fiber -> {"NONE", "READY", "RUNNING", "TERM"}]
    /\ \A f \in Fiber : state[f] = "RUNNING" => pc = "run" /\ current \in {Resume(f), Start(f)}

\* f is in do_io or connect, past the test of the descriptor.
InCall(f) == wait[f].at \in {"try", "register", "wait"}

\* No fiber waits, or will, for an event that another one will take back.
UnwatchOK ==
    \A a \in Fiber \cup Caller : \A i \in DOMAIN todo[a] : todo[a][i].op = "unwatch" =>
        /\ \A b \in Fiber \cup Caller : \A j \in DOMAIN todo[b] :
             /\ todo[b][j].op \in {"io", "connect"}
             /\ todo[b][j].fd = todo[a][i].fd /\ todo[b][j].event = todo[a][i].event
             => a = b
        /\ \A f \in Fiber : 
             /\ InCall(f) /\ wait[f].call.fd = todo[a][i].fd /\ wait[f].call.event = todo[a][i].event
             => a = f

\* The registered events, and their number.
Registered(evs) == {w \in Fd \X Event : w[2] \in evs[w[1]]}

PendingOK == IsFiniteSet(Registered(events)) /\ pendingEventCnt = Cardinality(Registered(events))

\* The event for which a fiber is registered is that of its call.
WaitersOK ==
    \A fd \in Fd, e \in Event, f \in Fiber : ctx[fd][e] = Resume(f) =>
        wait[f].at = "wait" /\ wait[f].call.fd = fd /\ wait[f].call.event = e

\* The worker's end: idle() has found no timer, no task and no event.
EndOK ==
    /\ pc = "stopping" /\ waitFor = Forever => \A t \in timers : t.cb.do = "tick"
    /\ pc = "exit" => idleTerm
    /\ idleTerm => isStopped /\ pc \in {"pick", "exit"} /\ tasks = <<>>

\* What holds as long as no CondPanic has failed.
AliveOK ==
    /\ PendingOK /\ WaitersOK
    /\ \A f \in Fiber : FiberOK(f)
    /\ idleTerm => pendingEventCnt = 0 /\ \A f \in Fiber : state[f] \in {"NONE", "TERM"}

\* What the four theorems at the end of this module are inductive with.
WInv ==
    /\ TasksOK /\ TimerCbsOK /\ EventsOK /\ ReadyOK /\ StatesOK /\ UnwatchOK /\ EndOK
    /\ ~panic => AliveOK
-----------------------------------------------------------------------------
(* How a step changes the number of the tasks that wake or start a fiber.  *)

\* 1 for a task of one of the kinds ks for f, 0 for any other.
Weight(t, ks, f) == IF Holds(t, ks, f) THEN 1 ELSE 0

\* A set has none, one or more elements.
LEMMA CountIs ==
    ASSUME NEW S
    PROVE  /\ Count(S) \in 0 .. 2
           /\ Count(S) = 0 <=> S = {}
           /\ Count(S) = 1 <=> \E x \in S : S = {x}
           /\ Count(S) <= 1 <=> \A x, y \in S : x = y
  <1>1. CASE S = {}
    BY <1>1 DEF Count
  <1>2. CASE \E x \in S : S = {x}
    BY <1>2 DEF Count
  <1>3. CASE S # {} /\ ~\E x \in S : S = {x}
    <2>1. Count(S) = 2
      BY <1>3 DEF Count
    <2>2. \E x, y \in S : x # y
      BY <1>3
    <2> QED
      BY <1>3, <2>1, <2>2
  <1> QED
    BY <1>1, <1>2, <1>3

\* The number of elements, where it is 0 or 1.
LEMMA CountIsCardinality ==
    ASSUME NEW S, Count(S) <= 1
    PROVE  IsFiniteSet(S) /\ Cardinality(S) = Count(S)
  <1>1. CASE S = {}
    BY <1>1, FS_EmptySet DEF Count
  <1>2. CASE \E x \in S : S = {x}
    BY <1>2, FS_Singleton DEF Count
  <1> QED
    BY <1>1, <1>2, CountIs

\* A set that loses one element, or gets one.
LEMMA CountRemove ==
    ASSUME NEW S, NEW x \in S, Count(S) <= 1
    PROVE  Count(S) = 1 /\ Count(S \ {x}) = 0
  <1>1. S = {x}
    BY CountIs
  <1>2. S \ {x} = {}
    BY <1>1
  <1> QED
    BY <1>1, <1>2 DEF Count

\* A set whose elements are renamed.
LEMMA CountRenamed ==
    ASSUME NEW S, NEW T, Count(S) <= 1, NEW g, T = {g[x] : x \in S}
    PROVE  Count(T) = Count(S)
  <1>1. CASE S = {}
    <2>1. T = {}
      BY <1>1
    <2> QED
      BY <1>1, <2>1
  <1>2. CASE \E x \in S : S = {x}
    <2>1. PICK x \in S : S = {x}
      BY <1>2
    <2>2. T = {g[x]}
      BY <2>1
    <2> QED
      BY <2>1, <2>2 DEF Count
  <1> QED
    BY <1>1, <1>2, CountIs

\* A task is appended (Scheduler::scheduler) ...
LEMMA CountConcat ==
    ASSUME NEW T, NEW s \in Seq(T), NEW u \in Seq(T), NEW ks, NEW f,
           Count(InSeq(s, ks, f)) + Count(InSeq(u, ks, f)) <= 1
    PROVE  Count(InSeq(s \o u, ks, f)) = Count(InSeq(s, ks, f)) + Count(InSeq(u, ks, f))
  <1> DEFINE A == InSeq(s, ks, f)
             B == InSeq(u, ks, f)
             C == InSeq(s \o u, ks, f)
  <1>1. /\ A \subseteq 1 .. Len(s) /\ B \subseteq 1 .. Len(u) /\ C \subseteq 1 .. Len(s) + Len(u)
        /\ \A i \in 1 .. Len(s) : i \in C <=> i \in A
        /\ \A i \in 1 .. Len(u) : i + Len(s) \in C <=> i \in B
        /\ Len(s) \in Nat /\ Len(u) \in Nat
    <2>1. s \o u \in Seq(T) /\ Len(s \o u) = Len(s) + Len(u)
      OBVIOUS
    <2>2. \A i \in 1 .. Len(s) : (s \o u)[i] = s[i]
      OBVIOUS
    <2>3. \A i \in 1 .. Len(u) : (s \o u)[i + Len(s)] = u[i]
      OBVIOUS
    <2>4. DOMAIN (s \o u) = 1 .. Len(s) + Len(u) /\ DOMAIN s = 1 .. Len(s) /\ DOMAIN u = 1 .. Len(u)
      OBVIOUS
    <2>5. Len(s) \in Nat /\ Len(u) \in Nat
      OBVIOUS
    <2>6. \A i \in 1 .. Len(u) : i + Len(s) \in 1 .. Len(s) + Len(u)
      BY <2>5
    <2>7. \A i \in 1 .. Len(s) : i \in 1 .. Len(s) + Len(u)
      BY <2>5
    <2> QED
      BY <2>2, <2>3, <2>4, <2>5, <2>6, <2>7 DEF InSeq
  <1>2. \A i \in C : i \in A \/ (i - Len(s) \in B /\ i = (i - Len(s)) + Len(s))
    <2> TAKE i \in C
    <2>1. CASE i \in 1 .. Len(s)
      BY <1>1, <2>1
    <2>2. CASE i \notin 1 .. Len(s)
      <3>1. i - Len(s) \in 1 .. Len(u) /\ i = (i - Len(s)) + Len(s)
        BY <1>1, <2>2
      <3> QED
        BY <1>1, <3>1
    <2> QED
      BY <2>1, <2>2
  <1>3. \A i \in A : i \in C
    BY <1>1
  <1>4. \A i \in B : i + Len(s) \in C
    BY <1>1
  <1>5. \A i \in C : i \in Int
    BY <1>1
  <1>6. Len(s) \in Nat /\ \A i \in B : i \in Int
    BY <1>1
  <1>7. Count(A) + Count(B) <= 1
    OBVIOUS
  <1> HIDE DEF A, B, C
  <1>8. ASSUME A = {} /\ B = {}
        PROVE  Count(C) = Count(A) + Count(B)
    BY <1>2, <1>8 DEF Count
  <1>9. ASSUME A # {} /\ B = {}
        PROVE  Count(C) = Count(A) + Count(B)
    <2>1. A = C
      BY <1>2, <1>3, <1>9, Zenon
    <2> QED
      BY <1>9, <2>1, CountIs
  <1>10. ASSUME A = {} /\ B # {}
        PROVE  Count(C) = Count(A) + Count(B)
    <2>1. PICK b \in B : B = {b}
      <3>1. Count(A) = 0
        BY <1>10 DEF Count
      <3>2. Count(B) <= 1
        BY <1>7, <3>1, CountIs
      <3>3. \A x, y \in B : x = y
        BY <3>2, CountIs
      <3> QED
        BY <1>10, <3>3
    <2>2. C = {b + Len(s)}
      BY <1>2, <1>4, <1>6, <1>10, <2>1
    <2> QED
      BY <1>10, <2>1, <2>2 DEF Count
  <1>11. A = {} \/ B = {}
    <2>1. Count(A) \in 0 .. 2 /\ Count(B) \in 0 .. 2
      BY CountIs
    <2>2. Count(A) = 0 \/ Count(B) = 0
      BY <1>7, <2>1
    <2> QED
      BY <2>2, CountIs
  <1> QED
    BY <1>8, <1>9, <1>10, <1>11 DEF A, B, C

\* One task in a list, and none.
LEMMA CountSingle ==
    ASSUME NEW t, NEW ks, NEW f
    PROVE  Count(InSeq(<<t>>, ks, f)) = Weight(t, ks, f) /\ Count(InSeq(<<>>, ks, f)) = 0
  <1>1. InSeq(<<>>, ks, f) = {}
    BY DEF InSeq
  <1>2. InSeq(<<t>>, ks, f) = IF Holds(t, ks, f) THEN {1} ELSE {}
    BY DEF InSeq
  <1> QED
    BY <1>1, <1>2 DEF Count, Weight

\* ... and the first is taken (Scheduler::run).
LEMMA CountTail ==
    ASSUME NEW T, NEW s \in Seq(T), s # <<>>, NEW ks, NEW f, Count(InSeq(s, ks, f)) <= 1
    PROVE  Count(InSeq(s, ks, f)) = Weight(Head(s), ks, f) + Count(InSeq(Tail(s), ks, f))
  <1> DEFINE A == InSeq(s, ks, f)
             B == InSeq(Tail(s), ks, f)
  <1>1. /\ A \subseteq 1 .. Len(s) /\ B \subseteq 1 .. Len(s) - 1
        /\ \A i \in 1 .. Len(s) - 1 : i \in B <=> i + 1 \in A
        /\ 1 \in A <=> Holds(Head(s), ks, f)
        /\ Len(s) \in Nat \ {0}
    <2>1. DOMAIN s = 1 .. Len(s) /\ Len(s) \in Nat \ {0} /\ Head(s) = s[1]
      OBVIOUS
    <2>2. Tail(s) \in Seq(T) /\ Len(Tail(s)) = Len(s) - 1
      OBVIOUS
    <2>3. DOMAIN Tail(s) = 1 .. Len(s) - 1
      BY <2>2
    <2>4. \A i \in 1 .. Len(s) - 1 : Tail(s)[i] = s[i + 1]
      BY <2>2
    <2>5. \A i \in 1 .. Len(s) - 1 : i + 1 \in 1 .. Len(s)
      BY <2>1
    <2>6. 1 \in 1 .. Len(s)
      BY <2>1
    <2> QED
      BY <2>1, <2>3, <2>4, <2>5, <2>6 DEF InSeq
  <1>2. \A i \in A \ {1} : i - 1 \in B /\ i = (i - 1) + 1
    <2> TAKE i \in A \ {1}
    <2>1. i - 1 \in 1 .. Len(s) - 1 /\ i = (i - 1) + 1
      BY <1>1
    <2> QED
      BY <1>1, <2>1
  <1>3. \A i \in B : i \in Int /\ i + 1 \in A /\ i + 1 # 1
    BY <1>1
  <1>4. \A i, j \in A : i = j
    BY CountIs
  <1>5. ASSUME 1 \in A
        PROVE  Count(A) = Weight(Head(s), ks, f) + Count(B)
    <2>1. A = {1} /\ B = {}
      BY <1>3, <1>4, <1>5
    <2> QED
      BY <1>1, <2>1 DEF Count, Weight
  <1>6. ASSUME 1 \notin A /\ A # {}
        PROVE  Count(A) = Weight(Head(s), ks, f) + Count(B)
    <2>1. PICK i \in A : A = {i}
      BY <1>4, <1>6
    <2>2. B = {i - 1}
      <3>1. i - 1 \in B
        BY <1>2, <1>6, <2>1
      <3>2. \A j \in B : j = i - 1
        BY <1>3, <2>1
      <3> QED
        BY <3>1, <3>2
    <2>3. ~Holds(Head(s), ks, f)
      BY <1>1, <1>6
    <2> HIDE DEF A, B
    <2> QED
      BY <2>1, <2>2, <2>3 DEF Count, Weight, A, B
  <1>7. ASSUME A = {}
        PROVE  Count(A) = Weight(Head(s), ks, f) + Count(B)
    <2>1. B = {}
      BY <1>3, <1>7
    <2>2. ~Holds(Head(s), ks, f)
      BY <1>1, <1>7
    <2> QED
      BY <1>7, <2>1, <2>2 DEF Count, Weight
  <1> QED
    BY <1>5, <1>6, <1>7
\* A timer is set (TimerManager::addTimer) ...
LEMMA CountNewTimer ==
    ASSUME NEW ts, NEW t, NEW ks, NEW f, Count(InTimers(ts, ks, f)) + Weight(t.cb, ks, f) <= 1
    PROVE  Count(InTimers(ts \cup {t}, ks, f)) = Count(InTimers(ts, ks, f)) + Weight(t.cb, ks, f)
  <1> DEFINE A == InTimers(ts, ks, f)
             B == InTimers(ts \cup {t}, ks, f)
  <1>1. CASE Holds(t.cb, ks, f)
    <2>1. A = {}
      BY <1>1, CountIs DEF Weight
    <2>2. B = {t}
      BY <1>1, <2>1 DEF InTimers
    <2> QED
      BY <1>1, <2>1, <2>2 DEF Count, Weight
  <1>2. CASE ~Holds(t.cb, ks, f)
    <2>1. A = B
      BY <1>2 DEF InTimers
    <2>2. Count(A) \in 0 .. 2
      BY CountIs
    <2> QED
      BY <1>2, <2>1, <2>2 DEF Weight
  <1> QED
    BY <1>1, <1>2

\* ... or gets another time and keeps its callback.
LEMMA CountSameCallbacks ==
    ASSUME NEW ts, NEW us, NEW g, us = {g[t] : t \in ts}, \A t \in ts : g[t].cb = t.cb,
           NEW ks, NEW f, Count(InTimers(ts, ks, f)) <= 1
    PROVE  Count(InTimers(us, ks, f)) = Count(InTimers(ts, ks, f))
  <1>1. InTimers(us, ks, f) = {g[t] : t \in InTimers(ts, ks, f)}
    BY DEF InTimers
  <1> QED
    BY <1>1, CountRenamed

\* The timers that one renames are as many at most.
LEMMA FiniteTimes ==
    ASSUME NEW ts, IsFiniteSet(ts), NEW us, NEW g \in [ts -> us], us = {g[t] : t \in ts}
    PROVE  IsFiniteSet(us)
  <1>1. g \in Surjection(ts, us)
    BY DEF Surjection
  <1> QED
    BY <1>1, FS_Surjection

\* A sequence of the elements of a finite set has every one of them, once.
LEMMA EveryElement ==
    ASSUME NEW S, IsFiniteSet(S), NEW s \in SetToSeqs(S)
    PROVE  /\ s \in [1 .. Cardinality(S) -> S] /\ Cardinality(S) \in Nat
           /\ \A x \in S : \E i \in DOMAIN s : s[i] = x
           /\ \A i, j \in DOMAIN s : s[i] = s[j] => i = j
  <1> DEFINE n == Cardinality(S)
  <1>1. n \in Nat
    BY FS_CardinalityType
  <1>2. s \in [1 .. n -> S] /\ \A i, j \in 1 .. n : s[i] = s[j] => i = j
    BY DEF SetToSeqs
  <1>3. s \in Injection(1 .. n, S)
    BY <1>2 DEF Injection, IsInjective
  <1>4. IsFiniteSet(1 .. n) /\ Cardinality(1 .. n) = n
    <2>1. 1 \in Int /\ n \in Int
      BY <1>1
    <2>2. IsFiniteSet(1 .. n) /\ Cardinality(1 .. n) = IF 1 > n THEN 0 ELSE n - 1 + 1
      BY <2>1, FS_Interval
    <2> QED
      BY <1>1, <2>2
  <1>5. s \in Surjection(1 .. n, S)
    BY <1>3, <1>4, FS_Injection
  <1>6. \A x \in S : \E i \in 1 .. n : s[i] = x
    BY <1>5 DEF Surjection
  <1> QED
    BY <1>1, <1>2, <1>6

\* The timers that are due go into the list of callbacks; those that start again
\* wake and start no fiber (TimerManager::listExpiredCb).
LEMMA CountExpired ==
    ASSUME NEW ts, IsFiniteSet(ts), \A t \in ts : t.repeat => t.cb.do = "tick",
           TimersOK(ts), NEW s \in SetToSeqs(Due(ts)),
           NEW ks, "tick" \notin ks, NEW f, Count(InTimers(ts, ks, f)) <= 1
    PROVE  Count(InSeq([i \in DOMAIN s |-> s[i].cb], ks, f)) + Count(InTimers(Expired(ts), ks, f))
             = Count(InTimers(ts, ks, f))
  <1> DEFINE D == Due(ts)
             u == [i \in DOMAIN s |-> s[i].cb]
             A == InSeq(u, ks, f)
             B == InTimers(Expired(ts), ks, f)
             C == InTimers(ts, ks, f)
             N == {[t EXCEPT !.left = t.ms] : t \in {v \in Due(ts) : v.repeat}}
  <1>1. D \subseteq ts /\ IsFiniteSet(D)
    BY FS_Subset DEF Due
  <1>2. /\ \A i \in DOMAIN s : s[i] \in D
        /\ \A x \in D : \E i \in DOMAIN s : s[i] = x
        /\ \A i, j \in DOMAIN s : s[i] = s[j] => i = j
    BY <1>1, EveryElement
  <1>3. \A t \in N : ~Holds(t.cb, ks, f)
    <2>1. ASSUME NEW t \in ts, t.repeat
          PROVE  [t EXCEPT !.left = t.ms].cb.do = "tick"
      BY <2>1 DEF TimersOK, TimerOK
    <2> QED
      BY <2>1 DEF Holds, Due
  <1>4. B = C \ D
    <2>1. Expired(ts) = (ts \ D) \cup N
      BY DEF Expired
    <2> HIDE DEF N, D
    <2> QED
      BY <1>3, <2>1 DEF InTimers
  <1>5. \A i \in DOMAIN s : i \in A <=> s[i] \in C
    BY <1>1, <1>2 DEF InSeq, InTimers
  <1>6. A \subseteq DOMAIN s
    BY DEF InSeq
  <1>7. \A x, y \in C : x = y
    BY CountIs
  <1> HIDE DEF A, B, C, D, u
  <1>8. ASSUME C = {} PROVE Count(A) + Count(B) = Count(C)
    <2>1. A = {}
      <3>1. \A i \in A : i \in DOMAIN s /\ s[i] \in C
        BY <1>5, <1>6
      <3> QED
        BY <1>8, <3>1
    <2>2. B = {}
      BY <1>4, <1>8
    <2> QED
      BY <1>8, <2>1, <2>2, CountIs
  <1>9. ASSUME C # {} PROVE Count(A) + Count(B) = Count(C)
    <2>1. PICK x \in C : C = {x}
      <3>1. PICK x \in C : TRUE
        BY <1>9
      <3>2. C = {x}
        BY <1>7
      <3> QED
        BY <3>2
    <2>2. CASE x \in D
      <3>1. PICK i \in DOMAIN s : s[i] = x
        BY <1>2, <2>2
      <3>2. A = {i}
        <4>1. i \in A
          BY <1>5, <2>1, <3>1
        <4>2. \A j \in A : j \in DOMAIN s /\ s[j] = x
          BY <1>5, <1>6, <2>1
        <4>3. \A j \in A : j = i
          BY <1>2, <3>1, <4>2
        <4> QED
          BY <4>1, <4>3
      <3>3. B = {}
        BY <1>4, <2>1, <2>2
      <3> QED
        BY <2>1, <3>2, <3>3 DEF Count
    <2>3. CASE x \notin D
      <3>1. A = {} /\ B = {x}
        BY <1>2, <1>4, <1>5, <1>6, <2>1, <2>3
      <3> QED
        BY <2>1, <3>1 DEF Count
    <2> QED
      BY <2>2, <2>3
  <1> QED
    BY <1>8, <1>9 DEF A, B, C, u

\* addEvent puts a task where there is none ...
LEMMA CountAddEvent ==
    ASSUME EventsOK, NEW fd \in Fd, NEW e \in Event, e \notin events[fd], NEW t, NEW ks, NEW f,
           Count(InCtx(ctx, ks, f)) + Weight(t, ks, f) <= 1
    PROVE  Count(InCtx([ctx EXCEPT ![fd][e] = t], ks, f))
             = Count(InCtx(ctx, ks, f)) + Weight(t, ks, f)
  <1> DEFINE A == InCtx(ctx, ks, f)
             c == [ctx EXCEPT ![fd][e] = t]
             B == InCtx(c, ks, f)
             w == <<fd, e>>
  <1>1. \A x \in Fd, y \in Event : c[x][y] = IF x = fd /\ y = e THEN t ELSE ctx[x][y]
    BY DEF EventsOK
  <1>2. w \notin A
    BY DEF InCtx, Holds, EventsOK
  <1>3. \A v \in Fd \X Event : v \in B <=> IF v = w THEN Holds(t, ks, f) ELSE v \in A
    <2> TAKE v \in Fd \X Event
    <2>1. PICK x \in Fd, y \in Event : v = <<x, y>>
      OBVIOUS
    <2>2. v = w <=> x = fd /\ y = e
      BY <2>1
    <2> HIDE DEF c, w
    <2>3. v \in B <=> Holds(c[x][y], ks, f)
      BY <2>1 DEF InCtx
    <2>4. v \in A <=> Holds(ctx[x][y], ks, f)
      BY <2>1 DEF InCtx
    <2> QED
      BY <1>1, <2>2, <2>3, <2>4
  <1>4. A \subseteq Fd \X Event /\ B \subseteq Fd \X Event /\ w \in Fd \X Event
    BY DEF InCtx
  <1>5. Count(A) + Weight(t, ks, f) <= 1
    OBVIOUS
  <1> HIDE DEF A, B, c, w
  <1>6. ASSUME Holds(t, ks, f) PROVE Count(B) = Count(A) + Weight(t, ks, f)
    <2>1. A = {}
      BY <1>5, <1>6, CountIs DEF Weight
    <2>2. B = {w}
      BY <1>3, <1>4, <1>6, <2>1
    <2> QED
      BY <1>6, <2>1, <2>2 DEF Count, Weight
  <1>7. ASSUME ~Holds(t, ks, f) PROVE Count(B) = Count(A) + Weight(t, ks, f)
    <2>1. A = B
      BY <1>2, <1>3, <1>4, <1>7
    <2>2. Count(A) \in 0 .. 2
      BY CountIs
    <2> QED
      BY <1>7, <2>1, <2>2 DEF Weight
  <1> QED
    BY <1>6, <1>7 DEF A, B, c

\* ... delEvent drops one ...
LEMMA CountDelEvent ==
    ASSUME EventsOK, NEW fd \in Fd, NEW e \in Event, NEW ks, NEW f, Count(InCtx(ctx, ks, f)) <= 1
    PROVE  Count(InCtx([ctx EXCEPT ![fd][e] = None], ks, f)) + Weight(ctx[fd][e], ks, f)
             = Count(InCtx(ctx, ks, f))
  <1> DEFINE A == InCtx(ctx, ks, f)
             c == [ctx EXCEPT ![fd][e] = None]
             B == InCtx(c, ks, f)
             w == <<fd, e>>
  <1>1. \A x \in Fd, y \in Event : c[x][y] = IF x = fd /\ y = e THEN None ELSE ctx[x][y]
    BY DEF EventsOK
  <1>2. w \in A <=> Holds(ctx[fd][e], ks, f)
    BY DEF InCtx
  <1>3. \A v \in Fd \X Event : v \in B <=> v # w /\ v \in A
    <2> TAKE v \in Fd \X Event
    <2>1. PICK x \in Fd, y \in Event : v = <<x, y>>
      OBVIOUS
    <2>2. v = w <=> x = fd /\ y = e
      BY <2>1
    <2> HIDE DEF c, w
    <2>3. v \in B <=> Holds(c[x][y], ks, f)
      BY <2>1 DEF InCtx
    <2>4. v \in A <=> Holds(ctx[x][y], ks, f)
      BY <2>1 DEF InCtx
    <2> QED
      BY <1>1, <2>2, <2>3, <2>4 DEF Holds
  <1>4. A \subseteq Fd \X Event /\ B \subseteq Fd \X Event
    BY DEF InCtx
  <1>5. B = A \ {w}
    BY <1>3, <1>4, Zenon
  <1> HIDE DEF A, B, c, w
  <1>6. CASE w \in A
    <2>1. Count(A) = 1 /\ Count(B) = 0
      BY <1>5, <1>6, CountRemove DEF A
    <2> QED
      BY <1>2, <1>6, <2>1 DEF Weight, A, B, c
  <1>7. CASE w \notin A
    <2>1. A = B /\ Count(A) \in 0 .. 2
      BY <1>5, <1>7, CountIs
    <2> QED
      BY <1>2, <1>7, <2>1 DEF Weight, A, B, c
  <1> QED
    BY <1>6, <1>7
\* ... and triggerEvent schedules what waits for the events.
LEMMA CountTriggered ==
    ASSUME EventsOK, NEW fd \in Fd, NEW evs, NEW ks, NEW f, Count(InCtx(ctx, ks, f)) <= 1
    PROVE  LET u == Waiting(fd, "READ", evs) \o Waiting(fd, "WRITE", evs)
               c == [ctx EXCEPT ![fd] = [e \in Event |-> IF e \in evs THEN None ELSE @[e]]]
           IN /\ u \in Seq(Waiter)
              /\ Count(InSeq(u, ks, f)) + Count(InCtx(c, ks, f)) = Count(InCtx(ctx, ks, f))
  <1> DEFINE A == InCtx(ctx, ks, f)
             c == [ctx EXCEPT ![fd] = [e \in Event |-> IF e \in evs THEN None ELSE @[e]]]
             B == InCtx(c, ks, f)
             r == Waiting(fd, "READ", evs)
             w == Waiting(fd, "WRITE", evs)
             n(e) == IF <<fd, e>> \in A /\ e \in evs THEN 1 ELSE 0
  <1>1. ASSUME NEW e \in Event
        PROVE  /\ Waiting(fd, e, evs) \in Seq(Waiter)
               /\ Count(InSeq(Waiting(fd, e, evs), ks, f)) = n(e)
    <2>1. <<fd, e>> \in A <=> Holds(ctx[fd][e], ks, f)
      BY DEF InCtx
    <2>2. IF e \in events[fd] THEN ctx[fd][e] \in Waiter ELSE ctx[fd][e] = None
      BY DEF EventsOK
    <2> HIDE DEF A
    <2>3. CASE e \in evs /\ e \in events[fd]
      <3>1. Waiting(fd, e, evs) = <<ctx[fd][e]>>
        BY <2>3 DEF Waiting
      <3> QED
        BY <2>1, <2>2, <2>3, <3>1, CountSingle DEF Weight
    <2>4. CASE e \in evs /\ e \notin events[fd]
      <3>1. Waiting(fd, e, evs) = <<>> /\ <<fd, e>> \notin A
        BY <2>1, <2>2, <2>4 DEF Waiting, Holds
      <3>2. Count(InSeq(<<>>, ks, f)) = 0
        BY CountSingle
      <3> QED
        BY <3>1, <3>2
    <2>5. CASE e \notin evs
      <3>1. Waiting(fd, e, evs) = <<>>
        BY <2>5 DEF Waiting
      <3>2. Count(InSeq(<<>>, ks, f)) = 0
        BY CountSingle
      <3> QED
        BY <2>5, <3>1, <3>2
    <2> QED
      BY <2>3, <2>4, <2>5
  <1>2. "READ" \in Event /\ "WRITE" \in Event /\ \A e \in Event : e = "READ" \/ e = "WRITE"
    BY DEF Event
  <1>3. r \in Seq(Waiter) /\ w \in Seq(Waiter) /\ r \o w \in Seq(Waiter)
    <2>1. r \in Seq(Waiter) /\ w \in Seq(Waiter)
      BY <1>1, <1>2
    <2> HIDE DEF r, w
    <2> QED
      BY <2>1
  <1>4. Count(InSeq(r, ks, f)) = n("READ") /\ Count(InSeq(w, ks, f)) = n("WRITE")
    BY <1>1, <1>2
  <1>5. \A x \in Fd, y \in Event : c[x][y] = IF x = fd /\ y \in evs THEN None ELSE ctx[x][y]
    BY DEF EventsOK
  <1>6. \A x \in Fd, y \in Event : <<x, y>> \in B <=> <<x, y>> \in A /\ ~(x = fd /\ y \in evs)
    BY <1>5 DEF InCtx, Holds
  <1>7. A \subseteq Fd \X Event /\ B \subseteq Fd \X Event
    BY DEF InCtx
  <1>8. A = {} \/ \E x \in A : A = {x}
    <2>1. \A x, y \in A : x = y
      BY CountIs
    <2> HIDE DEF A
    <2> QED
      BY <2>1
  <1> HIDE DEF A, B, c, r, w
  <1>9. n("READ") + n("WRITE") + Count(B) = Count(A)
    <2>1. CASE A = {}
      <3>1. B = {}
        BY <1>6, <1>7, <2>1
      <3> QED
        BY <2>1, <3>1 DEF Count
    <2>2. CASE \E x \in A : A = {x}
      <3>1. PICK v \in A : A = {v}
        BY <2>2
      <3>2. PICK x \in Fd, y \in Event : v = <<x, y>>
        BY <1>7, <3>1
      <3>3. CASE x = fd /\ y \in evs
        <4>1. B = {}
          BY <1>6, <1>7, <3>1, <3>2, <3>3
        <4>2. Count(A) = 1 /\ Count(B) = 0
          BY <3>1, <4>1 DEF Count
        <4>3. n(y) = 1 /\ \A e \in Event : e # y => n(e) = 0
          BY <3>1, <3>2, <3>3
        <4> QED
          BY <1>2, <4>2, <4>3
      <3>4. CASE ~(x = fd /\ y \in evs)
        <4>1. B = A
          BY <1>6, <1>7, <3>1, <3>2, <3>4
        <4>2. Count(A) = 1
          BY <3>1 DEF Count
        <4>3. \A e \in Event : n(e) = 0
          BY <3>1, <3>2, <3>4
        <4> QED
          BY <1>2, <4>1, <4>2, <4>3
      <3> QED
        BY <3>3, <3>4
    <2> QED
      BY <1>8, <2>1, <2>2
  <1>10. Count(InSeq(r, ks, f)) + Count(InSeq(w, ks, f)) <= 1
    <2>1. Count(A) <= 1 /\ Count(B) \in 0 .. 2
      BY CountIs DEF A
    <2>2. n("READ") \in 0 .. 1 /\ n("WRITE") \in 0 .. 1
      OBVIOUS
    <2> HIDE DEF n
    <2> QED
      BY <1>4, <1>9, <2>1, <2>2
  <1>11. Count(InSeq(r \o w, ks, f)) = Count(InSeq(r, ks, f)) + Count(InSeq(w, ks, f))
    BY <1>3, <1>10, CountConcat
  <1>12. Count(InSeq(r \o w, ks, f)) + Count(B) = Count(A)
    BY <1>4, <1>9, <1>11
  <1> QED
    BY <1>3, <1>12 DEF A, B, c, r, w

\* A call that starts f.
StartCall(call, f) == call.op \in {"schedule", "watch"} /\ call.fiber = f

\* A fiber or a thread makes its next call.
LEMMA CountCall ==
    ASSUME CallsOK, NEW a \in Fiber \cup Caller, todo[a] # <<>>, NEW f,
           Count(Unstarted(todo, f)) <= 1
    PROVE  (IF StartCall(Head(todo[a]), f) THEN 1 ELSE 0)
             + Count(Unstarted([todo EXCEPT ![a] = Tail(@)], f)) = Count(Unstarted(todo, f))
  <1> DEFINE td == [todo EXCEPT ![a] = Tail(@)]
             A == Unstarted(todo, f)
             B == Unstarted(td, f)
  <1>1. td \in [Fiber \cup Caller -> Seq(Call)] /\ td[a] = Tail(todo[a])
        /\ \A b \in Fiber \cup Caller : b # a => td[b] = todo[b]
    BY DEF CallsOK
  <1> HIDE DEF td
  <1>2. /\ \A b \in Fiber \cup Caller, i \in Nat : <<b, i>> \in A <=>
             i \in 1 .. Len(todo[b]) /\ StartCall(todo[b][i], f)
        /\ \A b \in Fiber \cup Caller, i \in Nat : <<b, i>> \in B <=>
             i \in 1 .. Len(td[b]) /\ StartCall(td[b][i], f)
        /\ A \subseteq (Fiber \cup Caller) \X Nat /\ B \subseteq (Fiber \cup Caller) \X Nat
    <2>1. \A b \in Fiber \cup Caller : DOMAIN todo[b] = 1 .. Len(todo[b]) /\ DOMAIN td[b] = 1 .. Len(td[b])
      BY <1>1 DEF CallsOK
    <2> QED
      BY <2>1 DEF Unstarted, StartCall
  <1>3. /\ Len(todo[a]) \in Nat \ {0} /\ Len(td[a]) = Len(todo[a]) - 1
        /\ \A i \in 1 .. Len(td[a]) : td[a][i] = todo[a][i + 1]
        /\ Head(todo[a]) = todo[a][1]
    BY <1>1 DEF CallsOK
  <1>4. A = {} \/ \E x \in A : A = {x}
    <2>1. \A x, y \in A : x = y
      BY CountIs
    <2> HIDE DEF A
    <2> QED
      BY <2>1
  <1> HIDE DEF A, B
  <1>5. /\ <<a, 1>> \in A <=> StartCall(Head(todo[a]), f)
        /\ \A i \in Nat : <<a, i>> \in B <=> i # 0 /\ <<a, i + 1>> \in A
    <2>1. \A i \in Nat : i + 1 \in 1 .. Len(todo[a]) <=> i = 0 \/ i \in 1 .. Len(td[a])
      BY <1>3
    <2>2. 1 \in 1 .. Len(todo[a])
      BY <1>3
    <2>3. \A i \in Nat : i \in 1 .. Len(td[a]) => i # 0
      OBVIOUS
    <2> QED
      BY <1>2, <1>3, <2>1, <2>2, <2>3
  <1>6. \A b \in Fiber \cup Caller, i \in Nat : b # a => (<<b, i>> \in B <=> <<b, i>> \in A)
    BY <1>1, <1>2
  <1>7. \A i \in Nat : <<a, i>> \in A => i # 0
    BY <1>2
  <1>8. ASSUME A = {} PROVE (IF StartCall(Head(todo[a]), f) THEN 1 ELSE 0) + Count(B) = Count(A)
    <2>1. ~StartCall(Head(todo[a]), f)
      BY <1>5, <1>8
    <2>2. B = {}
      BY <1>2, <1>5, <1>6, <1>8
    <2> QED
      BY <1>8, <2>1, <2>2 DEF Count
  <1>9. ASSUME \E x \in A : A = {x}
        PROVE  (IF StartCall(Head(todo[a]), f) THEN 1 ELSE 0) + Count(B) = Count(A)
    <2>1. PICK v \in A : A = {v}
      BY <1>9
    <2>2. PICK b \in Fiber \cup Caller, i \in Nat : v = <<b, i>>
      BY <1>2, <2>1
    <2>3. Count(A) = 1
      BY <2>1 DEF Count
    <2>4. CASE b # a
      <3>1. B = {v}
        <4>1. v \in B
          BY <1>6, <2>1, <2>2, <2>4
        <4>2. ASSUME NEW w \in B PROVE w = v
          <5>1. PICK d \in Fiber \cup Caller, j \in Nat : w = <<d, j>>
            BY <1>2, <4>2
          <5>2. CASE d = a
            BY <1>5, <2>1, <2>2, <2>4, <4>2, <5>1, <5>2
          <5>3. CASE d # a
            BY <1>6, <2>1, <4>2, <5>1, <5>3
          <5> QED
            BY <5>2, <5>3
        <4> QED
          BY <4>1, <4>2
      <3>2. <<a, 1>> \notin A
        BY <2>1, <2>2, <2>4
      <3> QED
        BY <1>5, <2>3, <3>1, <3>2 DEF Count
    <2>5. CASE b = a /\ i = 1
      <3>1. B = {}
        <4>1. ASSUME NEW w \in B PROVE FALSE
          <5>1. PICK d \in Fiber \cup Caller, j \in Nat : w = <<d, j>>
            BY <1>2, <4>1
          <5>2. CASE d = a
            <6>1. <<a, j + 1>> = <<a, 1>> /\ j # 0
              BY <1>5, <2>1, <2>2, <2>5, <4>1, <5>1, <5>2
            <6> QED
              BY <6>1
          <5>3. CASE d # a
            BY <1>6, <2>1, <2>2, <2>5, <4>1, <5>1, <5>3
          <5> QED
            BY <5>2, <5>3
        <4> QED
          BY <4>1
      <3>2. StartCall(Head(todo[a]), f)
        BY <1>5, <2>1, <2>2, <2>5
      <3> QED
        BY <2>3, <3>1, <3>2 DEF Count
    <2>6. CASE b = a /\ i # 1
      <3>1. i - 1 \in Nat /\ i - 1 # 0 /\ (i - 1) + 1 = i
        BY <1>7, <2>1, <2>2, <2>6
      <3>2. B = {<<a, i - 1>>}
        <4>1. <<a, i - 1>> \in B
          BY <1>5, <2>1, <2>2, <2>6, <3>1
        <4>2. ASSUME NEW w \in B PROVE w = <<a, i - 1>>
          <5>1. PICK d \in Fiber \cup Caller, j \in Nat : w = <<d, j>>
            BY <1>2, <4>2
          <5>2. CASE d = a
            <6>1. <<a, j + 1>> = <<a, i>>
              BY <1>5, <2>1, <2>2, <2>6, <4>2, <5>1, <5>2
            <6>2. j = i - 1
              BY <6>1
            <6> QED
              BY <5>1, <5>2, <6>2
          <5>3. CASE d # a
            BY <1>6, <2>1, <2>2, <2>6, <4>2, <5>1, <5>3
          <5> QED
            BY <5>2, <5>3
        <4> QED
          BY <4>1, <4>2
      <3>3. ~StartCall(Head(todo[a]), f)
        BY <1>5, <2>1, <2>2, <2>6
      <3>4. Count(B) = 1
        <4>1. \E x \in B : B = {x}
          BY <3>2
        <4> QED
          BY <4>1, CountIs
      <3> QED
        BY <2>3, <3>3, <3>4
    <2> QED
      BY <2>4, <2>5, <2>6
  <1> QED
    BY <1>4, <1>8, <1>9 DEF A, B, td
-----------------------------------------------------------------------------
(* The operations of the manager on its events.  *)

\* Some events of a socket are added to the registered ones, or taken away.
LEMMA RegisteredAdd ==
    ASSUME EventsOK, PendingOK, NEW fd \in Fd, NEW e \in Event, e \notin events[fd]
    PROVE  LET R == Registered([events EXCEPT ![fd] = @ \cup {e}]) IN
           IsFiniteSet(R) /\ Cardinality(R) = pendingEventCnt + 1
  <1> DEFINE A == Registered(events)
             ev == [events EXCEPT ![fd] = @ \cup {e}]
             B == Registered(ev)
             w == <<fd, e>>
  <1>1. w \notin A
    BY DEF Registered
  <1>2. B = A \cup {w}
    <2>1. \A x \in Fd, y \in Event : y \in ev[x] <=> y \in events[x] \/ (x = fd /\ y = e)
      BY DEF EventsOK
    <2>2. w \in Fd \X Event
      OBVIOUS
    <2> HIDE DEF ev
    <2>3. \A x \in Fd, y \in Event : <<x, y>> \in B <=> <<x, y>> \in A \/ <<x, y>> = w
      BY <2>1 DEF Registered
    <2>4. A \subseteq Fd \X Event /\ B \subseteq Fd \X Event
      BY DEF Registered
    <2> HIDE DEF A, B, w
    <2> QED
      BY <2>2, <2>3, <2>4
  <1>3. IsFiniteSet(A) /\ Cardinality(A) = pendingEventCnt
    BY DEF PendingOK
  <1> HIDE DEF A, B, w
  <1>4. IsFiniteSet(B) /\ Cardinality(B) = pendingEventCnt + 1
    BY <1>1, <1>2, <1>3, FS_AddElement
  <1> QED
    BY <1>4 DEF B

\* Events that are taken back are no longer registered, and nothing else changes.
LEMMA RegisteredRemove ==
    ASSUME EventsOK, PendingOK, NEW fd \in Fd, NEW evs, evs \subseteq events[fd]
    PROVE  LET R == Registered([events EXCEPT ![fd] = @ \ evs]) IN
           IsFiniteSet(R) /\ Cardinality(R) = pendingEventCnt - Cardinality(evs)
  <1> DEFINE A == Registered(events)
             ev == [events EXCEPT ![fd] = @ \ evs]
             B == Registered(ev)
             W == {fd} \X evs
  <1>1. evs \subseteq Event
    BY DEF EventsOK
  <1>2. IsFiniteSet(evs)
    <2>1. IsFiniteSet({"READ", "WRITE"})
      <3>1. {"READ", "WRITE"} = {"READ"} \cup {"WRITE"}
        OBVIOUS
      <3>2. IsFiniteSet({"READ"})
        BY FS_Singleton
      <3>3. IsFiniteSet({"READ"} \cup {"WRITE"})
        BY <3>2, FS_AddElement
      <3> QED
        BY <3>1, <3>3
    <2> QED
      BY <1>1, <2>1, FS_Subset DEF Event
  <1>3. IsFiniteSet(W) /\ Cardinality(W) = Cardinality(evs)
    <2>1. IsFiniteSet({fd}) /\ Cardinality({fd}) = 1
      BY FS_Singleton
    <2>2. Cardinality(W) = 1 * Cardinality(evs) /\ IsFiniteSet(W)
      BY <1>2, <2>1, FS_Product
    <2>3. Cardinality(evs) \in Nat
      BY <1>2, FS_CardinalityType
    <2> QED
      BY <2>2, <2>3
  <1>4. W \subseteq A
    <2>1. \A x \in evs : <<fd, x>> \in A
      BY <1>1 DEF Registered
    <2> QED
      BY <2>1
  <1>5. B = A \ W
    <2>1. \A x \in Fd, y \in Event : y \in ev[x] <=> y \in events[x] /\ ~(x = fd /\ y \in evs)
      BY DEF EventsOK
    <2> HIDE DEF ev
    <2>2. \A x \in Fd, y \in Event : <<x, y>> \in B <=> <<x, y>> \in A /\ <<x, y>> \notin W
      BY <2>1 DEF Registered
    <2>3. A \subseteq Fd \X Event /\ B \subseteq Fd \X Event
      BY DEF Registered
    <2> HIDE DEF A, B, W
    <2> QED
      BY <2>2, <2>3
  <1>6. IsFiniteSet(A) /\ Cardinality(A) = pendingEventCnt
    BY DEF PendingOK
  <1> HIDE DEF A, B, W
  <1>7. A \cap W = W
    BY <1>4
  <1>8. IsFiniteSet(B) /\ Cardinality(B) = pendingEventCnt - Cardinality(evs)
    <2>1. IsFiniteSet(A \ W) /\ Cardinality(A \ W) = Cardinality(A) - Cardinality(A \cap W)
      BY <1>6, FS_Difference
    <2> QED
      BY <1>3, <1>5, <1>6, <1>7, <2>1
  <1> QED
    BY <1>8 DEF B

\* addEvent.
LEMMA AddEventOK ==
    ASSUME EventsOK, NEW fd \in Fd, NEW e \in Event, NEW t \in Waiter, AddEvent(fd, e, t)
    PROVE  /\ EventsOK'
           /\ PendingOK /\ ~panic' => PendingOK'
           /\ ~panic' => ~panic /\ e \notin events[fd]
  <1>1. EventsOK'
    <2>1. events' = [events EXCEPT ![fd] = @ \cup {e}] /\ ctx' = [ctx EXCEPT ![fd][e] = t]
      BY DEF AddEvent
    <2>2. events' \in [Fd -> SUBSET Event]
      BY <2>1 DEF EventsOK
    <2>3. ctx' = [x \in Fd |-> [y \in Event |-> IF x = fd /\ y = e THEN t ELSE ctx[x][y]]]
      BY <2>1 DEF EventsOK
    <2>4. \A x \in Fd, y \in Event : y \in events'[x] <=> y \in events[x] \/ (x = fd /\ y = e)
      BY <2>1 DEF EventsOK
    <2>5. \A x \in Fd, y \in Event : ctx'[x][y] = IF x = fd /\ y = e THEN t ELSE ctx[x][y]
      BY <2>3
    <2>6. ctx' = [x \in Fd |-> [y \in Event |-> ctx'[x][y]]]
      BY <2>3
    <2> QED
      BY <2>2, <2>4, <2>5, <2>6 DEF EventsOK
  <1>2. ~panic' => ~panic /\ e \notin events[fd]
    BY DEF AddEvent
  <1>3. ASSUME PendingOK, ~panic' PROVE PendingOK'
    BY <1>2, <1>3, RegisteredAdd DEF AddEvent, PendingOK
  <1> QED
    BY <1>1, <1>2, <1>3

\* triggerEvent.
LEMMA TriggerEventsOK ==
    ASSUME EventsOK, TasksOK, NEW fd \in Fd, NEW evs, TriggerEvents(fd, evs)
    PROVE  /\ EventsOK' /\ tasks' \in Seq(Task)
           /\ (/\ PendingOK /\ evs \subseteq events[fd]
               /\ pendingEventCnt' = pendingEventCnt - Cardinality(evs)) => PendingOK'
  <1>1. /\ events' = [events EXCEPT ![fd] = @ \ evs]
        /\ ctx' = [ctx EXCEPT ![fd] = [e \in Event |-> IF e \in evs THEN None ELSE @[e]]]
        /\ tasks' = tasks \o (Waiting(fd, "READ", evs) \o Waiting(fd, "WRITE", evs))
    BY DEF TriggerEvents, Schedule
  <1>2. EventsOK'
    <2>2. events' \in [Fd -> SUBSET Event]
      BY <1>1 DEF EventsOK
    <2>3. ctx' = [x \in Fd |-> [y \in Event |-> IF x = fd /\ y \in evs THEN None ELSE ctx[x][y]]]
      BY <1>1 DEF EventsOK
    <2>4. \A x \in Fd, y \in Event : y \in events'[x] <=> y \in events[x] /\ ~(x = fd /\ y \in evs)
      BY <1>1 DEF EventsOK
    <2>5. \A x \in Fd, y \in Event : ctx'[x][y] = IF x = fd /\ y \in evs THEN None ELSE ctx[x][y]
      BY <2>3
    <2>6. ctx' = [x \in Fd |-> [y \in Event |-> ctx'[x][y]]]
      BY <2>3
    <2> QED
      BY <2>2, <2>4, <2>5, <2>6 DEF EventsOK
  <1>3. tasks' \in Seq(Task)
    <2> DEFINE u == Waiting(fd, "READ", evs) \o Waiting(fd, "WRITE", evs)
    <2>1. Waiting(fd, "READ", evs) \in Seq(Waiter) /\ Waiting(fd, "WRITE", evs) \in Seq(Waiter)
      BY DEF Waiting, EventsOK, Event
    <2>2. u \in Seq(Waiter)
      BY <2>1
    <2>3. u \in Seq(Task) /\ tasks \in Seq(Task) /\ tasks' = tasks \o u
      BY <1>1, <2>2 DEF Task, TasksOK
    <2> HIDE DEF u
    <2> QED
      BY <2>3
  <1>4. ASSUME PendingOK, evs \subseteq events[fd],
               pendingEventCnt' = pendingEventCnt - Cardinality(evs)
        PROVE  PendingOK'
    BY <1>1, <1>4, RegisteredRemove DEF PendingOK
  <1> QED
    BY <1>2, <1>3, <1>4

\* The parts of Held are numbers, and none is more than the sum.
LEMMA HeldParts ==
    ASSUME NEW ks, NEW f
    PROVE  /\ Count(InSeq(tasks, ks, f)) \in 0 .. 2 /\ Count(InSeq(cbs, ks, f)) \in 0 .. 2
           /\ Count(InTimers(timers, ks, f)) \in 0 .. 2 /\ Count(InCtx(ctx, ks, f)) \in 0 .. 2
           /\ Held(ks, f) \in Nat
  BY CountIs DEF Held

\* What triggerEvent takes from the events it puts into the task list.
LEMMA TriggerEventsHeld ==
    ASSUME EventsOK, TasksOK, NEW fd \in Fd, NEW evs, TriggerEvents(fd, evs),
           UNCHANGED <<cbs, timers>>, NEW ks, NEW f, Held(ks, f) <= 1
    PROVE  Held(ks, f)' = Held(ks, f)
  <1> DEFINE u == Waiting(fd, "READ", evs) \o Waiting(fd, "WRITE", evs)
             n == Count(InSeq(u, ks, f))
  <1>1. Count(InCtx(ctx, ks, f)) <= 1
    BY HeldParts DEF Held
  <1>2. u \in Seq(Waiter) /\ n + Count(InCtx(ctx', ks, f)) = Count(InCtx(ctx, ks, f))
    <2> DEFINE c == [ctx EXCEPT ![fd] = [e \in Event |-> IF e \in evs THEN None ELSE @[e]]]
    <2>1. u \in Seq(Waiter) /\ n + Count(InCtx(c, ks, f)) = Count(InCtx(ctx, ks, f))
      BY <1>1, CountTriggered
    <2>2. ctx' = c
      BY DEF TriggerEvents
    <2> QED
      BY <2>1, <2>2
  <1>3. tasks' = tasks \o u /\ tasks \in Seq(Task)
    BY DEF TriggerEvents, Schedule, TasksOK
  <1>4. u \in Seq(Task)
    <2> HIDE DEF u
    <2> QED
      BY <1>2 DEF Task
  <1>5. n \in Nat /\ Count(InCtx(ctx', ks, f)) \in Nat
    BY CountIs
  <1> HIDE DEF u, n
  <1>6. Count(InSeq(tasks, ks, f)) + n <= 1
    BY <1>2, <1>5, HeldParts DEF Held
  <1>7. Count(InSeq(tasks', ks, f)) = Count(InSeq(tasks, ks, f)) + n
    BY <1>3, <1>4, <1>6, CountConcat DEF n
  <1> QED
    BY <1>2, <1>5, <1>7, HeldParts DEF Held
-----------------------------------------------------------------------------
(* What a step of a fiber keeps.  *)

\* The kinds of tasks are different, and none of them is None.
LEMMA TaskKinds ==
    /\ \A t \in Waiter : t.do \in {"resume", "start"} /\ t.fiber \in Fiber /\ t # None
    /\ \A t \in Callback : t.do \in {"wake", "timeout", "tick"}
                           /\ (t.do \in {"wake", "timeout"} => t.fiber \in Fiber)
                           /\ (t.do = "wake" => t # None)
    /\ \A f, g : Resume(f) # Start(g) /\ (Resume(f) = Resume(g) => f = g)
                 /\ (Start(f) = Start(g) => f = g)
  <1>1. \A t \in Waiter : t.do \in {"resume", "start"} /\ t.fiber \in Fiber /\ t # None
    BY NoneAssumption DEF Waiter, Resume, Start
  <1>2. ASSUME NEW t \in Callback
        PROVE  /\ t.do \in {"wake", "timeout", "tick"}
               /\ t.do \in {"wake", "timeout"} => t.fiber \in Fiber
               /\ t.do = "wake" => t # None
    <2>1. CASE \E f \in Fiber : t = Wake(f)
      BY <2>1, NoneAssumption DEF Wake
    <2>2. CASE \E f \in Fiber, c \in Call : t = Timeout(f, c)
      BY <2>2 DEF Timeout
    <2>3. CASE \E c \in Call : c.op = "timer" /\ t = c.cb
      BY <2>3, ProgramsAssumption
    <2> QED
      BY <2>1, <2>2, <2>3 DEF Callback
  <1>3. \A f, g : Resume(f) # Start(g) /\ (Resume(f) = Resume(g) => f = g)
                  /\ (Start(f) = Start(g) => f = g)
    <2> TAKE f, g
    <2>1. Resume(f).do = "resume" /\ Start(g).do = "start"
      BY DEF Resume, Start
    <2>2. Resume(f).fiber = f /\ Resume(g).fiber = g /\ Start(f).fiber = f /\ Start(g).fiber = g
      BY DEF Resume, Start
    <2> QED
      BY <2>1, <2>2
  <1> QED
    BY <1>1, <1>2, <1>3

\* A fiber with the same wakers and starters in the same state.
LEMMA FiberKept ==
    ASSUME NEW f, FiberOK(f), state'[f] = state[f], Waking(f)' = Waking(f),
           Held(Wakers, f)' = Held(Wakers, f), Held(Starters, f)' = Held(Starters, f),
           Count(Unstarted(todo', f)) <= Count(Unstarted(todo, f))
    PROVE  FiberOK(f)'
  <1>1. Held(Starters, f) \in Nat /\ Count(Unstarted(todo, f)) \in Nat
        /\ Count(Unstarted(todo', f)) \in Nat
    BY HeldParts, CountIs
  <1> QED
    BY <1>1 DEF FiberOK

\* A fiber has one waker or starter of a kind at most.
LEMMA HeldOnce ==
    ASSUME NEW f, FiberOK(f)
    PROVE  /\ Held(Wakers, f) <= 1 /\ Held(Starters, f) <= 1 /\ Count(Unstarted(todo, f)) <= 1
           /\ state[f] # "READY" => Held(Wakers, f) = 0 /\ Waking(f) = 0
           /\ state[f] # "NONE" => Held(Starters, f) = 0 /\ Count(Unstarted(todo, f)) = 0
  <1>1. Held(Wakers, f) \in Nat /\ Held(Starters, f) \in Nat /\ Count(Unstarted(todo, f)) \in Nat
    BY HeldParts, CountIs
  <1>2. Waking(f) \in 0 .. 1
    BY DEF Waking
  <1>3. CASE state[f] = "NONE"
    <2>1. state[f] # "READY"
      BY <1>3
    <2> QED
      BY <1>1, <1>2, <1>3, <2>1 DEF FiberOK
  <1>4. CASE state[f] # "NONE"
    BY <1>1, <1>2, <1>4 DEF FiberOK
  <1> QED
    BY <1>3, <1>4

\* A fiber that is not suspended is registered for no event.
LEMMA NotWaiting ==
    ASSUME NEW f \in Fiber, FiberOK(f), state[f] # "READY"
    PROVE  \A fd \in Fd, e \in Event : ctx[fd][e] # Resume(f)
  <1>1. Held(Wakers, f) = 0
    BY HeldOnce
  <1>2. Count(InCtx(ctx, Wakers, f)) = 0
    BY <1>1, HeldParts DEF Held
  <1>3. InCtx(ctx, Wakers, f) = {}
    BY <1>2, CountIs
  <1> SUFFICES ASSUME NEW fd \in Fd, NEW e \in Event, ctx[fd][e] = Resume(f)
               PROVE  FALSE
    OBVIOUS
  <1>4. Holds(ctx[fd][e], Wakers, f)
    BY NoneAssumption DEF Holds, Resume, Wakers
  <1>5. <<fd, e>> \in InCtx(ctx, Wakers, f)
    BY <1>4 DEF InCtx
  <1> QED
    BY <1>3, <1>5

\* No event gets a fiber, and only a fiber that is registered nowhere begins or
\* ends a call.
LEMMA WaitersKept ==
    ASSUME WaitersOK, NEW f,
           \A fd \in Fd, e \in Event : ctx[fd][e] # Resume(f),
           \A fd \in Fd, e \in Event, g \in Fiber :
               ctx'[fd][e] = Resume(g) => ctx[fd][e] = Resume(g),
           \A g \in Fiber \ {f} : wait'[g] = wait[g]
    PROVE  WaitersOK'
  <1> SUFFICES ASSUME NEW fd \in Fd, NEW e \in Event, NEW g \in Fiber, ctx'[fd][e] = Resume(g)
               PROVE  wait'[g].at = "wait" /\ wait'[g].call.fd = fd /\ wait'[g].call.event = e
    BY DEF WaitersOK
  <1>1. ctx[fd][e] = Resume(g)
    OBVIOUS
  <1>2. g # f
    BY <1>1
  <1> QED
    BY <1>1, <1>2 DEF WaitersOK

\* No call is made, and no fiber begins one.
LEMMA UnwatchKept ==
    ASSUME UnwatchOK, todo' = todo,
           \A f \in Fiber : InCall(f)' => InCall(f) /\ wait'[f].call = wait[f].call
    PROVE  UnwatchOK'
  BY DEF UnwatchOK

\* The next call of a, which may have to wait.
LEMMA UnwatchCall ==
    ASSUME UnwatchOK, CallsOK, NEW a \in Fiber \cup Caller, NEW ops, Calls(a, ops),
           \A f \in Fiber : InCall(f)' =>
               \/ InCall(f) /\ wait'[f].call = wait[f].call
               \/ f = a /\ wait'[f].call = Head(todo[a]) /\ Head(todo[a]).op \in {"io", "connect"}
    PROVE  UnwatchOK'
  <1>1. todo' = [todo EXCEPT ![a] = Tail(@)] /\ todo[a] # <<>> /\ todo[a] \in Seq(Call)
    BY DEF Calls, CallsOK
  <1>2. /\ \A b \in Fiber \cup Caller : b # a => todo'[b] = todo[b]
        /\ todo'[a] = Tail(todo[a])
    BY <1>1 DEF CallsOK
  <1>3. ASSUME NEW b \in Fiber \cup Caller, NEW i \in DOMAIN todo'[b]
        PROVE  \E j \in DOMAIN todo[b] : todo[b][j] = todo'[b][i]
    <2>1. CASE b # a
      BY <1>2, <1>3, <2>1
    <2>2. CASE b = a
      <3>1. DOMAIN Tail(todo[a]) = 1 .. Len(todo[a]) - 1 /\ DOMAIN todo[a] = 1 .. Len(todo[a])
            /\ Len(todo[a]) \in Nat
        BY <1>1
      <3>2. i \in 1 .. Len(todo[a]) - 1 /\ todo'[b][i] = Tail(todo[a])[i]
        BY <1>2, <1>3, <2>2, <3>1
      <3>3. Tail(todo[a])[i] = todo[a][i + 1] /\ i + 1 \in 1 .. Len(todo[a])
        BY <1>1, <3>1, <3>2
      <3> QED
        BY <2>2, <3>1, <3>2, <3>3
    <2> QED
      BY <2>1, <2>2
  <1>4. \E j \in DOMAIN todo[a] : todo[a][j] = Head(todo[a])
    <2>1. 1 \in DOMAIN todo[a] /\ todo[a][1] = Head(todo[a])
      BY <1>1
    <2> QED
      BY <2>1
  <1> SUFFICES ASSUME NEW b \in Fiber \cup Caller, NEW i \in DOMAIN todo'[b],
                      todo'[b][i].op = "unwatch"
               PROVE  /\ \A d \in Fiber \cup Caller : \A j \in DOMAIN todo'[d] :
                           /\ todo'[d][j].op \in {"io", "connect"}
                           /\ todo'[d][j].fd = todo'[b][i].fd
                           /\ todo'[d][j].event = todo'[b][i].event
                           => b = d
                      /\ \A f \in Fiber :
                           /\ InCall(f)' /\ wait'[f].call.fd = todo'[b][i].fd
                           /\ wait'[f].call.event = todo'[b][i].event
                           => b = f
    BY DEF UnwatchOK
  <1>5. PICK k \in DOMAIN todo[b] : todo[b][k] = todo'[b][i]
    BY <1>3
  <1> DEFINE c == todo'[b][i]
  <1>6. /\ \A d \in Fiber \cup Caller : \A j \in DOMAIN todo[d] :
             todo[d][j].op \in {"io", "connect"} /\ todo[d][j].fd = c.fd /\ todo[d][j].event = c.event
             => b = d
        /\ \A f \in Fiber : InCall(f) /\ wait[f].call.fd = c.fd /\ wait[f].call.event = c.event
                            => b = f
    BY <1>5 DEF UnwatchOK
  <1>7. \A d \in Fiber \cup Caller : \A j \in DOMAIN todo'[d] :
          todo'[d][j].op \in {"io", "connect"} /\ todo'[d][j].fd = c.fd /\ todo'[d][j].event = c.event
          => b = d
    BY <1>3, <1>6
  <1>8. ASSUME NEW f \in Fiber, InCall(f)', wait'[f].call.fd = c.fd, wait'[f].call.event = c.event
        PROVE  b = f
    <2>1. CASE InCall(f) /\ wait'[f].call = wait[f].call
      BY <1>6, <1>8, <2>1
    <2>2. CASE f = a /\ wait'[f].call = Head(todo[a]) /\ Head(todo[a]).op \in {"io", "connect"}
      BY <1>4, <1>6, <1>8, <2>2
    <2> QED
      BY <1>8, <2>1, <2>2
  <1> QED
    BY <1>7, <1>8

\* A call takes one starter from those to come if it starts a fiber, and none if
\* it does not.
LEMMA CallStarts ==
    ASSUME CallsOK, NEW a \in Fiber \cup Caller, NEW ops, Calls(a, ops), NEW f,
           Count(Unstarted(todo, f)) <= 1
    PROVE  (IF StartCall(Head(todo[a]), f) THEN 1 ELSE 0) + Count(Unstarted(todo', f))
             = Count(Unstarted(todo, f))
  BY CountCall DEF Calls

\* A step of a fiber that leaves tasks, events and states as they are.
LEMMA StayInv ==
    ASSUME IInv, WInv, NEW f \in Fiber, Running(f),
           UNCHANGED <<unusedVars, tasks, pc, current, state, eventVars>>, panic' = panic,
           TimerCbsOK', UnwatchOK',
           \A ks \in {Wakers, Starters}, g \in Fiber : InTimers(timers', ks, g) = InTimers(timers, ks, g),
           \A g \in Fiber \ {f} : wait'[g] = wait[g],
           \A g \in Fiber : Count(Unstarted(todo, g)) <= 1 =>
               Count(Unstarted(todo', g)) <= Count(Unstarted(todo, g))
    PROVE  WInv'
  <1> USE DEF WInv
  <1>1. TasksOK' /\ EventsOK' /\ ReadyOK' /\ StatesOK' /\ EndOK'
    BY DEF unusedVars, eventVars, TasksOK, EventsOK, ReadyOK, StatesOK, EndOK, Running
  <1>2. ASSUME ~panic PROVE AliveOK'
    <2> USE <1>2 DEF AliveOK
    <2>1. PendingOK'
      BY DEF PendingOK, eventVars
    <2>2. WaitersOK'
      <3>1. \A fd \in Fd, e \in Event : ctx[fd][e] # Resume(f)
        BY NotWaiting DEF Running
      <3>2. ctx' = ctx
        BY DEF eventVars
      <3> QED
        BY <3>1, <3>2, WaitersKept
    <2>3. ASSUME NEW g \in Fiber PROVE FiberOK(g)'
      <3>1. \A ks \in {Wakers, Starters} : Held(ks, g)' = Held(ks, g)
        BY DEF Held, unusedVars, eventVars
      <3>2. Waking(g)' = Waking(g) /\ state'[g] = state[g]
        BY DEF Waking
      <3>3. Count(Unstarted(todo', g)) <= Count(Unstarted(todo, g))
        BY HeldOnce
      <3> QED
        BY <3>1, <3>2, <3>3, FiberKept
    <2>4. ~idleTerm'
      BY DEF unusedVars, EndOK, Running
    <2> QED
      BY <2>1, <2>2, <2>3, <2>4
  <1> QED
    BY <1>1, <1>2
\* A timer that is set ...
LEMMA TimerSet ==
    ASSUME TimerCbsOK, NEW t, t.cb \in Callback, t.repeat => t.cb.do = "tick",
           timers' = timers \cup {t}
    PROVE  /\ TimerCbsOK'
           /\ t.cb.do # "wake" => \A ks \in {Wakers, Starters}, g \in Fiber :
                InTimers(timers', ks, g) = InTimers(timers, ks, g)
  <1>1. IsFiniteSet(timers')
    BY FS_AddElement DEF TimerCbsOK
  <1>2. TimerCbsOK'
    BY <1>1 DEF TimerCbsOK
  <1>3. ASSUME t.cb.do # "wake", NEW ks \in {Wakers, Starters}, NEW g \in Fiber
        PROVE  InTimers(timers', ks, g) = InTimers(timers, ks, g)
    <2>1. t.cb.do \notin ks
      BY <1>3, TaskKinds DEF Wakers, Starters
    <2> QED
      BY <2>1 DEF InTimers, Holds
  <1> QED
    BY <1>2, <1>3

\* ... and one that is cancelled.
LEMMA TimerCancelled ==
    ASSUME TimerCbsOK, NEW cb, cb.do \in {"tick", "timeout"}, timers' = Cancel(timers, cb)
    PROVE  /\ TimerCbsOK'
           /\ \A ks \in {Wakers, Starters}, g \in Fiber :
                InTimers(timers', ks, g) = InTimers(timers, ks, g)
  <1>1. timers' \subseteq timers
    BY DEF Cancel
  <1>2. IsFiniteSet(timers')
    BY <1>1, FS_Subset DEF TimerCbsOK
  <1>3. TimerCbsOK'
    BY <1>1, <1>2 DEF TimerCbsOK
  <1>4. ASSUME NEW ks \in {Wakers, Starters}, NEW g \in Fiber
        PROVE  InTimers(timers', ks, g) = InTimers(timers, ks, g)
    BY DEF InTimers, Holds, Cancel, Wakers, Starters
  <1> QED
    BY <1>3, <1>4

\* The end of a call, a call that goes on, and one that begins.
LEMMA ReturnsWait ==
    ASSUME WaitsOK, NEW f \in Fiber, NEW r, Returns(f, r)
    PROVE  (\A g \in Fiber \ {f} : wait'[g] = wait[g]) /\ ~InCall(f)'
  BY DEF WaitsOK, Returns, Body, InCall

\* A step of one fiber leaves the calls of the others alone.
LEMMA OtherWaits ==
    ASSUME WaitsOK, NEW f \in Fiber, NEW w, wait' = [wait EXCEPT ![f] = w]
    PROVE  (\A g \in Fiber \ {f} : wait'[g] = wait[g]) /\ wait'[f] = w
  BY DEF WaitsOK

\* A fiber goes on inside its call.
LEMMA CallGoesOn ==
    ASSUME WaitsOK, NEW f \in Fiber, InCall(f), NEW at, wait' = [wait EXCEPT ![f].at = at]
    PROVE  /\ \A g \in Fiber \ {f} : wait'[g] = wait[g]
           /\ wait'[f].call = wait[f].call /\ wait'[f].at = at
  <1>1. WaitOK(wait[f])
    BY DEF WaitsOK
  <1>2. wait'[f] = [wait[f] EXCEPT !.at = at] /\ \A g \in Fiber \ {f} : wait'[g] = wait[g]
    BY DEF WaitsOK
  <1>3. [wait[f] EXCEPT !.at = at].call = wait[f].call /\ [wait[f] EXCEPT !.at = at].at = at
    BY <1>1 DEF WaitOK, InCall
  <1> QED
    BY <1>2, <1>3

\* The fiber's next call starts no fiber.
LEMMA StartsNone ==
    ASSUME CallsOK, NEW a \in Fiber \cup Caller, NEW ops, Calls(a, ops),
           ops \cap {"schedule", "watch"} = {}
    PROVE  \A g \in Fiber : Count(Unstarted(todo, g)) <= 1 =>
               Count(Unstarted(todo', g)) <= Count(Unstarted(todo, g))
  <1> SUFFICES ASSUME NEW g \in Fiber, Count(Unstarted(todo, g)) <= 1
               PROVE  Count(Unstarted(todo', g)) <= Count(Unstarted(todo, g))
    OBVIOUS
  <1>1. Head(todo[a]).op \in ops
    BY DEF Calls
  <1>2. ~StartCall(Head(todo[a]), g)
    BY <1>1 DEF StartCall
  <1>3. Count(Unstarted(todo', g)) \in 0 .. 2
    BY CountIs
  <1> QED
    BY <1>2, <1>3, CallStarts

\* socket, connect, fcntl, ioctl, setsockopt and do_io up to its loop.
LEMMA CallWInv ==
    ASSUME IInv, WInv, NEW f \in Fiber, NEW call, todo[f] # <<>>, call = Head(todo[f]),
           \/ Socket(f, call) \/ Io(f, call) \/ Connect(f, call) \/ SetSockOpt(f, call)
           \/ Fcntl(f, call) \/ GetFl(f, call) \/ Ioctl(f, call)
    PROVE  WInv'
  <1> DEFINE ops == {"socket", "io", "connect", "timeout", "fcntl", "getfl", "ioctl"}
  <1>0. ASSUME NEW o, Calls(f, {o}), o \in ops PROVE Calls(f, ops)
    BY <1>0 DEF Calls
  <1>1. Running(f) /\ Calls(f, ops)
    <2>1. CASE Socket(f, call)
      BY <1>0, <2>1 DEF Socket, InBody
    <2>2. CASE Io(f, call)
      BY <1>0, <2>2 DEF Io, InBody
    <2>3. CASE Connect(f, call)
      BY <1>0, <2>3 DEF Connect, InBody
    <2>4. CASE SetSockOpt(f, call)
      BY <1>0, <2>4 DEF SetSockOpt, InBody
    <2>5. CASE Fcntl(f, call)
      BY <1>0, <2>5 DEF Fcntl, InBody
    <2>6. CASE GetFl(f, call)
      BY <1>0, <2>6 DEF GetFl, InBody
    <2>7. CASE Ioctl(f, call)
      BY <1>0, <2>7 DEF Ioctl, InBody
    <2> QED
      BY <2>1, <2>2, <2>3, <2>4, <2>5, <2>6, <2>7
  <1>2. UNCHANGED <<unusedVars, tasks, pc, current, state, eventVars>> /\ panic' = panic
    BY DEF Socket, Io, Connect, SetSockOpt, Fcntl, GetFl, Ioctl, stayVars
  <1>3. /\ TimerCbsOK'
        /\ \A ks \in {Wakers, Starters}, g \in Fiber :
             InTimers(timers', ks, g) = InTimers(timers, ks, g)
    <2>1. CASE timers' = timers
      BY <2>1 DEF WInv, TimerCbsOK
    <2>2. CASE Connect(f, call) /\ AddTimer(NewTimer(ConnectTimeout, FALSE, Timeout(f, call)))
      <3> DEFINE t == NewTimer(ConnectTimeout, FALSE, Timeout(f, call))
      <3>1. call \in Call
        BY <1>1, NextCall DEF IInv
      <3>2. t.cb = Timeout(f, call) /\ t.repeat = FALSE /\ t.cb \in Callback /\ t.cb.do # "wake"
        BY <3>1 DEF NewTimer, Callback, Timeout
      <3>3. timers' = timers \cup {t}
        BY <2>2 DEF AddTimer, InsertTimer
      <3> HIDE DEF t
      <3> QED
        BY <3>2, <3>3, TimerSet DEF WInv
    <2> QED
      BY <2>1, <2>2 DEF Socket, Io, Connect, SetSockOpt, Fcntl, GetFl, Ioctl, timerVars
  <1>4. /\ \A g \in Fiber \ {f} : wait'[g] = wait[g]
        /\ InCall(f)' => \/ InCall(f) /\ wait'[f].call = wait[f].call
                         \/ wait'[f].call = call /\ call.op \in {"io", "connect"}
    <2>1. CASE wait' = wait
      BY <2>1 DEF InCall
    <2>2. CASE \E r : Returns(f, r)
      BY <2>2, ReturnsWait DEF IInv
    <2>3. CASE (Io(f, call) \/ Connect(f, call)) /\ ~(\E r : Returns(f, r))
      <3>1. call.op \in {"io", "connect"}
        BY <2>3 DEF Io, Connect, Calls
      <3>2. \E w : wait' = [wait EXCEPT ![f] = w] /\ w.call = call
        <4>1. CASE Io(f, call)
          <5> DEFINE w == [at |-> "try", call |-> call,
                           timeout |-> GetTimeout(fdCtx[call.fd], call.event), cancelled |-> FALSE]
          <5>1. wait' = [wait EXCEPT ![f] = w]
            BY <2>3, <4>1 DEF Io
          <5>2. w.call = call
            OBVIOUS
          <5> HIDE DEF w
          <5> QED
            BY <5>1, <5>2
        <4>2. CASE Connect(f, call)
          <5> DEFINE w == [at |-> "register", call |-> call, timeout |-> ConnectTimeout,
                           cancelled |-> FALSE]
          <5>1. wait' = [wait EXCEPT ![f] = w]
            BY <2>3, <4>2 DEF Connect
          <5>2. w.call = call
            OBVIOUS
          <5> HIDE DEF w
          <5> QED
            BY <5>1, <5>2
        <4> QED
          BY <2>3, <4>1, <4>2
      <3> QED
        BY <3>1, <3>2, OtherWaits DEF IInv
    <2>4. CASE Socket(f, call) \/ SetSockOpt(f, call) \/ Fcntl(f, call) \/ Ioctl(f, call)
      BY <2>1, <2>4 DEF Socket, SetSockOpt, Fcntl, Ioctl
    <2>5. CASE GetFl(f, call)
      BY <2>2, <2>5 DEF GetFl
    <2> QED
      BY <2>2, <2>3, <2>4, <2>5
  <1>5. UnwatchOK'
    <2>1. \A g \in Fiber : InCall(g)' =>
             \/ InCall(g) /\ wait'[g].call = wait[g].call
             \/ g = f /\ wait'[g].call = Head(todo[f]) /\ Head(todo[f]).op \in {"io", "connect"}
      BY <1>4 DEF InCall
    <2> HIDE DEF ops
    <2> QED
      BY <1>1, <2>1, UnwatchCall DEF WInv, IInv
  <1>6. \A g \in Fiber : Count(Unstarted(todo, g)) <= 1 =>
          Count(Unstarted(todo', g)) <= Count(Unstarted(todo, g))
    <2>1. ops \cap {"schedule", "watch"} = {}
      OBVIOUS
    <2> HIDE DEF ops
    <2> QED
      BY <1>1, <2>1, StartsNone DEF IInv
  <1> QED
    BY <1>1, <1>2, <1>3, <1>4, <1>5, <1>6, StayInv

\* The loop of do_io, and the end of sleep, do_io and connect.
LEMMA GoOnWInv ==
    ASSUME IInv, WInv, NEW f \in Fiber, SleepReturns(f) \/ Try(f) \/ Woken(f)
    PROVE  WInv'
  <1>1. /\ Running(f) /\ UNCHANGED <<unusedVars, tasks, pc, current, state, eventVars, todo>>
        /\ panic' = panic
    BY DEF SleepReturns, Try, Woken, stayVars, ioVars, schedulerVars, workerVars, unusedVars
  <1>2. /\ TimerCbsOK'
        /\ \A ks \in {Wakers, Starters}, g \in Fiber :
             InTimers(timers', ks, g) = InTimers(timers, ks, g)
    <2>1. CASE timers' = timers
      BY <2>1 DEF WInv, TimerCbsOK
    <2>2. CASE wait[f].at = "try" /\ AddTimer(NewTimer(wait[f].timeout, FALSE, Timeout(f, wait[f].call)))
      <3> DEFINE t == NewTimer(wait[f].timeout, FALSE, Timeout(f, wait[f].call))
      <3>1. wait[f].call \in Call
        BY <2>2 DEF IInv, WaitsOK, WaitOK
      <3>2. t.cb = Timeout(f, wait[f].call) /\ t.repeat = FALSE /\ t.cb \in Callback
            /\ t.cb.do # "wake"
        BY <3>1 DEF NewTimer, Callback, Timeout
      <3>3. timers' = timers \cup {t}
        BY <2>2 DEF AddTimer, InsertTimer
      <3> HIDE DEF t
      <3> QED
        BY <3>2, <3>3, TimerSet DEF WInv
    <2>3. CASE timers' = Cancel(timers, Timeout(f, wait[f].call))
      <3>1. Timeout(f, wait[f].call).do \in {"tick", "timeout"}
        BY DEF Timeout
      <3> QED
        BY <2>3, <3>1, TimerCancelled DEF WInv
    <2>4. CASE SleepReturns(f)
      BY <2>1, <2>4 DEF SleepReturns, ioVars, timerVars
    <2>5. CASE Try(f)
      BY <2>1, <2>2, <2>5 DEF Try, timerVars
    <2>6. CASE Woken(f)
      BY <2>3, <2>6 DEF Woken
    <2> QED
      BY <2>4, <2>5, <2>6
  <1>3. /\ \A g \in Fiber \ {f} : wait'[g] = wait[g]
        /\ InCall(f)' => InCall(f) /\ wait'[f].call = wait[f].call
    <2>1. CASE \E r : Returns(f, r)
      BY <2>1, ReturnsWait DEF IInv
    <2>2. CASE InCall(f) /\ \E at : wait' = [wait EXCEPT ![f].at = at]
      BY <2>2, CallGoesOn DEF IInv
    <2>3. CASE SleepReturns(f)
      BY <2>1, <2>3 DEF SleepReturns
    <2>4. CASE Try(f)
      BY <2>1, <2>2, <2>4 DEF Try, InCall
    <2>5. CASE Woken(f)
      BY <2>1, <2>2, <2>5 DEF Woken, InCall
    <2> QED
      BY <2>3, <2>4, <2>5
  <1>4. UnwatchOK'
    <2>1. \A g \in Fiber : InCall(g)' => InCall(g) /\ wait'[g].call = wait[g].call
      BY <1>3 DEF InCall
    <2> QED
      BY <1>1, <2>1, UnwatchKept DEF WInv
  <1>5. \A g \in Fiber : Count(Unstarted(todo, g)) <= 1 =>
          Count(Unstarted(todo', g)) <= Count(Unstarted(todo, g))
    <2>1. \A g \in Fiber : Count(Unstarted(todo, g)) \in 0 .. 2
      BY CountIs
    <2> QED
      BY <1>1, <2>1
  <1> QED
    BY <1>1, <1>2, <1>3, <1>4, <1>5, StayInv
-----------------------------------------------------------------------------
(* How the operations change Held.  *)

\* What wakes f, or starts it, is for nobody else.
LEMMA Weights ==
    ASSUME NEW f \in Fiber, NEW g
    PROVE  /\ Weight(Resume(f), Wakers, g) = IF g = f THEN 1 ELSE 0
           /\ Weight(Wake(f), Wakers, g) = IF g = f THEN 1 ELSE 0
           /\ Weight(Start(f), Starters, g) = IF g = f THEN 1 ELSE 0
           /\ Weight(Resume(f), Starters, g) = 0 /\ Weight(Wake(f), Starters, g) = 0
           /\ Weight(Start(f), Wakers, g) = 0
  BY NoneAssumption DEF Weight, Holds, Resume, Wake, Start, Wakers, Starters

\* A task counts once at most.
LEMMA WeightIs ==
    ASSUME NEW t, NEW ks, NEW f
    PROVE  Weight(t, ks, f) \in 0 .. 1
  BY DEF Weight

\* A timer that is added holds what its callback wakes.
LEMMA HeldNewTimer ==
    ASSUME NEW t, timers' = timers \cup {t}, UNCHANGED <<tasks, cbs, ctx>>, NEW ks, NEW f,
           Held(ks, f) + Weight(t.cb, ks, f) <= 1
    PROVE  Held(ks, f)' = Held(ks, f) + Weight(t.cb, ks, f)
  <1>1. Count(InTimers(timers, ks, f)) + Weight(t.cb, ks, f) <= 1
    BY HeldParts, WeightIs DEF Held
  <1>2. Count(InTimers(timers', ks, f)) = Count(InTimers(timers, ks, f)) + Weight(t.cb, ks, f)
    BY <1>1, CountNewTimer
  <1> QED
    BY <1>2, HeldParts, WeightIs DEF Held

\* addEvent holds what it is to wake or start.
LEMMA HeldAddEvent ==
    ASSUME EventsOK, NEW fd \in Fd, NEW e \in Event, e \notin events[fd], NEW t,
           AddEvent(fd, e, t), UNCHANGED <<tasks, cbs, timers>>, NEW ks, NEW f,
           Held(ks, f) + Weight(t, ks, f) <= 1
    PROVE  Held(ks, f)' = Held(ks, f) + Weight(t, ks, f)
  <1>1. Count(InCtx(ctx, ks, f)) + Weight(t, ks, f) <= 1
    BY HeldParts, WeightIs DEF Held
  <1>2. Count(InCtx(ctx', ks, f)) = Count(InCtx(ctx, ks, f)) + Weight(t, ks, f)
    <2> DEFINE c == [ctx EXCEPT ![fd][e] = t]
    <2>1. Count(InCtx(c, ks, f)) = Count(InCtx(ctx, ks, f)) + Weight(t, ks, f)
      BY <1>1, CountAddEvent
    <2>2. ctx' = c
      BY DEF AddEvent
    <2> QED
      BY <2>1, <2>2
  <1> QED
    BY <1>2, HeldParts, WeightIs DEF Held

\* delEvent lets go of what waited for the event, and nothing else.
LEMMA HeldDelEvent ==
    ASSUME EventsOK, NEW fd \in Fd, NEW e \in Event, ctx' = [ctx EXCEPT ![fd][e] = None],
           UNCHANGED <<tasks, cbs, timers>>, NEW ks, NEW f, Held(ks, f) <= 1
    PROVE  Held(ks, f)' + Weight(ctx[fd][e], ks, f) = Held(ks, f)
  <1>1. Count(InCtx(ctx, ks, f)) <= 1
    BY HeldParts DEF Held
  <1>2. Count(InCtx(ctx', ks, f)) + Weight(ctx[fd][e], ks, f) = Count(InCtx(ctx, ks, f))
    <2> DEFINE c == [ctx EXCEPT ![fd][e] = None]
    <2>1. Count(InCtx(c, ks, f)) + Weight(ctx[fd][e], ks, f) = Count(InCtx(ctx, ks, f))
      BY <1>1, CountDelEvent, Zenon
    <2> QED
      BY <2>1
  <1>3. Count(InCtx(ctx', ks, f)) \in 0 .. 2
    BY CountIs
  <1> QED
    BY <1>2, <1>3, HeldParts, WeightIs DEF Held

\* scheduler holds the task that it appends.
LEMMA HeldSchedule ==
    ASSUME TasksOK, NEW t \in Task, tasks' = tasks \o <<t>>, UNCHANGED <<cbs, timers, ctx>>,
           NEW ks, NEW f, Held(ks, f) + Weight(t, ks, f) <= 1
    PROVE  Held(ks, f)' = Held(ks, f) + Weight(t, ks, f)
  <1>1. Count(InSeq(tasks, ks, f)) + Weight(t, ks, f) <= 1
    BY HeldParts, WeightIs DEF Held
  <1>2. Count(InSeq(<<t>>, ks, f)) = Weight(t, ks, f)
    BY CountSingle
  <1>3. tasks \in Seq(Task) /\ <<t>> \in Seq(Task)
    BY DEF TasksOK
  <1>4. Count(InSeq(tasks', ks, f)) = Count(InSeq(tasks, ks, f)) + Weight(t, ks, f)
    <2> DEFINE u == <<t>>
    <2>1. u \in Seq(Task) /\ Count(InSeq(u, ks, f)) = Weight(t, ks, f) /\ tasks' = tasks \o u
      BY <1>2
    <2> HIDE DEF u
    <2>2. Count(InSeq(tasks \o u, ks, f)) = Count(InSeq(tasks, ks, f)) + Count(InSeq(u, ks, f))
      BY <1>1, <1>3, <2>1, CountConcat
    <2> QED
      BY <2>1, <2>2
  <1> QED
    BY <1>4, HeldParts, WeightIs DEF Held

\* Fiber f, which was the only one to run, yields.
LEMMA LeaveOK ==
    ASSUME WInv, NEW f \in Fiber, Running(f), NEW s \in {"READY", "TERM"}, Leave(f, s),
           UNCHANGED <<unusedVars, tasks>>
    PROVE  /\ TasksOK' /\ ReadyOK' /\ StatesOK' /\ EndOK' /\ ~idleTerm'
           /\ \A g : Waking(g) = 0 /\ Waking(g)' = 0
           /\ state'[f] = s /\ \A g \in Fiber \ {f} : state'[g] = state[g]
  <1> USE DEF WInv
  <1>1. pc = "run" /\ pc' = "pick" /\ current' = None /\ state' = [state EXCEPT ![f] = s]
    BY DEF Running, Leave
  <1>2. current \in {Resume(f), Start(f)}
    BY DEF StatesOK, Running
  <1>3. TasksOK' /\ ReadyOK' /\ EndOK' /\ ~idleTerm'
    BY <1>1 DEF TasksOK, ReadyOK, EndOK, unusedVars
  <1>4. state'[f] = s /\ \A g \in Fiber \ {f} : state'[g] = state[g]
    BY <1>1 DEF StatesOK
  <1>5. StatesOK'
    <2>1. state' \in [Fiber -> {"NONE", "READY", "RUNNING", "TERM"}]
      BY <1>1 DEF StatesOK
    <2>2. \A g \in Fiber : state'[g] # "RUNNING"
      <3>1. \A g \in Fiber \ {f} : state[g] # "RUNNING"
        BY <1>2, TaskKinds DEF StatesOK
      <3> QED
        BY <1>4, <3>1
    <2> QED
      BY <2>1, <2>2 DEF StatesOK
  <1>6. \A g : Waking(g) = 0 /\ Waking(g)' = 0
    <2>1. current.do # "wake"
      BY <1>2 DEF Resume, Start
    <2> QED
      BY <1>1, <2>1 DEF Waking, Holds
  <1> QED
    BY <1>3, <1>4, <1>5, <1>6

\* The other fibers are not concerned by what is held for f.
LEMMA LeaveFibers ==
    ASSUME NEW f \in Fiber, NEW s \in {"READY", "TERM"}, \A g \in Fiber : FiberOK(g),
           state[f] = "RUNNING", state'[f] = s, \A g \in Fiber \ {f} : state'[g] = state[g],
           \A g : Waking(g) = 0 /\ Waking(g)' = 0,
           \A g \in Fiber : /\ Held(Starters, g)' = Held(Starters, g)
                            /\ Held(Wakers, g)' = Held(Wakers, g)
                                                  + IF g = f /\ s = "READY" THEN 1 ELSE 0
                            /\ Count(Unstarted(todo', g)) <= Count(Unstarted(todo, g))
    PROVE  \A g \in Fiber : FiberOK(g)'
  <1> SUFFICES ASSUME NEW g \in Fiber PROVE FiberOK(g)'
    OBVIOUS
  <1>1. CASE g # f
    <2>1. Held(Wakers, g)' = Held(Wakers, g)
      BY <1>1, HeldParts
    <2> QED
      BY <1>1, <2>1, FiberKept
  <1>2. CASE g = f
    <2>1. /\ Held(Wakers, f) = 0 /\ Held(Starters, f) = 0 /\ Count(Unstarted(todo, f)) = 0
      BY <1>2, HeldOnce
    <2>2. Count(Unstarted(todo', f)) = 0
      <3>1. Count(Unstarted(todo', f)) \in 0 .. 2
        BY CountIs
      <3> QED
        BY <1>2, <2>1, <3>1
    <2>3. Held(Starters, f)' = 0 /\ Held(Wakers, f)' = IF s = "READY" THEN 1 ELSE 0
      BY <1>2, <2>1
    <2> QED
      BY <1>2, <2>2, <2>3 DEF FiberOK
  <1> QED
    BY <1>1, <1>2

\* sleep.
LEMMA SleepWInv ==
    ASSUME IInv, WInv, NEW f \in Fiber, NEW call, todo[f] # <<>>, call = Head(todo[f]), Sleep(f, call)
    PROVE  WInv'
  <1> USE DEF WInv
  <1>1. Running(f) /\ Calls(f, {"sleep"}) /\ Leave(f, "READY") /\ UNCHANGED <<unusedVars, tasks>>
    BY DEF Sleep, InBody
  <1>2. /\ TasksOK' /\ ReadyOK' /\ StatesOK' /\ EndOK' /\ ~idleTerm'
        /\ \A g : Waking(g) = 0 /\ Waking(g)' = 0
        /\ state'[f] = "READY" /\ \A g \in Fiber \ {f} : state'[g] = state[g]
    BY <1>1, LeaveOK
  <1> DEFINE t == NewTimer(call.ms, FALSE, Wake(f))
  <1>3. timers' = timers \cup {t} /\ t.cb = Wake(f) /\ t.repeat = FALSE
    BY DEF Sleep, AddTimer, InsertTimer, NewTimer
  <1> HIDE DEF t
  <1>4. TimerCbsOK'
    <2>1. t.cb \in Callback
      BY <1>3 DEF Callback
    <2> QED
      BY <1>3, <2>1, TimerSet
  <1>5. EventsOK' /\ UNCHANGED <<ctx, events, pendingEventCnt, panic>>
    BY DEF Sleep, eventVars, EventsOK
  <1>6. (\A g \in Fiber \ {f} : wait'[g] = wait[g]) /\ ~InCall(f)'
    <2> DEFINE w == [at |-> "sleep"]
    <2>1. w.at = "sleep"
      OBVIOUS
    <2>2. wait' = [wait EXCEPT ![f] = w]
      BY DEF Sleep
    <2> HIDE DEF w
    <2> QED
      BY <2>1, <2>2, OtherWaits DEF IInv, InCall
  <1>7. UnwatchOK'
    <2>1. \A g \in Fiber : InCall(g)' => InCall(g) /\ wait'[g].call = wait[g].call
      BY <1>6 DEF InCall
    <2> QED
      BY <1>1, <2>1, UnwatchCall DEF IInv
  <1>8. ASSUME ~panic PROVE AliveOK'
    <2> USE <1>8 DEF AliveOK
    <2>1. PendingOK'
      BY <1>5 DEF PendingOK
    <2>2. WaitersOK'
      <3>1. \A fd \in Fd, e \in Event : ctx[fd][e] # Resume(f)
        BY <1>1, NotWaiting DEF Running
      <3> QED
        BY <1>5, <1>6, <3>1, WaitersKept
    <2>3. \A g \in Fiber : FiberOK(g)'
      <3>1. ASSUME NEW g \in Fiber
            PROVE  /\ Held(Starters, g)' = Held(Starters, g)
                   /\ Held(Wakers, g)' = Held(Wakers, g) + IF g = f THEN 1 ELSE 0
        <4>1. Weight(t.cb, Starters, g) = 0 /\ Weight(t.cb, Wakers, g) = IF g = f THEN 1 ELSE 0
          BY <1>3, Weights
        <4>2. Held(Wakers, g) <= 1 /\ Held(Starters, g) <= 1 /\ (g = f => Held(Wakers, g) = 0)
          BY <1>1, HeldOnce DEF Running
        <4>3. Held(Wakers, g) \in Nat /\ Held(Starters, g) \in Nat
          BY HeldParts
        <4>4. UNCHANGED <<tasks, cbs, ctx>>
          BY <1>1, <1>5 DEF unusedVars
        <4>5. /\ Held(Wakers, g) + Weight(t.cb, Wakers, g) <= 1
              /\ Held(Starters, g) + Weight(t.cb, Starters, g) <= 1
          BY <4>1, <4>2, <4>3
        <4>6. /\ Held(Wakers, g)' = Held(Wakers, g) + Weight(t.cb, Wakers, g)
              /\ Held(Starters, g)' = Held(Starters, g) + Weight(t.cb, Starters, g)
          BY <1>3, <4>4, <4>5, HeldNewTimer
        <4> QED
          BY <4>1, <4>3, <4>6
      <3>2. \A g \in Fiber : Count(Unstarted(todo', g)) <= Count(Unstarted(todo, g))
        <4>1. {"sleep"} \cap {"schedule", "watch"} = {}
          OBVIOUS
        <4> QED
          BY <1>1, <4>1, StartsNone, HeldOnce DEF IInv
      <3> QED
        BY <1>1, <1>2, <3>1, <3>2, LeaveFibers DEF Running
    <2> QED
      BY <1>2, <2>1, <2>2, <2>3
  <1> QED
    BY <1>2, <1>4, <1>5, <1>7, <1>8
\* What remains to be shown of a step of the worker while it is not idle.
LEMMA AwakeInv ==
    ASSUME WInv, pc = "run", pc' \in {"run", "pick"}, UNCHANGED unusedVars,
           tasks' \in Seq(Task), current' \in {current, None}, TimerCbsOK', EventsOK', StatesOK',
           UnwatchOK', ~panic' => PendingOK' /\ WaitersOK' /\ \A g \in Fiber : FiberOK(g)'
    PROVE  WInv'
  <1> USE DEF WInv
  <1>1. TasksOK' /\ ReadyOK' /\ EndOK' /\ ~idleTerm'
    BY DEF TasksOK, ReadyOK, EndOK, unusedVars
  <1> QED
    BY <1>1 DEF AliveOK

\* addEvent and yield.
LEMMA RegisterWInv ==
    ASSUME IInv, WInv, NEW f \in Fiber, Register(f)
    PROVE  WInv'
  <1> USE DEF WInv
  <1> DEFINE c == wait[f].call
             fd == c.fd
             e == c.event
  <1>1. /\ Running(f) /\ wait[f].at = "register" /\ Leave(f, "READY")
        /\ AddEvent(fd, e, Resume(f)) /\ wait' = [wait EXCEPT ![f].at = "wait"]
        /\ UNCHANGED <<unusedVars, tasks, timers, todo>>
    BY DEF Register, timerVars
  <1>2. c \in Call /\ c.op \in {"io", "connect"}
    BY <1>1 DEF IInv, WaitsOK, WaitOK
  <1>3. fd \in Fd /\ e \in Event
    BY <1>2, ProgramsAssumption DEF Event
  <1> HIDE DEF fd, e
  <1>4. /\ \A g : Waking(g) = 0 /\ Waking(g)' = 0
        /\ state'[f] = "READY" /\ \A g \in Fiber \ {f} : state'[g] = state[g]
        /\ StatesOK'
    BY <1>1, LeaveOK
  <1>5. Resume(f) \in Waiter
    BY DEF Waiter
  <1>6. /\ EventsOK' /\ (PendingOK /\ ~panic' => PendingOK')
        /\ (~panic' => ~panic /\ e \notin events[fd])
    BY <1>1, <1>3, <1>5, AddEventOK
  <1>7. /\ \A g \in Fiber \ {f} : wait'[g] = wait[g]
        /\ wait'[f].call = c /\ wait'[f].at = "wait"
    BY <1>1, CallGoesOn DEF IInv, InCall
  <1>8. UnwatchOK'
    <2>1. \A g \in Fiber : InCall(g)' => InCall(g) /\ wait'[g].call = wait[g].call
      BY <1>1, <1>7 DEF InCall
    <2> QED
      BY <1>1, <2>1, UnwatchKept
  <1>9. ASSUME ~panic' PROVE PendingOK' /\ WaitersOK' /\ \A g \in Fiber : FiberOK(g)'
    <2> USE DEF AliveOK
    <2>1. PendingOK' /\ ~panic /\ e \notin events[fd]
      BY <1>6, <1>9
    <2>2. WaitersOK'
      <3> SUFFICES ASSUME NEW x \in Fd, NEW y \in Event, NEW g \in Fiber, ctx'[x][y] = Resume(g)
                   PROVE  wait'[g].at = "wait" /\ wait'[g].call.fd = x /\ wait'[g].call.event = y
        BY DEF WaitersOK
      <3>1. ctx'[x][y] = IF x = fd /\ y = e THEN Resume(f) ELSE ctx[x][y]
        BY <1>1, <1>3, Zenon DEF AddEvent, EventsOK
      <3>2. CASE x = fd /\ y = e
        BY <1>7, <3>1, <3>2, TaskKinds DEF fd, e
      <3>3. CASE ~(x = fd /\ y = e)
        <4>1. ctx[x][y] = Resume(g)
          BY <3>1, <3>3
        <4>2. g # f
          BY <1>1, <2>1, <4>1, NotWaiting DEF Running
        <4> QED
          BY <1>7, <2>1, <4>1, <4>2 DEF WaitersOK
      <3> QED
        BY <3>2, <3>3
    <2>3. ASSUME NEW g \in Fiber
          PROVE  /\ Held(Starters, g)' = Held(Starters, g)
                 /\ Held(Wakers, g)' = Held(Wakers, g) + IF g = f THEN 1 ELSE 0
      <3> DEFINE t == Resume(f)
      <3>1. Weight(t, Starters, g) = 0 /\ Weight(t, Wakers, g) = IF g = f THEN 1 ELSE 0
        BY Weights
      <3>2. Held(Wakers, g) <= 1 /\ Held(Starters, g) <= 1 /\ (g = f => Held(Wakers, g) = 0)
        BY <1>1, <2>1, HeldOnce DEF Running
      <3>3. Held(Wakers, g) \in Nat /\ Held(Starters, g) \in Nat
        BY HeldParts
      <3>4. UNCHANGED <<tasks, cbs, timers>>
        BY <1>1 DEF unusedVars
      <3> HIDE DEF t
      <3>5. /\ Held(Wakers, g) + Weight(t, Wakers, g) <= 1
            /\ Held(Starters, g) + Weight(t, Starters, g) <= 1
        BY <3>1, <3>2, <3>3
      <3>6. AddEvent(fd, e, t)
        BY <1>1 DEF t
      <3>7. /\ Held(Wakers, g)' = Held(Wakers, g) + Weight(t, Wakers, g)
            /\ Held(Starters, g)' = Held(Starters, g) + Weight(t, Starters, g)
        BY <1>3, <2>1, <3>4, <3>5, <3>6, HeldAddEvent
      <3> QED
        BY <3>1, <3>3, <3>7
    <2>4. \A g \in Fiber : Count(Unstarted(todo', g)) <= Count(Unstarted(todo, g))
      <3>1. \A g : Count(Unstarted(todo, g)) \in 0 .. 2
        BY CountIs
      <3> QED
        BY <1>1, <3>1
    <2>5. \A g \in Fiber : FiberOK(g)'
      BY <1>1, <1>4, <2>1, <2>3, <2>4, LeaveFibers DEF Running
    <2> QED
      BY <2>1, <2>2, <2>5
  <1>10. TimerCbsOK' /\ tasks' \in Seq(Task)
    BY <1>1 DEF TimerCbsOK, TasksOK
  <1>11. pc = "run" /\ pc' = "pick" /\ current' = None /\ UNCHANGED unusedVars
    BY <1>1 DEF Running, Leave
  <1> QED
    BY <1>4, <1>6, <1>8, <1>9, <1>10, <1>11, AwakeInv

\* The end of a fiber's body.
LEMMA FinishWInv ==
    ASSUME IInv, WInv, NEW f \in Fiber, Finish(f)
    PROVE  WInv'
  <1> USE DEF WInv
  <1>1. /\ Running(f) /\ Leave(f, "TERM")
        /\ UNCHANGED <<unusedVars, tasks, timers, todo, wait, events, ctx, pendingEventCnt, panic>>
    BY DEF Finish, InBody, timerVars, eventVars, hookVars
  <1>2. /\ \A g : Waking(g) = 0 /\ Waking(g)' = 0
        /\ state'[f] = "TERM" /\ \A g \in Fiber \ {f} : state'[g] = state[g]
        /\ StatesOK'
    BY <1>1, LeaveOK
  <1>3. EventsOK' /\ UnwatchOK' /\ TimerCbsOK' /\ tasks' \in Seq(Task)
    BY <1>1 DEF EventsOK, UnwatchOK, TimerCbsOK, TasksOK, InCall
  <1>4. ASSUME ~panic' PROVE PendingOK' /\ WaitersOK' /\ \A g \in Fiber : FiberOK(g)'
    <2> USE DEF AliveOK
    <2>1. PendingOK' /\ WaitersOK'
      BY <1>1, <1>4 DEF PendingOK, WaitersOK
    <2>2. ASSUME NEW g \in Fiber
          PROVE  /\ Held(Starters, g)' = Held(Starters, g)
                 /\ Held(Wakers, g)' = Held(Wakers, g) + IF g = f /\ "TERM" = "READY" THEN 1 ELSE 0
                 /\ Count(Unstarted(todo', g)) <= Count(Unstarted(todo, g))
      <3>1. Held(Wakers, g)' = Held(Wakers, g) /\ Held(Starters, g)' = Held(Starters, g)
        BY <1>1 DEF Held, unusedVars
      <3>2. Count(Unstarted(todo, g)) \in 0 .. 2 /\ Held(Wakers, g) \in Nat
        BY CountIs, HeldParts
      <3> QED
        BY <1>1, <3>1, <3>2
    <2>3. \A g \in Fiber : FiberOK(g)'
      BY <1>1, <1>2, <1>4, <2>2, LeaveFibers DEF Running
    <2> QED
      BY <2>1, <2>3
  <1>5. pc = "run" /\ pc' = "pick" /\ current' = None
    BY <1>1 DEF Running, Leave
  <1> QED
    BY <1>1, <1>2, <1>3, <1>4, <1>5, AwakeInv
-----------------------------------------------------------------------------
(* The operations on events that a fiber calls, and the callbacks of timers.  *)

\* Nothing that is registered, queued or set changes.
LEMMA QuietAlive ==
    ASSUME UNCHANGED <<tasks, cbs, timers, eventVars, state>>,
           \A g \in Fiber : Count(Unstarted(todo', g)) <= Count(Unstarted(todo, g)),
           \A g \in Fiber : FiberOK(g) /\ Waking(g)' = Waking(g)
    PROVE  \A g \in Fiber : FiberOK(g)'
  <1> SUFFICES ASSUME NEW g \in Fiber PROVE FiberOK(g)'
    OBVIOUS
  <1>1. Held(Wakers, g)' = Held(Wakers, g) /\ Held(Starters, g)' = Held(Starters, g)
    BY DEF Held, eventVars
  <1> QED
    BY <1>1, FiberKept

\* Events are triggered, all of them registered, and counted off.
LEMMA TriggerAlive ==
    ASSUME EventsOK, TasksOK, PendingOK, NEW fd \in Fd, NEW evs, evs \subseteq events[fd],
           TriggerEvents(fd, evs), pendingEventCnt' = pendingEventCnt - Cardinality(evs),
           UNCHANGED <<cbs, timers, state>>,
           \A g \in Fiber : Count(Unstarted(todo', g)) <= Count(Unstarted(todo, g)),
           \A g \in Fiber : FiberOK(g) /\ Waking(g)' = Waking(g)
    PROVE  PendingOK' /\ \A g \in Fiber : FiberOK(g)'
  <1>1. PendingOK'
    BY TriggerEventsOK
  <1>2. ASSUME NEW g \in Fiber PROVE FiberOK(g)'
    <2>1. Held(Wakers, g) <= 1 /\ Held(Starters, g) <= 1
      BY HeldOnce
    <2>2. Held(Wakers, g)' = Held(Wakers, g) /\ Held(Starters, g)' = Held(Starters, g)
      BY <2>1, TriggerEventsHeld
    <2> QED
      BY <2>2, FiberKept
  <1> QED
    BY <1>1, <1>2

\* Triggered events have no fiber, the others keep theirs.
LEMMA TriggerWaiters ==
    ASSUME EventsOK, NEW fd \in Fd, NEW evs, TriggerEvents(fd, evs)
    PROVE  \A x \in Fd, y \in Event, g \in Fiber : ctx'[x][y] = Resume(g) => ctx[x][y] = Resume(g)
  <1> SUFFICES ASSUME NEW x \in Fd, NEW y \in Event, NEW g \in Fiber, ctx'[x][y] = Resume(g)
               PROVE  ctx[x][y] = Resume(g)
    OBVIOUS
  <1>1. ctx'[x][y] = IF x = fd /\ y \in evs THEN None ELSE ctx[x][y]
    BY DEF TriggerEvents, EventsOK
  <1>2. Resume(g) # None
    BY NoneAssumption DEF Resume
  <1> QED
    BY <1>1, <1>2

\* close, and every other call that waits for nothing and begins no fiber.
LEMMA CloseWInv ==
    ASSUME IInv, WInv, NEW f \in Fiber, NEW call, todo[f] # <<>>, call = Head(todo[f]), Close(f, call)
    PROVE  WInv'
  <1> USE DEF WInv
  <1> DEFINE fd == call.fd
  <1>1. /\ Running(f) /\ Calls(f, {"close"})
        /\ UNCHANGED <<unusedVars, state, pc, current, timers, panic, wait>>
    BY DEF Close, InBody, stayVars, timerVars
  <1>2. fd \in Fd
    <2>1. call \in Call /\ call.op \in {"close"}
      BY <1>1, NextCall DEF IInv
    <2> QED
      BY <2>1, ProgramsAssumption
  <1>3. \/ /\ TriggerEvents(fd, events[fd])
           /\ pendingEventCnt' = pendingEventCnt - Cardinality(events[fd])
        \/ UNCHANGED <<tasks, eventVars>>
    BY DEF Close, CancelAll
  <1>4. TimerCbsOK' /\ StatesOK'
    BY <1>1 DEF TimerCbsOK, StatesOK
  <1>5. EventsOK' /\ tasks' \in Seq(Task)
    <2>1. CASE TriggerEvents(fd, events[fd])
      BY <1>2, <2>1, TriggerEventsOK
    <2>2. CASE UNCHANGED <<tasks, eventVars>>
      BY <2>2 DEF EventsOK, TasksOK, eventVars
    <2> QED
      BY <1>3, <2>1, <2>2
  <1>6. UnwatchOK'
    <2>1. \A g \in Fiber : InCall(g)' => InCall(g) /\ wait'[g].call = wait[g].call
      BY <1>1 DEF InCall
    <2> QED
      BY <1>1, <2>1, UnwatchCall DEF IInv
  <1>7. ASSUME ~panic' PROVE PendingOK' /\ WaitersOK' /\ \A g \in Fiber : FiberOK(g)'
    <2> USE DEF AliveOK
    <2>1. ~panic
      BY <1>1, <1>7
    <2>2. \A g \in Fiber : FiberOK(g) /\ Waking(g)' = Waking(g)
      BY <1>1, <2>1 DEF Waking
    <2>3. \A g \in Fiber : Count(Unstarted(todo', g)) <= Count(Unstarted(todo, g))
      <3>1. {"close"} \cap {"schedule", "watch"} = {}
        OBVIOUS
      <3> QED
        BY <1>1, <2>2, <3>1, StartsNone, HeldOnce DEF IInv
    <2>4. \A x \in Fd, y \in Event : ctx[x][y] # Resume(f)
      BY <1>1, <2>2, NotWaiting DEF Running
    <2>5. UNCHANGED <<cbs, timers, state>>
      BY <1>1 DEF unusedVars
    <2>6. CASE /\ TriggerEvents(fd, events[fd])
               /\ pendingEventCnt' = pendingEventCnt - Cardinality(events[fd])
      <3>1. PendingOK' /\ \A g \in Fiber : FiberOK(g)'
        BY <1>2, <2>1, <2>2, <2>3, <2>5, <2>6, TriggerAlive
      <3>2. WaitersOK'
        BY <1>1, <1>2, <2>1, <2>4, <2>6, TriggerWaiters, WaitersKept
      <3> QED
        BY <3>1, <3>2
    <2>7. CASE UNCHANGED <<tasks, eventVars>>
      <3>1. \A g \in Fiber : FiberOK(g)'
        BY <2>2, <2>3, <2>5, <2>7, QuietAlive
      <3>2. PendingOK' /\ WaitersOK'
        BY <1>1, <2>1, <2>7 DEF PendingOK, WaitersOK, eventVars
      <3> QED
        BY <3>1, <3>2
    <2> QED
      BY <1>3, <2>6, <2>7
  <1>8. pc = "run" /\ pc' = "run" /\ current' = current
    BY <1>1 DEF Running
  <1> QED
    BY <1>1, <1>4, <1>5, <1>6, <1>7, <1>8, AwakeInv

\* A call that starts h takes h from the calls to come.
LEMMA StartMoves ==
    ASSUME CallsOK, NEW a \in Fiber \cup Caller, NEW ops, Calls(a, ops), NEW h \in Fiber,
           Head(todo[a]).op \in {"schedule", "watch"}, Head(todo[a]).fiber = h,
           NEW g \in Fiber, FiberOK(g)
    PROVE  /\ Held(Starters, g) + Weight(Start(h), Starters, g) <= 1
           /\ Held(Wakers, g) + Weight(Start(h), Wakers, g) <= 1
           /\ (/\ state'[g] = state[g] /\ Waking(g)' = Waking(g)
               /\ Held(Starters, g)' = Held(Starters, g) + Weight(Start(h), Starters, g)
               /\ Held(Wakers, g)' = Held(Wakers, g) + Weight(Start(h), Wakers, g))
              => FiberOK(g)'
  <1> DEFINE n == Weight(Start(h), Starters, g)
             u == Count(Unstarted(todo, g))
             v == Count(Unstarted(todo', g))
  <1>1. n = (IF g = h THEN 1 ELSE 0) /\ Weight(Start(h), Wakers, g) = 0
    BY Weights
  <1>2. n + v = u
    <2>1. StartCall(Head(todo[a]), g) <=> g = h
      BY DEF StartCall
    <2>2. u <= 1
      BY HeldOnce
    <2>3. (IF StartCall(Head(todo[a]), g) THEN 1 ELSE 0) + v = u
      BY <2>2, CallStarts
    <2> QED
      BY <1>1, <2>1, <2>3
  <1>3. u \in Nat /\ v \in Nat /\ Held(Starters, g) \in Nat /\ Held(Wakers, g) \in Nat
    BY CountIs, HeldParts
  <1>4. Held(Starters, g) + u <= IF state[g] = "NONE" THEN 1 ELSE 0
    BY DEF FiberOK
  <1>5. Held(Wakers, g) <= 1 /\ Held(Starters, g) + u <= 1
    BY <1>3, <1>4, HeldOnce
  <1> HIDE DEF n, u, v
  <1>6. Held(Starters, g) + n <= 1
    <2>1. n \in Nat
      BY <1>1
    <2> QED
      BY <1>2, <1>3, <1>5, <2>1
  <1>7. ASSUME state'[g] = state[g], Waking(g)' = Waking(g), Held(Starters, g)' = Held(Starters, g) + n,
               Held(Wakers, g)' = Held(Wakers, g) + Weight(Start(h), Wakers, g)
        PROVE  FiberOK(g)'
    <2>1. Held(Wakers, g)' = Held(Wakers, g)
      BY <1>1, <1>3, <1>7
    <2>2. Held(Starters, g)' + v = Held(Starters, g) + u
      <3>1. n \in Nat
        BY <1>1
      <3> QED
        BY <1>2, <1>3, <1>7, <3>1
    <2> QED
      BY <1>4, <1>7, <2>1, <2>2 DEF FiberOK, u, v
  <1> QED
    BY <1>1, <1>3, <1>5, <1>6, <1>7 DEF n
\* delEvent.
LEMMA DelEventOK ==
    ASSUME EventsOK, NEW fd \in Fd, NEW e \in Event, DelEvent(fd, e)
    PROVE  /\ EventsOK' /\ (PendingOK => PendingOK')
           /\ \A x \in Fd, y \in Event, g \in Fiber : ctx'[x][y] = Resume(g) => ctx[x][y] = Resume(g)
  <1>1. CASE e \notin events[fd]
    BY <1>1 DEF DelEvent, EventsOK, PendingOK, eventVars
  <1>2. CASE e \in events[fd]
    <2>1. /\ events' = [events EXCEPT ![fd] = @ \ {e}] /\ ctx' = [ctx EXCEPT ![fd][e] = None]
          /\ pendingEventCnt' = pendingEventCnt - 1
      BY <1>2 DEF DelEvent
    <2>2. /\ events' \in [Fd -> SUBSET Event]
          /\ \A x \in Fd, y \in Event : y \in events'[x] <=> y \in events[x] /\ ~(x = fd /\ y = e)
      BY <2>1 DEF EventsOK
    <2>3. ctx' = [x \in Fd |-> [y \in Event |-> IF x = fd /\ y = e THEN None ELSE ctx[x][y]]]
      BY <2>1 DEF EventsOK
    <2>4. \A x \in Fd, y \in Event : ctx'[x][y] = IF x = fd /\ y = e THEN None ELSE ctx[x][y]
      BY <2>3
    <2>5. ctx' = [x \in Fd |-> [y \in Event |-> ctx'[x][y]]]
      BY <2>3
    <2>6. EventsOK'
      BY <2>2, <2>4, <2>5 DEF EventsOK
    <2>7. ASSUME PendingOK PROVE PendingOK'
      <3>1. {e} \subseteq events[fd] /\ Cardinality({e}) = 1
        BY <1>2, FS_Singleton
      <3>2. LET R == Registered([events EXCEPT ![fd] = @ \ {e}]) IN
            IsFiniteSet(R) /\ Cardinality(R) = pendingEventCnt - Cardinality({e})
        BY <2>7, <3>1, RegisteredRemove
      <3> QED
        BY <2>1, <3>1, <3>2 DEF PendingOK
    <2>8. \A g \in Fiber : Resume(g) # None
      BY NoneAssumption DEF Resume
    <2> QED
      BY <2>4, <2>6, <2>7, <2>8
  <1> QED
    BY <1>1, <1>2

\* addEvent with a callback: fiber h is no longer to come.
LEMMA WatchAlive ==
    ASSUME EventsOK, CallsOK, NEW a \in Fiber \cup Caller, NEW ops, Calls(a, ops), NEW h \in Fiber,
           Head(todo[a]).op = "watch", Head(todo[a]).fiber = h,
           NEW fd \in Fd, NEW e \in Event, e \notin events[fd], AddEvent(fd, e, Start(h)),
           UNCHANGED <<tasks, cbs, timers, state>>,
           \A g \in Fiber : FiberOK(g) /\ Waking(g)' = Waking(g)
    PROVE  \A g \in Fiber : FiberOK(g)'
  <1> SUFFICES ASSUME NEW g \in Fiber PROVE FiberOK(g)'
    OBVIOUS
  <1> DEFINE t == Start(h)
  <1>1. /\ Held(Starters, g) + Weight(t, Starters, g) <= 1
        /\ Held(Wakers, g) + Weight(t, Wakers, g) <= 1
    BY StartMoves
  <1>2. AddEvent(fd, e, t)
    OBVIOUS
  <1> HIDE DEF t
  <1>3. /\ Held(Starters, g)' = Held(Starters, g) + Weight(t, Starters, g)
        /\ Held(Wakers, g)' = Held(Wakers, g) + Weight(t, Wakers, g)
    BY <1>1, <1>2, HeldAddEvent
  <1> QED
    BY <1>3, StartMoves DEF t

\* scheduler(cb): fiber h is in the task list.
LEMMA ScheduleAlive ==
    ASSUME TasksOK, CallsOK, NEW a \in Fiber \cup Caller, NEW ops, Calls(a, ops), NEW h \in Fiber,
           Head(todo[a]).op = "schedule", Head(todo[a]).fiber = h,
           tasks' = tasks \o <<Start(h)>>, UNCHANGED <<cbs, timers, ctx, state>>,
           \A g \in Fiber : FiberOK(g) /\ Waking(g)' = Waking(g)
    PROVE  tasks' \in Seq(Task) /\ \A g \in Fiber : FiberOK(g)'
  <1> DEFINE t == Start(h)
  <1>1. t \in Task /\ tasks' = tasks \o <<t>> /\ tasks \in Seq(Task)
    BY DEF Task, Waiter, TasksOK
  <1>2. ASSUME NEW g \in Fiber
        PROVE  /\ Held(Starters, g) + Weight(t, Starters, g) <= 1
               /\ Held(Wakers, g) + Weight(t, Wakers, g) <= 1
    BY StartMoves
  <1> HIDE DEF t
  <1>3. tasks' \in Seq(Task)
    BY <1>1
  <1>4. ASSUME NEW g \in Fiber PROVE FiberOK(g)'
    <2>1. /\ Held(Starters, g)' = Held(Starters, g) + Weight(t, Starters, g)
          /\ Held(Wakers, g)' = Held(Wakers, g) + Weight(t, Wakers, g)
      BY <1>1, <1>2, HeldSchedule
    <2> QED
      BY <2>1, StartMoves DEF t
  <1> QED
    BY <1>3, <1>4

\* delEvent by a fiber that runs: no fiber waits for the event.
LEMMA UnwatchAlive ==
    ASSUME EventsOK, WaitersOK, UnwatchOK, CallsOK, NEW f \in Fiber, NEW ops, Calls(f, ops),
           Head(todo[f]).op = "unwatch", state[f] = "RUNNING",
           NEW fd \in Fd, NEW e \in Event, fd = Head(todo[f]).fd, e = Head(todo[f]).event,
           DelEvent(fd, e), UNCHANGED <<tasks, cbs, timers, state>>,
           \A g \in Fiber : Count(Unstarted(todo', g)) <= Count(Unstarted(todo, g)),
           \A g \in Fiber : FiberOK(g) /\ Waking(g)' = Waking(g)
    PROVE  \A g \in Fiber : FiberOK(g)'
  <1>1. CASE e \notin events[fd]
    <2>1. UNCHANGED eventVars
      BY <1>1 DEF DelEvent
    <2> QED
      BY <2>1, QuietAlive
  <1>2. CASE e \in events[fd]
    <2>1. ctx' = [ctx EXCEPT ![fd][e] = None]
      BY <1>2 DEF DelEvent
    <2>2. ASSUME NEW g \in Fiber PROVE ctx[fd][e] # Resume(g)
      <3> SUFFICES ASSUME ctx[fd][e] = Resume(g) PROVE FALSE
        OBVIOUS
      <3>1. wait[g].at = "wait" /\ wait[g].call.fd = fd /\ wait[g].call.event = e
        BY DEF WaitersOK
      <3>2. todo[f] \in Seq(Call) /\ todo[f] # <<>>
        BY DEF CallsOK, Calls
      <3>3. 1 \in DOMAIN todo[f] /\ todo[f][1] = Head(todo[f])
        BY <3>2
      <3>4. f = g
        BY <3>1, <3>3 DEF UnwatchOK, InCall
      <3> QED
        BY <3>4, NotWaiting
    <2>3. PICK h \in Fiber : ctx[fd][e] = Start(h)
      <3>1. ctx[fd][e] \in Waiter
        BY <1>2 DEF EventsOK
      <3>2. \A t \in Waiter : (\E g \in Fiber : t = Resume(g)) \/ (\E g \in Fiber : t = Start(g))
        BY DEF Waiter
      <3> QED
        BY <2>2, <3>1, <3>2
    <2>4. ASSUME NEW g \in Fiber PROVE FiberOK(g)'
      <3>1. Held(Wakers, g) <= 1 /\ Held(Starters, g) <= 1
        BY HeldOnce
      <3>2. /\ Held(Wakers, g)' + Weight(ctx[fd][e], Wakers, g) = Held(Wakers, g)
            /\ Held(Starters, g)' + Weight(ctx[fd][e], Starters, g) = Held(Starters, g)
        <4>0. EventsOK /\ UNCHANGED <<tasks, cbs, timers>>
          OBVIOUS
        <4>1. Held(Wakers, g)' + Weight(ctx[fd][e], Wakers, g) = Held(Wakers, g)
          BY ONLY <2>1, <3>1, <4>0, HeldDelEvent, fd \in Fd, e \in Event, Zenon
        <4>2. Held(Starters, g)' + Weight(ctx[fd][e], Starters, g) = Held(Starters, g)
          BY ONLY <2>1, <3>1, <4>0, HeldDelEvent, fd \in Fd, e \in Event, Zenon
        <4> QED
          BY <4>1, <4>2
      <3>3. Weight(ctx[fd][e], Wakers, g) = 0 /\ Weight(ctx[fd][e], Starters, g) \in 0 .. 1
        BY <2>3, Weights, WeightIs
      <3>4. /\ Held(Wakers, g)' \in Nat /\ Held(Starters, g)' \in Nat
            /\ Held(Wakers, g) \in Nat /\ Held(Starters, g) \in Nat
        <4>1. Count(InSeq(tasks', Wakers, g)) \in Nat /\ Count(InSeq(tasks', Starters, g)) \in Nat
          BY CountIs
        <4>2. Count(InSeq(cbs', Wakers, g)) \in Nat /\ Count(InSeq(cbs', Starters, g)) \in Nat
          BY CountIs
        <4>3. Count(InTimers(timers', Wakers, g)) \in Nat /\ Count(InTimers(timers', Starters, g)) \in Nat
          BY CountIs
        <4>4. Count(InCtx(ctx', Wakers, g)) \in Nat /\ Count(InCtx(ctx', Starters, g)) \in Nat
          BY CountIs
        <4> QED
          BY <4>1, <4>2, <4>3, <4>4, HeldParts DEF Held
      <3>5. Held(Wakers, g)' = Held(Wakers, g) /\ Held(Starters, g)' <= Held(Starters, g)
        BY <3>2, <3>3, <3>4
      <3>6. Count(Unstarted(todo, g)) \in Nat /\ Count(Unstarted(todo', g)) \in Nat
            /\ Count(Unstarted(todo', g)) <= Count(Unstarted(todo, g))
        BY CountIs
      <3>7. Held(Starters, g) + Count(Unstarted(todo, g)) <= IF state[g] = "NONE" THEN 1 ELSE 0
        BY DEF FiberOK
      <3>8. Held(Starters, g)' + Count(Unstarted(todo', g)) <= IF state[g] = "NONE" THEN 1 ELSE 0
        BY <3>4, <3>5, <3>6, <3>7
      <3> QED
        BY <3>5, <3>8 DEF FiberOK
    <2> QED
      BY <2>4
  <1> QED
    BY <1>1, <1>2
\* cancelEvent of any event.
LEMMA CancelEventOK ==
    ASSUME EventsOK, TasksOK, NEW fd \in Fd, NEW e \in Event, CancelEvent(fd, e)
    PROVE  /\ EventsOK' /\ tasks' \in Seq(Task)
           /\ \A x \in Fd, y \in Event, g \in Fiber : ctx'[x][y] = Resume(g) => ctx[x][y] = Resume(g)
  <1>1. CASE e \notin events[fd]
    BY <1>1 DEF CancelEvent, EventsOK, TasksOK, eventVars
  <1>2. CASE e \in events[fd]
    <2>1. TriggerEvents(fd, {e})
      BY <1>2 DEF CancelEvent
    <2> QED
      BY <2>1, TriggerEventsOK, TriggerWaiters
  <1> QED
    BY <1>1, <1>2

\* cancelEvent counts the event off and hands its waiter to the task list.
LEMMA CancelEventAlive ==
    ASSUME EventsOK, TasksOK, PendingOK, NEW fd \in Fd, NEW e \in Event, CancelEvent(fd, e),
           UNCHANGED <<cbs, timers, state>>,
           \A g \in Fiber : Count(Unstarted(todo', g)) <= Count(Unstarted(todo, g)),
           \A g \in Fiber : FiberOK(g) /\ Waking(g)' = Waking(g)
    PROVE  PendingOK' /\ \A g \in Fiber : FiberOK(g)'
  <1>1. CASE e \notin events[fd]
    <2>1. UNCHANGED <<tasks, eventVars>>
      BY <1>1 DEF CancelEvent
    <2>2. PendingOK'
      BY <2>1 DEF PendingOK, eventVars
    <2> QED
      BY <2>1, <2>2, QuietAlive
  <1>2. CASE e \in events[fd]
    <2>1. TriggerEvents(fd, {e}) /\ pendingEventCnt' = pendingEventCnt - 1
      BY <1>2 DEF CancelEvent
    <2>2. {e} \subseteq events[fd] /\ Cardinality({e}) = 1
      BY <1>2, FS_Singleton
    <2> DEFINE evs == {e}
    <2>3. /\ evs \subseteq events[fd] /\ TriggerEvents(fd, evs)
          /\ pendingEventCnt' = pendingEventCnt - Cardinality(evs)
      BY <2>1, <2>2
    <2> HIDE DEF evs
    <2> QED
      BY <2>3, TriggerAlive
  <1> QED
    BY <1>1, <1>2

\* The operations of the manager that a fiber calls itself.
LEMMA WatchWInv ==
    ASSUME IInv, WInv, NEW f \in Fiber, NEW call, todo[f] # <<>>, call = Head(todo[f]), Watch(f, call)
    PROVE  WInv'
  <1> USE DEF WInv
  <1> DEFINE fd == call.fd
             e == call.event
             h == call.fiber
             ops == {"watch", "unwatch", "trigger", "schedule"}
  <1>1. /\ Running(f) /\ Calls(f, ops)
        /\ UNCHANGED <<unusedVars, cbs, state, pc, current, timers, wait>>
    BY DEF Watch, InBody, stayVars, timerVars, hookVars, unusedVars
  <1>2. /\ call \in Call /\ call.op \in ops
        /\ call.op # "schedule" => fd \in Fd /\ e \in Event
        /\ call.op \in {"schedule", "watch"} => h \in Fiber
    <2>1. call \in Call /\ call.op \in ops
      BY <1>1, NextCall DEF IInv
    <2> QED
      BY <2>1, ProgramsAssumption DEF Event
  <1>3. TimerCbsOK' /\ StatesOK'
    BY <1>1 DEF TimerCbsOK, StatesOK
  <1>4. UnwatchOK'
    <2>1. \A g \in Fiber : InCall(g)' => InCall(g) /\ wait'[g].call = wait[g].call
      BY <1>1 DEF InCall
    <2> QED
      BY <1>1, <2>1, UnwatchCall DEF IInv
  <1>5. pc = "run" /\ pc' = "run" /\ current' = current /\ UNCHANGED unusedVars
    BY <1>1 DEF Running
  <1>6. ASSUME ~panic
        PROVE  /\ PendingOK /\ WaitersOK /\ \A g \in Fiber : FiberOK(g) /\ Waking(g)' = Waking(g)
               /\ \A x \in Fd, y \in Event : ctx[x][y] # Resume(f)
    <2>1. PendingOK /\ WaitersOK /\ \A g \in Fiber : FiberOK(g)
      BY <1>6 DEF AliveOK
    <2>2. \A g \in Fiber : Waking(g)' = Waking(g)
      BY <1>1 DEF Waking
    <2> QED
      BY <1>1, <2>1, <2>2, NotWaiting DEF Running
  <1>7. ASSUME ~panic, call.op \in {"unwatch", "trigger"}
        PROVE  \A g \in Fiber : Count(Unstarted(todo', g)) <= Count(Unstarted(todo, g))
    <2> DEFINE o == {call.op}
    <2>1. Calls(f, o)
      BY <1>1 DEF Calls
    <2>2. o \cap {"schedule", "watch"} = {}
      BY <1>7
    <2> HIDE DEF o
    <2> QED
      BY <1>6, <1>7, <2>1, <2>2, StartsNone, HeldOnce DEF IInv
  <1> HIDE DEF fd, e, h
  <1>8. CASE call.op = "watch"
    <2>1. AddEvent(fd, e, Start(h)) /\ UNCHANGED tasks
      BY <1>8 DEF Watch, fd, e, h
    <2>2. fd \in Fd /\ e \in Event /\ h \in Fiber /\ Start(h) \in Waiter
      BY <1>2, <1>8 DEF Waiter
    <2>3. EventsOK' /\ tasks' \in Seq(Task)
      BY <2>1, <2>2, AddEventOK DEF TasksOK
    <2>4. ASSUME ~panic' PROVE PendingOK' /\ WaitersOK' /\ \A g \in Fiber : FiberOK(g)'
      <3>1. ~panic /\ e \notin events[fd]
        BY <2>1, <2>2, <2>4, AddEventOK
      <3>2. PendingOK'
        BY <1>6, <2>1, <2>2, <2>4, <3>1, AddEventOK
      <3>3. WaitersOK'
        <4>1. ASSUME NEW x \in Fd, NEW y \in Event, NEW g \in Fiber, ctx'[x][y] = Resume(g)
              PROVE  ctx[x][y] = Resume(g)
          <5>1. ctx'[x][y] = IF x = fd /\ y = e THEN Start(h) ELSE ctx[x][y]
            BY <2>1, <2>2 DEF AddEvent, EventsOK
          <5> QED
            BY <4>1, <5>1, TaskKinds
        <4> QED
          BY <1>1, <1>6, <3>1, <4>1, WaitersKept
      <3>4. \A g \in Fiber : FiberOK(g)'
        <4>1. Head(todo[f]).op = "watch" /\ Head(todo[f]).fiber = h
          BY <1>8 DEF h
        <4>2. UNCHANGED <<tasks, cbs, timers, state>>
          BY <1>1, <2>1
        <4> QED
          BY <1>1, <1>6, <2>1, <2>2, <3>1, <4>1, <4>2, WatchAlive DEF IInv
      <3> QED
        BY <3>2, <3>3, <3>4
    <2> QED
      BY <1>3, <1>4, <1>5, <2>3, <2>4, AwakeInv
  <1>9. CASE call.op = "unwatch"
    <2>1. DelEvent(fd, e) /\ UNCHANGED <<tasks, panic>>
      BY <1>9 DEF Watch, fd, e
    <2>2. fd \in Fd /\ e \in Event
      BY <1>2, <1>9
    <2>3. EventsOK' /\ tasks' \in Seq(Task)
      BY <2>1, <2>2, DelEventOK DEF TasksOK
    <2>4. ASSUME ~panic' PROVE PendingOK' /\ WaitersOK' /\ \A g \in Fiber : FiberOK(g)'
      <3>1. ~panic
        BY <2>1, <2>4
      <3>2. PendingOK'
        BY <1>6, <2>1, <2>2, <3>1, DelEventOK
      <3>3. WaitersOK'
        BY <1>1, <1>6, <2>1, <2>2, <3>1, DelEventOK, WaitersKept
      <3>4. \A g \in Fiber : FiberOK(g)'
        <4>1. Head(todo[f]).op = "unwatch" /\ fd = Head(todo[f]).fd /\ e = Head(todo[f]).event
          BY <1>9 DEF fd, e
        <4>2. UNCHANGED <<tasks, cbs, timers, state>> /\ state[f] = "RUNNING"
          BY <1>1, <2>1 DEF Running
        <4>3. \A g \in Fiber : Count(Unstarted(todo', g)) <= Count(Unstarted(todo, g))
          BY <1>7, <1>9, <3>1
        <4> QED
          BY <1>1, <1>6, <2>1, <2>2, <3>1, <4>1, <4>2, <4>3, UnwatchAlive DEF IInv
      <3> QED
        BY <3>2, <3>3, <3>4
    <2> QED
      BY <1>3, <1>4, <1>5, <2>3, <2>4, AwakeInv
  <1>10. CASE call.op = "trigger"
    <2>1. CancelEvent(fd, e) /\ UNCHANGED panic
      BY <1>10 DEF Watch, fd, e
    <2>2. fd \in Fd /\ e \in Event
      BY <1>2, <1>10
    <2>3. EventsOK' /\ tasks' \in Seq(Task)
      BY <2>1, <2>2, CancelEventOK
    <2>4. ASSUME ~panic' PROVE PendingOK' /\ WaitersOK' /\ \A g \in Fiber : FiberOK(g)'
      <3>1. ~panic
        BY <2>1, <2>4
      <3>2. \A g \in Fiber : Count(Unstarted(todo', g)) <= Count(Unstarted(todo, g))
        BY <1>7, <1>10, <3>1
      <3>3. UNCHANGED <<cbs, timers, state>>
        BY <1>1
      <3>4. PendingOK' /\ \A g \in Fiber : FiberOK(g)'
        BY <1>6, <2>1, <2>2, <3>1, <3>2, <3>3, CancelEventAlive
      <3>5. WaitersOK'
        BY <1>1, <1>6, <2>1, <2>2, <3>1, CancelEventOK, WaitersKept
      <3> QED
        BY <3>4, <3>5
    <2> QED
      BY <1>3, <1>4, <1>5, <2>3, <2>4, AwakeInv
  <1>11. CASE call.op = "schedule"
    <2>1. tasks' = tasks \o <<Start(h)>> /\ UNCHANGED <<events, ctx, pendingEventCnt, panic>>
      BY <1>11 DEF Watch, Schedule, eventVars, h
    <2>2. h \in Fiber
      BY <1>2, <1>11
    <2>3. EventsOK'
      BY <2>1 DEF EventsOK
    <2>4. tasks' \in Seq(Task)
      <3> DEFINE t == Start(h)
      <3>1. t \in Task /\ tasks' = tasks \o <<t>> /\ tasks \in Seq(Task)
        BY <2>1, <2>2 DEF Task, Waiter, TasksOK
      <3> HIDE DEF t
      <3> QED
        BY <3>1
    <2>5. ASSUME ~panic' PROVE PendingOK' /\ WaitersOK' /\ \A g \in Fiber : FiberOK(g)'
      <3>1. ~panic
        BY <2>1, <2>5
      <3>2. PendingOK' /\ WaitersOK'
        BY <1>1, <1>6, <2>1, <3>1 DEF PendingOK, WaitersOK
      <3>3. \A g \in Fiber : FiberOK(g)'
        <4>1. Head(todo[f]).op = "schedule" /\ Head(todo[f]).fiber = h
          BY <1>11 DEF h
        <4>2. UNCHANGED <<cbs, timers, ctx, state>>
          BY <1>1, <2>1
        <4> QED
          BY <1>1, <1>6, <2>1, <2>2, <3>1, <4>1, <4>2, ScheduleAlive DEF IInv
      <3> QED
        BY <3>2, <3>3
    <2> QED
      BY <1>3, <1>4, <1>5, <2>3, <2>4, <2>5, AwakeInv
  <1> QED
    BY <1>2, <1>8, <1>9, <1>10, <1>11
\* The callback of a sleep schedules its fiber, that of a call cancels its event.
LEMMA CallbackWInv ==
    ASSUME IInv, WInv, RunCallback
    PROVE  WInv'
  <1> USE DEF WInv
  <1>1. /\ pc = "run" /\ pc' = "pick" /\ current # None /\ current' = None
        /\ UNCHANGED <<unusedVars, cbs, state, timers, todo, panic>>
    BY DEF RunCallback, unusedVars, timerVars
  <1>2. RunWake \/ RunTimeout \/ RunTick
    BY DEF RunCallback
  <1>3. current.do \in {"wake", "timeout", "tick"}
    BY <1>2 DEF RunWake, RunTimeout, RunTick
  <1>4. current \in Callback
    BY <1>1, <1>3, TaskKinds DEF TasksOK, Task
  <1>5. current.do \in {"wake", "timeout"} => current.fiber \in Fiber
    BY <1>4, TaskKinds
  <1>6. StatesOK' /\ TimerCbsOK'
    <2>1. \A g : current # Resume(g) /\ current # Start(g)
      BY <1>3 DEF Resume, Start
    <2> QED
      BY <1>1, <2>1 DEF StatesOK, TimerCbsOK
  <1>7. \A g : Waking(g) = (IF current.do = "wake" /\ current.fiber = g THEN 1 ELSE 0) /\ Waking(g)' = 0
    BY <1>1 DEF Waking, Holds
  <1>8. \A g \in Fiber : Count(Unstarted(todo', g)) <= Count(Unstarted(todo, g))
    <2>1. \A g : Count(Unstarted(todo, g)) \in 0 .. 2
      BY CountIs
    <2> QED
      BY <1>1, <2>1
  <1>9. ASSUME ~panic'
        PROVE  ~panic /\ PendingOK /\ WaitersOK /\ \A g \in Fiber : FiberOK(g)
    BY <1>1, <1>9 DEF AliveOK
  <1>10. CASE RunWake
    <2> DEFINE h == current.fiber
               t == Resume(h)
    <2>1. /\ tasks' = tasks \o <<t>> /\ h \in Fiber /\ current.do = "wake"
          /\ UNCHANGED <<events, ctx, pendingEventCnt, wait>>
      BY <1>5, <1>10 DEF RunWake, Schedule, eventVars
    <2>2. t \in Task /\ tasks \in Seq(Task)
      BY <2>1 DEF Task, Waiter, TasksOK
    <2>3. \A g \in Fiber : /\ Weight(t, Wakers, g) = Waking(g) /\ Weight(t, Starters, g) = 0
                           /\ Waking(g) \in 0 .. 1
      BY <1>7, <2>1, Weights
    <2> HIDE DEF h, t
    <2>4. tasks' \in Seq(Task)
      BY <2>1, <2>2
    <2>5. EventsOK' /\ UnwatchOK'
      BY <1>1, <2>1 DEF EventsOK, UnwatchOK, InCall
    <2>6. ASSUME ~panic' PROVE PendingOK' /\ WaitersOK' /\ \A g \in Fiber : FiberOK(g)'
      <3>1. PendingOK' /\ WaitersOK'
        BY <1>9, <2>1, <2>6 DEF PendingOK, WaitersOK
      <3>2. ASSUME NEW g \in Fiber PROVE FiberOK(g)'
        <4>1. FiberOK(g)
          BY <1>9, <2>6
        <4>2. Held(Wakers, g) \in Nat /\ Held(Starters, g) \in Nat
          BY HeldParts
        <4>3. Held(Wakers, g) + Waking(g) <= 1
          BY <4>1 DEF FiberOK
        <4>4. /\ Held(Wakers, g) + Weight(t, Wakers, g) <= 1
              /\ Held(Starters, g) + Weight(t, Starters, g) <= 1
          BY <2>3, <4>1, <4>2, <4>3, HeldOnce
        <4>5. /\ Held(Wakers, g)' = Held(Wakers, g) + Weight(t, Wakers, g)
              /\ Held(Starters, g)' = Held(Starters, g) + Weight(t, Starters, g)
          BY <1>1, <2>1, <2>2, <4>4, HeldSchedule
        <4>6. /\ Held(Wakers, g)' + Waking(g)' = Held(Wakers, g) + Waking(g)
              /\ Held(Starters, g)' = Held(Starters, g)
          BY <1>7, <2>3, <4>2, <4>5
        <4> QED
          BY <1>1, <4>1, <4>6 DEF FiberOK
      <3> QED
        BY <3>1, <3>2
    <2> QED
      BY <1>1, <1>6, <2>4, <2>5, <2>6, AwakeInv
  <1>11. CASE RunTimeout \/ RunTick
    <2>1. \A g : Waking(g)' = Waking(g)
      BY <1>7, <1>11 DEF RunTimeout, RunTick
    <2> DEFINE f == current.fiber
               w == wait[f]
               given == w.at = "wait" /\ w.call = current.call /\ ~w.cancelled
    <2>2. CASE RunTick \/ ~given
      <3>1. UNCHANGED <<tasks, eventVars, wait>>
        BY <1>11, <2>2 DEF RunTimeout, RunTick
      <3>2. EventsOK' /\ UnwatchOK' /\ tasks' \in Seq(Task)
        BY <1>1, <3>1 DEF EventsOK, UnwatchOK, InCall, TasksOK, eventVars
      <3>3. ASSUME ~panic' PROVE PendingOK' /\ WaitersOK' /\ \A g \in Fiber : FiberOK(g)'
        <4>1. PendingOK' /\ WaitersOK'
          BY <1>9, <3>1, <3>3 DEF PendingOK, WaitersOK, eventVars
        <4>2. \A g \in Fiber : FiberOK(g)'
          BY <1>1, <1>8, <1>9, <2>1, <3>1, <3>3, QuietAlive
        <4> QED
          BY <4>1, <4>2
      <3> QED
        BY <1>1, <1>6, <3>2, <3>3, AwakeInv
    <2>3. CASE RunTimeout /\ given
      <3>1. /\ f \in Fiber /\ w.at = "wait" /\ wait' = [wait EXCEPT ![f].cancelled = TRUE]
            /\ CancelEvent(w.call.fd, w.call.event)
        BY <1>5, <2>3 DEF RunTimeout
      <3>2. WaitOK(w)
        BY <3>1 DEF IInv, WaitsOK
      <3>3. w.call.fd \in Fd /\ w.call.event \in Event
        BY <3>1, <3>2, ProgramsAssumption DEF WaitOK, Event
      <3>4. \A g \in Fiber : wait'[g].at = wait[g].at /\ wait'[g].call = wait[g].call
        <4>1. wait'[f] = [w EXCEPT !.cancelled = TRUE] /\ \A g \in Fiber \ {f} : wait'[g] = wait[g]
          BY <3>1 DEF IInv, WaitsOK
        <4>2. [w EXCEPT !.cancelled = TRUE].at = w.at /\ [w EXCEPT !.cancelled = TRUE].call = w.call
          BY <3>1, <3>2 DEF WaitOK
        <4> HIDE DEF f
        <4> QED
          BY <4>1, <4>2
      <3>5. EventsOK' /\ tasks' \in Seq(Task)
            /\ \A x \in Fd, y \in Event, g \in Fiber : ctx'[x][y] = Resume(g) => ctx[x][y] = Resume(g)
        BY <3>1, <3>3, CancelEventOK
      <3>6. UnwatchOK'
        <4>1. \A g \in Fiber : InCall(g)' => InCall(g) /\ wait'[g].call = wait[g].call
          BY <3>4 DEF InCall
        <4> QED
          BY <1>1, <4>1, UnwatchKept
      <3>7. ASSUME ~panic' PROVE PendingOK' /\ WaitersOK' /\ \A g \in Fiber : FiberOK(g)'
        <4>1. UNCHANGED <<cbs, timers, state>>
          BY <1>1
        <4>2. PendingOK' /\ \A g \in Fiber : FiberOK(g)'
          BY <1>8, <1>9, <2>1, <3>1, <3>3, <3>7, <4>1, CancelEventAlive
        <4>3. WaitersOK'
          BY <1>9, <3>4, <3>5, <3>7 DEF WaitersOK, InCall
        <4> QED
          BY <4>2, <4>3
      <3> HIDE DEF f, w
      <3> QED
        BY <1>1, <1>6, <3>5, <3>6, <3>7, AwakeInv
    <2> QED
      BY <1>11, <2>2, <2>3
  <1> QED
    BY <1>2, <1>10, <1>11
-----------------------------------------------------------------------------
(* The worker between the fibers.  *)

\* A step of the worker that changes neither tasks nor timers nor events.
LEMMA StillInv ==
    ASSUME WInv, pc # "run", pc' # "run", cbs # <<>> => pc' = "handle",
           UNCHANGED <<tasks, cbs, timers, eventVars, state, current, todo, wait, panic>>,
           ReadyOK', EndOK',
           ~panic /\ idleTerm' => pendingEventCnt = 0 /\ \A f \in Fiber : state[f] \in {"NONE", "TERM"}
    PROVE  WInv'
  <1> USE DEF WInv
  <1>1. TasksOK' /\ TimerCbsOK' /\ EventsOK' /\ StatesOK' /\ UnwatchOK'
    BY DEF TasksOK, TimerCbsOK, EventsOK, StatesOK, UnwatchOK, InCall, eventVars
  <1>2. ASSUME ~panic PROVE AliveOK'
    <2> USE <1>2 DEF AliveOK
    <2>1. PendingOK' /\ WaitersOK'
      BY DEF PendingOK, WaitersOK, eventVars
    <2>2. \A g \in Fiber : FiberOK(g) /\ Waking(g)' = Waking(g)
      BY DEF Waking
    <2>3. \A g \in Fiber : Count(Unstarted(todo', g)) <= Count(Unstarted(todo, g))
      <3>1. \A g : Count(Unstarted(todo, g)) \in 0 .. 2
        BY CountIs
      <3> QED
        BY <3>1
    <2>4. \A g \in Fiber : FiberOK(g)'
      BY <2>2, <2>3, QuietAlive
    <2>5. idleTerm' => pendingEventCnt' = 0 /\ \A f \in Fiber : state'[f] \in {"NONE", "TERM"}
      BY DEF eventVars
    <2> QED
      BY <2>1, <2>4, <2>5
  <1> QED
    BY <1>1, <1>2

\* Where idle() finds nothing to wait for, no fiber is suspended.
LEMMA NothingLeft ==
    ASSUME WInv, ~panic, pc = "stopping", Stopping
    PROVE  pendingEventCnt = 0 /\ \A f \in Fiber : state[f] \in {"NONE", "TERM"}
  <1> USE DEF WInv, AliveOK
  <1>1. pendingEventCnt = 0 /\ tasks = <<>> /\ cbs = <<>> /\ \A t \in timers : t.cb.do = "tick"
    BY DEF Stopping, EndOK, TasksOK
  <1>2. \A fd \in Fd, e \in Event : ctx[fd][e] = None
    <2>1. Registered(events) = {}
      BY <1>1, FS_EmptySet DEF PendingOK
    <2>2. \A fd \in Fd, e \in Event : e \notin events[fd]
      <3> TAKE fd \in Fd, e \in Event
      <3>1. <<fd, e>> \notin Registered(events)
        BY <2>1
      <3> QED
        BY <3>1 DEF Registered
    <2> QED
      BY <2>2 DEF EventsOK
  <1>3. ASSUME NEW f \in Fiber PROVE state[f] \in {"NONE", "TERM"}
    <2>1. /\ InSeq(tasks, Wakers, f) = {} /\ InSeq(cbs, Wakers, f) = {}
          /\ InTimers(timers, Wakers, f) = {} /\ InCtx(ctx, Wakers, f) = {}
      BY <1>1, <1>2 DEF InSeq, InTimers, InCtx, Holds, Wakers
    <2>2. Held(Wakers, f) = 0 /\ Waking(f) = 0
      BY <2>1 DEF Held, Count, Waking
    <2>3. state[f] # "READY"
      BY <2>2 DEF FiberOK
    <2> QED
      BY <2>3 DEF StatesOK
  <1> QED
    BY <1>1, <1>3

\* The worker's way to epoll_wait and back, and its end.
LEMMA IdleWInv ==
    ASSUME IInv, WInv, UNCHANGED hookVars,
           \/ BeginRun \/ FindNone \/ BecomeIdle \/ AskNextTimer \/ EndIdle \/ EnterWait \/ LeaveWait
           \/ Drain \/ YieldIdle
    PROVE  WInv'
  <1> USE DEF WInv
  <1>1. /\ pc # "run" /\ pc' # "run" /\ (cbs # <<>> => pc' = "handle")
        /\ UNCHANGED <<isStopped, tasks, cbs, timers, eventVars, state, current, todo, wait, panic>>
    BY DEF BeginRun, FindNone, BecomeIdle, AskNextTimer, EndIdle, EnterWait, LeaveWait, Drain,
           YieldIdle, hookVars, schedulerVars, timerVars, TasksOK
  <1>2. ReadyOK'
    <2>1. CASE LeaveWait
      <3>1. \A fd \in (DOMAIN ready' \ {Pipe}) \cap Fd : ready'[fd] \subseteq events[fd]
        BY <2>1 DEF LeaveWait
      <3> QED
        BY <1>1, <3>1 DEF ReadyOK, eventVars
    <2>2. CASE Drain
      <3>1. DOMAIN ready' \subseteq DOMAIN ready /\ \A fd \in DOMAIN ready' : ready'[fd] = ready[fd]
        BY <2>2 DEF Drain
      <3>2. pc = "handle"
        BY <2>2 DEF Drain
      <3> QED
        BY <1>1, <3>1, <3>2 DEF ReadyOK, eventVars
    <2>3. CASE pc' \notin {"expire", "handle"}
      BY <2>3 DEF ReadyOK
    <2> QED
      BY <2>1, <2>2, <2>3 DEF BeginRun, FindNone, BecomeIdle, AskNextTimer, EndIdle, EnterWait, YieldIdle
  <1>3. EndOK'
    <2>1. CASE AskNextTimer
      <3>1. waitFor' = Forever => timers = {}
        BY <2>1, NextTimerOK DEF AskNextTimer, IInv
      <3> QED
        BY <1>1, <2>1, <3>1 DEF AskNextTimer, EndOK
    <2>2. CASE ~AskNextTimer
      BY <1>1, <2>2 DEF BeginRun, FindNone, BecomeIdle, EndIdle, EnterWait, LeaveWait, Drain,
         YieldIdle, EndOK, Stopping
    <2> QED
      BY <2>1, <2>2
  <1>4. ASSUME ~panic, idleTerm'
        PROVE  pendingEventCnt = 0 /\ \A f \in Fiber : state[f] \in {"NONE", "TERM"}
    <2>1. CASE idleTerm
      BY <1>4, <2>1 DEF AliveOK
    <2>2. CASE EndIdle
      BY <1>4, <2>2, NothingLeft DEF EndIdle
    <2> QED
      BY <1>4, <2>1, <2>2 DEF BeginRun, FindNone, BecomeIdle, AskNextTimer, EnterWait, LeaveWait,
         Drain, YieldIdle
  <1> QED
    BY <1>1, <1>2, <1>3, <1>4, StillInv

\* run() takes a task.
LEMMA TakeHeld ==
    ASSUME WInv, Take, NEW ks, NEW f, Held(ks, f) <= 1
    PROVE  Held(ks, f)' + Weight(Head(tasks), ks, f) = Held(ks, f)
  <1>1. tasks' = Tail(tasks) /\ tasks # <<>> /\ tasks \in Seq(Task) /\ UNCHANGED <<cbs, timers, ctx>>
    BY DEF Take, WInv, TasksOK, timerVars, eventVars
  <1>2. Count(InSeq(tasks, ks, f)) <= 1
    BY HeldParts DEF Held
  <1>3. Count(InSeq(tasks, ks, f)) = Weight(Head(tasks), ks, f) + Count(InSeq(tasks', ks, f))
    BY <1>1, <1>2, CountTail
  <1>4. Count(InSeq(tasks', ks, f)) \in 0 .. 2
    BY CountIs
  <1> QED
    BY <1>1, <1>3, <1>4, HeldParts, WeightIs DEF Held

\* A fiber that run() takes is suspended, and a callback has not begun.
LEMMA TakeReady ==
    ASSUME WInv, ~panic, Take, NEW f \in Fiber
    PROVE  /\ Head(tasks) = Resume(f) => state[f] = "READY"
           /\ Head(tasks) = Start(f) => state[f] = "NONE"
  <1> USE DEF WInv, AliveOK
  <1>1. FiberOK(f) /\ Held(Wakers, f) <= 1 /\ Held(Starters, f) <= 1
    BY HeldOnce
  <1>2. /\ Held(Wakers, f)' + Weight(Head(tasks), Wakers, f) = Held(Wakers, f)
        /\ Held(Starters, f)' + Weight(Head(tasks), Starters, f) = Held(Starters, f)
    BY <1>1, TakeHeld
  <1>3. Held(Wakers, f)' \in Nat /\ Held(Starters, f)' \in Nat
    BY CountIs DEF Held
  <1>4. Waking(f) = 0
    BY DEF Take, Waking
  <1>5. ASSUME Head(tasks) = Resume(f) PROVE state[f] = "READY"
    <2>1. Weight(Head(tasks), Wakers, f) = 1
      BY <1>5, Weights
    <2> QED
      BY <1>1, <1>2, <1>3, <1>4, <2>1 DEF FiberOK
  <1>6. ASSUME Head(tasks) = Start(f) PROVE state[f] = "NONE"
    <2>1. Weight(Head(tasks), Starters, f) = 1
      BY <1>6, Weights
    <2>2. Held(Starters, f) # 0
      BY <1>2, <1>3, <2>1
    <2> QED
      BY <1>1, <2>2, HeldOnce
  <1> QED
    BY <1>5, <1>6

\* run() takes the first task: what held its fiber is the fiber's run now.
LEMMA TakeWInv ==
    ASSUME WInv, Take, UNCHANGED hookVars
    PROVE  WInv' /\ (~panic => ~panic')
  <1> USE DEF WInv
  <1> DEFINE t == Head(tasks)
  <1>1. /\ pc = "pick" /\ pc' = "run" /\ tasks # <<>> /\ tasks' = Tail(tasks) /\ current' = t
        /\ UNCHANGED <<unusedVars, timers, eventVars, todo, wait>>
    BY DEF Take, unusedVars, timerVars, hookVars
  <1>2. t \in Task /\ tasks' \in Seq(Task) /\ cbs = <<>>
    BY <1>1 DEF TasksOK
  <1>3. state' = IF t.do \in {"resume", "start"} THEN [state EXCEPT ![t.fiber] = "RUNNING"] ELSE state
    BY DEF Take
  <1>4. panic' = (panic \/ (t.do = "resume" /\ state[t.fiber] # "READY"))
    BY DEF Take
  <1> HIDE DEF t
  <1>5. t.do \in {"resume", "start"} => \E h \in Fiber : t \in {Resume(h), Start(h)} /\ t.fiber = h
    BY <1>2, TaskKinds DEF Task, Waiter, Resume, Start
  <1>6. \A h \in Fiber : /\ t = Resume(h) => t.do = "resume" /\ t.fiber = h
                         /\ t = Start(h) => t.do = "start" /\ t.fiber = h
    BY DEF Resume, Start
  <1>7. TasksOK' /\ TimerCbsOK' /\ EventsOK' /\ ReadyOK' /\ UnwatchOK' /\ EndOK' /\ ~idleTerm
    BY <1>1, <1>2 DEF TasksOK, TimerCbsOK, EventsOK, ReadyOK, UnwatchOK, EndOK, InCall, unusedVars,
                      eventVars
  <1>8. StatesOK'
    <2>1. \A f \in Fiber : state[f] # "RUNNING"
      BY <1>1 DEF StatesOK
    <2>2. CASE t.do \in {"resume", "start"}
      <3>1. PICK h \in Fiber : t \in {Resume(h), Start(h)} /\ state' = [state EXCEPT ![h] = "RUNNING"]
        BY <1>3, <1>5, <2>2
      <3>2. \A f \in Fiber : f # h => state'[f] # "RUNNING"
        BY <2>1, <3>1 DEF StatesOK
      <3> QED
        BY <1>1, <3>1, <3>2 DEF StatesOK
    <2>3. CASE t.do \notin {"resume", "start"}
      BY <1>1, <1>3, <2>1, <2>3 DEF StatesOK
    <2> QED
      BY <2>2, <2>3
  <1>9. ASSUME ~panic PROVE ~panic'
    <2>1. ASSUME t.do = "resume" PROVE state[t.fiber] = "READY"
      <3>1. PICK h \in Fiber : t \in {Resume(h), Start(h)} /\ t.fiber = h
        BY <1>5, <2>1
      <3>2. t = Resume(h)
        BY <1>6, <2>1, <3>1
      <3> QED
        BY <1>9, <3>1, <3>2, TakeReady DEF t
    <2> QED
      BY <1>4, <1>9, <2>1
  <1>10. ASSUME ~panic PROVE AliveOK'
    <2> USE <1>10 DEF AliveOK
    <2>1. PendingOK' /\ WaitersOK' /\ ~idleTerm'
      BY <1>1, <1>7 DEF PendingOK, WaitersOK, eventVars, unusedVars
    <2>2. ASSUME NEW g \in Fiber PROVE FiberOK(g)'
      <3> DEFINE n == Weight(t, Wakers, g)
                 m == Weight(t, Starters, g)
                 u == Count(Unstarted(todo, g))
      <3>1. FiberOK(g) /\ Held(Wakers, g) <= 1 /\ Held(Starters, g) <= 1
        BY HeldOnce
      <3>2. Held(Wakers, g)' + n = Held(Wakers, g) /\ Held(Starters, g)' + m = Held(Starters, g)
        BY <3>1, TakeHeld DEF t
      <3>3. Held(Wakers, g)' \in Nat /\ Held(Starters, g)' \in Nat /\ u \in Nat
            /\ n \in 0 .. 1 /\ m \in 0 .. 1
        BY CountIs, WeightIs DEF Held
      <3>4. Waking(g) = 0 /\ Waking(g)' = IF Holds(t, {"wake"}, g) THEN 1 ELSE 0
        BY <1>1 DEF Waking
      <3>5. Count(Unstarted(todo', g)) = u
        BY <1>1
      <3>6. /\ Held(Wakers, g) = IF state[g] = "READY" THEN 1 ELSE 0
            /\ Held(Starters, g) + u <= IF state[g] = "NONE" THEN 1 ELSE 0
        BY <3>1, <3>2, <3>3, <3>4 DEF FiberOK
      <3>7. ASSUME /\ Held(Wakers, g)' + Waking(g)' = IF state'[g] = "READY" THEN 1 ELSE 0
                   /\ Held(Starters, g)' + u <= IF state'[g] = "NONE" THEN 1 ELSE 0
            PROVE  FiberOK(g)'
        BY <3>5, <3>7 DEF FiberOK
      <3>8. CASE t = Resume(g)
        <4>1. n = 1 /\ m = 0 /\ state[g] = "READY"
          BY <3>8, Weights, TakeReady DEF t
        <4>2. Waking(g)' = 0 /\ state'[g] = "RUNNING"
          BY <1>3, <1>6, <3>4, <3>8 DEF Holds, StatesOK
        <4> HIDE DEF n, m, u
        <4> QED
          BY <3>2, <3>3, <3>6, <3>7, <4>1, <4>2
      <3>9. CASE t = Start(g)
        <4>1. n = 0 /\ m = 1 /\ state[g] = "NONE"
          BY <3>9, Weights, TakeReady DEF t
        <4>2. Waking(g)' = 0 /\ state'[g] = "RUNNING"
          BY <1>3, <1>6, <3>4, <3>9 DEF Holds, StatesOK
        <4> HIDE DEF n, m, u
        <4> QED
          BY <3>2, <3>3, <3>6, <3>7, <4>1, <4>2
      <3>10. CASE t \notin {Resume(g), Start(g)}
        <4>1. state'[g] = state[g]
          BY <1>3, <1>5, <3>10, TaskKinds DEF StatesOK
        <4>2. n = (IF Holds(t, {"wake"}, g) THEN 1 ELSE 0) /\ m = 0
          <5>1. ~(t.do \in {"resume", "start"} /\ t.fiber = g)
            BY <1>5, <3>10
          <5> QED
            BY <5>1 DEF Weight, Holds, Wakers, Starters
        <4>3. n = Waking(g)'
          BY <3>4, <4>2
        <4> HIDE DEF n, m, u
        <4> QED
          BY <3>2, <3>3, <3>6, <3>7, <4>1, <4>2, <4>3
      <3> QED
        BY <3>8, <3>9, <3>10
    <2> QED
      BY <2>1, <2>2
  <1>11. panic => panic'
    BY <1>4
  <1> QED
    BY <1>7, <1>8, <1>9, <1>10, <1>11

\* What listExpiredCb leaves is finite, and its callbacks are those of timers.
LEMMA ExpiredCbsOK ==
    ASSUME TimersOK(timers), TimerCbsOK, timers' = Expired(timers)
    PROVE  TimerCbsOK'
  <1> DEFINE D == {v \in Due(timers) : v.repeat}
             g == [t \in D |-> [t EXCEPT !.left = t.ms]]
             N == {[t EXCEPT !.left = t.ms] : t \in D}
  <1>1. D \subseteq timers /\ IsFiniteSet(D)
    BY FS_Subset DEF TimerCbsOK, Due
  <1>2. N = {g[t] : t \in D} /\ g \in [D -> N]
    OBVIOUS
  <1>3. \A t \in timers : [t EXCEPT !.left = t.ms].cb = t.cb /\ [t EXCEPT !.left = t.ms].repeat = t.repeat
    <2> TAKE t \in timers
    <2>1. t = [left |-> t.left, ms |-> t.ms, repeat |-> t.repeat, cb |-> t.cb]
      BY DEF TimersOK, TimerOK
    <2>2. [t EXCEPT !.left = t.ms] = [left |-> t.ms, ms |-> t.ms, repeat |-> t.repeat, cb |-> t.cb]
      BY <2>1
    <2> QED
      BY <2>2
  <1>4. \A t \in N : t.cb \in Callback /\ (t.repeat => t.cb.do = "tick")
    <2> TAKE t \in N
    <2>1. PICK v \in D : t = [v EXCEPT !.left = v.ms]
      OBVIOUS
    <2>2. t.cb = v.cb /\ t.repeat = v.repeat /\ v \in timers
      BY <1>1, <1>3, <2>1
    <2> QED
      BY <2>2 DEF TimerCbsOK
  <1>5. timers' = (timers \ Due(timers)) \cup N
    BY DEF Expired
  <1> HIDE DEF D, g, N
  <1>6. IsFiniteSet(N)
    BY <1>1, <1>2, FiniteTimes
  <1>7. IsFiniteSet(timers \ Due(timers))
    <2>1. timers \ Due(timers) \subseteq timers
      OBVIOUS
    <2> QED
      BY <2>1, FS_Subset DEF TimerCbsOK
  <1>8. IsFiniteSet(timers')
    BY <1>5, <1>6, <1>7, FS_Union
  <1> QED
    BY <1>4, <1>5, <1>8 DEF TimerCbsOK
\* listExpiredCb.
LEMMA ExpireWInv ==
    ASSUME IInv, WInv, ListExpired, UNCHANGED hookVars
    PROVE  WInv'
  <1> USE DEF WInv
  <1>1. /\ pc = "expire" /\ pc' = "handle" /\ cbs = <<>> /\ timers' = Expired(timers)
        /\ UNCHANGED <<isStopped, idleTerm, ready, tasks, current, state, eventVars, todo, wait, panic>>
    BY DEF ListExpired, schedulerVars, hookVars, TasksOK
  <1>2. PICK order \in SetToSeqs(Due(timers)) : cbs' = [i \in DOMAIN order |-> order[i].cb]
    BY DEF ListExpired
  <1>3. cbs' \in Seq(Callback)
    <2>1. Due(timers) \subseteq timers /\ IsFiniteSet(Due(timers))
      BY FS_Subset DEF TimerCbsOK, Due
    <2> DEFINE n == Cardinality(Due(timers))
    <2>2. order \in [1 .. n -> Due(timers)] /\ n \in Nat
      BY <2>1, EveryElement
    <2> HIDE DEF n
    <2>3. cbs' \in [1 .. n -> Callback]
      BY <1>2, <2>1, <2>2 DEF TimerCbsOK
    <2> QED
      BY <2>2, <2>3
  <1>4. /\ TasksOK' /\ TimerCbsOK' /\ EventsOK' /\ ReadyOK' /\ StatesOK' /\ UnwatchOK' /\ EndOK'
        /\ ~idleTerm
    BY <1>1, <1>3, ExpiredCbsOK DEF IInv, TasksOK, EventsOK, ReadyOK, StatesOK, UnwatchOK, EndOK,
                                    InCall, eventVars
  <1>5. ASSUME ~panic PROVE AliveOK'
    <2> USE <1>5 DEF AliveOK
    <2>1. PendingOK' /\ WaitersOK' /\ ~idleTerm'
      BY <1>1, <1>4 DEF PendingOK, WaitersOK, eventVars
    <2>2. ASSUME NEW g \in Fiber PROVE FiberOK(g)'
      <3>1. ASSUME NEW ks, "tick" \notin ks, Held(ks, g) <= 1
            PROVE  Held(ks, g)' = Held(ks, g)
        <4>1. Count(InTimers(timers, ks, g)) <= 1
          BY <3>1, HeldParts DEF Held
        <4>2. Count(InSeq([i \in DOMAIN order |-> order[i].cb], ks, g))
                + Count(InTimers(Expired(timers), ks, g)) = Count(InTimers(timers, ks, g))
          BY <3>1, <4>1, CountExpired DEF IInv, TimerCbsOK
        <4>3. Count(InSeq(cbs', ks, g)) + Count(InTimers(timers', ks, g)) = Count(InTimers(timers, ks, g))
          BY <1>1, <1>2, <4>2
        <4>4. Count(InSeq(cbs, ks, g)) = 0
          BY <1>1, CountSingle
        <4>5. Count(InSeq(cbs', ks, g)) \in Nat /\ Count(InTimers(timers', ks, g)) \in Nat
          BY CountIs
        <4>6. tasks' = tasks /\ ctx' = ctx
          BY <1>1 DEF eventVars
        <4> QED
          BY <4>3, <4>4, <4>5, <4>6, HeldParts DEF Held
      <3>2. "tick" \notin Wakers /\ "tick" \notin Starters
        BY DEF Wakers, Starters
      <3>3. Held(Wakers, g)' = Held(Wakers, g) /\ Held(Starters, g)' = Held(Starters, g)
        BY <3>1, <3>2, HeldOnce
      <3>4. Waking(g)' = Waking(g) /\ state'[g] = state[g]
        BY <1>1 DEF Waking
      <3>5. Count(Unstarted(todo', g)) <= Count(Unstarted(todo, g))
        <4>1. Count(Unstarted(todo, g)) \in 0 .. 2
          BY CountIs
        <4> QED
          BY <1>1, <4>1
      <3> QED
        BY <3>3, <3>4, <3>5, FiberKept
    <2> QED
      BY <2>1, <2>2
  <1> QED
    BY <1>1, <1>4, <1>5

\* idle() schedules a callback of a timer.
LEMMA ScheduleExpiredWInv ==
    ASSUME WInv, ScheduleExpired, UNCHANGED hookVars
    PROVE  WInv'
  <1> USE DEF WInv
  <1> DEFINE t == Head(cbs)
  <1>1. /\ pc = "handle" /\ cbs # <<>> /\ tasks' = tasks \o <<t>> /\ cbs' = Tail(cbs)
        /\ UNCHANGED <<pc, isStopped, idleTerm, ready, timers, current, state, eventVars, todo, wait,
                       panic>>
    BY DEF ScheduleExpired, Schedule, hookVars, timerVars
  <1>2. tasks \in Seq(Task) /\ cbs \in Seq(Callback)
    BY DEF TasksOK
  <1>3. t \in Callback /\ t \in Task /\ cbs' \in Seq(Callback)
    BY <1>1, <1>2 DEF Task
  <1> HIDE DEF t
  <1>4. tasks' \in Seq(Task)
    BY <1>1, <1>2, <1>3
  <1>5. /\ TasksOK' /\ TimerCbsOK' /\ EventsOK' /\ ReadyOK' /\ StatesOK' /\ UnwatchOK' /\ EndOK'
        /\ ~idleTerm
    BY <1>1, <1>3, <1>4 DEF TasksOK, TimerCbsOK, EventsOK, ReadyOK, StatesOK, UnwatchOK, EndOK,
                            InCall, eventVars
  <1>6. ASSUME ~panic PROVE AliveOK'
    <2> USE <1>6 DEF AliveOK
    <2>1. PendingOK' /\ WaitersOK' /\ ~idleTerm'
      BY <1>1, <1>5 DEF PendingOK, WaitersOK, eventVars
    <2>2. ASSUME NEW g \in Fiber PROVE FiberOK(g)'
      <3>1. ASSUME NEW ks, Held(ks, g) <= 1
            PROVE  Held(ks, g)' = Held(ks, g)
        <4>1. Count(InSeq(tasks, ks, g)) + Count(InSeq(cbs, ks, g)) <= 1
          BY <3>1, HeldParts DEF Held
        <4>2. Count(InSeq(cbs, ks, g)) <= 1
          BY <4>1, HeldParts
        <4>3. Count(InSeq(cbs, ks, g)) = Weight(t, ks, g) + Count(InSeq(cbs', ks, g))
          BY <1>1, <1>2, <4>2, CountTail DEF t
        <4>4. Count(InSeq(cbs', ks, g)) \in Nat
          BY CountIs
        <4> DEFINE u == <<t>>
        <4>5. u \in Seq(Task) /\ tasks' = tasks \o u
          BY <1>1, <1>3
        <4>6. Count(InSeq(u, ks, g)) = Weight(t, ks, g)
          BY CountSingle
        <4> HIDE DEF u
        <4>7. Count(InSeq(tasks, ks, g)) + Count(InSeq(u, ks, g)) <= 1
          BY <4>1, <4>3, <4>4, <4>6, HeldParts, WeightIs
        <4>8. Count(InSeq(tasks', ks, g)) = Count(InSeq(tasks, ks, g)) + Weight(t, ks, g)
          BY <1>2, <4>5, <4>6, <4>7, CountConcat
        <4>9. timers' = timers /\ ctx' = ctx
          BY <1>1 DEF eventVars
        <4> QED
          BY <4>3, <4>4, <4>8, <4>9, HeldParts, WeightIs DEF Held
      <3>2. Held(Wakers, g)' = Held(Wakers, g) /\ Held(Starters, g)' = Held(Starters, g)
        BY <3>1, HeldOnce
      <3>3. Waking(g)' = Waking(g) /\ state'[g] = state[g]
        BY <1>1 DEF Waking
      <3>4. Count(Unstarted(todo', g)) <= Count(Unstarted(todo, g))
        <4>1. Count(Unstarted(todo, g)) \in 0 .. 2
          BY CountIs
        <4> QED
          BY <1>1, <4>1
      <3> QED
        BY <3>2, <3>3, <3>4, FiberKept
    <2> QED
      BY <2>1, <2>2
  <1> QED
    BY <1>1, <1>5, <1>6

\* idle() handles the events of a socket.
LEMMA HandleWInv ==
    ASSUME WInv, NEW fd \in Fd, Handle(fd), UNCHANGED hookVars
    PROVE  WInv'
  <1> USE DEF WInv
  <1> DEFINE evs == ready[fd]
  <1>1. /\ pc = "handle" /\ cbs = <<>> /\ fd \in DOMAIN ready \ {Pipe}
        /\ TriggerEvents(fd, evs) /\ pendingEventCnt' = pendingEventCnt - Cardinality(evs)
        /\ ready' = [other \in DOMAIN ready \ {fd} |-> ready[other]]
        /\ UNCHANGED <<pc, isStopped, idleTerm, cbs, timers, current, state, todo, wait, panic>>
    BY DEF Handle, hookVars, timerVars
  <1>2. evs \subseteq events[fd]
    BY <1>1 DEF ReadyOK
  <1> HIDE DEF evs
  <1>3. EventsOK' /\ tasks' \in Seq(Task)
    BY <1>1, TriggerEventsOK
  <1>4. ReadyOK'
    <2>1. \A x \in Fd \ {fd} : events'[x] = events[x]
      BY <1>1 DEF TriggerEvents, EventsOK
    <2>2. \A x \in DOMAIN ready' : x \in DOMAIN ready \ {fd} /\ ready'[x] = ready[x]
      BY <1>1
    <2> QED
      BY <1>1, <2>1, <2>2 DEF ReadyOK
  <1>5. TasksOK' /\ TimerCbsOK' /\ StatesOK' /\ UnwatchOK' /\ EndOK' /\ ~idleTerm
    BY <1>1, <1>3 DEF TasksOK, TimerCbsOK, StatesOK, UnwatchOK, EndOK, InCall
  <1>6. ASSUME ~panic PROVE AliveOK'
    <2> USE <1>6 DEF AliveOK
    <2>1. \A g \in Fiber : FiberOK(g) /\ Waking(g)' = Waking(g)
      BY <1>1 DEF Waking
    <2>2. \A g \in Fiber : Count(Unstarted(todo', g)) <= Count(Unstarted(todo, g))
      <3>1. \A g : Count(Unstarted(todo, g)) \in 0 .. 2
        BY CountIs
      <3> QED
        BY <1>1, <3>1
    <2>3. UNCHANGED <<cbs, timers, state>>
      BY <1>1
    <2>4. PendingOK' /\ \A g \in Fiber : FiberOK(g)'
      BY <1>1, <1>2, <2>1, <2>2, <2>3, TriggerAlive
    <2>5. WaitersOK'
      BY <1>1, TriggerWaiters DEF WaitersOK
    <2> QED
      BY <1>1, <1>5, <2>4, <2>5
  <1> QED
    BY <1>1, <1>3, <1>4, <1>5, <1>6
-----------------------------------------------------------------------------
(* The other threads and the clock.  *)

\* A step outside the worker.
LEMMA OutsideInv ==
    ASSUME WInv, UNCHANGED <<workerVars, state, eventVars, wait, panic>>,
           tasks' \in Seq(Task), TimerCbsOK', UnwatchOK', EndOK', ~panic => \A g \in Fiber : FiberOK(g)'
    PROVE  WInv'
  <1> USE DEF WInv
  <1>1. TasksOK' /\ EventsOK' /\ ReadyOK' /\ StatesOK'
    BY DEF workerVars, eventVars, TasksOK, EventsOK, ReadyOK, StatesOK
  <1>2. ASSUME ~panic PROVE AliveOK'
    BY <1>2 DEF AliveOK, PendingOK, WaitersOK, workerVars, eventVars
  <1> QED
    BY <1>1, <1>2

\* The timers change, and what they wake and start does not.
LEMMA TimersAlive ==
    ASSUME UNCHANGED <<tasks, workerVars, eventVars, state>>,
           \A ks \in {Wakers, Starters}, g \in Fiber :
               Count(InTimers(timers, ks, g)) <= 1 =>
                   Count(InTimers(timers', ks, g)) = Count(InTimers(timers, ks, g)),
           \A g \in Fiber : Count(Unstarted(todo, g)) <= 1 =>
               Count(Unstarted(todo', g)) <= Count(Unstarted(todo, g)),
           \A g \in Fiber : FiberOK(g)
    PROVE  \A g \in Fiber : FiberOK(g)'
  <1> SUFFICES ASSUME NEW g \in Fiber PROVE FiberOK(g)'
    OBVIOUS
  <1>1. Held(Wakers, g) <= 1 /\ Held(Starters, g) <= 1 /\ Count(Unstarted(todo, g)) <= 1
    BY HeldOnce
  <1>2. ASSUME NEW ks \in {Wakers, Starters} PROVE Held(ks, g)' = Held(ks, g)
    <2>1. Held(ks, g) <= 1
      BY <1>1, <1>2
    <2>2. Count(InTimers(timers, ks, g)) <= 1
      BY <2>1, HeldParts DEF Held
    <2>3. Count(InTimers(timers', ks, g)) = Count(InTimers(timers, ks, g))
      BY <2>2
    <2> QED
      BY <2>3 DEF Held, workerVars, eventVars
  <1>3. Waking(g)' = Waking(g)
    BY DEF Waking, workerVars
  <1> QED
    BY <1>1, <1>2, <1>3, FiberKept

\* A timer whose callback leaves no trace gets other times.
LEMMA TickReset ==
    ASSUME TimerCbsOK, NEW t \in timers, t.cb.do = "tick",
           NEW u, u.cb = t.cb, timers' = (timers \ {t}) \cup {u}
    PROVE  /\ TimerCbsOK'
           /\ \A ks \in {Wakers, Starters}, g \in Fiber :
                InTimers(timers', ks, g) = InTimers(timers, ks, g)
  <1>1. IsFiniteSet(timers')
    <2>1. IsFiniteSet(timers \ {t})
      <3>1. timers \ {t} \subseteq timers
        OBVIOUS
      <3> QED
        BY <3>1, FS_Subset DEF TimerCbsOK
    <2> QED
      BY <2>1, FS_AddElement
  <1>2. TimerCbsOK'
    BY <1>1 DEF TimerCbsOK
  <1>3. ASSUME NEW ks \in {Wakers, Starters}, NEW g \in Fiber
        PROVE  InTimers(timers', ks, g) = InTimers(timers, ks, g)
    <2>1. "tick" \notin ks
      BY DEF Wakers, Starters
    <2> QED
      BY <2>1 DEF InTimers, Holds
  <1> QED
    BY <1>2, <1>3

\* refresh.
LEMMA TickRefreshed ==
    ASSUME TimersOK(timers), TimerCbsOK, NEW cb, cb.do = "tick", timers' = Refresh(timers, cb)
    PROVE  /\ TimerCbsOK'
           /\ \A ks \in {Wakers, Starters}, g \in Fiber :
                InTimers(timers', ks, g) = InTimers(timers, ks, g)
  <1> DEFINE s(t) == IF t.cb = cb THEN [t EXCEPT !.left = t.ms] ELSE t
             r == [t \in timers |-> s(t)]
  <1>1. ASSUME NEW t \in timers
        PROVE  s(t).cb = t.cb /\ s(t).repeat = t.repeat /\ (t.cb # cb => s(t) = t)
    <2>1. t = [left |-> t.left, ms |-> t.ms, repeat |-> t.repeat, cb |-> t.cb]
      BY DEF TimersOK, TimerOK
    <2>2. [t EXCEPT !.left = t.ms] = [left |-> t.ms, ms |-> t.ms, repeat |-> t.repeat, cb |-> t.cb]
      BY <2>1
    <2> QED
      BY <2>2
  <1>2. timers' = {s(t) : t \in timers}
    BY DEF Refresh
  <1>3. timers' = {r[t] : t \in timers} /\ r \in [timers -> timers']
    BY <1>2
  <1>4. IsFiniteSet(timers')
    <2> HIDE DEF r
    <2> QED
      BY <1>3, FiniteTimes DEF TimerCbsOK
  <1> HIDE DEF s, r
  <1>5. \A u \in timers' : u.cb \in Callback /\ (u.repeat => u.cb.do = "tick")
    <2> TAKE u \in timers'
    <2>1. PICK t \in timers : u = s(t)
      BY <1>2
    <2> QED
      BY <1>1, <2>1 DEF TimerCbsOK
  <1>6. ASSUME NEW ks \in {Wakers, Starters}, NEW g \in Fiber
        PROVE  InTimers(timers', ks, g) = InTimers(timers, ks, g)
    <2>1. "tick" \notin ks
      BY DEF Wakers, Starters
    <2>2. ASSUME NEW u \in InTimers(timers', ks, g) PROVE u \in InTimers(timers, ks, g)
      <3>1. PICK t \in timers : u = s(t)
        BY <1>2 DEF InTimers
      <3>2. t.cb # cb
        BY <1>1, <2>1, <2>2, <3>1 DEF InTimers, Holds
      <3> QED
        BY <1>1, <2>2, <3>1, <3>2 DEF InTimers
    <2>3. ASSUME NEW t \in InTimers(timers, ks, g) PROVE t \in InTimers(timers', ks, g)
      <3>1. t.cb # cb /\ t \in timers
        BY <2>1, <2>3 DEF InTimers, Holds
      <3>2. s(t) = t
        BY <1>1, <3>1
      <3> QED
        BY <1>2, <2>3, <3>1, <3>2 DEF InTimers
    <2> QED
      BY <2>2, <2>3
  <1> QED
    BY <1>4, <1>5, <1>6 DEF TimerCbsOK

\* A millisecond.
LEMMA ElapsedCbs ==
    ASSUME TimersOK(timers), TimerCbsOK, timers' = Elapse(timers)
    PROVE  /\ TimerCbsOK'
           /\ \A ks, g : Count(InTimers(timers, ks, g)) <= 1 =>
                Count(InTimers(timers', ks, g)) = Count(InTimers(timers, ks, g))
           /\ \A u \in timers' : \E t \in timers : u.cb = t.cb
  <1> DEFINE s(t) == [t EXCEPT !.left = IF @ = 0 THEN 0 ELSE @ - 1]
             r == [t \in timers |-> s(t)]
  <1>1. ASSUME NEW t \in timers
        PROVE  s(t).cb = t.cb /\ s(t).repeat = t.repeat
    <2> DEFINE l == IF t.left = 0 THEN 0 ELSE t.left - 1
    <2>1. t = [left |-> t.left, ms |-> t.ms, repeat |-> t.repeat, cb |-> t.cb]
      BY DEF TimersOK, TimerOK
    <2>2. [t EXCEPT !.left = l] = [left |-> l, ms |-> t.ms, repeat |-> t.repeat, cb |-> t.cb]
      BY <2>1
    <2> QED
      BY <2>2
  <1>2. timers' = {s(t) : t \in timers}
    BY DEF Elapse
  <1>3. timers' = {r[t] : t \in timers} /\ r \in [timers -> timers']
    BY <1>2
  <1>4. \A t \in timers : r[t].cb = t.cb
    BY <1>1
  <1> HIDE DEF r
  <1>5. IsFiniteSet(timers')
    BY <1>3, FiniteTimes DEF TimerCbsOK
  <1>6. \A ks, g : Count(InTimers(timers, ks, g)) <= 1 =>
          Count(InTimers(timers', ks, g)) = Count(InTimers(timers, ks, g))
    BY <1>3, <1>4, CountSameCallbacks
  <1> HIDE DEF s
  <1>7. \A u \in timers' : \E t \in timers : u.cb = t.cb /\ u.repeat = t.repeat
    BY <1>1, <1>2
  <1>8. TimerCbsOK'
    BY <1>5, <1>7 DEF TimerCbsOK
  <1> QED
    BY <1>6, <1>7, <1>8
\* scheduler, addTimer, reset, refresh, cancel, trickle and stop, called by a
\* thread outside the scheduler.
LEMMA ThreadWInv ==
    ASSUME IInv, WInv, NEW c \in Caller, CallerStep(c), UNCHANGED hookVars
    PROVE  WInv'
  <1> DEFINE call == Head(todo[c])
  <1>0. \/ CallerSchedule(c, call) \/ CallerAddTimer(c, call) \/ CallerResetTimer(c, call)
        \/ CallerRefreshTimer(c, call) \/ CallerCancelTimer(c, call)
        \/ CallerTrickle(c) \/ CallerStop(c) \/ CallerJoined(c)
    BY Zenon DEF CallerStep
  <1> USE DEF WInv
  <1>1. UNCHANGED <<workerVars, state, eventVars, wait, panic>> /\ (isStopped => isStopped')
    <2>1. UNCHANGED <<workerVars, state, eventVars, panic>>
      BY <1>0 DEF CallerSchedule, CallerAddTimer, CallerResetTimer, CallerRefreshTimer,
             CallerCancelTimer, CallerTrickle, CallerStop, CallerJoined
    <2>2. wait' = wait
      BY DEF hookVars
    <2>3. CASE CallerStop(c)
      BY <2>1, <2>2, <2>3 DEF CallerStop
    <2>4. CASE ~CallerStop(c)
      <3>1. isStopped' = isStopped
        BY <1>0, <2>4 DEF CallerSchedule, CallerAddTimer, CallerResetTimer, CallerRefreshTimer,
               CallerCancelTimer, CallerTrickle, CallerJoined, schedulerVars
      <3> QED
        BY <2>1, <2>2, <3>1, Zenon
    <2> QED
      BY <2>3, <2>4, Zenon
  <1>2. \A g \in Fiber : InCall(g)' => InCall(g) /\ wait'[g].call = wait[g].call
    BY <1>1 DEF InCall
  <1>3. ASSUME NEW ops, Calls(c, ops)
        PROVE  /\ UnwatchOK' /\ call \in Call /\ call.op \in ops
               /\ ops \cap {"schedule", "watch"} = {} =>
                    \A g \in Fiber : Count(Unstarted(todo, g)) <= 1 =>
                        Count(Unstarted(todo', g)) <= Count(Unstarted(todo, g))
    BY <1>2, <1>3, UnwatchCall, NextCall, StartsNone DEF IInv
  <1>4. ASSUME todo' = todo
        PROVE  /\ UnwatchOK'
               /\ \A g \in Fiber : Count(Unstarted(todo, g)) <= 1 =>
                    Count(Unstarted(todo', g)) <= Count(Unstarted(todo, g))
    <2>1. UnwatchOK'
      BY <1>2, <1>4, UnwatchKept
    <2>2. \A g : Count(Unstarted(todo, g)) \in 0 .. 2
      BY CountIs
    <2> QED
      BY <1>4, <2>1, <2>2
  <1>5. ASSUME ~panic PROVE \A g \in Fiber : FiberOK(g)
    BY <1>5 DEF AliveOK
  <1>6. ASSUME UNCHANGED tasks, \A u \in timers' : u.cb.do = "tick" \/ \E t \in timers : u.cb = t.cb
        PROVE  EndOK'
    BY <1>1, <1>6 DEF EndOK, workerVars
  <1>7. \A ks \in {Wakers, Starters}, g \in Fiber :
          InTimers(timers', ks, g) = InTimers(timers, ks, g) => 
            Count(InTimers(timers', ks, g)) = Count(InTimers(timers, ks, g))
    OBVIOUS
  \* A step after which the timers wake and start the same fibers.
  <1>8. ASSUME UNCHANGED tasks, TimerCbsOK', UnwatchOK',
               \A ks \in {Wakers, Starters}, g \in Fiber :
                 InTimers(timers', ks, g) = InTimers(timers, ks, g),
               \A u \in timers' : u.cb.do = "tick" \/ \E t \in timers : u.cb = t.cb,
               \A g \in Fiber : Count(Unstarted(todo, g)) <= 1 =>
                 Count(Unstarted(todo', g)) <= Count(Unstarted(todo, g))
        PROVE  WInv'
    <2>1. EndOK' /\ tasks' \in Seq(Task)
      BY <1>6, <1>8 DEF TasksOK
    <2>2. ~panic => \A g \in Fiber : FiberOK(g)'
      BY <1>1, <1>5, <1>7, <1>8, TimersAlive
    <2> QED
      BY <1>1, <1>8, <2>1, <2>2, OutsideInv
  <1>9. ASSUME UNCHANGED <<tasks, timers>>, UnwatchOK',
               \A g \in Fiber : Count(Unstarted(todo, g)) <= 1 =>
                 Count(Unstarted(todo', g)) <= Count(Unstarted(todo, g))
        PROVE  WInv'
    BY <1>8, <1>9 DEF TimerCbsOK
  <1> HIDE DEF call
  <1>10. CASE CallerSchedule(c, call)
    <2>1. /\ ~isStopped /\ Calls(c, {"schedule"}) /\ tasks' = Append(tasks, Start(call.fiber))
          /\ UNCHANGED <<timers, cbs, ctx, state, pc, current>>
      BY <1>1, <1>10 DEF CallerSchedule, Free, timerVars, workerVars, eventVars
    <2>2. UnwatchOK' /\ call \in Call /\ call.op \in {"schedule"}
      BY <1>3, <2>1 DEF call
    <2> DEFINE h == call.fiber
               t == Start(h)
    <2>3. h \in Fiber
      BY <2>2, ProgramsAssumption
    <2>4. t \in Task /\ tasks \in Seq(Task)
      BY <2>3 DEF Task, Waiter, TasksOK
    <2>5. tasks' = tasks \o <<t>> /\ tasks' \in Seq(Task)
      <3> HIDE DEF t
      <3>1. tasks' = Append(tasks, t)
        BY <2>1 DEF t
      <3> QED
        BY <2>4, <3>1
    <2>6. TimerCbsOK' /\ EndOK'
      BY <1>1, <2>1 DEF TimerCbsOK, EndOK, workerVars
    <2>7. ASSUME ~panic PROVE \A g \in Fiber : FiberOK(g)'
      <3>1. \A g \in Fiber : FiberOK(g) /\ Waking(g)' = Waking(g)
        BY <1>5, <2>1, <2>7 DEF Waking
      <3>2. Head(todo[c]).op = "schedule" /\ Head(todo[c]).fiber = h
        BY <2>2 DEF call
      <3>3. UNCHANGED <<cbs, timers, ctx, state>>
        BY <2>1
      <3> HIDE DEF h
      <3> QED
        BY <2>1, <2>3, <2>5, <3>1, <3>2, <3>3, ScheduleAlive DEF IInv
    <2> QED
      BY <1>1, <2>2, <2>5, <2>6, <2>7, OutsideInv
  <1>11. CASE CallerAddTimer(c, call)
    <2> DEFINE t == NewTimer(call.ms, call.repeat, call.cb)
    <2>1. Calls(c, {"timer"}) /\ timers' = timers \cup {t} /\ UNCHANGED tasks
      BY <1>11 DEF CallerAddTimer, InsertTimer, schedulerVars
    <2>2. UnwatchOK' /\ call \in Call /\ call.op \in {"timer"}
      BY <1>3, <2>1 DEF call
    <2>3. t.cb = call.cb /\ t.cb \in Callback /\ t.cb.do = "tick"
      BY <2>2, ProgramsAssumption DEF NewTimer, Callback
    <2> HIDE DEF t
    <2>4. /\ TimerCbsOK'
          /\ \A ks \in {Wakers, Starters}, g \in Fiber :
               InTimers(timers', ks, g) = InTimers(timers, ks, g)
      BY <2>1, <2>3, TimerSet
    <2>5. {"timer"} \cap {"schedule", "watch"} = {}
      OBVIOUS
    <2> QED
      BY <1>3, <1>8, <2>1, <2>2, <2>3, <2>4, <2>5
  <1>12. CASE CallerResetTimer(c, call)
    <2>1. Calls(c, {"reset"}) /\ UNCHANGED tasks
      BY <1>12 DEF CallerResetTimer, schedulerVars
    <2>2. UnwatchOK' /\ call \in Call /\ call.op \in {"reset"}
      BY <1>3, <2>1 DEF call
    <2>3. call.cb.do = "tick"
      BY <2>2, ProgramsAssumption
    <2>4. {"reset"} \cap {"schedule", "watch"} = {}
      OBVIOUS
    <2>5. CASE timers' = timers
      BY <1>3, <1>9, <2>1, <2>2, <2>4, <2>5
    <2>6. CASE timers' # timers
      <3>0. PICK t \in timers : \E left :
              /\ t.cb = call.cb
              /\ timers' = (timers \ {t}) \cup {[t EXCEPT !.left = left, !.ms = call.ms]}
        BY <1>12, <2>6 DEF CallerResetTimer, timerVars
      <3>1. PICK left :
              /\ t.cb = call.cb
              /\ timers' = (timers \ {t}) \cup {[t EXCEPT !.left = left, !.ms = call.ms]}
        BY <3>0
      <3> DEFINE u == [t EXCEPT !.left = left, !.ms = call.ms]
      <3>2. u.cb = t.cb /\ u.repeat = t.repeat
        <4>1. t = [left |-> t.left, ms |-> t.ms, repeat |-> t.repeat, cb |-> t.cb]
          BY DEF IInv, TimersOK, TimerOK
        <4> DEFINE v == [left |-> left, ms |-> t.ms, repeat |-> t.repeat, cb |-> t.cb]
        <4>2. [t EXCEPT !.left = left] = v
          BY <4>1
        <4>3. [v EXCEPT !.ms = call.ms] = [left |-> left, ms |-> call.ms, repeat |-> t.repeat, cb |-> t.cb]
          OBVIOUS
        <4>4. u = [[t EXCEPT !.left = left] EXCEPT !.ms = call.ms]
          OBVIOUS
        <4> HIDE DEF u, v
        <4>5. u = [left |-> left, ms |-> call.ms, repeat |-> t.repeat, cb |-> t.cb]
          BY <4>2, <4>3, <4>4
        <4> QED
          BY <4>5
      <3> HIDE DEF u
      <3>3. timers' = (timers \ {t}) \cup {u}
        BY <3>1 DEF u
      <3>4. /\ TimerCbsOK'
            /\ \A ks \in {Wakers, Starters}, g \in Fiber :
                 InTimers(timers', ks, g) = InTimers(timers, ks, g)
        BY <2>3, <3>1, <3>2, <3>3, TickReset
      <3>5. \A x \in timers' : \E y \in timers : x.cb = y.cb
        BY <3>2, <3>3
      <3> QED
        BY <1>3, <1>8, <2>1, <2>2, <2>4, <3>4, <3>5
    <2> QED
      BY <2>5, <2>6
  <1>13. CASE CallerRefreshTimer(c, call)
    <2>1. Calls(c, {"refresh"}) /\ timers' = Refresh(timers, call.cb) /\ UNCHANGED tasks
      BY <1>13 DEF CallerRefreshTimer, schedulerVars
    <2>2. UnwatchOK' /\ call \in Call /\ call.op \in {"refresh"}
      BY <1>3, <2>1 DEF call
    <2>3. call.cb.do = "tick"
      BY <2>2, ProgramsAssumption
    <2>4. {"refresh"} \cap {"schedule", "watch"} = {}
      OBVIOUS
    <2>5. /\ TimerCbsOK'
          /\ \A ks \in {Wakers, Starters}, g \in Fiber :
               InTimers(timers', ks, g) = InTimers(timers, ks, g)
      BY <2>1, <2>3, TickRefreshed DEF IInv
    <2>6. \A u \in timers' : u.cb.do = "tick" \/ \E t \in timers : u.cb = t.cb
      <3> TAKE u \in timers'
      <3>1. PICK t \in timers : u = IF t.cb = call.cb THEN [t EXCEPT !.left = t.ms] ELSE t
        BY <2>1 DEF Refresh
      <3>2. CASE t.cb = call.cb
        <4>1. t = [left |-> t.left, ms |-> t.ms, repeat |-> t.repeat, cb |-> t.cb]
          BY DEF IInv, TimersOK, TimerOK
        <4>2. [t EXCEPT !.left = t.ms] = [left |-> t.ms, ms |-> t.ms, repeat |-> t.repeat, cb |-> t.cb]
          BY <4>1
        <4> QED
          BY <3>1, <3>2, <4>2
      <3>3. CASE t.cb # call.cb
        BY <3>1, <3>3
      <3> QED
        BY <3>2, <3>3
    <2> QED
      BY <1>3, <1>8, <2>1, <2>2, <2>4, <2>5, <2>6
  <1>14. CASE CallerCancelTimer(c, call)
    <2>1. Calls(c, {"cancel"}) /\ timers' = Cancel(timers, call.cb) /\ UNCHANGED tasks
      BY <1>14 DEF CallerCancelTimer, schedulerVars
    <2>2. UnwatchOK' /\ call \in Call /\ call.op \in {"cancel"}
      BY <1>3, <2>1 DEF call
    <2>3. call.cb.do = "tick"
      BY <2>2, ProgramsAssumption
    <2>4. {"cancel"} \cap {"schedule", "watch"} = {}
      OBVIOUS
    <2>5. /\ TimerCbsOK'
          /\ \A ks \in {Wakers, Starters}, g \in Fiber :
               InTimers(timers', ks, g) = InTimers(timers, ks, g)
      BY <2>1, <2>3, TimerCancelled
    <2>6. timers' \subseteq timers
      BY <2>1 DEF Cancel
    <2> QED
      BY <1>3, <1>8, <2>1, <2>2, <2>4, <2>5, <2>6
  <1>15. CASE CallerTrickle(c) \/ CallerJoined(c)
    <2>1. UNCHANGED <<tasks, timers>> /\ todo' = todo
      BY <1>15 DEF CallerTrickle, CallerJoined, schedulerVars, timerVars
    <2> QED
      BY <1>4, <1>9, <2>1
  <1>16. CASE CallerStop(c)
    <2>1. Calls(c, {"stop"}) /\ UNCHANGED <<tasks, timers>>
      BY <1>16 DEF CallerStop
    <2>2. {"stop"} \cap {"schedule", "watch"} = {}
      OBVIOUS
    <2> QED
      BY <1>3, <1>9, <2>1, <2>2
  <1> QED
    BY <1>0, <1>10, <1>11, <1>12, <1>13, <1>14, <1>15, <1>16 DEF call
\* Time brings timers nearer and changes nothing else.
LEMMA ClockWInv ==
    ASSUME IInv, WInv, ClockStep
    PROVE  WInv'
  <1> USE DEF WInv
  <1>1. /\ timers' = Elapse(timers) /\ pc # "stopping"
        /\ UNCHANGED <<isStopped, tasks, state, pc, current, idleTerm, ready, cbs, eventVars, todo, wait,
                       panic>>
    BY DEF ClockStep, Elapses, schedulerVars, hookVars
  <1>2. /\ TimerCbsOK'
        /\ \A ks, g : Count(InTimers(timers, ks, g)) <= 1 =>
             Count(InTimers(timers', ks, g)) = Count(InTimers(timers, ks, g))
    BY <1>1, ElapsedCbs DEF IInv
  <1>3. TasksOK' /\ EventsOK' /\ ReadyOK' /\ StatesOK' /\ UnwatchOK' /\ EndOK'
    BY <1>1 DEF TasksOK, EventsOK, ReadyOK, StatesOK, UnwatchOK, EndOK, InCall, eventVars
  <1>4. ASSUME ~panic PROVE AliveOK'
    <2> USE <1>4 DEF AliveOK
    <2>1. PendingOK' /\ WaitersOK'
      BY <1>1 DEF PendingOK, WaitersOK, eventVars
    <2>2. ASSUME NEW g \in Fiber PROVE FiberOK(g)'
      <3>1. ASSUME NEW ks, Held(ks, g) <= 1 PROVE Held(ks, g)' = Held(ks, g)
        <4>1. Count(InTimers(timers, ks, g)) <= 1
          BY <3>1, HeldParts DEF Held
        <4>2. Count(InTimers(timers', ks, g)) = Count(InTimers(timers, ks, g))
          BY <1>2, <4>1
        <4> QED
          BY <1>1, <4>2 DEF Held, eventVars
      <3>2. Held(Wakers, g)' = Held(Wakers, g) /\ Held(Starters, g)' = Held(Starters, g)
        BY <3>1, HeldOnce
      <3>3. Waking(g)' = Waking(g) /\ state'[g] = state[g]
        BY <1>1 DEF Waking
      <3>4. Count(Unstarted(todo', g)) <= Count(Unstarted(todo, g))
        <4>1. Count(Unstarted(todo, g)) \in 0 .. 2
          BY CountIs
        <4> QED
          BY <1>1, <4>1
      <3> QED
        BY <3>2, <3>3, <3>4, FiberKept
    <2> QED
      BY <1>1, <2>1, <2>2 DEF eventVars
  <1> QED
    BY <1>1, <1>2, <1>3, <1>4

\* What arrives at a socket, and a step of nothing that is modelled.
LEMMA StutterWInv ==
    ASSUME WInv, UNCHANGED <<schedulerVars, state, workerVars, timerVars, eventVars, todo, wait, panic>>
    PROVE  WInv'
  <1> USE DEF WInv
  <1>1. tasks' \in Seq(Task) /\ TimerCbsOK' /\ UnwatchOK' /\ EndOK'
    BY DEF TasksOK, TimerCbsOK, UnwatchOK, EndOK, InCall, schedulerVars, workerVars, timerVars
  <1>2. ASSUME ~panic PROVE \A g \in Fiber : FiberOK(g)'
    <2>1. \A g \in Fiber : FiberOK(g) /\ Waking(g)' = Waking(g)
      BY <1>2 DEF AliveOK, Waking, workerVars
    <2>2. \A g \in Fiber : Count(Unstarted(todo', g)) <= Count(Unstarted(todo, g))
      <3>1. \A g : Count(Unstarted(todo, g)) \in 0 .. 2
        BY CountIs
      <3> QED
        BY <3>1
    <2>3. UNCHANGED <<tasks, cbs, timers, eventVars, state>>
      BY DEF schedulerVars, workerVars, timerVars
    <2> QED
      BY <2>1, <2>2, <2>3, QuietAlive
  <1> QED
    BY <1>1, <1>2, OutsideInv

\* At first nothing is queued, and no program starts a fiber twice.
LEMMA InitWInv == Init => WInv
  <1> SUFFICES ASSUME Init PROVE WInv
    OBVIOUS
  <1>1. TasksOK /\ ReadyOK /\ StatesOK /\ EndOK
    BY DEF Init, TasksOK, ReadyOK, StatesOK, EndOK
  <1>2. TimerCbsOK /\ EventsOK
    BY FS_EmptySet DEF Init, TimerCbsOK, EventsOK
  <1>3. UnwatchOK
    BY UnwatchAssumption DEF Init, UnwatchOK, InCall, Body
  <1>4. PendingOK
    <2>1. Registered(events) = {}
      BY DEF Init, Registered
    <2> QED
      BY <2>1, FS_EmptySet DEF PendingOK, Init
  <1>5. WaitersOK
    <2>1. \A g \in Fiber : Resume(g) # None
      BY NoneAssumption DEF Resume
    <2> QED
      BY <2>1 DEF Init, WaitersOK
  <1>6. ASSUME NEW f \in Fiber PROVE FiberOK(f)
    <2>1. \A ks : /\ InSeq(tasks, ks, f) = {} /\ InSeq(cbs, ks, f) = {}
                  /\ InTimers(timers, ks, f) = {} /\ InCtx(ctx, ks, f) = {}
      BY DEF Init, InSeq, InTimers, InCtx, Holds
    <2>2. \A ks : Held(ks, f) = 0
      BY <2>1 DEF Held, Count
    <2>3. Waking(f) = 0 /\ state[f] = "NONE"
      BY DEF Init, Waking
    <2>4. Count(Unstarted(todo, f)) <= 1
      <3>1. ASSUME NEW v \in Unstarted(todo, f), NEW w \in Unstarted(todo, f) PROVE v = w
        <4>1. PICK a \in Fiber \cup Caller, i \in Nat : v = <<a, i>>
          BY DEF Unstarted
        <4>2. PICK b \in Fiber \cup Caller, j \in Nat : w = <<b, j>>
          BY DEF Unstarted
        <4>3. /\ i \in DOMAIN todo[a] /\ todo[a][i].op \in {"schedule", "watch"} /\ todo[a][i].fiber = f
              /\ j \in DOMAIN todo[b] /\ todo[b][j].op \in {"schedule", "watch"} /\ todo[b][j].fiber = f
          BY <4>1, <4>2 DEF Unstarted
        <4>4. a = b /\ i = j
          BY <4>3, StartsAssumption DEF Init
        <4> QED
          BY <4>1, <4>2, <4>4
      <3> QED
        BY <3>1, CountIs
    <2>5. Count(Unstarted(todo, f)) \in 0 .. 2
      BY CountIs
    <2>6. Held(Wakers, f) + Waking(f) = 0 /\ Held(Starters, f) + Count(Unstarted(todo, f)) <= 1
      BY <2>2, <2>3, <2>4, <2>5
    <2> QED
      BY <2>3, <2>6 DEF FiberOK
  <1>7. ~idleTerm
    BY DEF Init
  <1> QED
    BY <1>1, <1>2, <1>3, <1>4, <1>5, <1>6, <1>7 DEF WInv, AliveOK

\* Every step keeps the invariant.
LEMMA NextWInv == IInv /\ WInv /\ [Next]_vars => WInv'
  <1> SUFFICES ASSUME IInv, WInv, [Next]_vars PROVE WInv'
    OBVIOUS
  <1>1. CASE Worker /\ UNCHANGED hookVars
    <2>1. CASE Take
      BY <1>1, <2>1, TakeWInv
    <2>2. CASE ListExpired
      BY <1>1, <2>2, ExpireWInv
    <2>3. CASE ScheduleExpired
      BY <1>1, <2>3, ScheduleExpiredWInv
    <2>4. CASE \E fd \in Fd : Handle(fd)
      BY <1>1, <2>4, HandleWInv
    <2>5. CASE \/ BeginRun \/ FindNone \/ BecomeIdle \/ AskNextTimer \/ EndIdle \/ EnterWait
               \/ LeaveWait \/ Drain \/ YieldIdle
      BY <1>1, <2>5, IdleWInv
    <2> QED
      BY <1>1, <2>1, <2>2, <2>3, <2>4, <2>5 DEF Worker
  <1>2. ASSUME NEW f \in Fiber, FiberStep(f) PROVE WInv'
    <2>1. CASE SleepReturns(f) \/ Try(f) \/ Woken(f)
      BY <2>1, GoOnWInv
    <2>2. CASE Register(f)
      BY <2>2, RegisterWInv
    <2>3. CASE Finish(f)
      BY <2>3, FinishWInv
    <2>4. CASE /\ todo[f] # <<>>
               /\ LET call == Head(todo[f]) IN
                  \/ Sleep(f, call) \/ Socket(f, call) \/ Io(f, call) \/ Connect(f, call)
                  \/ Close(f, call) \/ SetSockOpt(f, call) \/ Fcntl(f, call)
                  \/ GetFl(f, call) \/ Ioctl(f, call)
                  \/ Watch(f, call)
      <3> DEFINE call == Head(todo[f])
      <3>1. call = Head(todo[f])
        OBVIOUS
      <3>2. \/ Socket(f, call) \/ Io(f, call) \/ Connect(f, call) \/ SetSockOpt(f, call)
            \/ Fcntl(f, call) \/ GetFl(f, call) \/ Ioctl(f, call)
            \/ Sleep(f, call) \/ Close(f, call) \/ Watch(f, call)
        BY <2>4
      <3> HIDE DEF call
      <3>3. CASE \/ Socket(f, call) \/ Io(f, call) \/ Connect(f, call) \/ SetSockOpt(f, call)
                 \/ Fcntl(f, call) \/ GetFl(f, call) \/ Ioctl(f, call)
        BY <2>4, <3>1, <3>3, CallWInv
      <3>4. CASE Sleep(f, call)
        BY <2>4, <3>1, <3>4, SleepWInv
      <3>5. CASE Close(f, call)
        BY <2>4, <3>1, <3>5, CloseWInv
      <3>6. CASE Watch(f, call)
        BY <2>4, <3>1, <3>6, WatchWInv
      <3> QED
        BY <3>2, <3>3, <3>4, <3>5, <3>6
    <2> QED
      BY <1>2, <2>1, <2>2, <2>3, <2>4 DEF FiberStep
  <1>3. CASE RunCallback
    BY <1>3, CallbackWInv
  <1>4. CASE \E c \in Caller : ThreadStep(c)
    BY <1>4, ThreadWInv DEF ThreadStep
  <1>5. CASE ClockStep
    BY <1>5, ClockWInv
  <1>6. CASE KernelStep
    BY <1>6, StutterWInv DEF KernelStep, Arrives, hookVars
  <1>7. CASE UNCHANGED vars
    BY <1>7, StutterWInv DEF vars, ioVars, hookVars
  <1> QED
    BY <1>1, <1>2, <1>3, <1>4, <1>5, <1>6, <1>7 DEF Next, WorkerStep
\* What wakes f is counted as in Hook.tla.
LEMMA WakeUpsHeld ==
    ASSUME NEW f, FiberOK(f)
    PROVE  WakeUps(f) = Held(Wakers, f) + Waking(f)
  <1>1. \A t : Wakes(t, f) <=> Holds(t, Wakers, f)
    BY DEF Wakes, Holds, Wakers
  <1>2. Held(Wakers, f) <= 1
    BY HeldOnce
  <1>3. /\ Count(InSeq(tasks, Wakers, f)) <= 1 /\ Count(InSeq(cbs, Wakers, f)) <= 1
        /\ Count(InTimers(timers, Wakers, f)) <= 1 /\ Count(InCtx(ctx, Wakers, f)) <= 1
    BY <1>2, HeldParts DEF Held
  <1>4. /\ Cardinality(InSeq(tasks, Wakers, f)) = Count(InSeq(tasks, Wakers, f))
        /\ Cardinality(InSeq(cbs, Wakers, f)) = Count(InSeq(cbs, Wakers, f))
        /\ Cardinality(InTimers(timers, Wakers, f)) = Count(InTimers(timers, Wakers, f))
        /\ Cardinality(InCtx(ctx, Wakers, f)) = Count(InCtx(ctx, Wakers, f))
    BY <1>3, CountIsCardinality
  <1>5. /\ {i \in DOMAIN tasks : Wakes(tasks[i], f)} = InSeq(tasks, Wakers, f)
        /\ {i \in DOMAIN cbs : Wakes(cbs[i], f)} = InSeq(cbs, Wakers, f)
        /\ {t \in timers : Wakes(t.cb, f)} = InTimers(timers, Wakers, f)
        /\ {w \in Fd \X Event : Wakes(ctx[w[1]][w[2]], f)} = InCtx(ctx, Wakers, f)
    BY <1>1 DEF InSeq, InTimers, InCtx
  <1>6. Waking(f) = IF pc = "run" /\ Wakes(current, f) /\ current.do = "wake" THEN 1 ELSE 0
    BY DEF Waking, Wakes, Holds
  <1> QED
    BY <1>4, <1>5, <1>6 DEF WakeUps, Held

\* The three invariants below are those of the state in which the code leaves
\* its structures, as long as no CondPanic has failed: it is an assert
\* (utils.cpp), after which there is no process.

\* pendingEventCnt_, for whose 0 stop() waits, is the number of the registered
\* events, whichever of addEvent, delEvent, cancelEvent, cancelAll and idle()
\* has changed it last.
THEOREM PendingCounted == Spec => [](NoPanic => PendingIsRegistered)
  <1>1. IInv /\ WInv => (NoPanic => PendingIsRegistered)
    BY DEF WInv, AliveOK, PendingOK, Registered, NoPanic, PendingIsRegistered
  <1> QED
    BY <1>1, InitInv, NextInv, InitWInv, NextWInv, PTL DEF Spec

\* A fiber that has yielded is held by the task list, an event or a timer, and
\* by one of them only: an event, its timeout, cancelEvent and close compete for
\* it, and neither lose it nor schedule it twice (do_io, triggerEvent, run).
THEOREM SuspendedWokenOnce == Spec => [](NoPanic => WokenOnce)
  <1>1. IInv /\ WInv => (NoPanic => WokenOnce)
    <2> SUFFICES ASSUME WInv, ~panic, NEW f \in Fiber
                 PROVE  WakeUps(f) = IF state[f] = "READY" THEN 1 ELSE 0
      BY DEF NoPanic, WokenOnce
    <2>1. FiberOK(f)
      BY DEF WInv, AliveOK
    <2> QED
      BY <2>1, WakeUpsHeld DEF FiberOK
  <1> QED
    BY <1>1, InitInv, NextInv, InitWInv, NextWInv, PTL DEF Spec

\* The worker leaves run() only when stop() has been called, nothing is queued,
\* no event is registered and no fiber is suspended (IOManager::stopping).
THEOREM ExitsWithNothingLeft == Spec => [](NoPanic => ExitLeavesNothing)
  <1>1. IInv /\ WInv => (NoPanic => ExitLeavesNothing)
    BY DEF WInv, AliveOK, EndOK, NoPanic, ExitLeavesNothing
  <1> QED
    BY <1>1, InitInv, NextInv, InitWInv, NextWInv, PTL DEF Spec

\* run() never resumes a fiber that is not suspended: the CondPanic of
\* Fiber::resume cannot be the first that fails.
THEOREM ResumesSuspended == Spec => [][Take /\ NoPanic => NoPanic']_vars
  <1>1. IInv /\ WInv /\ [Next]_vars => [Take /\ NoPanic => NoPanic']_vars
    <2> SUFFICES ASSUME WInv, [Next]_vars, Take, NoPanic PROVE NoPanic'
      OBVIOUS
    <2>1. \A f \in Fiber : Head(tasks) = Resume(f) => state[f] = "READY"
      BY TakeReady DEF NoPanic
    <2>2. Head(tasks) \in Task
      BY DEF Take, WInv, TasksOK
    <2>3. Head(tasks).do = "resume" => \E f \in Fiber : Head(tasks) = Resume(f)
      BY <2>2, TaskKinds DEF Task, Waiter, Start
    <2>4. \A f : Resume(f).fiber = f
      BY DEF Resume
    <2>5. ASSUME Head(tasks).do = "resume" PROVE state[Head(tasks).fiber] = "READY"
      BY <2>1, <2>3, <2>4, <2>5
    <2>6. panic' = (panic \/ (Head(tasks).do = "resume" /\ state[Head(tasks).fiber] # "READY"))
      BY DEF Take
    <2> QED
      BY <2>5, <2>6 DEF NoPanic
  <1> QED
    BY <1>1, InitInv, NextInv, InitWInv, NextWInv, PTL DEF Spec
-----------------------------------------------------------------------------
(* Programs in which an event is awaited by one fiber, or by one callback.  *)

\* The calls for which an event is registered.
Awaits(call, fd, event) ==
    call.op \in {"io", "connect", "watch"} /\ call.fd = fd /\ call.event = event

\* No two fibers await one event, and nobody awaits it beside a callback.
Exclusive(td) ==
    \A a, b \in Fiber \cup Caller : \A i \in DOMAIN td[a], j \in DOMAIN td[b] :
      \A fd \in Fd, e \in Event :
        Awaits(td[a][i], fd, e) /\ Awaits(td[b][j], fd, e)
        => a = b /\ (td[a][i].op = "watch" => i = j)

\* A fiber is in a call that awaits the event.
InCallFor(f, fd, event) == InCall(f) /\ wait[f].call.fd = fd /\ wait[f].call.event = event

\* What a fiber awaits no other fiber does, nor will, and what a callback is
\* registered for nobody awaits, nor will.
AwaitedOK ==
    /\ Exclusive(todo)
    /\ \A fd \in Fd, e \in Event :
         /\ \A f \in Fiber : InCallFor(f, fd, e) =>
              /\ \A g \in Fiber : InCallFor(g, fd, e) => g = f
              /\ \A a \in Fiber \cup Caller : \A i \in DOMAIN todo[a] :
                   Awaits(todo[a][i], fd, e) => a = f /\ todo[a][i].op # "watch"
         /\ (\E g \in Fiber : ctx[fd][e] = Start(g)) =>
              /\ \A f \in Fiber : ~InCallFor(f, fd, e)
              /\ \A a \in Fiber \cup Caller : \A i \in DOMAIN todo[a] : ~Awaits(todo[a][i], fd, e)

\* After a call of a the calls to come are those there were, but for the first.
LEMMA CallTakes ==
    ASSUME CallsOK, NEW a \in Fiber \cup Caller, NEW ops, Calls(a, ops)
    PROVE  /\ todo[a] # <<>> /\ 1 \in DOMAIN todo[a] /\ Head(todo[a]) = todo[a][1]
           /\ \A b \in Fiber \cup Caller : \A i \in DOMAIN todo'[b] :
                LET k == IF b = a THEN i + 1 ELSE i IN
                k \in DOMAIN todo[b] /\ todo'[b][i] = todo[b][k] /\ (b = a => k # 1)
           /\ \A i \in DOMAIN todo'[a] : i \in Nat
  <1>1. todo' = [todo EXCEPT ![a] = Tail(@)] /\ todo[a] # <<>> /\ todo[a] \in Seq(Call)
    BY DEF Calls, CallsOK
  <1>2. /\ \A b \in Fiber \cup Caller : b # a => todo'[b] = todo[b]
        /\ todo'[a] = Tail(todo[a])
    BY <1>1 DEF CallsOK
  <1>3. DOMAIN Tail(todo[a]) = 1 .. Len(todo[a]) - 1 /\ DOMAIN todo[a] = 1 .. Len(todo[a])
        /\ Len(todo[a]) \in Nat
    BY <1>1
  <1>4. ASSUME NEW i \in 1 .. Len(todo[a]) - 1
        PROVE  i + 1 \in DOMAIN todo[a] /\ Tail(todo[a])[i] = todo[a][i + 1] /\ i + 1 # 1 /\ i \in Nat
    BY <1>1, <1>3, <1>4
  <1>5. 1 \in DOMAIN todo[a] /\ Head(todo[a]) = todo[a][1]
    BY <1>1
  <1>6. \A i \in DOMAIN todo'[a] : 
          i + 1 \in DOMAIN todo[a] /\ todo'[a][i] = todo[a][i + 1] /\ i + 1 # 1 /\ i \in Nat
    BY <1>2, <1>3, <1>4
  <1> QED
    BY <1>1, <1>2, <1>5, <1>6

\* Exclusive programs stay exclusive.
LEMMA ExclusiveKept ==
    ASSUME Exclusive(todo), CallsOK, NEW a \in Fiber \cup Caller, NEW ops, Calls(a, ops)
    PROVE  Exclusive(todo')
  <1> SUFFICES ASSUME NEW b \in Fiber \cup Caller, NEW d \in Fiber \cup Caller,
                      NEW i \in DOMAIN todo'[b], NEW j \in DOMAIN todo'[d],
                      NEW fd \in Fd, NEW e \in Event,
                      Awaits(todo'[b][i], fd, e), Awaits(todo'[d][j], fd, e)
               PROVE  b = d /\ (todo'[b][i].op = "watch" => i = j)
    BY DEF Exclusive
  <1> DEFINE k == IF b = a THEN i + 1 ELSE i
             l == IF d = a THEN j + 1 ELSE j
  <1>1. /\ k \in DOMAIN todo[b] /\ todo'[b][i] = todo[b][k] /\ (b = a => i \in Nat)
        /\ l \in DOMAIN todo[d] /\ todo'[d][j] = todo[d][l] /\ (d = a => j \in Nat)
    BY CallTakes
  <1>2. b = d /\ (todo'[b][i].op = "watch" => k = l)
    <2> HIDE DEF k, l
    <2> QED
      BY <1>1 DEF Exclusive
  <1> QED
    BY <1>1, <1>2

\* A step in which no fiber begins to await an event; a call may be made.
LEMMA AwaitedKept ==
    ASSUME AwaitedOK, CallsOK,
           todo' = todo \/ \E a \in Fiber \cup Caller : \E ops : Calls(a, ops),
           \A f \in Fiber : InCall(f)' => InCall(f) /\ wait'[f].call = wait[f].call,
           \A fd \in Fd, e \in Event, g \in Fiber : ctx'[fd][e] = Start(g) => ctx[fd][e] = Start(g)
    PROVE  AwaitedOK'
  <1>2. ASSUME NEW b \in Fiber \cup Caller, NEW i \in DOMAIN todo'[b]
        PROVE  \E k \in DOMAIN todo[b] : todo[b][k] = todo'[b][i]
    BY <1>2, CallTakes
  <1>3. Exclusive(todo')
    <2>1. CASE todo' = todo
      BY <2>1 DEF AwaitedOK
    <2>2. CASE \E a \in Fiber \cup Caller : \E ops : Calls(a, ops)
      BY <2>2, ExclusiveKept DEF AwaitedOK
    <2> QED
      BY <2>1, <2>2
  <1>4. ASSUME NEW f \in Fiber, NEW fd, NEW e, InCallFor(f, fd, e)' PROVE InCallFor(f, fd, e)
    BY <1>4 DEF InCallFor
  <1>5. ASSUME NEW fd \in Fd, NEW e \in Event
        PROVE  /\ \A f \in Fiber : InCallFor(f, fd, e)' =>
                    /\ \A g \in Fiber : InCallFor(g, fd, e)' => g = f
                    /\ \A a \in Fiber \cup Caller : \A i \in DOMAIN todo'[a] :
                         Awaits(todo'[a][i], fd, e) => a = f /\ todo'[a][i].op # "watch"
               /\ (\E g \in Fiber : ctx'[fd][e] = Start(g)) =>
                    /\ \A f \in Fiber : ~InCallFor(f, fd, e)'
                    /\ \A a \in Fiber \cup Caller : \A i \in DOMAIN todo'[a] :
                         ~Awaits(todo'[a][i], fd, e)
    <2>1. \A a \in Fiber \cup Caller : \A i \in DOMAIN todo'[a] : Awaits(todo'[a][i], fd, e) =>
            \E k \in DOMAIN todo[a] : Awaits(todo[a][k], fd, e) /\ todo'[a][i] = todo[a][k]
      BY <1>2
    <2>2. \A f \in Fiber : InCallFor(f, fd, e)' => InCallFor(f, fd, e)
      BY <1>4
    <2>3. (\E g \in Fiber : ctx'[fd][e] = Start(g)) => \E g \in Fiber : ctx[fd][e] = Start(g)
      OBVIOUS
    <2>4. /\ \A f \in Fiber : InCallFor(f, fd, e) =>
              /\ \A g \in Fiber : InCallFor(g, fd, e) => g = f
              /\ \A a \in Fiber \cup Caller : \A i \in DOMAIN todo[a] :
                   Awaits(todo[a][i], fd, e) => a = f /\ todo[a][i].op # "watch"
          /\ (\E g \in Fiber : ctx[fd][e] = Start(g)) =>
              /\ \A f \in Fiber : ~InCallFor(f, fd, e)
              /\ \A a \in Fiber \cup Caller : \A i \in DOMAIN todo[a] : ~Awaits(todo[a][i], fd, e)
      BY DEF AwaitedOK
    <2>5. ASSUME NEW f \in Fiber, InCallFor(f, fd, e)'
          PROVE  /\ \A g \in Fiber : InCallFor(g, fd, e)' => g = f
                 /\ \A a \in Fiber \cup Caller : \A i \in DOMAIN todo'[a] :
                      Awaits(todo'[a][i], fd, e) => a = f /\ todo'[a][i].op # "watch"
      BY <2>1, <2>2, <2>4, <2>5
    <2>6. ASSUME \E g \in Fiber : ctx'[fd][e] = Start(g)
          PROVE  /\ \A f \in Fiber : ~InCallFor(f, fd, e)'
                 /\ \A a \in Fiber \cup Caller : \A i \in DOMAIN todo'[a] : ~Awaits(todo'[a][i], fd, e)
      BY <2>1, <2>2, <2>3, <2>4, <2>6
    <2> QED
      BY <2>5, <2>6
  <1> QED
    BY <1>3, <1>5 DEF AwaitedOK

\* A fiber begins a call that may have to wait.
LEMMA AwaitedBegins ==
    ASSUME AwaitedOK, CallsOK, NEW f \in Fiber, ~InCall(f), NEW ops, Calls(f, ops),
           Head(todo[f]).op \in {"io", "connect"}, ctx' = ctx,
           \A g \in Fiber \ {f} : wait'[g] = wait[g],
           InCall(f)' => wait'[f].call = Head(todo[f])
    PROVE  AwaitedOK'
  <1>1. Exclusive(todo')
    BY ExclusiveKept DEF AwaitedOK
  <1>2. /\ 1 \in DOMAIN todo[f] /\ Head(todo[f]) = todo[f][1]
        /\ \A b \in Fiber \cup Caller : \A i \in DOMAIN todo'[b] :
             \E k \in DOMAIN todo[b] : todo'[b][i] = todo[b][k] /\ (b = f => k # 1)
    BY CallTakes
  <1>3. ASSUME NEW fd \in Fd, NEW e \in Event
        PROVE  /\ \A g \in Fiber : InCallFor(g, fd, e)' =>
                    \/ InCallFor(g, fd, e)
                    \/ g = f /\ Awaits(todo[f][1], fd, e)
               /\ ~InCallFor(f, fd, e)
    BY <1>2 DEF InCallFor, InCall, Awaits
  <1>4. ASSUME NEW fd \in Fd, NEW e \in Event
        PROVE  /\ \A g \in Fiber : InCallFor(g, fd, e)' =>
                    /\ \A h \in Fiber : InCallFor(h, fd, e)' => h = g
                    /\ \A a \in Fiber \cup Caller : \A i \in DOMAIN todo'[a] :
                         Awaits(todo'[a][i], fd, e) => a = g /\ todo'[a][i].op # "watch"
               /\ (\E g \in Fiber : ctx'[fd][e] = Start(g)) =>
                    /\ \A g \in Fiber : ~InCallFor(g, fd, e)'
                    /\ \A a \in Fiber \cup Caller : \A i \in DOMAIN todo'[a] :
                         ~Awaits(todo'[a][i], fd, e)
    <2>1. /\ \A g \in Fiber : InCallFor(g, fd, e) =>
              /\ \A h \in Fiber : InCallFor(h, fd, e) => h = g
              /\ \A a \in Fiber \cup Caller : \A i \in DOMAIN todo[a] :
                   Awaits(todo[a][i], fd, e) => a = g /\ todo[a][i].op # "watch"
          /\ (\E g \in Fiber : ctx[fd][e] = Start(g)) =>
              /\ \A g \in Fiber : ~InCallFor(g, fd, e)
              /\ \A a \in Fiber \cup Caller : \A i \in DOMAIN todo[a] : ~Awaits(todo[a][i], fd, e)
      BY DEF AwaitedOK
    <2>2. \A a \in Fiber \cup Caller : \A i \in DOMAIN todo'[a] : Awaits(todo'[a][i], fd, e) =>
            \E k \in DOMAIN todo[a] : /\ Awaits(todo[a][k], fd, e) /\ todo'[a][i] = todo[a][k]
                                      /\ a = f => k # 1
      BY <1>2
    <2>3. CASE ~Awaits(todo[f][1], fd, e)
      <3>1. \A g \in Fiber : InCallFor(g, fd, e)' => InCallFor(g, fd, e)
        BY <1>3, <2>3
      <3> QED
        BY <2>1, <2>2, <3>1
    <2>4. CASE Awaits(todo[f][1], fd, e)
      <3>1. ~\E g \in Fiber : ctx'[fd][e] = Start(g)
        BY <1>2, <2>1, <2>4
      <3>2. \A g \in Fiber : ~InCallFor(g, fd, e)
        BY <1>2, <1>3, <2>1, <2>4
      <3>3. \A g \in Fiber : InCallFor(g, fd, e)' => g = f
        BY <1>3, <3>2
      <3>4. ASSUME NEW a \in Fiber \cup Caller, NEW i \in DOMAIN todo'[a], Awaits(todo'[a][i], fd, e)
            PROVE  a = f /\ todo'[a][i].op # "watch"
        <4>1. PICK k \in DOMAIN todo[a] : /\ Awaits(todo[a][k], fd, e) /\ todo'[a][i] = todo[a][k]
                                          /\ a = f => k # 1
          BY <2>2, <3>4
        <4>2. a = f /\ (todo[a][k].op = "watch" => k = 1)
          BY <1>2, <2>4, <4>1 DEF AwaitedOK, Exclusive
        <4> QED
          BY <4>1, <4>2
      <3> QED
        BY <3>1, <3>3, <3>4
    <2> QED
      BY <2>3, <2>4
  <1> QED
    BY <1>1, <1>4 DEF AwaitedOK

\* addEvent with a callback: nobody else awaits the event, now or later.
LEMMA AwaitedWatch ==
    ASSUME AwaitedOK, CallsOK, EventsOK, NEW f \in Fiber, NEW ops, Calls(f, ops),
           NEW fd \in Fd, NEW e \in Event, NEW t,
           Head(todo[f]).op = "watch", Awaits(Head(todo[f]), fd, e),
           wait' = wait, ctx' = [ctx EXCEPT ![fd][e] = t]
    PROVE  AwaitedOK' /\ (\A g \in Fiber : ~InCallFor(g, fd, e))
                      /\ (\A g \in Fiber : ctx[fd][e] # Start(g))
  <1>1. Exclusive(todo')
    BY ExclusiveKept DEF AwaitedOK
  <1>2. /\ 1 \in DOMAIN todo[f] /\ Head(todo[f]) = todo[f][1]
        /\ \A b \in Fiber \cup Caller : \A i \in DOMAIN todo'[b] :
             \E k \in DOMAIN todo[b] : todo'[b][i] = todo[b][k] /\ (b = f => k # 1)
    BY CallTakes
  <1>3. \A x \in Fd, y \in Event : x # fd \/ y # e => ctx'[x][y] = ctx[x][y]
    BY DEF EventsOK
  <1>4. \A x, y : \A g \in Fiber : InCallFor(g, x, y)' <=> InCallFor(g, x, y)
    BY DEF InCallFor, InCall
  <1>5. (\A g \in Fiber : ~InCallFor(g, fd, e)) /\ (\A g \in Fiber : ctx[fd][e] # Start(g))
    BY <1>2 DEF AwaitedOK
  <1>6. ASSUME NEW a \in Fiber \cup Caller, NEW i \in DOMAIN todo'[a], Awaits(todo'[a][i], fd, e)
        PROVE  FALSE
    <2>1. PICK k \in DOMAIN todo[a] : todo'[a][i] = todo[a][k] /\ (a = f => k # 1)
      BY <1>2, <1>6
    <2>2. Awaits(todo[a][k], fd, e)
      BY <1>6, <2>1
    <2>3. f = a /\ 1 = k
      BY <1>2, <2>2 DEF AwaitedOK, Exclusive
    <2> QED
      BY <2>1, <2>3
  <1>7. ASSUME NEW x \in Fd, NEW y \in Event
        PROVE  /\ \A g \in Fiber : InCallFor(g, x, y)' =>
                    /\ \A h \in Fiber : InCallFor(h, x, y)' => h = g
                    /\ \A a \in Fiber \cup Caller : \A i \in DOMAIN todo'[a] :
                         Awaits(todo'[a][i], x, y) => a = g /\ todo'[a][i].op # "watch"
               /\ (\E g \in Fiber : ctx'[x][y] = Start(g)) =>
                    /\ \A g \in Fiber : ~InCallFor(g, x, y)'
                    /\ \A a \in Fiber \cup Caller : \A i \in DOMAIN todo'[a] :
                         ~Awaits(todo'[a][i], x, y)
    <2>1. CASE x = fd /\ y = e
      BY <1>4, <1>5, <1>6, <2>1
    <2>2. CASE x # fd \/ y # e
      <3>1. /\ \A g \in Fiber : InCallFor(g, x, y) =>
                /\ \A h \in Fiber : InCallFor(h, x, y) => h = g
                /\ \A a \in Fiber \cup Caller : \A i \in DOMAIN todo[a] :
                     Awaits(todo[a][i], x, y) => a = g /\ todo[a][i].op # "watch"
            /\ (\E g \in Fiber : ctx[x][y] = Start(g)) =>
                /\ \A g \in Fiber : ~InCallFor(g, x, y)
                /\ \A a \in Fiber \cup Caller : \A i \in DOMAIN todo[a] : ~Awaits(todo[a][i], x, y)
        BY DEF AwaitedOK
      <3>2. \A a \in Fiber \cup Caller : \A i \in DOMAIN todo'[a] : Awaits(todo'[a][i], x, y) =>
              \E k \in DOMAIN todo[a] : Awaits(todo[a][k], x, y) /\ todo'[a][i] = todo[a][k]
        BY <1>2
      <3>3. ctx'[x][y] = ctx[x][y]
        BY <1>3, <2>2
      <3> QED
        BY <1>4, <3>1, <3>2, <3>3
    <2> QED
      BY <2>1, <2>2
  <1> QED
    BY <1>1, <1>5, <1>7 DEF AwaitedOK

\* What is triggered, cancelled or taken back starts nothing later.
LEMMA TriggerStarts ==
    ASSUME EventsOK, NEW fd \in Fd, NEW e \in Event, NEW evs,
           \/ TriggerEvents(fd, evs) \/ DelEvent(fd, e) \/ CancelEvent(fd, e) \/ CancelAll(fd)
           \/ UNCHANGED eventVars
    PROVE  \A x \in Fd, y \in Event, g \in Fiber : ctx'[x][y] = Start(g) => ctx[x][y] = Start(g)
  <1>1. \A g \in Fiber : Start(g) # None
    BY NoneAssumption DEF Start
  <1>2. ASSUME NEW ev, ctx' = [ctx EXCEPT ![fd] = [y \in Event |-> IF y \in ev THEN None ELSE @[y]]]
        PROVE  \A x \in Fd, y \in Event, g \in Fiber : ctx'[x][y] = Start(g) => ctx[x][y] = Start(g)
    <2>1. \A x \in Fd, y \in Event : ctx'[x][y] = IF x = fd /\ y \in ev THEN None ELSE ctx[x][y]
      BY <1>2 DEF EventsOK
    <2> QED
      BY <1>1, <2>1
  <1>3. ASSUME ctx' = [ctx EXCEPT ![fd][e] = None]
        PROVE  \A x \in Fd, y \in Event, g \in Fiber : ctx'[x][y] = Start(g) => ctx[x][y] = Start(g)
    <2>1. \A x \in Fd, y \in Event : ctx'[x][y] = IF x = fd /\ y = e THEN None ELSE ctx[x][y]
      BY <1>3 DEF EventsOK
    <2> QED
      BY <1>1, <2>1
  <1>4. CASE UNCHANGED eventVars
    BY <1>4 DEF eventVars
  <1>5. CASE \E ev : TriggerEvents(fd, ev)
    BY <1>2, <1>5 DEF TriggerEvents
  <1>6. CASE CancelEvent(fd, e) \/ CancelAll(fd)
    BY <1>4, <1>5, <1>6 DEF CancelEvent, CancelAll
  <1>7. CASE DelEvent(fd, e)
    BY <1>3, <1>4, <1>7 DEF DelEvent
  <1> QED
    BY <1>4, <1>5, <1>6, <1>7

\* A fiber that is about to register finds its event free.
LEMMA RegisterFree ==
    ASSUME IInv, WInv, AwaitedOK, ~panic, NEW f \in Fiber, wait[f].at = "register"
    PROVE  wait[f].call.event \notin events[wait[f].call.fd]
  <1> DEFINE fd == wait[f].call.fd
             e == wait[f].call.event
  <1>1. fd \in Fd /\ e \in Event
    BY ProgramsAssumption DEF IInv, WaitsOK, WaitOK, Event
  <1>2. InCallFor(f, fd, e)
    BY DEF InCallFor, InCall
  <1>3. \A g \in Fiber : ctx[fd][e] # Start(g)
    BY <1>1, <1>2 DEF AwaitedOK
  <1>4. ASSUME NEW g \in Fiber, ctx[fd][e] = Resume(g) PROVE FALSE
    <2>1. wait[g].at = "wait" /\ wait[g].call.fd = fd /\ wait[g].call.event = e
      BY <1>1, <1>4 DEF WInv, AliveOK, WaitersOK
    <2>2. g = f
      BY <1>1, <1>2, <2>1 DEF AwaitedOK, InCallFor, InCall
    <2> QED
      BY <2>1, <2>2
  <1>5. e \in events[fd] => ctx[fd][e] \in Waiter
    BY <1>1 DEF WInv, EventsOK
  <1> QED
    BY <1>3, <1>4, <1>5 DEF Waiter

\* A call of a fiber, up to the point where it may have to wait.
LEMMA CallNoPanic ==
    ASSUME IInv, WInv, AwaitedOK, ~panic, NEW f \in Fiber, NEW call, todo[f] # <<>>,
           call = Head(todo[f]),
           \/ Sleep(f, call) \/ Socket(f, call) \/ Io(f, call) \/ Connect(f, call)
           \/ Close(f, call) \/ SetSockOpt(f, call) \/ Fcntl(f, call)
           \/ GetFl(f, call) \/ Ioctl(f, call)
    PROVE  AwaitedOK' /\ ~panic'
  <1>1. panic' = panic /\ wait[f].at = "body"
    BY DEF Sleep, Socket, Io, Connect, Close, SetSockOpt, Fcntl, GetFl, Ioctl, InBody
  <1>2. CallsOK /\ WaitsOK /\ EventsOK /\ ~InCall(f)
    BY <1>1 DEF IInv, WInv, InCall
  <1>3. ASSUME wait' = wait \/ (\E r : Returns(f, r)) \/ \E w : wait' = [wait EXCEPT ![f] = w]
        PROVE  \A g \in Fiber \ {f} : wait'[g] = wait[g]
    BY <1>2, <1>3, ReturnsWait, OtherWaits
  <1>4. ASSUME \E ops : Calls(f, ops), \A g \in Fiber \ {f} : wait'[g] = wait[g], ~InCall(f)',
               \A x \in Fd, y \in Event, g \in Fiber : ctx'[x][y] = Start(g) => ctx[x][y] = Start(g)
        PROVE  AwaitedOK'
    <2>1. \A g \in Fiber : InCall(g)' => InCall(g) /\ wait'[g].call = wait[g].call
      BY <1>4 DEF InCall
    <2> QED
      BY <1>2, <1>4, <2>1, AwaitedKept
  <1>5. CASE Sleep(f, call)
    <2>1. Calls(f, {"sleep"}) /\ ctx' = ctx /\ wait' = [wait EXCEPT ![f] = [at |-> "sleep"]]
      BY <1>5 DEF Sleep, eventVars
    <2>2. wait'[f] = [at |-> "sleep"] /\ \A g \in Fiber \ {f} : wait'[g] = wait[g]
      BY <1>2, <2>1, OtherWaits
    <2>3. ~InCall(f)'
      BY <2>2 DEF InCall
    <2> QED
      BY <1>1, <1>4, <2>1, <2>2, <2>3
  <1>6. CASE Socket(f, call) \/ SetSockOpt(f, call) \/ Fcntl(f, call) \/ Ioctl(f, call)
    <2>1. ctx' = ctx /\ wait' = wait /\ \E ops : Calls(f, ops)
      BY <1>6 DEF Socket, SetSockOpt, Fcntl, Ioctl, eventVars
    <2>2. ~InCall(f)'
      BY <1>2, <2>1 DEF InCall
    <2> QED
      BY <1>1, <1>4, <2>1, <2>2
  <1>7. CASE GetFl(f, call)
    <2>1. ctx' = ctx /\ (\E r : Returns(f, r)) /\ Calls(f, {"getfl"})
      BY <1>7 DEF GetFl, eventVars
    <2>2. ~InCall(f)' /\ \A g \in Fiber \ {f} : wait'[g] = wait[g]
      BY <1>2, <2>1, ReturnsWait
    <2> QED
      BY <1>1, <1>4, <2>1, <2>2
  <1>8. CASE Close(f, call)
    <2>1. Calls(f, {"close"}) /\ wait' = wait /\ (CancelAll(call.fd) \/ UNCHANGED eventVars)
      BY <1>8 DEF Close
    <2>2. call.fd \in Fd
      BY <1>2, <2>1, NextCall, ProgramsAssumption
    <2>3. \A x \in Fd, y \in Event, g \in Fiber : ctx'[x][y] = Start(g) => ctx[x][y] = Start(g)
      BY <1>2, <2>1, <2>2, TriggerStarts DEF Event
    <2>4. ~InCall(f)'
      BY <1>2, <2>1 DEF InCall
    <2> QED
      BY <1>1, <1>4, <2>1, <2>3, <2>4
  <1>9. CASE Io(f, call) \/ Connect(f, call)
    <2>1. /\ ctx' = ctx /\ call.op \in {"io", "connect"}
          /\ Calls(f, {"io", "connect"})
      BY <1>9 DEF Io, Connect, Calls, eventVars
    <2>2. /\ \A g \in Fiber \ {f} : wait'[g] = wait[g]
          /\ InCall(f)' => wait'[f].call = call
      <3>1. CASE \E r : Returns(f, r)
        BY <1>2, <3>1, ReturnsWait
      <3>2. CASE \E n : wait' = [wait EXCEPT ![f] = [at |-> "try", call |-> call, timeout |-> n,
                                                     cancelled |-> FALSE]]
        <4>1. PICK n : wait' = [wait EXCEPT ![f] = [at |-> "try", call |-> call, timeout |-> n,
                                                    cancelled |-> FALSE]]
          BY <3>2
        <4> DEFINE w == [at |-> "try", call |-> call, timeout |-> n, cancelled |-> FALSE]
        <4>2. w.call = call
          OBVIOUS
        <4>3. wait' = [wait EXCEPT ![f] = w]
          BY <4>1
        <4> HIDE DEF w
        <4>4. (\A g \in Fiber \ {f} : wait'[g] = wait[g]) /\ wait'[f] = w
          BY <1>2, <4>3, OtherWaits
        <4> QED
          BY <4>2, <4>4
      <3>3. CASE \E n : wait' = [wait EXCEPT ![f] = [at |-> "register", call |-> call, timeout |-> n,
                                                     cancelled |-> FALSE]]
        <4>1. PICK n : wait' = [wait EXCEPT ![f] = [at |-> "register", call |-> call, timeout |-> n,
                                                    cancelled |-> FALSE]]
          BY <3>3
        <4> DEFINE w == [at |-> "register", call |-> call, timeout |-> n, cancelled |-> FALSE]
        <4>2. w.call = call
          OBVIOUS
        <4>3. wait' = [wait EXCEPT ![f] = w]
          BY <4>1
        <4> HIDE DEF w
        <4>4. (\A g \in Fiber \ {f} : wait'[g] = wait[g]) /\ wait'[f] = w
          BY <1>2, <4>3, OtherWaits
        <4> QED
          BY <4>2, <4>4
      <3>4. CASE Io(f, call)
        BY <3>1, <3>2, <3>4 DEF Io
      <3>5. CASE Connect(f, call)
        BY <3>1, <3>3, <3>5 DEF Connect
      <3> QED
        BY <1>9, <3>4, <3>5
    <2> QED
      BY <1>1, <1>2, <2>1, <2>2, AwaitedBegins
  <1> QED
    BY <1>5, <1>6, <1>7, <1>8, <1>9

\* The operations of the manager: addEvent with a callback finds its event free.
LEMMA WatchNoPanic ==
    ASSUME IInv, WInv, AwaitedOK, ~panic, NEW f \in Fiber, NEW call, todo[f] # <<>>,
           call = Head(todo[f]), Watch(f, call)
    PROVE  AwaitedOK' /\ ~panic'
  <1> DEFINE ops == {"watch", "unwatch", "trigger", "schedule"}
  <1>1. Calls(f, ops) /\ wait' = wait
    BY DEF Watch, hookVars
  <1>2. CallsOK /\ EventsOK /\ call \in Call /\ call.op \in ops
    BY <1>1, NextCall DEF IInv, WInv
  <1>3. \A g \in Fiber : InCall(g)' => InCall(g) /\ wait'[g].call = wait[g].call
    BY <1>1 DEF InCall
  <1>4. CASE call.op = "watch"
    <2>1. AddEvent(call.fd, call.event, Start(call.fiber))
      BY <1>4 DEF Watch
    <2>2. call.fd \in Fd /\ call.event \in Event
      BY <1>2, <1>4, ProgramsAssumption DEF Event
    <2>3. Awaits(call, call.fd, call.event)
      BY <1>4 DEF Awaits
    <2>4. ctx' = [ctx EXCEPT ![call.fd][call.event] = Start(call.fiber)]
      BY <2>1 DEF AddEvent
    <2>5. /\ AwaitedOK' /\ (\A g \in Fiber : ~InCallFor(g, call.fd, call.event))
          /\ (\A g \in Fiber : ctx[call.fd][call.event] # Start(g))
      BY <1>1, <1>2, <1>4, <2>2, <2>3, <2>4, AwaitedWatch
    <2>6. \A g \in Fiber : ctx[call.fd][call.event] # Resume(g)
      BY <2>2, <2>5 DEF WInv, AliveOK, WaitersOK, InCallFor, InCall
    <2>7. call.event \in events[call.fd] => ctx[call.fd][call.event] \in Waiter
      BY <1>2, <2>2 DEF EventsOK
    <2>8. call.event \notin events[call.fd]
      BY <2>5, <2>6, <2>7 DEF Waiter
    <2> QED
      BY <2>1, <2>5, <2>8 DEF AddEvent
  <1>5. CASE call.op = "unwatch"
    <2>1. DelEvent(call.fd, call.event) /\ panic' = panic
      BY <1>5 DEF Watch
    <2>2. call.fd \in Fd /\ call.event \in Event
      BY <1>2, <1>5, ProgramsAssumption DEF Event
    <2> QED
      BY <1>1, <1>2, <1>3, <2>1, <2>2, TriggerStarts, AwaitedKept
  <1>6. CASE call.op = "trigger"
    <2>1. CancelEvent(call.fd, call.event) /\ panic' = panic
      BY <1>6 DEF Watch
    <2>2. call.fd \in Fd /\ call.event \in Event
      BY <1>2, <1>6, ProgramsAssumption DEF Event
    <2> QED
      BY <1>1, <1>2, <1>3, <2>1, <2>2, TriggerStarts, AwaitedKept
  <1>7. CASE call.op = "schedule"
    <2>1. ctx' = ctx /\ panic' = panic
      BY <1>7 DEF Watch, eventVars
    <2> QED
      BY <1>1, <1>2, <1>3, <2>1, AwaitedKept
  <1> QED
    BY <1>2, <1>4, <1>5, <1>6, <1>7

\* What a fiber does inside a call, and at its end.
LEMMA GoOnNoPanic ==
    ASSUME IInv, WInv, AwaitedOK, ~panic, NEW f \in Fiber,
           SleepReturns(f) \/ Try(f) \/ Register(f) \/ Woken(f) \/ Finish(f)
    PROVE  AwaitedOK' /\ ~panic'
  <1>1. todo' = todo /\ CallsOK /\ WaitsOK
    BY DEF SleepReturns, Try, Register, Woken, Finish, ioVars, IInv
  <1>2. \A g \in Fiber : InCall(g)' => InCall(g) /\ wait'[g].call = wait[g].call
    <2>1. CASE \E r : Returns(f, r)
      BY <1>1, <2>1, ReturnsWait DEF InCall
    <2>2. CASE InCall(f) /\ \E at : wait' = [wait EXCEPT ![f].at = at]
      BY <1>1, <2>2, CallGoesOn DEF InCall
    <2>3. CASE wait' = wait
      BY <2>3 DEF InCall
    <2> QED
      BY <2>1, <2>2, <2>3 DEF SleepReturns, Try, Register, Woken, Finish, hookVars, InCall
  <1>3. /\ ~panic'
        /\ \A x \in Fd, y \in Event, g \in Fiber : ctx'[x][y] = Start(g) => ctx[x][y] = Start(g)
    <2>1. CASE Register(f)
      <3> DEFINE fd == wait[f].call.fd
                 e == wait[f].call.event
      <3>1. wait[f].at = "register" /\ AddEvent(fd, e, Resume(f))
        BY <2>1 DEF Register
      <3>2. e \notin events[fd]
        BY <3>1, RegisterFree
      <3>3. fd \in Fd /\ e \in Event
        BY <1>1, <3>1, ProgramsAssumption DEF WaitsOK, WaitOK, Event
      <3>4. \A g : Resume(f) # Start(g)
        BY DEF Resume, Start
      <3>5. \A x \in Fd, y \in Event : ctx'[x][y] = IF x = fd /\ y = e THEN Resume(f) ELSE ctx[x][y]
        BY <3>1, <3>3 DEF AddEvent, WInv, EventsOK
      <3>6. ~panic'
        BY <3>1, <3>2 DEF AddEvent
      <3> HIDE DEF fd, e
      <3> QED
        BY <3>4, <3>5, <3>6
    <2>2. CASE SleepReturns(f) \/ Try(f) \/ Woken(f) \/ Finish(f)
      <3>1. eventVars' = eventVars /\ panic' = panic
        BY <2>2 DEF SleepReturns, Try, Woken, Finish, ioVars
      <3> QED
        BY <3>1 DEF eventVars
    <2> QED
      BY <2>1, <2>2
  <1> QED
    BY <1>1, <1>2, <1>3, AwaitedKept

\* The callback of a timer.
LEMMA CallbackNoPanic ==
    ASSUME IInv, WInv, AwaitedOK, ~panic, RunCallback
    PROVE  AwaitedOK' /\ ~panic'
  <1>1. todo' = todo /\ panic' = panic /\ CallsOK /\ EventsOK
    BY DEF RunCallback, IInv, WInv
  <1>2. CASE UNCHANGED <<eventVars, wait>>
    <2>1. ctx' = ctx /\ wait' = wait
      BY <1>2 DEF eventVars
    <2>2. \A g \in Fiber : InCall(g)' => InCall(g) /\ wait'[g].call = wait[g].call
      BY <2>1 DEF InCall
    <2> QED
      BY <1>1, <2>1, <2>2, AwaitedKept
  <1>3. CASE /\ RunTimeout /\ ~UNCHANGED <<eventVars, wait>>
    <2> DEFINE f == current.fiber
               w == wait[f]
    <2>1. /\ current.do = "timeout" /\ w.at = "wait"
          /\ wait' = [wait EXCEPT ![f].cancelled = TRUE]
          /\ CancelEvent(w.call.fd, w.call.event)
      BY <1>3 DEF RunTimeout
    <2>2. f \in Fiber
      <3>1. current \in Task
        BY DEF RunCallback, WInv, TasksOK
      <3>2. current \in Callback
        BY <2>1, <3>1, TaskKinds DEF Task
      <3> QED
        BY <2>1, <3>2, TaskKinds
    <2>3. WaitOK(w)
      BY <2>2 DEF IInv, WaitsOK
    <2>4. w.call.fd \in Fd /\ w.call.event \in Event
      BY <2>1, <2>3, ProgramsAssumption DEF WaitOK, Event
    <2>5. \A g \in Fiber : wait'[g].at = wait[g].at /\ wait'[g].call = wait[g].call
      <3>1. wait'[f] = [w EXCEPT !.cancelled = TRUE] /\ \A g \in Fiber \ {f} : wait'[g] = wait[g]
        BY <2>1, <2>2 DEF IInv, WaitsOK
      <3>2. [w EXCEPT !.cancelled = TRUE].at = w.at /\ [w EXCEPT !.cancelled = TRUE].call = w.call
        BY <2>1, <2>3 DEF WaitOK
      <3> HIDE DEF f
      <3> QED
        BY <3>1, <3>2
    <2>6. \A g \in Fiber : InCall(g)' => InCall(g) /\ wait'[g].call = wait[g].call
      BY <2>5 DEF InCall
    <2>7. \A x \in Fd, y \in Event, g \in Fiber : ctx'[x][y] = Start(g) => ctx[x][y] = Start(g)
      BY <1>1, <2>1, <2>4, TriggerStarts
    <2> QED
      BY <1>1, <2>6, <2>7, AwaitedKept
  <1> QED
    BY <1>2, <1>3 DEF RunCallback, RunWake, RunTick

\* Every step keeps the manager from panicking.
LEMMA NextNoPanic == IInv /\ WInv /\ AwaitedOK /\ ~panic /\ [Next]_vars => AwaitedOK' /\ ~panic'
  <1> SUFFICES ASSUME IInv, WInv, AwaitedOK, ~panic, [Next]_vars PROVE AwaitedOK' /\ ~panic'
    OBVIOUS
  <1>1. CallsOK /\ EventsOK
    BY DEF IInv, WInv
  <1>2. ASSUME todo' = todo \/ \E a \in Fiber \cup Caller : \E ops : Calls(a, ops),
               wait' = wait, ctx' = ctx
        PROVE  AwaitedOK'
    <2>1. \A g \in Fiber : InCall(g)' => InCall(g) /\ wait'[g].call = wait[g].call
      BY <1>2 DEF InCall
    <2> QED
      BY <1>1, <1>2, <2>1, AwaitedKept
  <1>3. CASE Worker /\ UNCHANGED hookVars
    <2>1. todo' = todo /\ wait' = wait
      BY <1>3 DEF Worker, BeginRun, Take, FindNone, BecomeIdle, AskNextTimer, EndIdle, EnterWait,
         LeaveWait, ListExpired, ScheduleExpired, Drain, Handle, YieldIdle, hookVars
    <2>2. CASE \E fd \in Fd : Handle(fd)
      <3>1. PICK fd \in Fd : Handle(fd)
        BY <2>2
      <3>2. TriggerEvents(fd, ready[fd]) /\ panic' = panic
        BY <3>1 DEF Handle
      <3>3. \A x \in Fd, y \in Event, g \in Fiber : ctx'[x][y] = Start(g) => ctx[x][y] = Start(g)
        BY <1>1, <3>1, <3>2, TriggerStarts DEF Event
      <3>4. \A g \in Fiber : InCall(g)' => InCall(g) /\ wait'[g].call = wait[g].call
        BY <2>1 DEF InCall
      <3> QED
        BY <1>1, <2>1, <3>2, <3>3, <3>4, AwaitedKept
    <2>3. CASE Take
      <3>1. ctx' = ctx
        BY <2>3 DEF Take, eventVars
      <3> QED
        BY <1>2, <1>3, <2>1, <2>3, <3>1, TakeWInv
    <2>4. CASE \/ BeginRun \/ FindNone \/ BecomeIdle \/ AskNextTimer \/ EndIdle \/ EnterWait
               \/ LeaveWait \/ ListExpired \/ ScheduleExpired \/ Drain \/ YieldIdle
      <3>1. eventVars' = eventVars /\ panic' = panic
        BY <2>4 DEF BeginRun, FindNone, BecomeIdle, AskNextTimer, EndIdle, EnterWait, LeaveWait,
           ListExpired, ScheduleExpired, Drain, YieldIdle
      <3>2. ctx' = ctx
        BY <3>1 DEF eventVars
      <3> QED
        BY <1>2, <2>1, <3>1, <3>2
    <2> QED
      BY <1>3, <2>2, <2>3, <2>4 DEF Worker
  <1>4. ASSUME NEW f \in Fiber, FiberStep(f) PROVE AwaitedOK' /\ ~panic'
    <2>1. CASE SleepReturns(f) \/ Try(f) \/ Register(f) \/ Woken(f) \/ Finish(f)
      BY <2>1, GoOnNoPanic
    <2>2. CASE /\ todo[f] # <<>>
               /\ LET call == Head(todo[f]) IN
                  \/ Sleep(f, call) \/ Socket(f, call) \/ Io(f, call) \/ Connect(f, call)
                  \/ Close(f, call) \/ SetSockOpt(f, call) \/ Fcntl(f, call)
                  \/ GetFl(f, call) \/ Ioctl(f, call)
                  \/ Watch(f, call)
      <3> DEFINE call == Head(todo[f])
      <3>1. call = Head(todo[f])
        OBVIOUS
      <3>2. CASE Watch(f, call)
        BY <2>2, <3>2, WatchNoPanic
      <3>3. CASE \/ Sleep(f, call) \/ Socket(f, call) \/ Io(f, call) \/ Connect(f, call)
                 \/ Close(f, call) \/ SetSockOpt(f, call) \/ Fcntl(f, call)
                 \/ GetFl(f, call) \/ Ioctl(f, call)
        BY <2>2, <3>3, CallNoPanic
      <3> QED
        BY <2>2, <3>2, <3>3
    <2> QED
      BY <1>4, <2>1, <2>2 DEF FiberStep
  <1>5. CASE RunCallback
    BY <1>5, CallbackNoPanic
  <1>6. CASE \E c \in Caller : ThreadStep(c)
    <2>1. PICK c \in Caller : CallerStep(c) /\ UNCHANGED hookVars
      BY <1>6 DEF ThreadStep
    <2> DEFINE call == Head(todo[c])
    <2>2. \/ CallerSchedule(c, call) \/ CallerAddTimer(c, call) \/ CallerResetTimer(c, call)
          \/ CallerRefreshTimer(c, call) \/ CallerCancelTimer(c, call)
          \/ CallerTrickle(c) \/ CallerStop(c) \/ CallerJoined(c)
      BY <2>1, Zenon DEF CallerStep
    <2>3. UNCHANGED <<eventVars, panic>>
      BY <2>2 DEF CallerSchedule, CallerAddTimer, CallerResetTimer, CallerRefreshTimer,
         CallerCancelTimer, CallerTrickle, CallerStop, CallerJoined
    <2>4. ctx' = ctx /\ wait' = wait /\ panic' = panic
      BY <2>1, <2>3 DEF eventVars, hookVars
    <2>5. todo' = todo \/ \E ops : Calls(c, ops)
      BY <2>2 DEF CallerSchedule, CallerAddTimer, CallerResetTimer, CallerRefreshTimer,
         CallerCancelTimer, CallerTrickle, CallerStop, CallerJoined
    <2> QED
      BY <1>2, <2>4, <2>5
  <1>7. CASE ClockStep \/ KernelStep \/ UNCHANGED vars
    <2>1. UNCHANGED <<eventVars, todo, wait, panic>>
      BY <1>7 DEF ClockStep, KernelStep, Elapses, Arrives, hookVars, vars, ioVars
    <2>2. ctx' = ctx
      BY <2>1 DEF eventVars
    <2> QED
      BY <1>2, <2>1, <2>2
  <1> QED
    BY <1>3, <1>4, <1>5, <1>6, <1>7 DEF Next, WorkerStep

\* A program that keeps to what addEvent asks of its callers, that nobody awaits
\* an event that somebody else does, fails no CondPanic, in whatever order its
\* events, timeouts, cancellations and closes come; and so no fiber is lost or
\* woken twice, the events are counted, and the worker ends with nothing left.
THEOREM ExclusiveNeverPanics ==
    Spec /\ Exclusive(todo)
    => [](NoPanic /\ PendingIsRegistered /\ WokenOnce /\ ExitLeavesNothing)
  <1>1. Init /\ Exclusive(todo) => AwaitedOK /\ ~panic
    <2> SUFFICES ASSUME Init, Exclusive(todo) PROVE AwaitedOK /\ ~panic
      OBVIOUS
    <2>1. \A f, fd, e : ~InCallFor(f, fd, e) \/ f \notin Fiber
      BY DEF Init, InCallFor, InCall, Body
    <2>2. \A fd \in Fd, e \in Event, g \in Fiber : ctx[fd][e] # Start(g)
      BY NoneAssumption DEF Init, Start
    <2> QED
      BY <2>1, <2>2 DEF AwaitedOK, Init
  <1>2. IInv /\ WInv /\ AwaitedOK /\ ~panic => NoPanic
    BY DEF NoPanic
  <1> QED
    BY <1>1, <1>2, InitInv, NextInv, InitWInv, NextWInv, NextNoPanic, PendingCounted,
       SuspendedWokenOnce, ExitsWithNothingLeft, PTL DEF Spec
=============================================================================
