------------------------------- MODULE Timers -------------------------------
(***************************************************************************)
(* The timers of one TimerManager (timer.cpp).  next_ is an absolute time  *)
(* in the code; here "left" is the time that is left until next_, and 0    *)
(* once next_ has been reached, so the model needs no clock.  A timer is   *)
(* identified by its callback: no two timers have the same one.            *)
(*                                                                         *)
(* The clock is CLOCK_MONOTONIC_RAW and one thread reads it in             *)
(* listExpiredCb, so detectClockRollover never finds it behind             *)
(* previousTime_ and is not modelled.                                      *)
(***************************************************************************)
EXTENDS Integers

\* ~0ull, what getNextTimer returns when there is no timer.
Forever == -1

\* Timer::Timer
NewTimer(ms, repeat, cb) == [left |-> ms, ms |-> ms, repeat |-> repeat, cb |-> cb]

\* Timer::Comparator: whether t, inserted into ts, can be the first timer, and
\* whether it can be another one.  Timers for the same time are ordered by
\* address, and which of several timers that are due was due first is not known.
Fronts(ts, t) == {front \in BOOLEAN :
                    IF front THEN \A u \in ts : t.left <= u.left
                             ELSE \E u \in ts : u.left <= t.left}

\* TimerManager::getNextTimer returns the time to the first timer.
IsNextTimer(ts, next) ==
    IF ts = {} THEN next = Forever
    ELSE \E t \in ts : next = t.left /\ \A u \in ts : t.left <= u.left

\* TimerManager::listExpiredCb: the timers whose callbacks it returns ...
Due(ts) == {t \in ts : t.left = 0}

\* ... and the ones it leaves: a repeating timer starts again from now.
Expired(ts) == (ts \ Due(ts)) \cup {[t EXCEPT !.left = t.ms] : t \in {u \in Due(ts) : u.repeat}}

\* Timer::cancel erases the timer from the manager's set, if it is still there.
Cancel(ts, cb) == {t \in ts : t.cb # cb}

\* Timer::refresh starts the timer again from now.
Refresh(ts, cb) == {IF t.cb = cb THEN [t EXCEPT !.left = t.ms] ELSE t : t \in ts}

\* Timer::reset gives the timer another period, from now or from its last
\* start.  A timer that is due may have been so for any time.
Starts(t, ms, fromNow) ==
    IF fromNow THEN {ms}
    ELSE LET left == t.left - t.ms + ms IN
         CASE left <= 0               -> {0}
           [] left > 0 /\ t.left > 0 -> {left}
           [] left > 0 /\ t.left = 0 -> 0 .. left

\* The clock: one unit passes.
Elapse(ts) == {[t EXCEPT !.left = IF @ = 0 THEN 0 ELSE @ - 1] : t \in ts}
=============================================================================
