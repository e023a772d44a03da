------------------------------- MODULE MCHook -------------------------------
(* Four programs of three fibers, two other threads and one socket.  *)
EXTENDS Hook

CONSTANTS f1, f2, f3, c1, c2, d1

On(op, fd, event) == [op |-> op, fd |-> fd, event |-> event]
Do(op, ms) == [op |-> op, ms |-> ms]
Run(f) == [op |-> "schedule", fiber |-> f]
Timer(ms, repeat, cb) == [op |-> "timer", ms |-> ms, repeat |-> repeat, cb |-> cb]
Option(type, ms) == [op |-> "timeout", fd |-> d1, type |-> type, ms |-> ms]
WatchFor(event, f) == [op |-> "watch", fd |-> d1, event |-> event, fiber |-> f]
Stop == <<Do("stop", 0)>>

\* A read that times out, is answered, or finds its socket closed by f2, which
\* sleeps for half as long; c2 schedules a fiber while the worker goes to sleep.
Reading ==
    f1 :> <<Do("socket", 0), Option("SO_SNDTIMEO", 2), On("io", d1, "READ")>>
 @@ f2 :> <<Do("sleep", 1), On("close", d1, "READ")>>
 @@ f3 :> <<>>
 @@ c1 :> <<Run(f1), Run(f2)>> \o Stop
 @@ c2 :> <<Run(f3)>>

\* One socket is read by f1 and written by f2, which cancels the read.
Both ==
    f1 :> <<Do("socket", 0), Option("SO_RCVTIMEO", 2), On("io", d1, "READ"), On("close", d1, "READ")>>
 @@ f2 :> <<On("connect", d1, "WRITE"), On("io", d1, "WRITE"), On("trigger", d1, "READ"), Run(f3)>>
 @@ f3 :> <<[op |-> "fcntl", fd |-> d1, on |-> TRUE], On("getfl", d1, "READ"), On("io", d1, "READ")>>
 @@ c1 :> <<Run(f1), Run(f2)>> \o Stop
 @@ c2 :> <<>>

\* A callback waits for the socket, is withdrawn, and waits again.
Watching ==
    f1 :> <<Do("socket", 0), WatchFor("WRITE", f3), On("unwatch", d1, "WRITE"),
            [op |-> "ioctl", fd |-> d1, on |-> TRUE], On("io", d1, "WRITE"),
            WatchFor("READ", f2), Do("sleep", 1), On("close", d1, "READ")>>
 @@ f2 :> <<On("io", d1, "READ")>>
 @@ f3 :> <<>>
 @@ c1 :> <<Run(f1)>> \o Stop
 @@ c2 :> <<Timer(1, FALSE, Tick)>>

\* A repeating timer is set, given other periods and cancelled beside a sleep.
Timing ==
    f1 :> <<Do("sleep", 3)>>
 @@ f2 :> <<>>
 @@ f3 :> <<>>
 @@ c1 :> <<Timer(3, TRUE, Tick), [op |-> "reset", ms |-> 1, fromNow |-> FALSE, cb |-> Tick],
            [op |-> "refresh", cb |-> Tick], [op |-> "reset", ms |-> 2, fromNow |-> TRUE, cb |-> Tick],
            [op |-> "cancel", cb |-> Tick],
            [op |-> "reset", ms |-> 1, fromNow |-> TRUE, cb |-> Tick]>> \o Stop
 @@ c2 :> <<Run(f1)>>

MCCall == UNION {UNION {Range(p[a]) : a \in DOMAIN p} : p \in {Reading, Both, Watching, Timing}}

MCPrograms == {Reading, Both, Watching, Timing}
=============================================================================
