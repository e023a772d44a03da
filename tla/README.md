# TLA+ specification of KVstorage

KVstorage is a key-value store replicated with Raft. Each server is a process
with three layers: `KvServer` (client requests, the state machine in a skip list,
snapshots), `Raft` (elections, the replicated log, persistence) and the `mprpc`
layer (protobuf over muduo/TCP). `Clerk` is the client library. Under `Raft` runs
a fiber library: `Raft::init` creates an `IOManager` with one worker thread
(raft.cpp:50-55) and runs its two tickers in fibers of that thread, whose
`usleep` is replaced by a timer of the library.

All paths below are relative to the repository root or to `src/src`; line numbers
are those of the commit the modules were written against.

## 1. Inventory

| Component | State | Operations | Hard parts | What makes it correct |
|---|---|---|---|---|
| Raft node, `src/raftCore/raft.cpp` | `currentTerm_`, `votedFor_`, `status_`, `logs_`, `lastSnapshotInclude*_`, `commitIndex_`, `lastApplied_`, `nextIndex_`, `matchIndex_`, one shared vote counter per election, one shared success counter per heartbeat round | `doElection`, `requestVoteImpl`, `sendRequestVote`, `doHeartBeat`, `appendEntriesimpl`, `sendAppendEntries`, `start`, `applierTicker`/`getApplyLogs`, `leaderSendSnapshot`, `installSnapshotImpl`, `snapshot`, `init`/`readPersist` | `mutex_` is released during every RPC; one thread per peer and round; replies arrive late, never, or after a crash of either side; index arithmetic over a log that starts behind a snapshot | one leader per term; logs without gaps; entries identified by (index, term); acknowledged entries stay; `commitIndex_` backed by a majority; committed entries in every later leader |
| Persister, `src/raftCore/Persisiter.cpp` | state file, snapshot file | `SaveRaftState`, `Save`, `ReadRaftState`, `ReadSnapshot` | a crash between the two renames of `Save`; a write that fails silently | the files belong together; durable votes and terms |
| KvServer, `src/raftCore/KvServer.cpp` | skip list, `lastRequestIdMap_`, `waitApplyCh_`, `lastSnapShotRaftLogIndex_`, the queue `applyChan_` | `getImpl`, `putAppendImpl`, `getCommandFromRaft`, `getSnapshotFromRaft`, snapshot making, start-up load | handlers, the apply loop and the pushers of Raft interleave; 500 ms timeouts; retries of writes that did commit; snapshots that arrive late or in the wrong order | every replica is the replay of the committed log with each request once; an acknowledged write is committed; a read sees every write acknowledged before it |
| Clerk, `src/raftClerk/clerk.cpp` | `requestId_`, `recentLeaderId_` | `Get`, `putAppend` (retry for ever over the servers) | retries of requests that took effect | together with KvServer: exactly-once, linearizable operations |
| Skip list, `src/skipList/include/skipList.h` | header node, `forward_` towers, `curLevel_`, `elementCount_` | insert, search, delete, `insertSetElement`, `dumpFile`, `loadFile` | levels appear and disappear; the top level; a set is three locked steps | it is a sorted map; every level is a sublist of the one below |
| RPC channel and provider, `src/rpc/mprpcchannel.cpp`, `rpcprovider.cpp` | one socket per peer, shared by all calling threads | `CallMethod`, `newConnect`, `OnMessage`, `SendRpcResponse` | concurrent calls on one socket without a lock; no length framing of replies; bytes that arrive in pieces; a closed connection reads as an empty reply | a reply answers the call that reads it; a request is executed once, as asked; nobody waits for an answer that cannot come |
| Messages, `src/raftRpcPro/*.pb.*`, `src/rpc/rpcheader.pb.*` (generated) | none | serialise, parse | fields with their default value are not on the wire; the last of two equal fields counts | what is read is what was written |
| Queues and operations, `src/common` | `LockQueue` | `push`, `pop`, `timeOutPop` | timeouts | FIFO |
| Fiber scheduler, `src/fiber/scheduler.cpp`, `fiber.cpp` | task list, active and idle counts, `isStopped_`, fiber states | `scheduler`, `run`, `stop`, `resume`, `yield` | a push races the worker on its way to sleep | a task is run; a fiber is never resumed twice; `stop` returns |
| Timers, `src/fiber/timer.cpp` | the ordered set of timers, `tickled_` | `addTimer`, `cancel`, `refresh`, `reset`, `getNextTimer`, `listExpiredCb` | a timer set by another thread while the worker sleeps | the worker never sleeps past a timer |
| I/O manager and hooks, `src/fiber/io_manager.cpp`, `hook.cpp`, `fd_manager.cpp` | events and their waiters per descriptor, `pendingEventCnt_`, the tickle pipe, what is known of a descriptor | `addEvent`, `delEvent`, `cancelEvent`, `cancelAll`, `idle`; the replaced calls of libc | event, timeout, cancellation and close compete for one waiting fiber; edge-triggered epoll | every call returns; exactly one of them wakes the fiber |
| Configuration parser, fiber utilities, examples | none of interest | | | |

Interaction: `Clerk` calls `KvServer::Get/PutAppend` over RPC; the handler hands
an `Op` to `Raft::start` and waits on a channel; Raft nodes call each other over
RPC; `applierTicker` pushes committed commands into `applyChan_`, a detached
thread of `installSnapshotImpl` pushes snapshots into the same queue, and
`readApplyCommandLoop` takes both out, changes the skip list, wakes the handler
and may call `Raft::snapshot`, which cuts the log and writes both files. Every
call goes through one `MprpcChannel` per peer. The tickers of `Raft` sleep in the
timers of the I/O manager.

The hazards of each part, at their lines, are listed in `PROJECT.json`.

## 2. Modules

| Module | Content |
|---|---|
| `Raft.tla` | The Raft node with its two files and the calls between nodes |
| `MCRaft.tla`, `MCRaft_*.cfg` | Raft for TLC: symmetry, state constraints, a start with an elected leader |
| `MCRaftSchedule.tla` | Raft with a given candidate and command count per term, for the 26-step counterexample of run `truncation` |
| `KvServer.tla` | The key-value servers and their clerks over an abstract committed log |
| `MCKvServer.tla`, `MCKvServer_*.cfg` | KvServer for TLC: symmetry and a state constraint |
| `SkipList.tla` | The skip list with its towers, and threads that use it |
| `KeyMap.tla` | Abstract specification of the skip list: a map with a dump |
| `MCSkipList.tla` | SkipList for TLC |
| `Wire.tla` | How protobuf writes and reads the messages of the three .proto files |
| `RpcChannel.tla` | One `MprpcChannel`, the threads that share it, its connections, and the provider |
| `MCRpcChannel.tla`, `MCRpcChannel_*.cfg` | RpcChannel for TLC, with a few messages of every kind |
| `Timers.tla` | Pure operators on a set of timers |
| `IoManager.tla` | The scheduler, its worker thread, the I/O manager, and epoll, the pipe and the clock as the code sees them |
| `Hook.tla` | The replaced calls of libc over IoManager, their fairness and their properties |
| `MCHook.tla` | Four programs of three fibers and two threads, for TLC |
| `RaftProofs.tla` | Types, contiguous logs and index ranges as an inductive invariant |
| `ElectionProofs.tla` | One winner per term |
| `CommitProofs.tla` | Votes on disk, the length of the logs; whatever a server regards as committed, a majority has on disk |
| `LeaderProofs.tla` | A term is won once and has no rival; an index and a term name one entry; what a follower has acknowledged it keeps within the term |
| `SkipListProofs.tla` | Every level is linked, a search finds what is there, a set is undone by nobody; the refinement of `KeyMap` |
| `RpcProofs.tla` | A request is executed once at most, and as it was asked; one caller keeps its socket, does not wait for nothing, and gets its own answer |
| `KvProofs.tla` | Acknowledged writes, reads, wait channels and the data of the key-value servers |
| `FiberProofs.tla` | The worker never sleeps past a timer; a suspended fiber has one waker; the events are counted; nothing is left at the end; no assertion fails |

## 3. How the modules correspond to the code

### Raft.tla

*One critical section, one action.* Every handler takes `mutex_` at its start
and holds it to its end; a thread that calls a peer holds it before the call,
releases it for the call and takes it again for the reply. So an action is a
whole handler or the reply half of a calling thread, with its trailing
`persist()`. What a thread remembers across the call (its arguments, the shared
counter of its round) is the record of the call in `rvCalls`, `aeCalls` or
`isCalls`: `phase = "request"` until the callee has handled it, then `"reply"`.

*Messages.* `RaftRPCUtil` retries nothing: a call is delivered at most once. It
may stay unanswered, fail (`...End`), be answered arbitrarily late, and calls
overtake each other freely. When its caller dies the request may still be
delivered (`live = FALSE`) but nobody reads the answer. An InstallSnapshot that
is refused as old gets no bytes back; its caller blocks until the connection
closes and then reads an empty message (`"unanswered"`, then a reply of term 0).

*Crashes.* `Restart` is a crash followed by `init()`: memory is rebuilt from the
state file. `CrashInSnapshot` and `CrashInInstallSnapshot` are the crash between
the two writes of `Persister::Save`: the state file is new, its log cut, and the
snapshot file is the one before. A failing `myAssert` exits the process and
is a crash too; the properties `NoDoubleWin`, `EntryIdentity`, `CommitWithinLog`
and `LogContiguous` state the asserts.

*Indices.* Logical indices, positions in `logs_` and the snapshot index are kept
apart as in the code. TLA+ sequences start at 1, so
`getSlicesIndexFromLogIndex` is one more than in C++.

*Abstractions.* Commands are model values. A snapshot is the index up to which
it was made. The tickers' clocks are left out: a ticker may fire whenever it
would act. `appstate`, `votestate`, `lastapplied` and other fields nobody reads
are left out. `Raft.tla` assumes that a reply answers the call that reads it,
which `MprpcChannel` does not ensure when two threads share its socket (run
`shared`).

*History.* `voteHistory[j][t]` is the candidate `j` voted for in term `t`,
`leaders[t]` who won it, `restarts` the number of crashes. No guard reads them
but the bound on crashes.

### KvServer.tla

*Actions.* KvServer holds `mutex_` for single accesses to its tables, so a
handler is several actions: `start()`, registering the channel, waking up or
timing out, the read of a Get. `TimedOut...` may fire although the channel has
been filled, because the request table is looked at after `timeOutPop` has
returned. `getCommandFromRaft` is one action although it takes the mutex four
times: only the apply loop writes the skip list, and a handler that gets in
between finds what it would find before or after, with one exception: a Get that
reads between the execution of a command and `makeSnapshot` puts its request id
into that snapshot.

*Raft.* The module relies on three facts about Raft: the committed log only
grows; the index `start()` returns is new on its server (`LastLogIndexMonotonic`
of `Raft.tla`, across crashes too); what a server's applier collects are the
committed commands behind `lastApplied_`. Any server may take itself for the
leader, so two servers may propose for the same index and one of them loses. The
first fact does not hold in the situation of run `truncation`; what KvServer
promises is conditional on it. The sizes that trigger a snapshot are left open:
any command may be followed by one. A leader's snapshot reaches its follower in
one step, with whatever file the leader has; the thread that pushes it into
`applyChan_` is taken to do so after the `Save` of raft.cpp:665, which it need not
wait for.

*Files and crashes.* `snapshotIndex[i]` is `lastSnapshotIncludeIndex_` in the state
file, `snapshotFile[i]` the snapshot file, which is empty at first (`NoSnapshot`, by
`NoSnapshotAssumption` no store); nothing says that the two belong together.
`Restart` is a crash between two critical sections; `CrashInSnapshot` and
`CrashInInstallSnapshot` are the crash between the two writes of
`Persister::Save`, after which index and file are of different age. In all three
`lastApplied_` is the index of the state file (raft.cpp:42-44) and the data that
of the snapshot file (KvServer.cpp:67-70), as `DiesWith` has it.

*Clerks.* One thread per client. `RpcFails` is a connection that breaks while
the handler lives (the handler goes on, `live = FALSE`); `RetryClosed` a peer
that died, which the channel reports as a failure or as an empty reply. Two
abandoned requests that are still in the network and equal in every field are
one element of `calls`.

*Values.* A value is the sequence of the requests that wrote it, so that every
duplicate shows. A key without a value is the empty sequence.

*History.* `kvIndex[i]` is the index of the last command or snapshot server `i`
went through, or started behind; `torn` are the servers that once died inside
`Persister::Save`; `done` the log position of the latest operation that has returned,
`floor[c]` that position when client `c` invoked its request.

### SkipList.tla

*State.* `node` maps the keys of the allocated nodes, and the header, to towers:
a value and a `forward` pointer per level. A freed node is not in its domain, so a
dangling pointer is one that leads out of it. The loop that walks a level is a
recursive function over the nodes of the level (`Walk`), the loop over the levels one
over the levels (`update`): in a list whose pointers were wrong they would have no
value, as the code would have no defined behaviour. `NullAssumption` says that a null
pointer is no node and no value.

*Actions.* `insertElement`, `deleteElement`, `dumpFile` and `loadFile` hold the
mutex from beginning to end and are one action each; `searchElement` changes
nothing and is the operator `Search`; `insertSetElement` takes the mutex three
times and is three actions. A random level is any level `getRandomLevel` can return. `dumpFile` keeps the last dump, and
`Construct` is a new list that finds the old dump, as at a restart.

*Abstract specification.* `KeyMap` has a map, a dump of it, and no levels.
`MapRefinement` maps the towers to what the search from the top level finds.

### Wire.tla and RpcChannel.tla

*Bytes.* A stream is a sequence of units: a field's number, wire type, value, and
which part of how many, so that a long value can be cut. Sizes are counted in
units. `XFields` lists the fields of a message, `XOut` is its `_InternalSerialize`
and `XIn` its `_InternalParse`, which takes the units with the number and the wire
type of a field (`Places`): fields with their default value are left out, a
later field of the same number replaces an earlier one, an unknown field is put
aside. That is why two replies read as one message mix.

*Actions.* `CallMethod` uses the member `sockfd_` without a lock, so every use is
an action: socket, connect, send, recv, the close and the reset to -1. `recv`
keeps the descriptor it was entered with. `OnMessage` takes all bytes that have
arrived, executes one request and drops the rest. `Break` is a peer, or a network,
that goes away; what was on its way back may still arrive.

*History.* Every unit carries the number of its call; `asked` and `handled` say
what was called and what was executed; `dropped`, `shared` and `cut` say when the
preconditions of a property no longer hold.

### Timers.tla, IoManager.tla and Hook.tla

*Configuration.* One worker thread and `useCaller` off, as `Raft::init` has it.
The other threads (`Caller`) schedule tasks, set, reset, refresh and cancel timers,
and stop the manager; nobody uses it once `stop()` has begun.

*Time.* A timer holds the time that is left, not an absolute time; `Elapse` is one
unit for all of them and for `epoll_wait`. Timers that are due at the same time
expire in any order (the code orders them by address). Time does not pass between
`getNextTimer` and `epoll_wait`: `idle()` is taken to make that step within one
millisecond. `IntMax` is the greatest `int`, and `asInt` the cast of
io_manager.cpp:262, which makes what is greater negative.

*The worker.* `pc` is where it is in `run()` and `idle()`; every access to a
shared variable without a common lock is an action, which puts other threads
between the look at the list and `idleThreadCnt_++`, between `stopping()` and
`epoll_wait`, and between the expired callbacks. A thread outside does its push or
insertion under the lock and its tickle after it (`CallerTrickle`). epoll is edge
triggered: `edge` is what it has still to report, and every `epoll_ctl` makes it
look anew.

*Hooks.* `do_io` is its first look (`Io`), the call of libc with the setting of the
timer (`Try`), `addEvent` with the yield (`Register`), and what follows when it is
woken (`Woken`). The timer's callback runs in a fiber of its own (`RunTimeout`)
and does nothing for a call that has returned: the weak pointer `timer_info`. Two
fibers may be in calls on one socket, and a third may close it.

*Programs.* What each fiber and thread calls, in order, is a constant
(`Programs`); nothing in the module depends on which programs there are, and
`FiberProofs` is about all that keep to the named assumptions of `IoManager.tla`.

## 4. Runs

All runs of Raft have three servers. The bounds stop every behaviour, so
deadlock is not checked. `MaxTerm`, `MaxIndex`, `MaxRound` and `MaxRestart` are
guards of the module; `MaxElection`, `MaxCall` (RPCs outstanding at the same
time) and `MaxBeat` (heartbeat rounds of all servers) are the state constraint of
`MCRaft.tla`. Servers and commands are symmetric. `replication` starts where one
server has won term 1 with a second one's vote (`ElectedInit`), a state `Init`
reaches in four steps. `recovery` starts in `Init`; its constraint `Recovery`
bounds the elections while all logs are empty, and what is replicated behind such
a start (`OneSuccessor`).

| Run | Bounds | Properties |
|---|---|---|
| `replication` | 2 terms, 2 log slots, 2 commands, 2 rounds, 3 calls | `EntryIdentity`, `CommitCarried`, `CommittedOnMajority`, `NoRivalAppend`, `AckedEntriesStay` |
| `recovery` | 2 heartbeat rounds, 1 crash at any step, also inside `Save`; with empty logs 3 terms, 3 elections, 6 calls; behind an elected leader 2 calls, snapshots, and 2 slots, or a second term and 1 slot | `ElectionSafety`, `NoDoubleWin`, `TypeOK`, `CommitWithinLog`, `LogContiguous`, `LastLogIndexMonotonic`, `DurableVoteStable` |
| `truncation` | 4 terms, given candidates | violates `LeaderCompleteness` |

All runs of KvServer have two servers and one key, two requests in all, and the
constraint of `MCKvServer.tla`: on the log length, on what a server has collected
but not received, on the RPCs outstanding at the same time, on timeouts and lost
answers together, and on the kinds of operations (Put and Append differ only in
the value they leave, which `retry` does not look at). The clients and the key are symmetric.

| Run | Bounds | Properties |
|---|---|---|
| `retry` | 2 clients, 1 timeout or lost answer, 2 RPCs at a time, Append and Get, log of 3 | `AckedIsCommitted`, `ReadsCurrent`, `ChannelOwned` |
| `replica` | 1 client, snapshots, 1 timeout, 1 crash at any step, also inside `Save`, 1 install, log of 2, queue of 2 | `TypeOK`, `AckedIsCommitted`, `ReplicaMatchesLog` |
| `late_get` | 1 client, 1 timeout, 1 lost answer, Append and Get, log of 4 | violates `WritesOnce` |
| `install_state` | 2 clients, snapshots, 1 install, log of 3 | violates `InstalledSnapshotIsState` |
| `torn_save` | 1 client, snapshots, 1 crash, log of 2 | violates `NothingSkipped` |

The skip list, the channel and the fibers:

| Run | Bounds | Properties |
|---|---|---|
| `skiplist` | 3 keys, 2 values, `maxLevel_` 2, 2 threads, no other bound | `LevelsLinked`, `CountersRight`, `SearchFinds`, `HoleIsTransient`, `SetTakesEffect`, refinement of `KeyMap` |
| `rpc` | all 5 methods, 2 threads, 2 calls, 2 sockets, `recv` of 3 units, 1 split, 1 break; constraint `LastIsGet` | `AtMostOnce`, `HandledAsAsked`, `OwnReplyOneByOne`, `NoLeak`, `AnswerOnItsWay` |
| `shared` | 2 threads, a heartbeat and a vote request, no fault | violates `OwnReply` |
| `fiber` | 3 fibers, 2 threads, 1 socket, times up to 3, `IntMax` 3, `MAX_TIMEOUT` and connect timeout 2 | `NoPanic`, `WokenOnce`, `PendingIsRegistered`, `NoOversleep`, `ExitLeavesNothing`, `TasksRun`, `CallsReturn`, `StopReturns` |

A log of three holds both requests and one duplicate, a log of two a request and
its duplicate, on two servers that disagree; a queue of two holds a snapshot and
the command that overtook it. `ReplicaMatchesLog` is stated for the case that no
clerk gave up on a running handler and no snapshot was installed, and about the
servers that never died between the two files of `Persister::Save`: `late_get`,
`install_state` and `torn_save` are what happens otherwise. `ReadsCurrent` too is
stated up to the first installed snapshot, which may be older than the data it is
loaded over, and about the answers of servers outside `torn`. `NothingSkipped`,
which `torn_save` violates, is `ReplicaMatchesLog` with every server in it. A torn
`Save` only makes a request table older, so `AckedIsCommitted` needs no such
condition.

Two terms are what a deposed leader and its successor need, three what elections
that overlap need; two slots are the smallest log whose entries can be cut by a
snapshot in the middle; a second round is what a late reply of the first has to
interleave with. Three keys give a node with neighbours on both sides at every
level, two levels above the bottom let a level appear and vanish over another.
A `recv` of three units is shorter than the long answer of a Get, which stands for
the 1024 bytes of `recv_buf`; two calls are a call and what it leaves to the next.
The four programs of `MCHook` put a timeout, an answer and a close on one read;
both events of one socket on two fibers and a callback that cancels one of them;
a callback that waits for a socket and is withdrawn; and a timer that is reset,
refreshed and cancelled while the worker sleeps. Each property of a passing run is
broken by a plausible slip (the operators marked `Slip` in the modules) under the
same bounds, so the bounds do reach the interesting states.

*Fairness.* Raft, KvServer, SkipList and RpcChannel state safety only: a caller of
`recv` without a timeout, a clerk that retries for ever and an election that nobody
wins give no ground for more. `Hook.tla` assumes that the operating system runs the
worker and each thread (`WF` of `WorkerStep` and of every `ThreadStep`) and that
time passes (`WF` of `ClockStep`). Nothing is assumed of the kernel's sockets: a
socket may never become ready, and what ends a call then is its timeout or a close.

### What the violations show

* `truncation`: `appendEntriesimpl` overwrites a conflicting entry but keeps what
  is behind it (raft.cpp:522). So the log of a follower that acknowledged a newer
  entry ends with an old one, and the vote compares last entries only
  (`upToDate`). The follower, one of the majority that has the newer entry, votes
  for a candidate whose log ends in a term between the two and lacks it: the
  candidate wins and leads without an entry that another leader had committed. It
  is the voter that holds the stale suffix, not the winner.
* `late_get`: an Append is in the log twice. Between its two copies a handler of
  an earlier, abandoned Get runs `execGetOpOnKVDB` and moves the client's last
  request id back; the second copy is executed again.
* `install_state`: `installSnapshotImpl` advances `lastApplied_` and leaves the
  push to a detached thread, so the applier may push later commands first; and
  `loadFile` skips keys that exist. The replica then differs from the snapshot it
  was given and from every other replica.
  A Get answered there may then miss a write that had returned, on a server whose
  `kvIndex` went back to the snapshot's.
* `shared`: two calls over one channel read each other's answers, or both as one
  message; a heartbeat's `Success` then counts as a vote.
* `torn_save`: `Persister::Save` renames the state file, whose log is cut at the new
  snapshot already, and then the snapshot file (Persisiter.cpp:27-28). A server that
  dies in between goes on behind the new index with the data of the old snapshot;
  the commands between the two are in none of its files and it never executes them;
  a later snapshot of a leader brings it the keys that it does not have. Persister.h:13 says that state and
  snapshot are saved atomically.

### What the modelling met besides

None of these has a run of its own; the modules behave this way.

* After a crash inside `Persister::Save` (run `torn_save`) the entries that were cut
  off are on no disk of that server. `CommittedOnMajority` counts a server by how
  far its state file reaches, its snapshot index included, and so counts such a
  server too: it says that a majority was sent the entries and has not taken them
  back, not that a majority can still produce the commands. `LogContiguous` holds
  all the same.
* `installSnapshotImpl` keeps the entries behind an installed snapshot without
  comparing terms (raft.cpp:639), so those of a dead leader may stay.
  `LogContiguous` does not tell them from others. They are of the kind of the stale
  suffix in `truncation`.
* `insertSetElement` gives up its mutex between its steps (skipList.h:306).
  `HoleIsTransient` and `SetTakesEffect` say what holds for threads that share a
  list; in this program only the apply loop writes the list and every use of it is
  under KvServer's mutex, so nobody meets the hole.
* `OnMessage` handles one request of what has arrived and drops the rest
  (rpcprovider.cpp:110): a request that was dropped is never answered, and its
  caller waits in `recv`. An answer longer than `recv_buf` is cut
  (mprpcchannel.cpp:98), and one that serialises to nothing does not end `recv`
  (mprpcchannel.cpp:100). `AnswerOnItsWay` and `OwnReplyOneByOne` leave these cases
  out: they are stated for connections on which nothing was dropped and for answers
  that are not empty, or that came whole.
* A peer that refuses an old snapshot (raft.cpp:635) or dies leaves an empty
  InstallSnapshot reply, which `leaderSendSnapshot` takes for success
  (raft.cpp:939).
* `leaderSendSnapshot` does not look at `status_` when it fills its request
  (raft.cpp:906): a node that is no longer leader sends a snapshot in the term of
  the new leader, which steps down for it (raft.cpp:631).
* `doElection` does not reset `lastResetElectionTime_` (raft.cpp:127). Once the
  longest timeout (500 ms) has passed without a reset, the ticker starts one
  election after the other and never sleeps, and votes arrive for terms that have
  passed. Safety does not depend on it; the ticker of `Raft.tla` may fire at any
  time.
* The success counter belongs to one heartbeat round (raft.cpp:338). With five
  servers an entry that a majority stored over two rounds waits for a third. With
  one server nobody is ever asked for a vote, and there is no leader
  (raft.cpp:730).
* A task pushed after the worker has found the list empty and before it counts
  itself idle tickles nobody (scheduler.cpp:146). The comment of
  io_manager.cpp:346-349 relies on the tickle; what saves the task is that
  `epoll_wait` never waits longer than `MAX_TIMEOUT`, five seconds. `TasksRun`
  holds because of it and fails without.
* `do_io` asks `getTimeout` for the event and not for `SO_RCVTIMEO` (hook.cpp:94),
  so every call uses the send timeout; its default 0 makes a call that has to wait
  time out at once.
* A fiber woken by a close tries its call again on the same number (hook.cpp:99),
  which may be a new socket by then. `ioctl(FIONBIO)` with 0 makes the kernel's
  socket blocking (hook.cpp:489): the next read blocks the worker. Once `F_SETFL`
  has set `O_NONBLOCK` it cannot be taken back (hook.cpp:397).
* A repeating timer, or a ticker that never returns, keeps `stop()` waiting
  (io_manager.cpp:372); `StopReturns` is stated without one. A signal starts
  `epoll_wait` anew with the whole timeout (io_manager.cpp:269): `NoOversleep` holds
  between signals. `FdManager::get` compares with `>` (fd_manager.cpp:79) and so reads
  one cell past its table for the descriptor equal to its size.
* `next_timeout` is cast to `int` before the minimum with `MAX_TIMEOUT` is taken
  (io_manager.cpp:262). A first timer of 2^31 ms or more, such as `sleep(2147484)` in a
  hooked fiber, makes it negative, and `epoll_wait` waits without a limit where the
  comment of io_manager.cpp:248 has a longest wait of five seconds: if nothing else
  tickles the worker, that sleep never returns. `asInt` has it so. The programs of run
  `fiber` have times that fit into an `int`, and the theorem about `NoOversleep` is for
  those (`DelaysFit`).
* `OnMessage` does not look at the results of `ReadVarint32` and `ReadString`
  (rpcprovider.cpp:127): a header cut right before `args_size` is executed with
  empty arguments, which `HandledAsAsked` admits and nothing worse.

## 5. Proofs

The theorems about Raft hold for every finite set of servers and all bounds, those
about KvServer for any number of servers, any clients and keys and all bounds, those
about the skip list for any number of keys, any height, values and threads, those
about the channel for any threads, sockets, arguments and answers, those
about fibers for all programs, fibers, threads, sockets and times; the
assumptions are the named ASSUMEs of the modules.

`RaftProofs.tla`: the inductive invariant `LogInv` is `TypeOK`, `LogContiguous`,
`CommitWithinLog` and `CallsWithinLog` (a success reply refers to indices the
leader's log reached when it sent the call, which is why `commitIndex_` stays
inside the log). Types alone are not inductive: `logs_` is indexed by
differences of indices, which are natural numbers only because logs are
contiguous and snapshots lie inside them. One lemma per action;
`LogInvariant`, `TypeCorrect`, `NoGaps` and `CommitInLog` follow.

`ElectionProofs.tla`: `ElectionSafety` is not inductive. `VoteInv` says a vote is
on disk before it is answered, so it survives a crash; `CallInv` that a live
question is the only one of its kind and a granted answer matches a vote cast;
`CountInv` that the shared counter is at most the number of distinct voters whose
answers were read; `WinInv` that every winner has a majority of votes behind it.
Two majorities share a voter, who voted once: `ElectionSafe`. That a winner is never
replaced (`LeadersChange`) is a lemma of `LeaderProofs.tla`.

`CommitProofs.tla`, first part: two things a crash never takes back. `DurableVotes` uses
`VoteInv` again, and that every step that writes writes a term that is not older.
`LogsNeverShrink` needs `DiskHasLog`: every step that changes a log persists it, so
that what `readPersist` brings back is the log there was. Every action is put into
one of a few classes (`LogsKept`, `LogChanges`), and the invariants are shown for the
classes. `InstallsCarry` says that a snapshot on its way is sent with an index its
sender's log covers.

Second part: why the counter of one heartbeat round is enough. `RoundInv` says
that `appendNums` of a round is at most the number of servers whose log reaches
what the round sent and to which the round has no open call; so a reply adds a
server that was not counted before, and a full count is a majority. Logs never get
shorter (`LogsNeverShrink`), so a majority stays one. `CommitInv` says the same of
every place an index can spread from: commit and snapshot indices, the
`leaderCommit` of calls, installs on their way.

`LeaderProofs.tla`: `WonInv` sharpens `CountInv`: for a term that was won, a majority
of distinct votes is used up *beyond* what is left in the counter, so the votes that
are still out never make a second one. `LeadsInv` says that who leads, or has sent an
AppendEntries of a term, has won it; with `ElectionSafety` it is the only one.
`EntriesInv` says the term of every entry anywhere has a winner, and that no such
entry is beyond the winner's log while it leads; so `start()` uses an index that its
term has not used (`Distinct`), which is `EntryIdentity`.

The last section of `LeaderProofs.tla`: all calls of one term come from one leader, and while it leads its
log keeps what it has sent, as an entry or in its snapshot (`LeaderHasSent`), so
calls of one term never disagree about an index (`CallsAgree`). A follower persists
its term with the entries before it replies; from then on, for as long as its disk
is in that term, it merges only calls that agree with what it acknowledged
(`Acked`), and `readPersist` brings back that log and that term. A later leader may
overwrite the entry; that it should not when the entry is committed is
`LeaderCompleteness`, which the run `truncation` refutes.

`KvProofs.tla`: about the servers and their clerks, over the abstract log of
`KvServer.tla`. Five theorems, each of which needs what the one before it needs:

* `KvTypeCorrect` needs `WithinLog`: whatever is queued, kept or answered refers to
  the committed log, and a channel holds nothing but the command at its index.
* `ChannelIsOwned` needs `Waiting`: a handler past `start()` has an index that its
  server's log reaches and that no other handler of the server has.
* `AcknowledgedWritesCommitted`: a request table may be written by the apply loop, by
  a Get, by a loaded snapshot and by a restart. `Numbered` says that a client numbers
  its requests without a gap, has one call that is not given up, and leaves a write
  only when it is committed; so two equal numbers of a client are one request. `Tables`
  says that no table, snapshot or message knows a write that is not in the log.
* `ReadsAreCurrent`: `Queues` says that until a snapshot is installed the queue and the
  batch of a server are the log from where its data ends. `LastStands` and `Reads` say
  that the request a client is at stands in the log behind all the client has seen, and
  that a table or a channel that knows of it comes with an index that reaches as far.
  What a Get's answer reflects is `kvIndex` of its server, which is where the data stands
  unless the server died inside `Persister::Save`: hence the condition on `torn`.
* `ReplicasMatchLog`: `InTurn` says that a client's writes stand in the log in the
  order of their numbers, each at the latest when the next is invoked; `Replayed` that
  a table at `n` knows exactly the requests among the first `n` entries, and that on a
  server outside `torn` so does the snapshot file at the index of the state file, which
  is what a restart brings back. So the number of a command is above the table's if and
  only if the command stands in the log for the first time, and one command more is one
  step of the replay more. Both need that no clerk gave up on a running handler: `late_get` is what happens otherwise.

`Replay` is a recursive function. That it is what its definition says
(`ReplayUnfolds`), and that it does not change when the log grows (`ReplayKept`), is
shown by least counterexamples (`LeastOf`), which take the place of induction.

`SkipListProofs.tla`: the inductive invariant `SkipListInv` calls a list `Sound` if its
towers start at level 0 (`Towers`), the pointer of every node on every level leads to the
least greater node that reaches the level (`Linked`), and the two counters agree with the
towers (`Counted`). `CallsOK` says what a thread remembers between the steps of
`insertSetElement`, and that a key nobody else touched is not there when it is put in
again; `DumpOK` that a dump has one value for a key; `OwedOK` is `HoleIsTransient` with
the towers instead of the search. The proof has three layers:

* What the walks compute. `Walk`, `update`, `Pairs` and `Loaded` are recursive
  functions; the prover knows of such a definition only that *if* a function satisfies
  the equation, the chosen one does. So for each a function that satisfies it is
  exhibited, and that the chosen one agrees with it is shown by its least, or greatest,
  counterexample (`WalkEnds`, `UpdateEnds`, `PairsAre`, `LoadedIs`). In a sound list the
  walk of a level ends at the greatest node of the level before the key, and the walk of
  the level below may start there.
* What the operations make of a sound list. `FoundIff`: a key is found if and only if
  it is there. `InsertedSound` and `DeletedSound`: after `insertElementNoBlock` and
  `deleteElement` the list is sound, with the one key more or less and every other value
  as it was; for a delete, that the early break of skipList.h:280 comes right behind the
  last level the node is on, and that `curLevel_` goes down to the highest level left.
* One lemma per action. `EveryLevelLinked`, `CountersAgree`, `SearchIsRight`,
  `HolesAreFilled` and the action property `SetIsEffective` follow, and
  `ListRefinesMap`: every step is a step of `KeyMap` or leaves its map alone.

Assumptions: `SkipListAssumption`, the keys are numbers and there is a level above 0;
`NullAssumption`.

`RpcProofs.tla` has three invariants, each on top of the one before.

*Where a request is* (`RpcInv`). About the bytes of a call only two facts are needed
here. A request begins with the one unit of its bytes that is not a field, the size of
its header (`RequestShape`); and `OnMessage` finds a request only if that unit is the
first one it took (`FoundAtFront`), because no bytes and a cut header give a header
without a service name. `OnceInv` then follows a request by that unit: it is with a
caller that has put nothing on the wire (`Unsent`), on one stream at one place, or
handled, and its number is that of no other call (`AskedInv`). For calls that do not
overlap, `SoloInv` says whose descriptor it is at every step of `CallMethod` and
`newConnect`, from which `NoLeak` follows, and `WayInv` that the last unit the provider
has still to take is the caller's, or the answer or the end of the connection is on its
way (`AnswerOnItsWay`).

*What it says* (`SentInv`). Here the bytes count.

* A message is read back from the units it writes. `Reads` says of one field that the
  units of a stream give its value, `Carries` of the first n fields of a message that
  they do and that nothing else is there. A field that is written makes one more
  `Carries` (`CarriesNext`), a message that is carried whole is what `Parsed` returns
  (`ParsedIs`), and so for the twelve messages (`ArgsRead`, `ReplyRead`). The elements
  of the repeated field are picked by their rank among the places of the field (`Nth`).
* Bytes that end early are read as the beginning of a request (`IsPiece`):
  `BeginningRead` says which, and `HeaderRead` that a header without its method names
  none. So from a stream that begins with a request `OnMessage` finds that request, with
  its arguments or, if the header ended right before `args_size`, with none
  (`FoundIsSent`).
* `StreamInv`: wherever on a stream a request begins, all of it is there. `send` puts a
  whole request behind what is there, and what `OnMessage` takes off the front either
  leaves a request whole or has its first unit, which is what shows where it began.
  `ExecutedAsAsked` follows.

*Whose answer it is* (`PairInv`). While calls do not overlap and no answer on the
caller's connection came in pieces, a request on its socket is that of the call that is
under way, and bytes on their way back are the whole answer to it (`Awaited`, `Holds`):
the call before has taken its answer off the socket or has left `recv` because the
connection had ended, and nothing comes over a connection that has ended or was never
made (`EmptyInv`). With `ReplyRead` this gives `OneCallerGetsItsReply`.

Assumptions: the methods are those of the two services; `MessagesAssumption`, what is
passed to a method and what its handler fills in are messages of the types the .proto
files give them, with any values; and there is at least one socket.

`FiberProofs.tla`: `NeverOversleeps` is `NoOversleep` for programs whose times fit into
an `int` (`DelaysFit`, from which `EpollTimeoutOK` has that the cast of
io_manager.cpp:262 changes nothing). `NoOversleep` is not inductive: that a tickle is in the pipe or on
its way when a timer is due before `epoll_wait` ends is only kept if `tickled_` is
never left set from an earlier timer. The invariant `IInv` adds that the worker is
counted idle wherever it can be in `idle()` (`IdleOK`, or a tickle would not be
written), that `tickled_` set while the worker sleeps means a tickle is in the
pipe or owed by a thread (`TickledOK`), and that the time the worker is about to
wait for was not later than the first timer when it asked (`WaitForOK`).

The other theorems of the module are about what makes a fiber go on. The invariant
`WInv` says, for every fiber `f`:

* `FiberOK`: `Held` counts where a task that would wake `f` is kept, in the task list,
  the expired callbacks, the timers and the events (`Waking` adds a callback that is
  running). It is 1 if `f` is suspended and 0 otherwise. A starter of `f` is counted in
  the same places and among the calls to come; it is at most 1, and 0 once `f` has begun.
  Places are counted in 0, 1 and more (`Count`), so that the lemmas on how a step moves
  a task (`HeldSchedule`, `HeldAddEvent`, `TriggerEventsHeld`, ...) need no finiteness.
* `WaitersOK`: an event that is to wake `f` is the event of the call that `f` waits in.
  This is why a timeout, which cancels the event of the call, wakes `f` and no other.
* `PendingOK`: `pendingEventCnt_` is the number of registered events; `ReadyOK` says
  that what `epoll_wait` has reported is still registered when `idle()` handles it,
  without which the counter would be decreased for an event that is gone.
* `EndOK`: when `stopping()` has found no timer, the timers set since then wake nobody.
  Other threads may set one in between, `idle()` ends all the same.
* `StatesOK`, `TasksOK`, `TimerCbsOK`, `EventsOK`: a running fiber is the task in hand,
  and lists, timers and events hold tasks of their kinds.

A failed CondPanic is an `assert` (utils.cpp:92-97): there is no process afterwards. So
`WInv` says the parts that a panic would break under `~panic`, and `PendingCounted`,
`SuspendedWokenOnce` and `ExitsWithNothingLeft` are stated as `[](NoPanic => ...)`. Two
CondPanics can fail because of an order of steps. That of `Fiber::resume` never is the
first: `ResumesSuspended`. That of `addEvent` depends on the program: two fibers that
wait for one event of one socket do fail it. `ExclusiveNeverPanics` shows that this is
the only way: in a program in which no two fibers await one event, and nobody awaits an
event beside a callback (`Exclusive`), no CondPanic ever fails and the three invariants
hold without a condition. Its invariant `AwaitedOK` carries `Exclusive` from the calls to
come to the calls that are being made and to the events that are registered. Of the four
programs of `MCHook`, `Reading` and `Timing` are exclusive; `Both` and `Watching` have
two calls for one event, kept apart by `O_NONBLOCK` and by their order, and for these
`NoPanic` is model-checked.

Assumptions: `MaxTimeoutAssumption` and `ConnectTimeoutAssumption`;
`ProgramsAssumption`, the types of the arguments of calls; `StartsAssumption`, every
callback that a program schedules is a body of its own, as every `Fiber` object that
`run()` makes for a callback is; `UnwatchAssumption`, `delEvent` is not called for an
event that another fiber waits for: it wakes nobody, so that the fiber would be lost
(nothing in the repository calls it);
`NoneAssumption`, no task is a null pointer.

With these every invariant and action property that a passing run checks is stated by a
theorem, `NoPanic` for exclusive programs. Only model-checked: `NoPanic` for other
programs, and liveness, which is outside the prover's reach (`TasksRun`, `CallsReturn`
and `StopReturns` of the fibers).

## 6. Plan

Done: Raft, KvServer with its clerks, the skip list, the RPC channel with its
messages, and the fiber library, each with its runs; eight proof modules.

Left, in this order:

1. Five servers with one entry, for the liveness of the per-round counter.
2. Several worker threads and the thread that creates the manager as a worker.

## 7. Not modelled

* The configuration parser, the fiber utilities, logging, the provider's `Run` and
  the example programs have no state a property is about. Of the generated code the
  fields, the serialisation and the parsing are in `Wire.tla`, and reflection,
  arenas and copying are not.
* Fibers: more than one worker, tasks bound to a thread, `useCaller` with its root
  fiber, the clock that jumps backwards
  (`detectClockRollover`), failing `epoll_ctl`, descriptors that are not sockets,
  signals.
* Raft: real time. KvServer: the sizes that trigger a snapshot, the text format of
  a snapshot.
* Persistence: power failures that lose unsynced data, and writes that fail to open
  their file.
