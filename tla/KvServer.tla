------------------------------ MODULE KvServer ------------------------------
(***************************************************************************)
(* The key-value servers of src/raftCore/KvServer.cpp and their clients,   *)
(* src/raftClerk/clerk.cpp, over what Raft gives them: a log that only     *)
(* grows (committed), an index for every proposal, and a queue of          *)
(* committed commands and snapshots (applyChan).                           *)
(*                                                                         *)
(* Four kinds of threads meet here: RPC handlers, the apply loop, Raft's   *)
(* applierTicker and the detached threads that push snapshots.  KvServer's *)
(* mutex_ is held for single accesses to its tables only, so a handler is  *)
(* several actions.  A value is the sequence of the requests that wrote it.*)
(***************************************************************************)
EXTENDS Integers, Sequences, FiniteSets, SequencesExt

CONSTANTS
    NServer,        \* the servers are 0 .. NServer - 1
    Client,         \* client ids
    Key,
    NoSnapshot,     \* a snapshot file that is empty
    SnapshotsOn,    \* maxRaftStateSize_ # -1
    MaxRequest,     \* bound on the requests of one client
    MaxTimeout,     \* bound on the expiries of ConsensusTimeout
    MaxFail,        \* bound on the RPCs that fail without a crash
    MaxInstall,     \* bound on the snapshots sent by a leader
    MaxRestart      \* bound on the crashes

ASSUME NServerAssumption == NServer \in Nat \ {0}
ASSUME SnapshotsAssumption == SnapshotsOn \in BOOLEAN
ASSUME BoundsAssumption ==
    {MaxRequest, MaxTimeout, MaxFail, MaxInstall, MaxRestart} \subseteq Nat

Server == 0 .. NServer - 1

VARIABLES
    \* Raft, as KvServer sees it
    committed,      \* the commands of the committed log
    proposed,       \* what start() accepted and may still commit, by index
    lastIndex,      \* lastIndex[i]: the length of server i's log
    lastApplied,    \* lastApplied[i]: what applierTicker collected
    \* lastSnapshotIncludeIndex_ in the state file, and the snapshot file
    snapshotIndex, snapshotFile,
    \* on their way into applyChan: the batch of applierTicker, and one thread
    \* per installed snapshot
    batch, pushers,
    \* members of KvServer
    applyChan, kv, lastRequestIdMap, lastSnapShotRaftLogIndex, waitApplyCh,
    \* the RPCs of the clerks, with the handler that serves them
    calls,
    \* members of Clerk
    requestId, recentLeaderId,
    \* history: where in the log server i's data stands, the log position every
    \* operation invoked from now on comes after, that position at the last
    \* invocation of each client, the bounded events so far, and the servers
    \* that once died between the two writes of Persister::Save
    kvIndex, done, floor, timeouts, fails, installs, restarts, torn

raftVars  == <<committed, proposed, lastIndex, lastApplied, snapshotIndex,
               snapshotFile, batch, pushers>>
stateVars == <<kv, lastRequestIdMap, lastSnapShotRaftLogIndex, kvIndex>>
clerkVars == <<requestId, recentLeaderId, done, floor>>
boundVars == <<timeouts, fails, installs, restarts, torn>>
vars == <<raftVars, applyChan, stateVars, waitApplyCh, calls, clerkVars,
          boundVars>>

\* Op of util.hpp; the value is identified by client and id.
Op == [op : {"Put", "Append", "Get"}, key : Key, client : Client, id : Nat]
Value == Seq(Client \X Nat)
Store == [kv : [Key -> Value], last : [Client -> Nat]]

\* sent: in the network; started: start() has returned; waiting: in timeOutPop;
\* reading: about to read for a Get; reply: answered.
Call == [op : Op, server : Server, live : BOOLEAN,
         phase : {"sent", "started", "waiting", "reading", "reply"},
         index : Nat,
         err : {"", "OK", "ErrNoKey", "ErrWrongLeader"},
         upto : Nat]    \* history: the commands the answer reflects

\* What a snapshot file, or a snapshot on its way, can be.
Snapshot == Store \cup {NoSnapshot}

ASSUME NoSnapshotAssumption == NoSnapshot \notin Store

\* ApplyMsg.
Message == [kind : {"command", "snapshot"}, index : Nat \ {0}, data : Snapshot]

larger(a, b) == IF a >= b THEN a ELSE b

-----------------------------------------------------------------------------
(* The state machine *)

\* An unknown client has last request 0; request ids start at 1.
isRequestDuplicate(last, op) == op.id <= last[op.client]

written(op, old) ==
    IF op.op = "Put" THEN << <<op.client, op.id>> >>
                     ELSE Append(old, <<op.client, op.id>>)

\* execPutOpOnKVDB, execAppendOpOnKVDB; a Get changes nothing here.
applied(store, op) ==
    IF isRequestDuplicate(store.last, op) \/ op.op = "Get" THEN store
    ELSE [kv |-> [store.kv EXCEPT ![op.key] = written(op, @)],
          last |-> [store.last EXCEPT ![op.client] = op.id]]

EmptyStore == [kv |-> [k \in Key |-> << >>], last |-> [c \in Client |-> 0]]

current(i) == [kv |-> kv[i], last |-> lastRequestIdMap[i]]

-----------------------------------------------------------------------------

Init ==
    /\ committed = << >> /\ proposed = {}
    /\ lastIndex = [i \in Server |-> 0]
    /\ lastApplied = [i \in Server |-> 0]
    /\ snapshotIndex = [i \in Server |-> 0]
    /\ snapshotFile = [i \in Server |-> NoSnapshot]
    /\ batch = [i \in Server |-> << >>]
    /\ pushers = [i \in Server |-> {}]
    /\ applyChan = [i \in Server |-> << >>]
    /\ kv = [i \in Server |-> EmptyStore.kv]
    /\ lastRequestIdMap = [i \in Server |-> EmptyStore.last]
    /\ lastSnapShotRaftLogIndex = [i \in Server |-> 0]
    /\ waitApplyCh = [i \in Server |-> << >>]
    /\ calls = {}
    /\ requestId = [c \in Client |-> 0]
    /\ recentLeaderId = [c \in Client |-> 0]
    /\ kvIndex = [i \in Server |-> 0]
    /\ done = 0
    /\ floor = [c \in Client |-> 0]
    /\ timeouts = 0 /\ fails = 0 /\ installs = 0 /\ restarts = 0
    /\ torn = {}

-----------------------------------------------------------------------------
(* Clerk *)

request(op, server) ==
    [op |-> op, server |-> server, live |-> TRUE, phase |-> "sent", index |-> 0,
     err |-> "", upto |-> 0]

\* A clerk runs one request at a time.
Idle(c) == \A call \in calls : call.live => call.op.client # c

\* Get, putAppend: a new request to the last known leader.
Invoke(c, kind, key) ==
    /\ Idle(c)
    /\ requestId[c] < MaxRequest
    /\ requestId' = [requestId EXCEPT ![c] = @ + 1]
    /\ calls' = calls \cup
         {request([op |-> kind, key |-> key, client |-> c,
                   id |-> requestId[c] + 1], recentLeaderId[c])}
    /\ floor' = [floor EXCEPT ![c] = done]
    /\ UNCHANGED <<raftVars, applyChan, stateVars, waitApplyCh, recentLeaderId,
                   done, boundVars>>

\* Where a request first stands in the committed log; 0 if it does not.
positionOf(op) ==
    IF \E n \in DOMAIN committed : committed[n] = op
    THEN CHOOSE n \in DOMAIN committed :
           committed[n] = op /\ \A m \in 1 .. n - 1 : committed[m] # op
    ELSE 0

Answer(call) == call.live /\ call.phase = "reply"

\* The clerk returns.  Only an OK is remembered as coming from the leader.
Return(call) ==
    LET c == call.op.client IN
    /\ Answer(call)
    /\ call.err \in {"OK", "ErrNoKey"}
    /\ recentLeaderId' = [recentLeaderId EXCEPT
                            ![c] = IF call.err = "OK" THEN call.server ELSE @]
    /\ done' = larger(done, IF call.op.op = "Get" THEN call.upto
                                                   ELSE positionOf(call.op))
    /\ calls' = calls \ {call}
    /\ UNCHANGED <<raftVars, applyChan, stateVars, waitApplyCh, requestId, floor,
                   boundVars>>

\* Slip: the servers are not a ring.
nextServerUnwrapped(i) == i + 1

nextServer(i) == (i + 1) % NServer

\* The next server is tried.
Retry(call) ==
    /\ Answer(call)
    /\ call.err = "ErrWrongLeader"
    /\ calls' = (calls \ {call}) \cup {request(call.op, nextServer(call.server))}
    /\ UNCHANGED <<raftVars, applyChan, stateVars, waitApplyCh, clerkVars,
                   boundVars>>

\* The connection was closed: either the RPC fails and the next server is
\* tried, or recv() returned 0 bytes, which parse as a reply without an error,
\* and the same server is tried again.
RetryClosed(call) ==
    /\ Answer(call)
    /\ call.err = ""
    /\ \E i \in {call.server, nextServer(call.server)} :
         calls' = (calls \ {call}) \cup {request(call.op, i)}
    /\ UNCHANGED <<raftVars, applyChan, stateVars, waitApplyCh, clerkVars,
                   boundVars>>

\* The connection breaks with both ends alive: the handler, if it runs, goes on
\* and its answer is lost.
RpcFails(call) ==
    /\ call.live
    /\ fails < MaxFail
    /\ fails' = fails + 1
    /\ \E i \in {call.server, nextServer(call.server)} :
         calls' = (calls \ {call}) \cup {request(call.op, i)} \cup
                    {[a EXCEPT !.live = FALSE] :
                       a \in {call} \cap {b \in calls : b.phase # "reply"}}
    /\ UNCHANGED <<raftVars, applyChan, stateVars, waitApplyCh, clerkVars,
                   timeouts, installs, restarts, torn>>

-----------------------------------------------------------------------------
(* Handlers: getImpl and putAppendImpl *)

\* call moves on; the answer to a clerk that has given up is dropped.
Becomes(call, next) ==
    calls' = (calls \ {call}) \cup
               {a \in {next} : a.phase # "reply" \/ a.live}

replied(call, err, upto) ==
    [call EXCEPT !.phase = "reply", !.err = err, !.upto = upto]

\* Raft::start on a server that is not leader.
StartRefused(call) ==
    /\ call.phase = "sent"
    /\ Becomes(call, replied(call, "ErrWrongLeader", 0))
    /\ UNCHANGED <<raftVars, applyChan, stateVars, waitApplyCh, clerkVars,
                   boundVars>>

\* Slip: the index of the last entry.
getNewCommandIndexLast(last) == last

getNewCommandIndex(last) == last + 1

\* The log of i may have taken over entries of others since it was looked at.
LogLengths(i) ==
    {n \in 0 .. Len(committed) : n >= lastIndex[i]} \cup {lastIndex[i]} \cup
    {p.index : p \in {q \in proposed : q.index > lastIndex[i]}}

\* Raft::start on a server that takes itself for the leader, which it may be or
\* have been.
StartAccepted(call) ==
    /\ call.phase = "sent"
    /\ \E last \in LogLengths(call.server) :
         LET n == getNewCommandIndex(last) IN
         /\ lastIndex' = [lastIndex EXCEPT ![call.server] = n]
         /\ proposed' = proposed \cup
              {p \in {[index |-> n, op |-> call.op]} : n > Len(committed)}
         /\ Becomes(call, [call EXCEPT !.phase = "started", !.index = n])
    /\ UNCHANGED <<committed, lastApplied, snapshotIndex, snapshotFile, batch,
                   pushers, applyChan, stateVars, waitApplyCh, clerkVars,
                   boundVars>>

Registered(i) == DOMAIN waitApplyCh[i]

\* The wait channel is created after start() has returned.
RegisterChannel(call) ==
    LET i == call.server IN
    /\ call.phase = "started"
    /\ waitApplyCh' = [waitApplyCh EXCEPT
         ![i] = [n \in Registered(i) \cup {call.index} |->
                   IF n \in Registered(i) THEN waitApplyCh[i][n] ELSE << >>]]
    /\ Becomes(call, [call EXCEPT !.phase = "waiting"])
    /\ UNCHANGED <<raftVars, applyChan, stateVars, clerkVars, boundVars>>

\* The channel is erased when the handler is through.
DropChannel(call) ==
    waitApplyCh' = [waitApplyCh EXCEPT
        ![call.server] = [n \in DOMAIN @ \ {call.index} |-> @[n]]]

\* Slip: only the client is compared.
IsOwnClient(op, got) == got.client = op.client

IsOwn(op, got) == got.client = op.client /\ got.id = op.id

Channel(call) == waitApplyCh[call.server][call.index]

\* timeOutPop returned a command, and it is another one.
NotifiedOther(call) ==
    /\ call.phase = "waiting"
    /\ Channel(call) # << >>
    /\ ~IsOwn(call.op, Head(Channel(call)))
    /\ Becomes(call, replied(call, "ErrWrongLeader", 0))
    /\ DropChannel(call)
    /\ UNCHANGED <<raftVars, applyChan, stateVars, clerkVars, boundVars>>

\* putAppendImpl: timeOutPop returned this command.
NotifiedWrite(call) ==
    /\ call.phase = "waiting"
    /\ call.op.op # "Get"
    /\ Channel(call) # << >>
    /\ IsOwn(call.op, Head(Channel(call)))
    /\ Becomes(call, replied(call, "OK", 0))
    /\ DropChannel(call)
    /\ UNCHANGED <<raftVars, applyChan, stateVars, clerkVars, boundVars>>

\* getImpl: timeOutPop returned this command; the read is still to come.
NotifiedGet(call) ==
    /\ call.phase = "waiting"
    /\ call.op.op = "Get"
    /\ Channel(call) # << >>
    /\ IsOwn(call.op, Head(Channel(call)))
    /\ Becomes(call, [call EXCEPT !.phase = "reading"])
    /\ UNCHANGED <<raftVars, applyChan, stateVars, waitApplyCh, clerkVars,
                   boundVars>>

\* timeOutPop gave up, then the request table is looked at.  A command may have
\* been applied, and pushed into the channel, between the two.
TimesOut(call) ==
    /\ call.phase = "waiting"
    /\ timeouts < MaxTimeout
    /\ timeouts' = timeouts + 1
    /\ UNCHANGED <<raftVars, applyChan, stateVars, clerkVars, fails, installs,
                   restarts, torn>>

\* Slip: the request table is not looked at.
KnownAlways(call) == TRUE

Known(call) == isRequestDuplicate(lastRequestIdMap[call.server], call.op)

TimedOutWrite(call) ==
    /\ TimesOut(call)
    /\ call.op.op # "Get"
    /\ Becomes(call, replied(call, IF Known(call) THEN "OK" ELSE "ErrWrongLeader", 0))
    /\ DropChannel(call)

\* A known Get is read again if getState still says leader.
TimedOutGetKnown(call) ==
    /\ TimesOut(call)
    /\ call.op.op = "Get"
    /\ Known(call)
    /\ Becomes(call, [call EXCEPT !.phase = "reading"])
    /\ UNCHANGED waitApplyCh

TimedOutGet(call) ==
    /\ TimesOut(call)
    /\ call.op.op = "Get"
    /\ Becomes(call, replied(call, "ErrWrongLeader", 0))
    /\ DropChannel(call)

\* execGetOpOnKVDB and the answer.  The client's last request is overwritten.
ExecGet(call) ==
    LET i == call.server
        exists == kv[i][call.op.key] # << >>
    IN
    /\ call.phase = "reading"
    /\ lastRequestIdMap' = [lastRequestIdMap EXCEPT
                              ![i][call.op.client] = call.op.id]
    /\ Becomes(call, replied(call, IF exists THEN "OK" ELSE "ErrNoKey",
                             kvIndex[i]))
    /\ DropChannel(call)
    /\ UNCHANGED <<raftVars, applyChan, kv, lastSnapShotRaftLogIndex, kvIndex,
                   clerkVars, boundVars>>

-----------------------------------------------------------------------------
(* Raft *)

\* The entry at the next index is one of those proposed for it.
Commit(p) ==
    /\ p.index = Len(committed) + 1
    /\ committed' = Append(committed, p.op)
    /\ proposed' = {q \in proposed : q.index > p.index}
    /\ UNCHANGED <<lastIndex, lastApplied, snapshotIndex, snapshotFile, batch,
                   pushers, applyChan, stateVars, waitApplyCh, calls, clerkVars,
                   boundVars>>

\* applierTicker collects what is committed as far as this server knows ...
getApplyLogs(i) ==
    /\ batch[i] = << >>
    /\ \E n \in lastApplied[i] + 1 .. Len(committed) :
         /\ batch' = [batch EXCEPT
              ![i] = [k \in 1 .. n - lastApplied[i] |-> lastApplied[i] + k]]
         /\ lastApplied' = [lastApplied EXCEPT ![i] = n]
         /\ lastIndex' = [lastIndex EXCEPT ![i] = larger(@, n)]
    /\ UNCHANGED <<committed, proposed, snapshotIndex, snapshotFile, pushers,
                   applyChan, stateVars, waitApplyCh, calls, clerkVars,
                   boundVars>>

command(n) == [kind |-> "command", index |-> n, data |-> EmptyStore]

\* ... and pushes it, one command at a time, without the lock.
applierPush(i) ==
    /\ batch[i] # << >>
    /\ applyChan' = [applyChan EXCEPT ![i] = Append(@, command(Head(batch[i])))]
    /\ batch' = [batch EXCEPT ![i] = Tail(@)]
    /\ UNCHANGED <<committed, proposed, lastIndex, lastApplied, snapshotIndex,
                   snapshotFile, pushers, stateVars, waitApplyCh, calls,
                   clerkVars, boundVars>>

\* installSnapshotImpl at i with the snapshot of j, which i does not cover.
\* What i has applied already is not looked at.
installSnapshot(i, j) ==
    LET n == snapshotIndex[j] IN
    /\ installs < MaxInstall
    /\ n > snapshotIndex[i]
    /\ snapshotIndex' = [snapshotIndex EXCEPT ![i] = n]
    /\ snapshotFile' = [snapshotFile EXCEPT ![i] = snapshotFile[j]]
    /\ lastApplied' = [lastApplied EXCEPT ![i] = larger(@, n)]
    /\ lastIndex' = [lastIndex EXCEPT ![i] = larger(@, n)]
    /\ pushers' = [pushers EXCEPT
         ![i] = @ \cup {[kind |-> "snapshot", index |-> n,
                         data |-> snapshotFile[j]]}]
    /\ installs' = installs + 1
    /\ UNCHANGED <<committed, proposed, batch, applyChan, stateVars, waitApplyCh,
                   calls, clerkVars, timeouts, fails, restarts, torn>>

\* pushMsgToKvServer, in a detached thread of its own.
pushMsgToKvServer(i, msg) ==
    /\ applyChan' = [applyChan EXCEPT ![i] = Append(@, msg)]
    /\ pushers' = [pushers EXCEPT ![i] = @ \ {msg}]
    /\ UNCHANGED <<committed, proposed, lastIndex, lastApplied, snapshotIndex,
                   snapshotFile, batch, stateVars, waitApplyCh, calls, clerkVars,
                   boundVars>>

-----------------------------------------------------------------------------
(* readApplyCommandLoop *)

Received(i, kind) ==
    /\ applyChan[i] # << >>
    /\ Head(applyChan[i]).kind = kind
    /\ applyChan' = [applyChan EXCEPT ![i] = Tail(@)]

\* A command that a loaded snapshot covers.
getCommandCovered(i) ==
    /\ Received(i, "command")
    /\ lastSnapShotRaftLogIndex[i] >= Head(applyChan[i]).index
    /\ UNCHANGED <<raftVars, stateVars, waitApplyCh, calls, clerkVars, boundVars>>

\* Slip: the request table is not part of a snapshot.
getSnapshotDataNoTable(store) == [store EXCEPT !.last = EmptyStore.last]

getSnapshotData(store) == store

\* ifNeedToSendSnapshotCommand and Raft::snapshot, which refuses an index that
\* its snapshot covers.
TakeSnapshot(i, n, store) ==
    /\ SnapshotsOn
    /\ snapshotIndex[i] < n
    /\ snapshotIndex' = [snapshotIndex EXCEPT ![i] = n]
    /\ snapshotFile' = [snapshotFile EXCEPT ![i] = getSnapshotData(store)]

\* sendMsgToWaitChan.
Notify(i, n, op) ==
    waitApplyCh' =
        [waitApplyCh EXCEPT ![i] = [m \in DOMAIN @ |->
                                      IF m = n THEN Append(@[m], op) ELSE @[m]]]

\* getCommandFromRaft.  Whether the state has outgrown its limit is left open.
getCommandFromRaft(i) ==
    LET n == Head(applyChan[i]).index
        op == committed[n]
        store == applied(current(i), op)
    IN
    /\ Received(i, "command")
    /\ lastSnapShotRaftLogIndex[i] < n
    /\ kv' = [kv EXCEPT ![i] = store.kv]
    /\ lastRequestIdMap' = [lastRequestIdMap EXCEPT ![i] = store.last]
    /\ kvIndex' = [kvIndex EXCEPT ![i] = n]
    /\ \/ TakeSnapshot(i, n, store)
       \/ UNCHANGED <<snapshotIndex, snapshotFile>>
    /\ Notify(i, n, op)
    /\ UNCHANGED <<committed, proposed, lastIndex, lastApplied, batch, pushers,
                   lastSnapShotRaftLogIndex, calls, clerkVars, boundVars>>

\* readSnapshotToInstall: nothing happens if there is no data.  Otherwise the
\* request table is replaced, but SkipList::loadFile leaves the keys that exist
\* alone.
loaded(i, data) ==
    IF data = NoSnapshot THEN current(i) ELSE
    [kv |-> [k \in Key |-> IF kv[i][k] # << >> THEN kv[i][k] ELSE data.kv[k]],
     last |-> data.last]

\* condInstallSnapshot always agrees.
getSnapshotFromRaft(i) ==
    LET msg == Head(applyChan[i])
        store == loaded(i, msg.data)
    IN
    /\ Received(i, "snapshot")
    /\ kv' = [kv EXCEPT ![i] = store.kv]
    /\ lastRequestIdMap' = [lastRequestIdMap EXCEPT ![i] = store.last]
    /\ lastSnapShotRaftLogIndex' =
         [lastSnapShotRaftLogIndex EXCEPT ![i] = msg.index]
    /\ kvIndex' = [kvIndex EXCEPT ![i] = msg.index]
    /\ UNCHANGED <<raftVars, waitApplyCh, calls, clerkVars, boundVars>>

\* What a new process reads from a snapshot file.
restored(file) == IF file = NoSnapshot THEN EmptyStore ELSE file

\* The process dies, with index in its state file, and a new one starts: Raft
\* goes on behind index (raft.cpp:42) and the snapshot file is loaded into an
\* empty skip list.  The log survives; what is in memory, and every handler, is
\* gone, and the clerks find their connections closed.
DiesWith(i, index) ==
    LET store == restored(snapshotFile[i]) IN
    /\ restarts < MaxRestart
    /\ restarts' = restarts + 1
    /\ snapshotIndex' = [snapshotIndex EXCEPT ![i] = index]
    /\ kv' = [kv EXCEPT ![i] = store.kv]
    /\ lastRequestIdMap' = [lastRequestIdMap EXCEPT ![i] = store.last]
    /\ lastSnapShotRaftLogIndex' = [lastSnapShotRaftLogIndex EXCEPT ![i] = 0]
    /\ kvIndex' = [kvIndex EXCEPT ![i] = index]
    /\ lastApplied' = [lastApplied EXCEPT ![i] = index]
    /\ batch' = [batch EXCEPT ![i] = << >>]
    /\ pushers' = [pushers EXCEPT ![i] = {}]
    /\ applyChan' = [applyChan EXCEPT ![i] = << >>]
    /\ waitApplyCh' = [waitApplyCh EXCEPT ![i] = << >>]
    /\ calls' = {c \in calls : c.server # i \/ c.phase = "reply"} \cup
                {replied(c, "", 0) :
                   c \in {d \in calls : d.server = i /\ d.live /\ d.phase # "reply"}}
    /\ UNCHANGED <<committed, proposed, snapshotFile, clerkVars, timeouts, fails>>

\* A crash between two critical sections.
Restart(i) ==
    /\ DiesWith(i, snapshotIndex[i])
    /\ UNCHANGED <<lastIndex, installs, torn>>

\* A crash in Raft::snapshot, called by getCommandFromRaft, between the state
\* file and the snapshot file.
CrashInSnapshot(i) ==
    LET n == Head(applyChan[i]).index IN
    /\ SnapshotsOn
    /\ applyChan[i] # << >>
    /\ Head(applyChan[i]).kind = "command"
    /\ lastSnapShotRaftLogIndex[i] < n
    /\ snapshotIndex[i] < n
    /\ DiesWith(i, n)
    /\ torn' = torn \cup {i}
    /\ UNCHANGED <<lastIndex, installs>>

\* A crash there in installSnapshotImpl.
CrashInInstallSnapshot(i, j) ==
    LET n == snapshotIndex[j] IN
    /\ installs < MaxInstall
    /\ installs' = installs + 1
    /\ n > snapshotIndex[i]
    /\ lastIndex' = [lastIndex EXCEPT ![i] = larger(@, n)]
    /\ DiesWith(i, n)
    /\ torn' = torn \cup {i}

-----------------------------------------------------------------------------

ClerkNext ==
    \/ \E c \in Client, kind \in {"Put", "Append", "Get"}, key \in Key :
         Invoke(c, kind, key)
    \/ \E call \in calls :
         Return(call) \/ Retry(call) \/ RetryClosed(call) \/ RpcFails(call)

HandlerNext == \E call \in calls :
    \/ StartRefused(call) \/ StartAccepted(call) \/ RegisterChannel(call)
    \/ NotifiedOther(call) \/ NotifiedWrite(call) \/ NotifiedGet(call)
    \/ TimedOutWrite(call) \/ TimedOutGetKnown(call) \/ TimedOutGet(call)
    \/ ExecGet(call)

RaftNext ==
    \/ \E p \in proposed : Commit(p)
    \/ \E i \in Server :
         \/ getApplyLogs(i) \/ applierPush(i)
         \/ \E j \in Server \ {i} : installSnapshot(i, j)
         \/ \E msg \in pushers[i] : pushMsgToKvServer(i, msg)

ServerNext == \E i \in Server :
    \/ getCommandCovered(i) \/ getCommandFromRaft(i) \/ getSnapshotFromRaft(i)
    \/ Restart(i) \/ CrashInSnapshot(i)
    \/ \E j \in Server \ {i} : CrashInInstallSnapshot(i, j)

Next == ClerkNext \/ HandlerNext \/ RaftNext \/ ServerNext

Spec == Init /\ [][Next]_vars

-----------------------------------------------------------------------------
(* Properties *)

\* Every variable has its type; what a queue holds refers to the committed log.
TypeOK ==
    /\ committed \in Seq(Op)
    /\ proposed \subseteq [index : Nat, op : Op]
    /\ {lastIndex, lastApplied, snapshotIndex, lastSnapShotRaftLogIndex, kvIndex}
         \subseteq [Server -> Nat]
    /\ snapshotFile \in [Server -> Snapshot]
    /\ \A i \in Server :
         /\ batch[i] \in Seq(DOMAIN committed)
         /\ pushers[i] \subseteq Message /\ applyChan[i] \in Seq(Message)
         /\ Registered(i) \subseteq Nat
         /\ \A n \in Registered(i) : waitApplyCh[i][n] \in Seq(Op)
         /\ current(i) \in Store
    /\ calls \subseteq Call
    /\ requestId \in [Client -> Nat] /\ recentLeaderId \in [Client -> Server]
    /\ done \in Nat /\ floor \in [Client -> Nat]
    /\ {timeouts, fails, installs, restarts} \subseteq Nat
    /\ torn \subseteq Server

\* The request at n stands in the log for the first time there.
First(n) == \A m \in 1 .. n - 1 : ~IsOwn(committed[m], committed[n])

\* The data after the first n commands of the log, each request once.
Replay[n \in Nat] ==
    IF n = 0 THEN EmptyStore.kv
    ELSE IF committed[n].op = "Get" \/ ~First(n) THEN Replay[n - 1]
    ELSE [Replay[n - 1] EXCEPT ![committed[n].key] = written(committed[n], @)]

\* The data of server i is what the log up to kvIndex[i] leaves.
IsReplica(i) == kv[i] = Replay[kvIndex[i]]

\* A server's data is the replay of the commands it has been through, each
\* request executed once (KvServer.cpp:304-311) however often a client retried
\* it, whatever timed out, and whichever snapshot the server started from.  It
\* needs that no clerk has given up on a running handler (see WritesOnce), that
\* no snapshot was installed (see InstalledSnapshotIsState), and that the server
\* never died between the two files of Persister::Save (see NothingSkipped).
ReplicaMatchesLog ==
    fails = 0 /\ installs = 0 => \A i \in Server \ torn : IsReplica(i)

\* A write that is answered OK is in the committed log: on the notified path
\* (KvServer.cpp:273) and on the timeout path (KvServer.cpp:261) alike.
AckedIsCommitted ==
    \A call \in calls :
        call.phase = "reply" /\ call.err = "OK" /\ call.op.op # "Get"
            => positionOf(call.op) > 0

\* A Get reflects every operation that had returned to its client before the Get
\* was invoked, the read after a timeout (KvServer.cpp:178-190) included.  An
\* installed snapshot may be older than what the server has applied, and leaves
\* the keys it has alone: from then on the data is that of no index of the log.
\* Nor is it on a server that died inside Persister::Save (see NothingSkipped).
ReadsCurrent ==
    installs = 0 => \A call \in calls :
        /\ Answer(call) /\ call.op.op = "Get" /\ call.err \in {"OK", "ErrNoKey"}
        /\ call.server \notin torn
        => call.upto >= floor[call.op.client]

\* The channel a handler waits on is registered and is nobody else's, so that
\* erasing and deleting it (KvServer.cpp:281-283) takes it from nobody: start()
\* never hands out an index twice on one server.
ChannelOwned ==
    \A c, d \in calls :
        c.phase \in {"waiting", "reading"} =>
            /\ c.index \in Registered(c.server)
            /\ d.server = c.server /\ d.index = c.index /\ d.phase # "reply" => d = c

\* A write is executed once (comment of KvServer.cpp:304): no request occurs
\* twice in a value.
WritesOnce ==
    \A i \in Server, k \in Key : IsInjective(kv[i][k])

\* A snapshot that has been installed is the state (comment of KvServer.cpp:125).
InstalledSnapshotIsState ==
    \A i \in Server :
        kvIndex[i] > 0 /\ kvIndex[i] = lastSnapShotRaftLogIndex[i]
            => IsReplica(i)

\* State and snapshot are saved together (comment of Persister.h:13), so that a
\* server which dies at any point of Raft::snapshot goes on where its snapshot
\* ends and skips no command.
NothingSkipped ==
    fails = 0 /\ installs = 0 => \A i \in Server : IsReplica(i)

=============================================================================
