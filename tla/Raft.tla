-------------------------------- MODULE Raft --------------------------------
(***************************************************************************)
(* The Raft node of src/raftCore/raft.cpp together with the two files its  *)
(* Persister keeps (src/raftCore/Persisiter.cpp).                          *)
(*                                                                         *)
(* Every handler and every RPC-calling thread of the code holds mutex_     *)
(* around its state change and releases it while an RPC is outstanding, so *)
(* one critical section is one action and an outstanding RPC is a record   *)
(* in rvCalls, aeCalls or isCalls.  A call is answered at most once; it    *)
(* may stay unanswered, fail, arrive arbitrarily late, and it survives the *)
(* death of its caller as an orphan (live = FALSE) whose answer nobody     *)
(* reads.  Time is abstracted: a ticker may fire whenever its guard holds. *)
(***************************************************************************)
EXTENDS Integers, Sequences, FiniteSets

CONSTANTS
    Server,         \* the node ids 0 .. peers_.size() - 1
    Command,        \* what KvServer hands to start()
    NoVote,         \* the -1 of votedFor_
    SnapshotsOn,    \* maxRaftStateSize_ # -1
    MaxTerm,        \* bound on elections
    MaxIndex,       \* bound on the log index start() may hand out
    MaxRound,       \* bound on the heartbeat rounds of one incarnation
    MaxRestart      \* bound on the crashes in one behaviour

ASSUME ServerAssumption == IsFiniteSet(Server) /\ Server # {}
ASSUME NoVoteAssumption == NoVote \notin Server
ASSUME SwitchAssumption == SnapshotsOn \in BOOLEAN
ASSUME BoundAssumption ==
    /\ MaxTerm \in Nat /\ MaxIndex \in Nat
    /\ MaxRound \in Nat /\ MaxRestart \in Nat

VARIABLES
    \* members of Raft (raft.h)
    currentTerm, votedFor, status,
    logs, lastSnapshotIncludeIndex, lastSnapshotIncludeTerm,
    commitIndex, lastApplied,
    nextIndex, matchIndex,
    voteNum,        \* voteNum[i][t]: the counter i's election of term t shares
    appendNums,     \* appendNums[i][r]: the counter heartbeat round r shares
    \* the files of the Persister
    raftState, snapshotFile,
    \* outstanding RPCs
    rvCalls, aeCalls, isCalls,
    \* history: whom j voted for in t, who won t, the crashes so far
    voteHistory, leaders, restarts

termVars   == <<currentTerm, votedFor, status>>
logVars    == <<logs, lastSnapshotIncludeIndex, lastSnapshotIncludeTerm>>
indexVars  == <<commitIndex, lastApplied>>
leaderVars == <<nextIndex, matchIndex, appendNums>>
diskVars   == <<raftState, snapshotFile>>
callVars   == <<rvCalls, aeCalls, isCalls>>
histVars   == <<voteHistory, leaders, restarts>>
vars == <<termVars, logVars, indexVars, leaderVars, voteNum, diskVars,
          callVars, histVars>>

Term  == 0 .. MaxTerm
Entry == [index : Nat, term : Term, command : Command]

\* What persistData() serialises.
RaftState == [currentTerm : Term, votedFor : Server \cup {NoVote},
              lastSnapshotIncludeIndex : Nat, lastSnapshotIncludeTerm : Term,
              logs : Seq(Entry)]

\* An outstanding RequestVote: its arguments, then its reply.
RVCall == [from : Server, to : Server, live : BOOLEAN,
           phase : {"request", "reply"},
           term : Term, lastLogIndex : Nat, lastLogTerm : Term,
           rterm : Term, voteGranted : BOOLEAN]

\* An outstanding AppendEntries.  -100 is the code's "no suggestion".
AECall == [from : Server, to : Server, live : BOOLEAN, round : Nat,
           phase : {"request", "reply"},
           term : Term, prevLogIndex : Nat, prevLogTerm : Term,
           entries : Seq(Entry), leaderCommit : Nat,
           rterm : Term, success : BOOLEAN, updateNextIndex : Nat \cup {-100}]

\* An outstanding InstallSnapshot.  "spawned": the thread leaderSendSnapshot
\* exists but has not filled the request yet; "unanswered": the handler
\* returned without setting the reply, so no byte was sent back.
ISCall == [from : Server, to : Server, live : BOOLEAN, round : Nat,
           phase : {"spawned", "request", "unanswered", "reply"},
           term : Term, lastIndex : Nat, lastTerm : Term, data : Nat,
           rterm : Term]

max(a, b) == IF a >= b THEN a ELSE b
min(a, b) == IF a <= b THEN a ELSE b

\* Slip: half of the cluster counts as a majority.
HalfIsMajority == Cardinality(Server) \div 2

Majority == Cardinality(Server) \div 2 + 1

-----------------------------------------------------------------------------
(* Log indices: logical indices start at 1, logs_ starts after the snapshot *)

\* Slip: the index the variable is initialised with when logs_ is empty.
getLastLogIndexNoSnapshot(i) ==
    IF logs[i] = << >> THEN -1 ELSE logs[i][Len(logs[i])].index

getLastLogIndex(i) ==
    IF logs[i] = << >> THEN lastSnapshotIncludeIndex[i]
                       ELSE logs[i][Len(logs[i])].index

getLastLogTerm(i) ==
    IF logs[i] = << >> THEN lastSnapshotIncludeTerm[i]
                       ELSE logs[i][Len(logs[i])].term

\* Slip: the index of the last entry is handed out again.
getNewCommandIndexOffByOne(i) == getLastLogIndex(i)

getNewCommandIndex(i) == getLastLogIndex(i) + 1

\* The position of logical index k in logs_ (sequences here start at 1).
getSlicesIndexFromLogIndex(i, k) == k - lastSnapshotIncludeIndex[i]

getLogTermFromLogIndex(i, k) ==
    IF k = lastSnapshotIncludeIndex[i]
    THEN lastSnapshotIncludeTerm[i]
    ELSE logs[i][getSlicesIndexFromLogIndex(i, k)].term

matchLog(i, index, term) ==
    /\ index \in lastSnapshotIncludeIndex[i] .. getLastLogIndex(i)
    /\ term = getLogTermFromLogIndex(i, index)

upToDate(i, index, term) ==
    \/ term > getLastLogTerm(i)
    \/ term = getLastLogTerm(i) /\ index >= getLastLogIndex(i)

\* Where a follower whose entry at prev conflicts asks the leader to resume:
\* the first entry of the run of equal terms that ends at prev, or prev itself
\* when that run reaches back to the snapshot.
conflictNextIndex(i, prev) ==
    LET term(k) == getLogTermFromLogIndex(i, k)
        runStart == {k \in lastSnapshotIncludeIndex[i] + 1 .. prev :
                       /\ term(k - 1) # term(prev)
                       /\ \A m \in k .. prev : term(m) = term(prev)}
    IN  IF runStart = {} THEN prev ELSE CHOOSE k \in runStart : TRUE

\* Slip: entries are only appended, conflicting ones are not overwritten.
mergedLogAppendOnly(i, prev, entries) ==
    LET offset == getSlicesIndexFromLogIndex(i, prev) IN
    [k \in 1 .. max(Len(logs[i]), offset + Len(entries)) |->
        IF k <= Len(logs[i]) THEN logs[i][k] ELSE entries[k - offset]]

\* logs_ after the loop over args->entries: entry n has index prev + n; it is
\* pushed at the end, overwrites an entry of another term, and is otherwise
\* dropped.  Nothing after the last received entry is touched.
mergedLog(i, prev, entries) ==
    LET offset == getSlicesIndexFromLogIndex(i, prev)
        merged(k) == IF k - offset \notin 1 .. Len(entries) THEN logs[i][k]
                     ELSE IF /\ k <= Len(logs[i])
                             /\ logs[i][k].term = entries[k - offset].term
                          THEN logs[i][k]
                          ELSE entries[k - offset]
    IN  [k \in 1 .. max(Len(logs[i]), offset + Len(entries)) |-> merged(k)]

\* Slip: erase stops one entry short of the snapshot.
erasedLogOffByOne(i, index) ==
    IF getLastLogIndex(i) > index
    THEN SubSeq(logs[i], getSlicesIndexFromLogIndex(i, index), Len(logs[i]))
    ELSE << >>

\* logs_ after the entries up to index are erased.
erasedLog(i, index) ==
    IF getLastLogIndex(i) > index
    THEN SubSeq(logs[i], getSlicesIndexFromLogIndex(i, index) + 1, Len(logs[i]))
    ELSE << >>

-----------------------------------------------------------------------------
(* Persistence *)

persistData(i) ==
    [currentTerm |-> currentTerm[i], votedFor |-> votedFor[i],
     lastSnapshotIncludeIndex |-> lastSnapshotIncludeIndex[i],
     lastSnapshotIncludeTerm |-> lastSnapshotIncludeTerm[i],
     logs |-> logs[i]]

\* Slip: the log is left out of what is written.
persistNoLogs(i) ==
    raftState' = [raftState EXCEPT
                    ![i] = [persistData(i)' EXCEPT !.logs = raftState[i].logs]]

\* persist(): the last thing a handler does, so it sees the new state.
persist(i) == raftState' = [raftState EXCEPT ![i] = persistData(i)']

\* persister_->Save(persistData(), data)
SaveWithSnapshot(i, data) ==
    /\ persist(i)
    /\ snapshotFile' = [snapshotFile EXCEPT ![i] = data]

-----------------------------------------------------------------------------
(* Calls *)

\* c is answered by r; nobody reads the answer to an orphan.
Answered(calls, c, r) == (calls \ {c}) \cup {a \in {r} : c.live}

\* The calls that are left when process i dies: its requests may already be
\* in the network, its threads and the replies they waited for are gone.
Orphaned(calls, i) ==
    {c \in calls : c.from # i} \cup
    {[c EXCEPT !.live = FALSE] :
        c \in {d \in calls : d.from = i /\ d.phase = "request"}}

\* Slip: the vote is also dropped for a message of the same term.
AdoptedVoteSameTerm(i, t) == IF t >= currentTerm[i] THEN NoVote ELSE votedFor[i]

\* Term, vote and status after a message of term t >= currentTerm[i].
AdoptedVote(i, t) == IF t > currentTerm[i] THEN NoVote ELSE votedFor[i]
AdoptedStatus(i, t) == IF t > currentTerm[i] THEN "Follower" ELSE status[i]

\* Stepping down on a reply that carries a higher term t.
BecomeFollower(i, t) ==
    /\ status' = [status EXCEPT ![i] = "Follower"]
    /\ currentTerm' = [currentTerm EXCEPT ![i] = t]
    /\ votedFor' = [votedFor EXCEPT ![i] = NoVote]

-----------------------------------------------------------------------------
(* Elections *)

Init ==
    /\ currentTerm = [i \in Server |-> 0]
    /\ votedFor = [i \in Server |-> NoVote]
    /\ status = [i \in Server |-> "Follower"]
    /\ logs = [i \in Server |-> << >>]
    /\ lastSnapshotIncludeIndex = [i \in Server |-> 0]
    /\ lastSnapshotIncludeTerm = [i \in Server |-> 0]
    /\ commitIndex = [i \in Server |-> 0]
    /\ lastApplied = [i \in Server |-> 0]
    /\ nextIndex = [i \in Server |-> [j \in Server |-> 0]]
    /\ matchIndex = [i \in Server |-> [j \in Server |-> 0]]
    /\ voteNum = [i \in Server |-> [t \in Term |-> 0]]
    /\ appendNums = [i \in Server |-> << >>]
    /\ raftState = [i \in Server |-> persistData(i)]
    /\ snapshotFile = [i \in Server |-> 0]
    /\ rvCalls = {} /\ aeCalls = {} /\ isCalls = {}
    /\ voteHistory = [i \in Server |-> [t \in Term |-> NoVote]]
    /\ leaders = [t \in Term |-> {}]
    /\ restarts = 0

\* electionTimeOutTicker fires: a new term, a vote for itself, one thread per
\* peer.
doElection(i) ==
    /\ status[i] # "Leader"
    /\ currentTerm[i] < MaxTerm
    /\ LET t == currentTerm[i] + 1 IN
       /\ status' = [status EXCEPT ![i] = "Candidate"]
       /\ currentTerm' = [currentTerm EXCEPT ![i] = t]
       /\ votedFor' = [votedFor EXCEPT ![i] = i]
       /\ voteNum' = [voteNum EXCEPT ![i][t] = 1]
       /\ rvCalls' = rvCalls \cup
            {[from |-> i, to |-> j, live |-> TRUE, phase |-> "request",
              term |-> t, lastLogIndex |-> getLastLogIndex(i),
              lastLogTerm |-> getLastLogTerm(i),
              rterm |-> 0, voteGranted |-> FALSE] : j \in Server \ {i}}
       /\ voteHistory' = [voteHistory EXCEPT ![i][t] = i]
    /\ UNCHANGED <<logVars, indexVars, leaderVars, snapshotFile, aeCalls,
                   isCalls, leaders, restarts>>
    /\ persist(i)

rvReply(c, t, granted) ==
    Answered(rvCalls, c, [c EXCEPT !.phase = "reply", !.rterm = t,
                                   !.voteGranted = granted])

rvUnchanged == UNCHANGED <<logVars, indexVars, leaderVars, voteNum,
                           snapshotFile, aeCalls, isCalls, leaders, restarts>>

\* requestVoteImpl: the candidate's term is out of date.  persist() runs on
\* this path too.
requestVoteStale(c) ==
    /\ c.phase = "request"
    /\ c.term < currentTerm[c.to]
    /\ rvCalls' = rvReply(c, currentTerm[c.to], FALSE)
    /\ UNCHANGED <<termVars, voteHistory>> /\ rvUnchanged
    /\ persist(c.to)

\* Slip: votedFor_ is not looked at.
CanGrantTwice(c) == upToDate(c.to, c.lastLogIndex, c.lastLogTerm)

CanGrant(c) ==
    /\ upToDate(c.to, c.lastLogIndex, c.lastLogTerm)
    /\ AdoptedVote(c.to, c.term) \in {NoVote, c.from}

\* requestVoteImpl: the candidate's log is behind, or the vote is taken.
requestVoteRefuse(c) ==
    /\ c.phase = "request"
    /\ c.term >= currentTerm[c.to]
    /\ ~CanGrant(c)
    /\ status' = [status EXCEPT ![c.to] = AdoptedStatus(c.to, c.term)]
    /\ votedFor' = [votedFor EXCEPT ![c.to] = AdoptedVote(c.to, c.term)]
    /\ currentTerm' = [currentTerm EXCEPT ![c.to] = c.term]
    /\ rvCalls' = rvReply(c, c.term, FALSE)
    /\ UNCHANGED voteHistory /\ rvUnchanged
    /\ persist(c.to)

requestVoteGrant(c) ==
    /\ c.phase = "request"
    /\ c.term >= currentTerm[c.to]
    /\ CanGrant(c)
    /\ status' = [status EXCEPT ![c.to] = AdoptedStatus(c.to, c.term)]
    /\ votedFor' = [votedFor EXCEPT ![c.to] = c.from]
    /\ currentTerm' = [currentTerm EXCEPT ![c.to] = c.term]
    /\ voteHistory' = [voteHistory EXCEPT ![c.to][c.term] = c.from]
    /\ rvCalls' = rvReply(c, c.term, TRUE)
    /\ rvUnchanged
    /\ persist(c.to)

\* sendRequestVote, the reply carries a higher term.
sendRequestVoteHigherTerm(c) ==
    /\ c.phase = "reply"
    /\ c.rterm > currentTerm[c.from]
    /\ BecomeFollower(c.from, c.rterm)
    /\ rvCalls' = rvCalls \ {c}
    /\ UNCHANGED voteHistory /\ rvUnchanged
    /\ persist(c.from)

\* A granted vote of the current term.  The status is not looked at.
GrantedNow(c) ==
    /\ c.phase = "reply" /\ c.voteGranted
    /\ c.rterm = currentTerm[c.from]

Elected(c) == voteNum[c.from][c.term] + 1 >= Majority

sendRequestVoteCount(c) ==
    /\ GrantedNow(c)
    /\ ~Elected(c)
    /\ voteNum' = [voteNum EXCEPT ![c.from][c.term] = @ + 1]
    /\ rvCalls' = rvCalls \ {c}
    /\ UNCHANGED <<termVars, logVars, indexVars, leaderVars, diskVars, aeCalls,
                   isCalls, histVars>>

\* The vote that makes a majority.  The code asserts that the node is not
\* leader already (NoDoubleWin); doHeartBeat follows in a thread of its own.
sendRequestVoteWin(c) ==
    LET i == c.from IN
    /\ GrantedNow(c)
    /\ Elected(c)
    /\ voteNum' = [voteNum EXCEPT ![i][c.term] = 0]
    /\ status' = [status EXCEPT ![i] = "Leader"]
    /\ nextIndex' = [nextIndex EXCEPT
                       ![i] = [j \in Server |-> getLastLogIndex(i) + 1]]
    /\ matchIndex' = [matchIndex EXCEPT ![i] = [j \in Server |-> 0]]
    /\ leaders' = [leaders EXCEPT ![currentTerm[i]] = @ \cup {i}]
    /\ rvCalls' = rvCalls \ {c}
    /\ UNCHANGED <<currentTerm, votedFor, logVars, indexVars, appendNums,
                   diskVars, aeCalls, isCalls, voteHistory, restarts>>

\* The RPC fails, or its reply changes nothing: a lower term, a refusal, or the
\* empty message that is read when the peer closed the connection.
sendRequestVoteEnd(c) ==
    /\ rvCalls' = rvCalls \ {c}
    /\ UNCHANGED <<termVars, logVars, indexVars, leaderVars, voteNum, diskVars,
                   aeCalls, isCalls, histVars>>

-----------------------------------------------------------------------------
(* Log replication *)

start(i, command) ==
    /\ status[i] = "Leader"
    /\ getLastLogIndex(i) < MaxIndex
    /\ logs' = [logs EXCEPT ![i] = Append(@, [index |-> getNewCommandIndex(i),
                                              term |-> currentTerm[i],
                                              command |-> command])]
    /\ UNCHANGED <<termVars, lastSnapshotIncludeIndex, lastSnapshotIncludeTerm,
                   indexVars, leaderVars, voteNum, snapshotFile, callVars,
                   histVars>>
    /\ persist(i)

\* The AppendEntries call of round r that i starts for peer j.
aeRequest(i, j, r) ==
    LET prev == nextIndex[i][j] - 1 IN
    [from |-> i, to |-> j, live |-> TRUE, round |-> r, phase |-> "request",
     term |-> currentTerm[i], prevLogIndex |-> prev,
     prevLogTerm |-> getLogTermFromLogIndex(i, prev),
     entries |-> SubSeq(logs[i], getSlicesIndexFromLogIndex(i, prev) + 1,
                        Len(logs[i])),
     leaderCommit |-> commitIndex[i],
     rterm |-> 0, success |-> FALSE, updateNextIndex |-> 0]

\* The last index a call carries.
SentUpTo(c) == c.prevLogIndex + Len(c.entries)

\* The leaderSendSnapshot thread of round r that i starts for peer j.
isSpawn(i, j, r) ==
    [from |-> i, to |-> j, live |-> TRUE, round |-> r, phase |-> "spawned",
     term |-> 0, lastIndex |-> 0, lastTerm |-> 0, data |-> 0, rterm |-> 0]

\* The guard on nextIndex_ is the code's asserts: a node that fails one exits,
\* which is Restart.
doHeartBeat(i) ==
    LET r == Len(appendNums[i]) + 1
        peers == Server \ {i}
        behind == {j \in peers : nextIndex[i][j] <= lastSnapshotIncludeIndex[i]}
    IN
    /\ status[i] = "Leader"
    /\ r <= MaxRound
    /\ \A j \in peers : nextIndex[i][j] \in 1 .. getLastLogIndex(i) + 1
    /\ appendNums' = [appendNums EXCEPT ![i] = Append(@, 1)]
    /\ aeCalls' = aeCalls \cup {aeRequest(i, j, r) : j \in peers \ behind}
    /\ isCalls' = isCalls \cup {isSpawn(i, j, r) : j \in behind}
    /\ UNCHANGED <<termVars, logVars, indexVars, nextIndex, matchIndex, voteNum,
                   diskVars, rvCalls, histVars>>

aeReply(c, t, success, update) ==
    Answered(aeCalls, c, [c EXCEPT !.phase = "reply", !.rterm = t,
                                   !.success = success,
                                   !.updateNextIndex = update])

\* appendEntriesimpl: a leader of an older term.
appendEntriesStale(c) ==
    /\ c.phase = "request"
    /\ c.term < currentTerm[c.to]
    /\ aeCalls' = aeReply(c, currentTerm[c.to], FALSE, -100)
    /\ UNCHANGED <<termVars, logVars, indexVars, leaderVars, voteNum, diskVars,
                   rvCalls, isCalls, histVars>>

\* The receiver of a message from the leader of term t >= currentTerm[j].
FollowLeader(j, t) ==
    /\ t >= currentTerm[j]
    /\ currentTerm' = [currentTerm EXCEPT ![j] = t]
    /\ votedFor' = [votedFor EXCEPT ![j] = AdoptedVote(j, t)]
    /\ status' = [status EXCEPT ![j] = "Follower"]

\* appendEntriesimpl: the log is too short, the previous entry is inside the
\* snapshot, or it is of another term.
appendEntriesReject(c) ==
    LET j == c.to
        update == IF c.prevLogIndex > getLastLogIndex(j)
                  THEN getLastLogIndex(j) + 1
                  ELSE IF c.prevLogIndex < lastSnapshotIncludeIndex[j]
                       THEN lastSnapshotIncludeIndex[j] + 1
                       ELSE conflictNextIndex(j, c.prevLogIndex)
    IN
    /\ c.phase = "request"
    /\ FollowLeader(j, c.term)
    /\ ~matchLog(j, c.prevLogIndex, c.prevLogTerm)
    /\ aeCalls' = aeReply(c, c.term, FALSE, update)
    /\ UNCHANGED <<logVars, indexVars, leaderVars, voteNum, snapshotFile,
                   rvCalls, isCalls, histVars>>
    /\ persist(j)

\* appendEntriesimpl: the previous entry matches.  commitIndex_ follows the
\* leader's, bounded by the last index of the log as it now is.
appendEntriesAccept(c) ==
    LET j == c.to
        last == max(getLastLogIndex(j), SentUpTo(c))
    IN
    /\ c.phase = "request"
    /\ FollowLeader(j, c.term)
    /\ matchLog(j, c.prevLogIndex, c.prevLogTerm)
    /\ logs' = [logs EXCEPT ![j] = mergedLog(j, c.prevLogIndex, c.entries)]
    /\ commitIndex' = [commitIndex EXCEPT
                         ![j] = IF c.leaderCommit > @
                                THEN min(c.leaderCommit, last) ELSE @]
    /\ aeCalls' = aeReply(c, c.term, TRUE, 0)
    /\ UNCHANGED <<lastSnapshotIncludeIndex, lastSnapshotIncludeTerm,
                   lastApplied, leaderVars, voteNum, snapshotFile, rvCalls,
                   isCalls, histVars>>
    /\ persist(j)

\* sendAppendEntries, the reply carries a higher term.  Nothing is persisted.
sendAppendEntriesHigherTerm(c) ==
    /\ c.phase = "reply"
    /\ c.rterm > currentTerm[c.from]
    /\ BecomeFollower(c.from, c.rterm)
    /\ aeCalls' = aeCalls \ {c}
    /\ UNCHANGED <<logVars, indexVars, leaderVars, voteNum, diskVars, rvCalls,
                   isCalls, histVars>>

\* A reply of the current term reaches a node that is still leader.
ReplyToLeader(c) ==
    /\ c.phase = "reply"
    /\ c.rterm = currentTerm[c.from]
    /\ status[c.from] = "Leader"

sendAppendEntriesBacktrack(c) ==
    /\ ReplyToLeader(c)
    /\ ~c.success /\ c.updateNextIndex # -100
    /\ nextIndex' = [nextIndex EXCEPT ![c.from][c.to] = c.updateNextIndex]
    /\ aeCalls' = aeCalls \ {c}
    /\ UNCHANGED <<termVars, logVars, indexVars, matchIndex, appendNums, voteNum,
                   diskVars, rvCalls, isCalls, histVars>>

\* The reply c makes its heartbeat round reach a majority.
RoundComplete(c) == appendNums[c.from][c.round] + 1 >= Majority

\* Slip: the index after the last sent one is committed.
commitIndexOffByOne(c) ==
    IF /\ RoundComplete(c)
       /\ c.entries # << >>
       /\ c.entries[Len(c.entries)].term = currentTerm[c.from]
    THEN max(commitIndex[c.from], SentUpTo(c) + 1)
    ELSE commitIndex[c.from]

\* commitIndex_ after success reply c: a round that reaches a majority commits
\* what the call that completed it carried, if its last entry is of this term.
commitIndexAfter(c) ==
    IF /\ RoundComplete(c)
       /\ c.entries # << >>
       /\ c.entries[Len(c.entries)].term = currentTerm[c.from]
    THEN max(commitIndex[c.from], SentUpTo(c))
    ELSE commitIndex[c.from]

sendAppendEntriesSuccess(c) ==
    LET i == c.from
        match == max(matchIndex[i][c.to], SentUpTo(c))
    IN
    /\ ReplyToLeader(c)
    /\ c.success
    /\ matchIndex' = [matchIndex EXCEPT ![i][c.to] = match]
    /\ nextIndex' = [nextIndex EXCEPT ![i][c.to] = match + 1]
    /\ appendNums' = [appendNums EXCEPT
                        ![i][c.round] = IF RoundComplete(c) THEN 0 ELSE @ + 1]
    /\ commitIndex' = [commitIndex EXCEPT ![i] = commitIndexAfter(c)]
    /\ aeCalls' = aeCalls \ {c}
    /\ UNCHANGED <<termVars, logVars, lastApplied, voteNum, diskVars, rvCalls,
                   isCalls, histVars>>

\* The RPC fails, or its reply changes nothing.
sendAppendEntriesEnd(c) ==
    /\ aeCalls' = aeCalls \ {c}
    /\ UNCHANGED <<termVars, logVars, indexVars, leaderVars, voteNum, diskVars,
                   rvCalls, isCalls, histVars>>

\* getApplyLogs: everything committed is handed to KvServer.
applierTicker(i) ==
    /\ lastApplied[i] < commitIndex[i]
    /\ lastApplied' = [lastApplied EXCEPT ![i] = commitIndex[i]]
    /\ UNCHANGED <<termVars, logVars, commitIndex, leaderVars, voteNum, diskVars,
                   callVars, histVars>>

-----------------------------------------------------------------------------
(* Snapshots *)

\* The leaderSendSnapshot thread fills its request.  It does not look at
\* status_ again, so the term it sends is whatever the node is in by now.
leaderSendSnapshot(c) ==
    LET i == c.from IN
    /\ c.phase = "spawned"
    /\ isCalls' = (isCalls \ {c}) \cup
         {[c EXCEPT !.phase = "request", !.term = currentTerm[i],
                    !.lastIndex = lastSnapshotIncludeIndex[i],
                    !.lastTerm = lastSnapshotIncludeTerm[i],
                    !.data = snapshotFile[i]]}
    /\ UNCHANGED <<termVars, logVars, indexVars, leaderVars, voteNum, diskVars,
                   rvCalls, aeCalls, histVars>>

isReply(c, phase, t) ==
    Answered(isCalls, c, [c EXCEPT !.phase = phase, !.rterm = t])

installSnapshotStale(c) ==
    /\ c.phase = "request"
    /\ c.term < currentTerm[c.to]
    /\ isCalls' = isReply(c, "reply", currentTerm[c.to])
    /\ UNCHANGED <<termVars, logVars, indexVars, leaderVars, voteNum, diskVars,
                   rvCalls, aeCalls, histVars>>

\* A snapshot the node already covers: the reply is never filled in, and an
\* empty reply puts no byte on the wire.
installSnapshotOld(c) ==
    LET j == c.to IN
    /\ c.phase = "request"
    /\ FollowLeader(j, c.term)
    /\ c.lastIndex <= lastSnapshotIncludeIndex[j]
    /\ isCalls' = isReply(c, "unanswered", 0)
    /\ UNCHANGED <<logVars, indexVars, leaderVars, voteNum, snapshotFile,
                   rvCalls, aeCalls, histVars>>
    /\ IF c.term > currentTerm[j] THEN persist(j) ELSE UNCHANGED raftState

\* The in-memory part of installing snapshot c at c.to.
InstallInMemory(c) ==
    LET j == c.to IN
    /\ c.phase = "request"
    /\ FollowLeader(j, c.term)
    /\ c.lastIndex > lastSnapshotIncludeIndex[j]
    /\ logs' = [logs EXCEPT ![j] = erasedLog(j, c.lastIndex)]
    /\ lastSnapshotIncludeIndex' =
         [lastSnapshotIncludeIndex EXCEPT ![j] = c.lastIndex]
    /\ lastSnapshotIncludeTerm' =
         [lastSnapshotIncludeTerm EXCEPT ![j] = c.lastTerm]

installSnapshotApply(c) ==
    LET j == c.to IN
    /\ InstallInMemory(c)
    /\ commitIndex' = [commitIndex EXCEPT ![j] = max(@, c.lastIndex)]
    /\ lastApplied' = [lastApplied EXCEPT ![j] = max(@, c.lastIndex)]
    /\ isCalls' = isReply(c, "reply", c.term)
    /\ UNCHANGED <<leaderVars, voteNum, rvCalls, aeCalls, histVars>>
    /\ SaveWithSnapshot(j, c.data)

\* leaderSendSnapshot, back from the RPC: only a leader still in the term it
\* sent looks at the reply.
StillLeaderOf(c) ==
    /\ c.phase = "reply"
    /\ status[c.from] = "Leader"
    /\ currentTerm[c.from] = c.term

sendSnapshotHigherTerm(c) ==
    /\ StillLeaderOf(c)
    /\ c.rterm > currentTerm[c.from]
    /\ BecomeFollower(c.from, c.rterm)
    /\ isCalls' = isCalls \ {c}
    /\ UNCHANGED <<logVars, indexVars, leaderVars, voteNum, snapshotFile,
                   rvCalls, aeCalls, histVars>>
    /\ persist(c.from)

sendSnapshotSuccess(c) ==
    /\ StillLeaderOf(c)
    /\ c.rterm <= currentTerm[c.from]
    /\ matchIndex' = [matchIndex EXCEPT ![c.from][c.to] = c.lastIndex]
    /\ nextIndex' = [nextIndex EXCEPT ![c.from][c.to] = c.lastIndex + 1]
    /\ isCalls' = isCalls \ {c}
    /\ UNCHANGED <<termVars, logVars, indexVars, appendNums, voteNum, diskVars,
                   rvCalls, aeCalls, histVars>>

\* The RPC fails, or the caller is no longer the leader it was.
sendSnapshotEnd(c) ==
    /\ c.phase # "spawned"
    /\ isCalls' = isCalls \ {c}
    /\ UNCHANGED <<termVars, logVars, indexVars, leaderVars, voteNum, diskVars,
                   rvCalls, aeCalls, histVars>>

\* KvServer has made a snapshot of everything up to index, a command it was
\* handed in this incarnation.
SnapshotInMemory(i, index) ==
    /\ SnapshotsOn
    /\ index <= lastApplied[i]
    /\ lastSnapshotIncludeIndex[i] < index /\ index <= commitIndex[i]
    /\ logs' = [logs EXCEPT ![i] = erasedLog(i, index)]
    /\ lastSnapshotIncludeTerm' = [lastSnapshotIncludeTerm EXCEPT
                                     ![i] = getLogTermFromLogIndex(i, index)]
    /\ lastSnapshotIncludeIndex' = [lastSnapshotIncludeIndex EXCEPT ![i] = index]

snapshot(i, index) ==
    /\ SnapshotInMemory(i, index)
    /\ commitIndex' = [commitIndex EXCEPT ![i] = max(@, index)]
    /\ lastApplied' = [lastApplied EXCEPT ![i] = max(@, index)]
    /\ UNCHANGED <<termVars, leaderVars, voteNum, callVars, histVars>>
    /\ SaveWithSnapshot(i, index)

-----------------------------------------------------------------------------
(* Crashes *)

\* Process i dies and a new one runs init().  Everything but the files is
\* lost.  A caller waiting in recv() reads an empty message once the
\* connection closes; closed are the InstallSnapshot calls this happens to.
Die(i, closed) ==
    LET cut == closed \cup {c \in isCalls : c.to = i /\ c.phase = "unanswered"}
    IN
    /\ restarts < MaxRestart
    /\ status' = [status EXCEPT ![i] = "Follower"]
    /\ commitIndex' = [commitIndex EXCEPT ![i] = 0]
    /\ nextIndex' = [nextIndex EXCEPT ![i] = [j \in Server |-> 0]]
    /\ matchIndex' = [matchIndex EXCEPT ![i] = [j \in Server |-> 0]]
    /\ voteNum' = [voteNum EXCEPT ![i] = [t \in Term |-> 0]]
    /\ appendNums' = [appendNums EXCEPT ![i] = << >>]
    /\ rvCalls' = Orphaned(rvCalls, i)
    /\ aeCalls' = Orphaned(aeCalls, i)
    /\ isCalls' = Orphaned(isCalls \ cut, i) \cup
                    {[c EXCEPT !.phase = "reply", !.rterm = 0] :
                        c \in {d \in cut : d.live}}
    /\ restarts' = restarts + 1
    /\ UNCHANGED <<voteHistory, leaders, snapshotFile>>

\* init() and readPersist() over the state file d.
Boot(i, d) ==
    /\ currentTerm' = [currentTerm EXCEPT ![i] = d.currentTerm]
    /\ votedFor' = [votedFor EXCEPT ![i] = d.votedFor]
    /\ lastSnapshotIncludeIndex' =
         [lastSnapshotIncludeIndex EXCEPT ![i] = d.lastSnapshotIncludeIndex]
    /\ lastSnapshotIncludeTerm' =
         [lastSnapshotIncludeTerm EXCEPT ![i] = d.lastSnapshotIncludeTerm]
    /\ logs' = [logs EXCEPT ![i] = d.logs]
    /\ lastApplied' = [lastApplied EXCEPT ![i] = d.lastSnapshotIncludeIndex]

PendingInstalls(i) == {c \in isCalls : c.to = i /\ c.live /\ c.phase = "request"}

Restart(i) ==
    /\ \E closed \in SUBSET PendingInstalls(i) : Die(i, closed)
    /\ Boot(i, raftState[i])
    /\ UNCHANGED raftState

\* The process dies inside Save, after the state file and before the snapshot
\* file.  It boots from the state file that was just written, so its memory is
\* what the interrupted operation left, and its snapshot file is the old one.
CrashInSnapshot(i, index) ==
    /\ SnapshotInMemory(i, index)
    /\ Die(i, {})
    /\ lastApplied' = [lastApplied EXCEPT ![i] = index]
    /\ UNCHANGED <<currentTerm, votedFor>>
    /\ persist(i)

CrashInInstallSnapshot(c) ==
    /\ InstallInMemory(c)
    /\ Die(c.to, {c})
    /\ lastApplied' = [lastApplied EXCEPT ![c.to] = c.lastIndex]
    /\ persist(c.to)

-----------------------------------------------------------------------------

RequestVoteNext == \E c \in rvCalls :
    \/ requestVoteStale(c) \/ requestVoteRefuse(c) \/ requestVoteGrant(c)
    \/ sendRequestVoteHigherTerm(c) \/ sendRequestVoteCount(c)
    \/ sendRequestVoteWin(c) \/ sendRequestVoteEnd(c)

AppendEntriesNext == \E c \in aeCalls :
    \/ appendEntriesStale(c) \/ appendEntriesReject(c) \/ appendEntriesAccept(c)
    \/ sendAppendEntriesHigherTerm(c) \/ sendAppendEntriesBacktrack(c)
    \/ sendAppendEntriesSuccess(c) \/ sendAppendEntriesEnd(c)

InstallSnapshotNext == \E c \in isCalls :
    \/ leaderSendSnapshot(c)
    \/ installSnapshotStale(c) \/ installSnapshotOld(c) \/ installSnapshotApply(c)
    \/ sendSnapshotHigherTerm(c) \/ sendSnapshotSuccess(c) \/ sendSnapshotEnd(c)
    \/ CrashInInstallSnapshot(c)

ServerNext == \E i \in Server :
    \/ doElection(i) \/ doHeartBeat(i) \/ applierTicker(i) \/ Restart(i)
    \/ \E command \in Command : start(i, command)
    \/ \E index \in 1 .. MaxIndex : snapshot(i, index) \/ CrashInSnapshot(i, index)

Next == RequestVoteNext \/ AppendEntriesNext \/ InstallSnapshotNext \/ ServerNext

Spec == Init /\ [][Next]_vars

-----------------------------------------------------------------------------
(* Properties *)

\* Every variable has its type; terms stay within the bound and messages carry
\* values of the types of raftRPC.proto.
TypeOK ==
    /\ currentTerm \in [Server -> Term]
    /\ votedFor \in [Server -> Server \cup {NoVote}]
    /\ status \in [Server -> {"Follower", "Candidate", "Leader"}]
    /\ logs \in [Server -> Seq(Entry)]
    /\ lastSnapshotIncludeIndex \in [Server -> Nat]
    /\ lastSnapshotIncludeTerm \in [Server -> Term]
    /\ commitIndex \in [Server -> Nat]
    /\ lastApplied \in [Server -> Nat]
    /\ nextIndex \in [Server -> [Server -> Nat]]
    /\ matchIndex \in [Server -> [Server -> Nat]]
    /\ voteNum \in [Server -> [Term -> Nat]]
    /\ appendNums \in [Server -> Seq(Nat)]
    /\ raftState \in [Server -> RaftState]
    /\ snapshotFile \in [Server -> Nat]
    /\ rvCalls \subseteq RVCall
    /\ aeCalls \subseteq AECall
    /\ isCalls \subseteq ISCall
    /\ voteHistory \in [Server -> [Term -> Server \cup {NoVote}]]
    /\ leaders \in [Term -> SUBSET Server]
    /\ restarts \in Nat

\* At most one server ever wins a given term (sendRequestVote, raft.cpp:399-409),
\* over the whole history and across crashes.
ElectionSafety == \A t \in Term : \A i, j \in leaders[t] : i = j

\* The assert of raft.cpp:402-405: the vote that completes a majority never
\* reaches a node that is leader already, so the node does not exit.
NoDoubleWin ==
    \A c \in rvCalls : GrantedNow(c) /\ Elected(c) => status[c.from] # "Leader"

\* An AppendEntries of a leader's own term never reaches it: the unconditional
\* status_ = Follower of raft.cpp:485 only ever ends a candidacy.
NoRivalAppend ==
    \A c \in aeCalls : c.phase = "request" /\ c.term = currentTerm[c.to]
                        => status[c.to] # "Leader"

\* Every entry in a log, in a state file or on the wire.
AllEntries ==
    UNION ({{logs[i][k] : k \in DOMAIN logs[i]} : i \in Server} \cup
           {{raftState[i].logs[k] : k \in DOMAIN raftState[i].logs} : i \in Server} \cup
           {{c.entries[k] : k \in DOMAIN c.entries} : c \in aeCalls})

\* The entries of the log of i by logical index.
EntryAt(i, k) == logs[i][getSlicesIndexFromLogIndex(i, k)]
Holds(i, k) == k \in lastSnapshotIncludeIndex[i] + 1 .. getLastLogIndex(i)

\* The assert of raft.cpp:509-518: two entries with the same index and term
\* have the same command, wherever they are and whatever crashed in between.
EntryIdentity ==
    \A e, f \in AllEntries :
        e.index = f.index /\ e.term = f.term => e.command = f.command

\* log holds the entries that follow index base.
Contiguous(log, base) == \A k \in 1 .. Len(log) : log[k].index = base + k

\* logs_ starts right after the snapshot and has no gap, in memory, on disk and
\* in a message: what getSlicesIndexFromLogIndex and the asserts of
\* raft.cpp:777 and 984 rest on.
LogContiguous ==
    /\ \A i \in Server :
         /\ Contiguous(logs[i], lastSnapshotIncludeIndex[i])
         /\ Contiguous(raftState[i].logs, raftState[i].lastSnapshotIncludeIndex)
    /\ \A c \in aeCalls : Contiguous(c.entries, c.prevLogIndex)

\* What a success reply stands for stays true for as long as the follower is in
\* that term, whatever late or repeated messages it handles: its log has every
\* entry the call carried (raft.cpp:499-526), as far as it is not in a snapshot.
AckedEntriesStay ==
    \A c \in aeCalls :
        c.phase = "reply" /\ c.success /\ currentTerm[c.to] = c.term =>
            \A k \in 1 .. Len(c.entries) :
                \/ c.prevLogIndex + k <= lastSnapshotIncludeIndex[c.to]
                \/ /\ Holds(c.to, c.prevLogIndex + k)
                   /\ EntryAt(c.to, c.prevLogIndex + k) = c.entries[k]

\* commitIndex_ never runs past the log (asserts of raft.cpp:357, 538 and 771),
\* and what is handed to KvServer lies between the snapshot and commitIndex_,
\* so that every entry getApplyLogs reads is in logs_.
CommitWithinLog ==
    \A i \in Server :
        /\ commitIndex[i] <= getLastLogIndex(i)
        /\ lastSnapshotIncludeIndex[i] <= lastApplied[i]
        /\ lastApplied[i] <= max(commitIndex[i], lastSnapshotIncludeIndex[i])

\* A leader never announces a commitIndex_ beyond the entries it sends with it.
\* This is why the min with getLastLogIndex() of raft.cpp:535, which counts the
\* follower's own stale suffix, cannot commit that suffix.
CommitCarried ==
    \A c \in aeCalls : c.leaderCommit <= SentUpTo(c)

DurableLastIndex(i) ==
    IF raftState[i].logs = << >> THEN raftState[i].lastSnapshotIncludeIndex
    ELSE raftState[i].logs[Len(raftState[i].logs)].index

\* Whatever a node regards as committed, a majority holds on disk a log that
\* reaches that far: the per-round counter of raft.cpp:337-355 counts a majority
\* of distinct peers, across lost, late and reordered replies and crashes.
CommittedOnMajority ==
    \A i \in Server :
        Cardinality({j \in Server : DurableLastIndex(j) >= commitIndex[i]})
            >= Majority

\* No step makes a log shorter, a crash included: start() persists before it
\* answers and appendEntriesimpl before it replies, so an index handed to a
\* waiting client is never handed out again.
LastLogIndexMonotonic ==
    [][\A i \in Server : getLastLogIndex(i)' >= getLastLogIndex(i)]_vars

\* What is on disk never goes back to an older term, and a vote on disk is not
\* changed within its term, although sendAppendEntries (raft.cpp:291-296)
\* changes the term in memory only.
DurableVoteStable ==
    [][\A i \in Server :
         LET old == raftState[i]
             new == raftState'[i]
         IN  /\ new.currentTerm >= old.currentTerm
             /\ new.currentTerm = old.currentTerm /\ old.votedFor # NoVote
                => new.votedFor = old.votedFor]_vars

\* An entry that the leader of an earlier term advanced commitIndex_ over
\* ("safely", raft.cpp:353) is in the log of every later leader.
LeaderCompleteness ==
    \A i, j \in Server :
        status[i] = "Leader" /\ currentTerm[j] <= currentTerm[i] =>
            \A k \in 1 .. commitIndex[j] :
                Holds(j, k) => (k <= lastSnapshotIncludeIndex[i]
                                \/ (Holds(i, k) /\ EntryAt(i, k) = EntryAt(j, k)))

=============================================================================
