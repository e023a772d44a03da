---------------------------- MODULE CommitProofs ----------------------------
(***************************************************************************)
(* What a server never takes back, and whatever it regards as committed    *)
(* being on the disks of a majority, for any number of servers and         *)
(* whatever is lost, late or crashes.                                      *)
(*                                                                         *)
(* The argument, first part: every step that changes a log persists it     *)
(* (DiskHasLog), so that a restart brings the same log back; and every     *)
(* step that persists a term persists one that is not older than the       *)
(* disk's.                                                                 *)
(*                                                                         *)
(* Second part: the counter of a heartbeat round is at most the number of  *)
(* servers whose log reaches what the round sent and whose call is over    *)
(* (RoundInv), so the reply that completes a round proves a majority; logs *)
(* never get shorter, so a majority stays one; and every other way in      *)
(* which commitIndex_ or a snapshot index spreads starts from an index     *)
(* that had its majority (CommitInv).                                      *)
(***************************************************************************)
EXTENDS ElectionProofs

-----------------------------------------------------------------------------
(* Votes on disk *)

\* A step that writes nothing, or the state of a server whose term has not
\* gone back.
Writes(j) == persist(j) /\ currentTerm'[j] >= currentTerm[j]

LEMMA WritesForward ==
    ASSUME TypeOK, TypeOK', VoteInv,
           raftState' = raftState \/ \E j \in Server : Writes(j)
    PROVE  DiskForward
<1>1. \A k \in Server : raftState[k].currentTerm \in Nat
  BY TermTypes
<1>2. ASSUME NEW j \in Server, Writes(j)
      PROVE  DiskForward
  <2>1. /\ raftState'[j].currentTerm = currentTerm'[j]
        /\ \A k \in Server \ {j} : raftState'[k] = raftState[k]
    BY <1>2, PersistedVote DEF Writes
  <2>2. /\ currentTerm'[j] >= currentTerm[j]
        /\ currentTerm[j] >= raftState[j].currentTerm
        /\ currentTerm[j] \in Nat /\ currentTerm'[j] \in Nat
    <3>1. currentTerm[j] \in Nat
      BY TermTypes
    <3>2. currentTerm'[j] \in Nat
      BY TermTypes DEF TypeOK
    <3> QED BY <1>2, <3>1, <3>2, <1>1 DEF Writes, VoteInv
  <2> QED BY <1>1, <2>1, <2>2 DEF DiskForward
<1> QED BY <1>1, <1>2 DEF DiskForward

\* The term of a message or a reply that is followed is not older.
LEMMA Followed ==
    ASSUME TypeOK, NEW j \in Server, NEW t \in Term,
           \/ FollowLeader(j, t)
           \/ t > currentTerm[j] /\ BecomeFollower(j, t)
           \/ UNCHANGED currentTerm
    PROVE  currentTerm'[j] >= currentTerm[j]
<1>1. currentTerm[j] \in Nat /\ t \in Nat /\ currentTerm \in [Server -> Term]
  BY TermTypes DEF TypeOK
<1> QED BY <1>1 DEF FollowLeader, BecomeFollower

LEMMA VotesStep ==
    ASSUME ElectionInv, TypeOK', [Next]_vars
    PROVE  VotesKept /\ DiskForward
<1>1. TypeOK /\ VoteInv
  BY DEF ElectionInv
<1>2. voteHistory' = voteHistory => VotesKept
  BY DEF VotesKept
<1>3. CASE RequestVoteNext
  <2>1. PICK c \in rvCalls :
          \/ requestVoteStale(c) \/ requestVoteRefuse(c) \/ requestVoteGrant(c)
          \/ sendRequestVoteHigherTerm(c) \/ sendRequestVoteCount(c)
          \/ sendRequestVoteWin(c) \/ sendRequestVoteEnd(c)
    BY <1>3 DEF RequestVoteNext
  <2>2. /\ c.from \in Server /\ c.to \in Server /\ c.term \in Term /\ c.rterm \in Term
        /\ currentTerm[c.to] \in Nat /\ c.term \in Nat
    <3>1. c \in RVCall
      BY <1>1 DEF TypeOK
    <3> QED BY <1>1, <3>1, TermTypes DEF RVCall
  <2>3. CASE requestVoteStale(c)
    <3>1. /\ persist(c.to) /\ currentTerm' = currentTerm /\ voteHistory' = voteHistory
      BY <2>3 DEF requestVoteStale, termVars
    <3> QED BY <1>1, <1>2, <2>2, <3>1, WritesForward DEF Writes
  <2>4. CASE requestVoteRefuse(c)
    <3>1. /\ persist(c.to) /\ voteHistory' = voteHistory
          /\ currentTerm'[c.to] >= currentTerm[c.to]
      BY <1>1, <2>2, <2>4 DEF requestVoteRefuse, TypeOK
    <3> QED BY <1>1, <1>2, <2>2, <3>1, WritesForward DEF Writes
  <2>5. CASE requestVoteGrant(c)
    <3>1. /\ c.term >= currentTerm[c.to]
          /\ AdoptedVote(c.to, c.term) \in {NoVote, c.from}
          /\ currentTerm' = [currentTerm EXCEPT ![c.to] = c.term]
          /\ votedFor' = [votedFor EXCEPT ![c.to] = c.from]
          /\ voteHistory' = [voteHistory EXCEPT ![c.to][c.term] = c.from]
          /\ persist(c.to)
      BY <2>5 DEF requestVoteGrant, CanGrant
    <3> QED BY <1>1, <2>2, <3>1, Cast
  <2>6. CASE sendRequestVoteHigherTerm(c)
    <3>1. /\ persist(c.from) /\ voteHistory' = voteHistory
          /\ c.rterm > currentTerm[c.from] /\ BecomeFollower(c.from, c.rterm)
      BY <2>6 DEF sendRequestVoteHigherTerm
    <3> QED BY <1>1, <1>2, <2>2, <3>1, Followed, WritesForward DEF Writes
  <2>7. CASE sendRequestVoteCount(c) \/ sendRequestVoteWin(c) \/ sendRequestVoteEnd(c)
    <3>1. raftState' = raftState /\ voteHistory' = voteHistory
      BY <2>7 DEF sendRequestVoteCount, sendRequestVoteWin, sendRequestVoteEnd,
                  diskVars, histVars
    <3> QED BY <1>1, <1>2, <3>1, WritesForward
  <2> QED BY <2>1, <2>3, <2>4, <2>5, <2>6, <2>7
<1>4. CASE AppendEntriesNext
  <2>1. PICK c \in aeCalls :
          \/ appendEntriesStale(c) \/ appendEntriesReject(c) \/ appendEntriesAccept(c)
          \/ sendAppendEntriesHigherTerm(c) \/ sendAppendEntriesBacktrack(c)
          \/ sendAppendEntriesSuccess(c) \/ sendAppendEntriesEnd(c)
    BY <1>4 DEF AppendEntriesNext
  <2>2. c.to \in Server /\ c.term \in Term
    <3>1. c \in AECall
      BY <1>1 DEF TypeOK
    <3> QED BY <3>1 DEF AECall
  <2>3. /\ voteHistory' = voteHistory
        /\ \/ raftState' = raftState
           \/ persist(c.to) /\ FollowLeader(c.to, c.term)
    BY <2>1 DEF appendEntriesStale, appendEntriesReject, appendEntriesAccept,
                sendAppendEntriesHigherTerm, sendAppendEntriesBacktrack,
                sendAppendEntriesSuccess, sendAppendEntriesEnd, histVars, diskVars
  <2> QED BY <1>1, <1>2, <2>2, <2>3, Followed, WritesForward DEF Writes
<1>5. CASE InstallSnapshotNext
  <2>1. PICK c \in isCalls :
          \/ leaderSendSnapshot(c) \/ installSnapshotStale(c)
          \/ installSnapshotOld(c) \/ installSnapshotApply(c)
          \/ sendSnapshotHigherTerm(c) \/ sendSnapshotSuccess(c)
          \/ sendSnapshotEnd(c) \/ CrashInInstallSnapshot(c)
    BY <1>5 DEF InstallSnapshotNext
  <2>2. /\ c.from \in Server /\ c.to \in Server
        /\ c.term \in Term /\ c.rterm \in Term
    BY isInstall
  <2>3. CASE sendSnapshotHigherTerm(c)
    <3>1. /\ persist(c.from) /\ voteHistory' = voteHistory
          /\ c.rterm > currentTerm[c.from] /\ BecomeFollower(c.from, c.rterm)
      BY <2>3 DEF sendSnapshotHigherTerm, histVars
    <3> QED BY <1>1, <1>2, <2>2, <3>1, Followed, WritesForward DEF Writes
  <2>4. CASE \/ leaderSendSnapshot(c) \/ installSnapshotStale(c)
             \/ sendSnapshotSuccess(c) \/ sendSnapshotEnd(c)
    <3>1. raftState' = raftState /\ voteHistory' = voteHistory
      BY <2>4 DEF leaderSendSnapshot, installSnapshotStale, sendSnapshotSuccess,
                  sendSnapshotEnd, diskVars, histVars
    <3> QED BY <1>1, <1>2, <3>1, WritesForward
  <2>5. CASE \/ installSnapshotOld(c) \/ installSnapshotApply(c)
             \/ CrashInInstallSnapshot(c)
    <3>1. /\ voteHistory' = voteHistory
          /\ FollowLeader(c.to, c.term)
          /\ raftState' = raftState \/ persist(c.to)
      BY <2>5 DEF installSnapshotOld, installSnapshotApply, InstallInMemory,
                  SaveWithSnapshot, CrashInInstallSnapshot, Die, histVars
    <3> QED BY <1>1, <1>2, <2>2, <3>1, Followed, WritesForward DEF Writes
  <2> QED BY <2>1, <2>3, <2>4, <2>5
<1>6. CASE ServerNext
  <2>1. PICK i \in Server :
          \/ doElection(i) \/ doHeartBeat(i) \/ applierTicker(i) \/ Restart(i)
          \/ \E command \in Command : start(i, command)
          \/ \E index \in 1 .. MaxIndex : snapshot(i, index) \/ CrashInSnapshot(i, index)
    BY <1>6 DEF ServerNext
  <2>2. CASE doElection(i)
    <3> DEFINE t == currentTerm[i] + 1
    <3>1. /\ currentTerm' = [currentTerm EXCEPT ![i] = t]
          /\ votedFor' = [votedFor EXCEPT ![i] = i]
          /\ voteHistory' = [voteHistory EXCEPT ![i][t] = i]
          /\ persist(i) /\ currentTerm[i] < MaxTerm
      BY <2>2 DEF doElection
    <3>2. t \in Term /\ t > currentTerm[i] /\ t >= currentTerm[i]
      BY <1>1, <3>1, TermTypes, BoundAssumption DEF Term
    <3>3. AdoptedVote(i, t) = NoVote
      BY <3>2 DEF AdoptedVote
    <3> HIDE DEF t
    <3> QED BY <1>1, <3>1, <3>2, <3>3, Cast
  <2>3. CASE doHeartBeat(i) \/ applierTicker(i) \/ Restart(i)
    <3>1. raftState' = raftState /\ voteHistory' = voteHistory
      BY <2>3 DEF doHeartBeat, applierTicker, Restart, Die, diskVars, histVars
    <3> QED BY <1>1, <1>2, <3>1, WritesForward
  <2>4. CASE \/ \E command \in Command : start(i, command)
             \/ \E index \in 1 .. MaxIndex : snapshot(i, index) \/ CrashInSnapshot(i, index)
    <3>1. persist(i) /\ currentTerm' = currentTerm /\ voteHistory' = voteHistory
      BY <2>4 DEF start, snapshot, SaveWithSnapshot, CrashInSnapshot, Die,
                  termVars, histVars
    <3>2. currentTerm[i] \in Nat
      BY <1>1, TermTypes
    <3> QED BY <1>1, <1>2, <3>1, <3>2, WritesForward DEF Writes
  <2> QED BY <2>1, <2>2, <2>3, <2>4
<1>7. CASE UNCHANGED vars
  <2>1. raftState' = raftState /\ voteHistory' = voteHistory
    BY <1>7 DEF vars, diskVars, histVars
  <2> QED BY <1>1, <1>2, <2>1, WritesForward
<1> QED BY <1>3, <1>4, <1>5, <1>6, <1>7 DEF Next

\* What voteHistory says of a term is what the disk says in that term.
LEMMA DiskVoteKept ==
    ASSUME TypeOK, VoteInv, VoteInv', VotesKept, DiskForward, NEW i \in Server
    PROVE  /\ raftState'[i].currentTerm >= raftState[i].currentTerm
           /\ raftState'[i].currentTerm = raftState[i].currentTerm
                /\ raftState[i].votedFor # NoVote
              => raftState'[i].votedFor = raftState[i].votedFor
BY TermTypes DEF VoteInv, VotesKept, DiskForward

\* The term on disk never goes back and a vote on disk stands for its term, for
\* any number of servers: whatever a handler changes in memory only, what the
\* next persist() writes is not older than what it replaces.
THEOREM DurableVotes == Spec => DurableVoteStable
<1>1. ElectionInv /\ ElectionInv' /\ [Next]_vars
        => [\A i \in Server :
              LET old == raftState[i]
                  new == raftState'[i]
              IN  /\ new.currentTerm >= old.currentTerm
                  /\ new.currentTerm = old.currentTerm /\ old.votedFor # NoVote
                     => new.votedFor = old.votedFor]_vars
  <2> SUFFICES ASSUME ElectionInv, ElectionInv', [Next]_vars, NEW i \in Server
               PROVE  /\ raftState'[i].currentTerm >= raftState[i].currentTerm
                      /\ raftState'[i].currentTerm = raftState[i].currentTerm
                           /\ raftState[i].votedFor # NoVote
                         => raftState'[i].votedFor = raftState[i].votedFor
    OBVIOUS
  <2>1. TypeOK /\ TypeOK' /\ VoteInv /\ VoteInv'
    BY DEF ElectionInv
  <2> QED BY <2>1, VotesStep, DiskVoteKept
<1> QED BY <1>1, ElectionInvariant, PTL DEF Spec, DurableVoteStable

-----------------------------------------------------------------------------
(* Logs on disk *)

\* What a server would read back is the log it has.
DiskHasLog ==
    \A i \in Server :
        /\ raftState[i].logs = logs[i]
        /\ raftState[i].lastSnapshotIncludeIndex = lastSnapshotIncludeIndex[i]

DiskLogInv == LogInv /\ DiskHasLog

\* A step that leaves every log alone.
LogsKept ==
    /\ logs' = logs /\ lastSnapshotIncludeIndex' = lastSnapshotIncludeIndex
    /\ raftState' = raftState \/ \E j \in Server : persist(j)

\* A step that changes the log of j, and persists what it has made.
LogChanges(j) ==
    /\ persist(j)
    /\ \A k \in Server \ {j} :
         /\ logs'[k] = logs[k]
         /\ lastSnapshotIncludeIndex'[k] = lastSnapshotIncludeIndex[k]
    /\ getLastLogIndex(j)' >= getLastLogIndex(j)

LEMMA startChanges ==
    ASSUME LogInv, NEW i \in Server, NEW command \in Command, start(i, command)
    PROVE  LogChanges(i)
<1> DEFINE e == [index |-> getNewCommandIndex(i), term |-> currentTerm[i],
                 command |-> command]
<1>1. /\ logs' = [logs EXCEPT ![i] = Append(@, e)]
      /\ UNCHANGED lastSnapshotIncludeIndex
      /\ persist(i)
  BY DEF start
<1>2. logs \in [Server -> Seq(Entry)] /\ e \in Entry
  <2>1. getNewCommandIndex(i) \in Nat /\ currentTerm[i] \in Term
    BY ServerTypes, LastIndex DEF getNewCommandIndex
  <2> QED BY <2>1 DEF LogInv, TypeOK, Entry
<1>3. e.index = getLastLogIndex(i) + 1
  BY DEF getNewCommandIndex
<1> HIDE DEF e
<1>4. /\ logs'[i] = Append(logs[i], e)
      /\ \A k \in Server \ {i} : logs'[k] = logs[k]
  BY <1>1, <1>2
<1>5. logs'[i] # << >> /\ logs'[i][Len(logs'[i])] = e
  BY <1>2, <1>4, AppendProperties
<1>6. getLastLogIndex(i)' = getLastLogIndex(i) + 1
  BY <1>3, <1>5 DEF getLastLogIndex
<1> QED BY <1>1, <1>4, <1>6, LastIndex DEF LogChanges

LEMMA appendEntriesAcceptChanges ==
    ASSUME LogInv, NEW c \in aeCalls, appendEntriesAccept(c)
    PROVE  /\ LogChanges(c.to)
           /\ getLastLogIndex(c.to)' = max(getLastLogIndex(c.to), SentUpTo(c))
<1> DEFINE j == c.to
           merged == mergedLog(j, c.prevLogIndex, c.entries)
<1>1. /\ logs' = [logs EXCEPT ![j] = merged]
      /\ UNCHANGED lastSnapshotIncludeIndex
      /\ persist(j)
  BY DEF appendEntriesAccept
<1>2. /\ j \in Server /\ c.entries \in Seq(Entry)
      /\ Contiguous(c.entries, c.prevLogIndex)
      /\ c.prevLogIndex \in lastSnapshotIncludeIndex[j] .. getLastLogIndex(j)
  BY aeFields DEF appendEntriesAccept, matchLog
<1>3. /\ merged \in Seq(Entry) /\ Contiguous(merged, lastSnapshotIncludeIndex[j])
      /\ lastSnapshotIncludeIndex[j] + Len(merged)
           = max(getLastLogIndex(j), c.prevLogIndex + Len(c.entries))
  BY <1>2, MergedLog
<1>4. /\ logs'[j] = merged
      /\ \A k \in Server \ {j} : logs'[k] = logs[k]
  BY <1>1, <1>2 DEF LogInv, TypeOK
<1> HIDE DEF j, merged
<1>5. getLastLogIndex(j)' = max(getLastLogIndex(j), c.prevLogIndex + Len(c.entries))
  <2>1. getLastLogIndex(j)' = lastSnapshotIncludeIndex[j] + Len(merged)
    BY <1>1, <1>2, <1>3, <1>4, ServerTypes, LastOfContiguous DEF getLastLogIndex
  <2> QED BY <1>3, <2>1
<1>6. /\ getLastLogIndex(j) \in Nat /\ c.prevLogIndex \in Int
      /\ Len(c.entries) \in Nat
  BY <1>2, LastIndex
<1>7. getLastLogIndex(j)' >= getLastLogIndex(j)
  BY <1>5, <1>6 DEF max
<1>8. getLastLogIndex(j)' = max(getLastLogIndex(j), SentUpTo(c))
  BY <1>5 DEF SentUpTo
<1>9. LogChanges(j)
  BY <1>1, <1>4, <1>7 DEF LogChanges
<1> QED BY <1>8, <1>9 DEF j

LEMMA CutChanges ==
    ASSUME LogInv, NEW j \in Server, NEW index \in Nat, NEW term \in Term,
           index > lastSnapshotIncludeIndex[j], Cut(j, index, term), persist(j)
    PROVE  LogChanges(j)
BY CutType DEF LogChanges

LEMMA LogsStep ==
    ASSUME DiskLogInv, [Next]_vars
    PROVE  LogsKept \/ \E j \in Server : LogChanges(j)
<1>1. LogInv
  BY DEF DiskLogInv
<1>2. CASE RequestVoteNext
  <2>1. PICK c \in rvCalls :
          \/ requestVoteStale(c) \/ requestVoteRefuse(c) \/ requestVoteGrant(c)
          \/ sendRequestVoteHigherTerm(c) \/ sendRequestVoteCount(c)
          \/ sendRequestVoteWin(c) \/ sendRequestVoteEnd(c)
    BY <1>2 DEF RequestVoteNext
  <2>2. c.from \in Server /\ c.to \in Server
    BY <1>1, rvFields
  <2>3. UNCHANGED logVars /\ (persist(c.to) \/ persist(c.from) \/ raftState' = raftState)
    BY <2>1 DEF requestVoteStale, requestVoteRefuse, requestVoteGrant,
                sendRequestVoteHigherTerm, sendRequestVoteCount,
                sendRequestVoteWin, sendRequestVoteEnd, rvUnchanged, diskVars
  <2> QED BY <2>2, <2>3 DEF LogsKept, logVars
<1>3. CASE AppendEntriesNext
  <2>1. PICK c \in aeCalls :
          \/ appendEntriesStale(c) \/ appendEntriesReject(c) \/ appendEntriesAccept(c)
          \/ sendAppendEntriesHigherTerm(c) \/ sendAppendEntriesBacktrack(c)
          \/ sendAppendEntriesSuccess(c) \/ sendAppendEntriesEnd(c)
    BY <1>3 DEF AppendEntriesNext
  <2>2. c.to \in Server
    BY <1>1, aeFields
  <2>3. CASE appendEntriesAccept(c)
    BY <1>1, <2>2, <2>3, appendEntriesAcceptChanges
  <2>4. CASE ~appendEntriesAccept(c)
    <3>1. UNCHANGED logVars /\ (persist(c.to) \/ raftState' = raftState)
      BY <2>1, <2>4
         DEF appendEntriesStale, appendEntriesReject, sendAppendEntriesHigherTerm,
             sendAppendEntriesBacktrack, sendAppendEntriesSuccess,
             sendAppendEntriesEnd, diskVars
    <3> QED BY <2>2, <3>1 DEF LogsKept, logVars
  <2> QED BY <2>3, <2>4
<1>4. CASE InstallSnapshotNext
  <2>1. PICK c \in isCalls :
          \/ leaderSendSnapshot(c) \/ installSnapshotStale(c)
          \/ installSnapshotOld(c) \/ installSnapshotApply(c)
          \/ sendSnapshotHigherTerm(c) \/ sendSnapshotSuccess(c)
          \/ sendSnapshotEnd(c) \/ CrashInInstallSnapshot(c)
    BY <1>4 DEF InstallSnapshotNext
  <2>2. /\ c.from \in Server /\ c.to \in Server
        /\ c.lastIndex \in Nat /\ c.lastTerm \in Term
    BY <1>1, isFields
  <2>3. CASE installSnapshotApply(c) \/ CrashInInstallSnapshot(c)
    <3>1. /\ Cut(c.to, c.lastIndex, c.lastTerm) /\ persist(c.to)
          /\ c.lastIndex > lastSnapshotIncludeIndex[c.to]
      BY <2>3 DEF installSnapshotApply, CrashInInstallSnapshot, InstallInMemory,
                  SaveWithSnapshot, Cut
    <3> QED BY <1>1, <2>2, <3>1, CutChanges
  <2>4. CASE \/ leaderSendSnapshot(c) \/ installSnapshotStale(c)
             \/ installSnapshotOld(c) \/ sendSnapshotHigherTerm(c)
             \/ sendSnapshotSuccess(c) \/ sendSnapshotEnd(c)
    <3>1. /\ UNCHANGED logVars
          /\ persist(c.to) \/ persist(c.from) \/ raftState' = raftState
      BY <2>4 DEF leaderSendSnapshot, installSnapshotStale, installSnapshotOld,
                  sendSnapshotHigherTerm, sendSnapshotSuccess, sendSnapshotEnd,
                  diskVars
    <3> QED BY <2>2, <3>1 DEF LogsKept, logVars
  <2> QED BY <2>1, <2>3, <2>4
<1>5. CASE ServerNext
  <2>1. PICK i \in Server :
          \/ doElection(i) \/ doHeartBeat(i) \/ applierTicker(i) \/ Restart(i)
          \/ \E command \in Command : start(i, command)
          \/ \E index \in 1 .. MaxIndex : snapshot(i, index) \/ CrashInSnapshot(i, index)
    BY <1>5 DEF ServerNext
  <2>2. CASE doElection(i) \/ doHeartBeat(i) \/ applierTicker(i)
    <3>1. UNCHANGED logVars /\ (persist(i) \/ raftState' = raftState)
      BY <2>2 DEF doElection, doHeartBeat, applierTicker, diskVars
    <3> QED BY <3>1 DEF LogsKept, logVars
  <2>3. CASE Restart(i)
    <3>1. /\ logs' = [logs EXCEPT ![i] = raftState[i].logs]
          /\ lastSnapshotIncludeIndex' =
               [lastSnapshotIncludeIndex EXCEPT
                  ![i] = raftState[i].lastSnapshotIncludeIndex]
          /\ raftState' = raftState
      BY <2>3 DEF Restart, Boot
    <3>2. /\ logs \in [Server -> Seq(Entry)]
          /\ lastSnapshotIncludeIndex \in [Server -> Nat]
      BY <1>1 DEF LogInv, TypeOK
    <3> QED BY <3>1, <3>2 DEF LogsKept, DiskLogInv, DiskHasLog
  <2>4. CASE \E command \in Command : start(i, command)
    BY <1>1, <2>4, startChanges
  <2>5. CASE \E index \in 1 .. MaxIndex : snapshot(i, index) \/ CrashInSnapshot(i, index)
    <3>1. PICK index \in 1 .. MaxIndex : SnapshotInMemory(i, index) /\ persist(i)
      BY <2>5 DEF snapshot, CrashInSnapshot, SaveWithSnapshot
    <3> QED BY <1>1, <3>1, SnapshotCut, CutChanges
  <2> QED BY <2>1, <2>2, <2>3, <2>4, <2>5
<1>6. CASE UNCHANGED vars
  BY <1>6 DEF LogsKept, vars, logVars, diskVars
<1> QED BY <1>2, <1>3, <1>4, <1>5, <1>6 DEF Next

LEMMA DiskLogStep == DiskLogInv /\ [Next]_vars => DiskLogInv'
<1> SUFFICES ASSUME DiskLogInv, [Next]_vars PROVE DiskLogInv'
  OBVIOUS
<1>1. LogInv /\ LogInv' /\ DiskHasLog
  BY LogStep DEF DiskLogInv
<1>2. ASSUME NEW j \in Server, persist(j)
      PROVE  /\ raftState'[j].logs = logs'[j]
             /\ raftState'[j].lastSnapshotIncludeIndex = lastSnapshotIncludeIndex'[j]
             /\ \A k \in Server \ {j} : raftState'[k] = raftState[k]
  <2>1. /\ raftState \in [Server -> RaftState]
        /\ currentTerm'[j] \in Term /\ votedFor'[j] \in Server \cup {NoVote}
        /\ lastSnapshotIncludeIndex'[j] \in Nat
        /\ lastSnapshotIncludeTerm'[j] \in Term /\ logs'[j] \in Seq(Entry)
    BY <1>1 DEF LogInv, TypeOK
  <2> QED BY <1>2, <2>1, Persisted
<1>3. CASE LogsKept
  BY <1>1, <1>2, <1>3 DEF LogsKept, DiskHasLog, DiskLogInv
<1>4. CASE \E j \in Server : LogChanges(j)
  BY <1>1, <1>2, <1>4 DEF LogChanges, DiskHasLog, DiskLogInv
<1> QED BY <1>3, <1>4, LogsStep

LEMMA DiskLogInit == Init => DiskLogInv
BY LogInit DEF Init, DiskLogInv, DiskHasLog, persistData

THEOREM DiskLogInvariant == Spec => []DiskLogInv
BY DiskLogInit, DiskLogStep, PTL DEF Spec

\* No step makes a log shorter, a crash and a torn save included, for any number
\* of servers: start() and appendEntriesimpl persist what they append before
\* anyone hears of it, and readPersist brings it back.
THEOREM LogsNeverShrink == Spec => LastLogIndexMonotonic
<1>1. DiskLogInv /\ [Next]_vars
        => [\A i \in Server : getLastLogIndex(i)' >= getLastLogIndex(i)]_vars
  <2> SUFFICES ASSUME DiskLogInv, [Next]_vars, NEW i \in Server
               PROVE  getLastLogIndex(i)' >= getLastLogIndex(i)
    OBVIOUS
  <2>1. getLastLogIndex(i) \in Nat
    BY LastIndex DEF DiskLogInv
  <2>2. CASE LogsKept
    BY <2>1, <2>2 DEF LogsKept, getLastLogIndex
  <2>3. ASSUME NEW j \in Server, LogChanges(j)
        PROVE  getLastLogIndex(i)' >= getLastLogIndex(i)
    BY <2>1, <2>3 DEF LogChanges, getLastLogIndex
  <2> QED BY <2>2, <2>3, LogsStep
<1> QED BY <1>1, DiskLogInvariant, PTL DEF Spec, LastLogIndexMonotonic

-----------------------------------------------------------------------------
(* Snapshots on their way *)

\* Every filled call carries the index of one before it, or that of a sender's
\* log.
InstallsCarry ==
    \A c \in isCalls' :
        \/ c.phase = "spawned"
        \/ \E d \in isCalls : d.phase # "spawned" /\ c.lastIndex = d.lastIndex
        \/ \E i \in Server : c.lastIndex = lastSnapshotIncludeIndex[i]

LEMMA InstallsFewer ==
    ASSUME isCalls' \subseteq isCalls
    PROVE  InstallsCarry
BY DEF InstallsCarry

LEMMA InstallsAnswered ==
    ASSUME LogInv, NEW c \in isCalls, c.phase = "request", NEW t, NEW phase,
           isCalls' = isReply(c, phase, t)
    PROVE  InstallsCarry
<1> DEFINE r == [c EXCEPT !.phase = phase, !.rterm = t]
<1>1. r.lastIndex = c.lastIndex
  BY isFields DEF ISCall
<1>2. \A a \in isCalls' : a \in isCalls \/ a = r
  BY DEF isReply, Answered
<1> HIDE DEF r
<1> QED BY <1>1, <1>2 DEF InstallsCarry

LEMMA InstallsOrphaned ==
    ASSUME LogInv, NEW i \in Server, NEW closed \in SUBSET isCalls, Die(i, closed),
           \A c \in closed : c.phase = "request"
    PROVE  InstallsCarry
<1> DEFINE cut == closed \cup {c \in isCalls : c.to = i /\ c.phase = "unanswered"}
           orphan(d) == [d EXCEPT !.live = FALSE]
           emptied(d) == [d EXCEPT !.phase = "reply", !.rterm = 0]
<1>1. isCalls' = Orphaned(isCalls \ cut, i) \cup {emptied(c) : c \in {d \in cut : d.live}}
  BY DEF Die
<1>2. \A d \in isCalls :
        orphan(d).lastIndex = d.lastIndex /\ emptied(d).lastIndex = d.lastIndex
  BY isFields DEF ISCall
<1>3. \A d \in cut : d \in isCalls /\ d.phase # "spawned"
  OBVIOUS
<1>4. ASSUME NEW c \in isCalls'
      PROVE  \/ c \in isCalls
             \/ \E d \in isCalls : d.phase # "spawned" /\ c.lastIndex = d.lastIndex
  <2>1. CASE c \in Orphaned(isCalls \ cut, i)
    <3>1. \/ c \in isCalls
          \/ \E d \in isCalls : d.phase = "request" /\ c = orphan(d)
      BY <2>1 DEF Orphaned
    <3> HIDE DEF orphan
    <3> QED BY <1>2, <3>1
  <2>2. CASE \E d \in cut : c = emptied(d)
    <3> HIDE DEF cut, emptied
    <3> QED BY <1>2, <1>3, <2>2
  <2> QED BY <1>1, <2>1, <2>2
<1> QED BY <1>4 DEF InstallsCarry

LEMMA InstallsStep ==
    ASSUME LogInv, [Next]_vars
    PROVE  InstallsCarry
<1>1. CASE RequestVoteNext \/ AppendEntriesNext
  <2>1. isCalls' = isCalls
    BY <1>1 DEF RequestVoteNext, requestVoteStale, requestVoteRefuse,
                requestVoteGrant, sendRequestVoteHigherTerm, sendRequestVoteCount,
                sendRequestVoteWin, sendRequestVoteEnd, rvUnchanged,
                AppendEntriesNext, appendEntriesStale, appendEntriesReject,
                appendEntriesAccept, sendAppendEntriesHigherTerm,
                sendAppendEntriesBacktrack, sendAppendEntriesSuccess,
                sendAppendEntriesEnd
  <2> QED BY <2>1, InstallsFewer
<1>2. CASE InstallSnapshotNext
  <2>1. PICK c \in isCalls :
          \/ leaderSendSnapshot(c) \/ installSnapshotStale(c)
          \/ installSnapshotOld(c) \/ installSnapshotApply(c)
          \/ sendSnapshotHigherTerm(c) \/ sendSnapshotSuccess(c)
          \/ sendSnapshotEnd(c) \/ CrashInInstallSnapshot(c)
    BY <1>2 DEF InstallSnapshotNext
  <2>2. c.from \in Server /\ c.to \in Server /\ c \in ISCall
    BY isFields
  <2>3. CASE leaderSendSnapshot(c)
    <3> DEFINE r == [c EXCEPT !.phase = "request", !.term = currentTerm[c.from],
                              !.lastIndex = lastSnapshotIncludeIndex[c.from],
                              !.lastTerm = lastSnapshotIncludeTerm[c.from],
                              !.data = snapshotFile[c.from]]
    <3>1. isCalls' = (isCalls \ {c}) \cup {r}
      BY <2>3 DEF leaderSendSnapshot
    <3>2. r.lastIndex = lastSnapshotIncludeIndex[c.from]
      BY <2>2 DEF ISCall
    <3> HIDE DEF r
    <3> QED BY <2>2, <3>1, <3>2 DEF InstallsCarry
  <2>4. CASE installSnapshotStale(c) \/ installSnapshotOld(c)
    <3>1. /\ c.phase = "request"
          /\ \/ isCalls' = isReply(c, "reply", currentTerm[c.to])
             \/ isCalls' = isReply(c, "unanswered", 0)
      BY <2>4 DEF installSnapshotStale, installSnapshotOld
    <3> QED BY <3>1, InstallsAnswered
  <2>7. CASE installSnapshotApply(c)
    <3>1. c.phase = "request" /\ isCalls' = isReply(c, "reply", c.term)
      BY <2>7 DEF installSnapshotApply, InstallInMemory, SaveWithSnapshot
    <3> QED BY <3>1, InstallsAnswered
  <2>5. CASE \/ sendSnapshotHigherTerm(c) \/ sendSnapshotSuccess(c)
             \/ sendSnapshotEnd(c)
    <3>1. isCalls' \subseteq isCalls
      BY <2>5 DEF sendSnapshotHigherTerm, sendSnapshotSuccess, sendSnapshotEnd
    <3> QED BY <3>1, InstallsFewer
  <2>6. CASE CrashInInstallSnapshot(c)
    <3>1. Die(c.to, {c}) /\ c.phase = "request"
      BY <2>6 DEF CrashInInstallSnapshot, InstallInMemory
    <3>2. {c} \in SUBSET isCalls
      OBVIOUS
    <3> QED BY <2>2, <3>1, <3>2, InstallsOrphaned
  <2> QED BY <2>1, <2>3, <2>4, <2>5, <2>6, <2>7
<1>3. CASE ServerNext
  <2>1. PICK i \in Server :
          \/ doElection(i) \/ doHeartBeat(i) \/ applierTicker(i) \/ Restart(i)
          \/ \E command \in Command : start(i, command)
          \/ \E index \in 1 .. MaxIndex : snapshot(i, index) \/ CrashInSnapshot(i, index)
    BY <1>3 DEF ServerNext
  <2>2. CASE \/ doElection(i) \/ applierTicker(i)
             \/ \E command \in Command : start(i, command)
             \/ \E index \in 1 .. MaxIndex : snapshot(i, index)
    <3>1. isCalls' = isCalls
      BY <2>2 DEF doElection, applierTicker, start, snapshot, callVars
    <3> QED BY <3>1, InstallsFewer
  <2>3. CASE doHeartBeat(i)
    <3>1. \A c \in isCalls' : c \in isCalls \/ c.phase = "spawned"
      BY <2>3 DEF doHeartBeat, isSpawn
    <3> QED BY <3>1 DEF InstallsCarry
  <2>4. CASE Restart(i)
    <3>1. PICK closed \in SUBSET PendingInstalls(i) : Die(i, closed)
      BY <2>4 DEF Restart
    <3>2. /\ closed \in SUBSET isCalls /\ \A c \in closed : c.phase = "request"
      BY DEF PendingInstalls
    <3> QED BY <3>1, <3>2, InstallsOrphaned
  <2>5. CASE \E index \in 1 .. MaxIndex : CrashInSnapshot(i, index)
    <3>1. Die(i, {})
      BY <2>5 DEF CrashInSnapshot
    <3>2. {} \in SUBSET isCalls
      OBVIOUS
    <3> QED BY <3>1, <3>2, InstallsOrphaned
  <2> QED BY <2>1, <2>2, <2>3, <2>4, <2>5
<1>4. CASE UNCHANGED vars
  BY <1>4, InstallsFewer DEF vars, callVars
<1> QED BY <1>1, <1>2, <1>3, <1>4 DEF Next

-----------------------------------------------------------------------------
(* The invariant *)

\* A majority has a log that reaches n.
Reaching(n) == {j \in Server : getLastLogIndex(j) >= n}
Reached(n) == Cardinality(Reaching(n)) >= Majority

\* d is a call of the round of c that somebody waits for.
SameRound(c, d) == d.live /\ d.from = c.from /\ d.round = c.round

\* The servers that a round can have counted: what it sent has reached them,
\* and none of its calls to them is open.
Done(c) == {j \in Reaching(SentUpTo(c)) :
              \A d \in aeCalls : SameRound(c, d) => d.to # j}

RoundInv ==
    /\ \A c \in aeCalls : c.live =>
         /\ c.round \in 1 .. Len(appendNums[c.from])
         /\ appendNums[c.from][c.round] <= Cardinality(Done(c))
         /\ \A d \in aeCalls : SameRound(c, d) =>
              /\ SentUpTo(d) = SentUpTo(c)
              /\ d.to = c.to => d = c
    /\ \A c \in aeCalls : c.phase = "reply" /\ c.success =>
         c.to \in Reaching(SentUpTo(c))

CommitInv ==
    /\ \A i \in Server : Reached(commitIndex[i]) /\ Reached(lastSnapshotIncludeIndex[i])
    /\ \A c \in aeCalls : Reached(c.leaderCommit) /\ c.leaderCommit <= SentUpTo(c)
    /\ \A c \in isCalls : c.phase # "spawned" => Reached(c.lastIndex)

MajorityInv == DiskLogInv /\ RoundInv /\ CommitInv

-----------------------------------------------------------------------------
(* Majorities stay *)

\* No step makes a log shorter.
LogsGrow ==
    \A j \in Server : /\ getLastLogIndex(j) \in Nat /\ getLastLogIndex(j)' \in Nat
                      /\ getLastLogIndex(j)' >= getLastLogIndex(j)

LEMMA LogsGrowStep ==
    ASSUME DiskLogInv, [Next]_vars
    PROVE  LogsGrow
<1>1. LogInv /\ LogInv'
  BY LogStep DEF DiskLogInv
<1>2. \A i \in Server : getLastLogIndex(i)' \in Nat
  <2> SUFFICES ASSUME NEW i \in Server PROVE getLastLogIndex(i)' \in Nat
    OBVIOUS
  <2>1. /\ logs'[i] \in Seq(Entry) /\ lastSnapshotIncludeIndex'[i] \in Nat
        /\ Contiguous(logs'[i], lastSnapshotIncludeIndex'[i])
    BY <1>1 DEF LogInv, TypeOK, LogContiguous
  <2> QED BY <2>1, LastOfContiguous DEF getLastLogIndex
<1>3. \A i \in Server : getLastLogIndex(i) \in Nat
  BY <1>1, LastIndex
<1>4. CASE LogsKept
  BY <1>2, <1>3, <1>4 DEF LogsKept, LogsGrow, getLastLogIndex
<1>5. ASSUME NEW j \in Server, LogChanges(j)
      PROVE  LogsGrow
  <2>1. \A k \in Server \ {j} : getLastLogIndex(k)' = getLastLogIndex(k)
    BY <1>5 DEF LogChanges, getLastLogIndex
  <2> QED BY <1>2, <1>3, <1>5, <2>1 DEF LogChanges, LogsGrow
<1> QED BY <1>4, <1>5, LogsStep

LEMMA ReachingGrows ==
    ASSUME LogsGrow, NEW n \in Nat
    PROVE  Reaching(n) \subseteq Reaching(n)'
BY DEF LogsGrow, Reaching

LEMMA ReachedStays ==
    ASSUME LogsGrow, NEW n \in Nat, NEW m \in Nat, Reached(n), m <= n
    PROVE  Reached(m)'
<1>1. Reaching(n) \subseteq Reaching(m)' /\ Reaching(m)' \subseteq Server
  BY DEF LogsGrow, Reaching
<1>2. /\ Cardinality(Reaching(n)) <= Cardinality(Reaching(m)')
      /\ Cardinality(Reaching(n)) \in Nat /\ Cardinality(Reaching(m)') \in Nat
  BY <1>1, VotersFinite
<1> QED BY <1>2, MajorityIsMore DEF Reached

\* A log of any length reaches 0.
LEMMA ReachedZero ==
    ASSUME LogInv
    PROVE  Reached(0)
<1>1. Reaching(0) = Server
  BY LastIndex DEF Reaching
<1>2. Cardinality(Server) \in Nat /\ Cardinality(Server) >= 1
  BY ServerAssumption, FS_CardinalityType, FS_EmptySet
<1> QED BY <1>1, <1>2 DEF Reached, Majority

-----------------------------------------------------------------------------
(* The calls of a round *)

\* Every call after the step goes back to one before it, and no open call is
\* there twice.
SameRequest(c, d) ==
    /\ c.from = d.from /\ c.to = d.to /\ c.round = d.round
    /\ c.prevLogIndex = d.prevLogIndex /\ c.entries = d.entries
    /\ c.leaderCommit = d.leaderCommit
    /\ c.live => d.live

CallsFollow ==
    /\ \A c \in aeCalls' : \E d \in aeCalls :
         /\ SameRequest(c, d)
         /\ c.phase = "reply" /\ c.success =>
              \/ d.phase = "reply" /\ d.success
              \/ getLastLogIndex(c.to)' >= SentUpTo(c)
    /\ \A c, d \in aeCalls' : c.live /\ SameRound(c, d) /\ c.to = d.to => d = c
    /\ \A c \in aeCalls' : c.live => appendNums'[c.from] = appendNums[c.from]

LEMMA FollowFewer ==
    ASSUME RoundInv, aeCalls' \subseteq aeCalls,
           \A c \in aeCalls' : c.live => appendNums'[c.from] = appendNums[c.from]
    PROVE  CallsFollow
BY DEF CallsFollow, RoundInv, SameRequest

LEMMA FollowAnswered ==
    ASSUME LogInv, RoundInv, NEW c \in aeCalls, NEW t, NEW success, NEW update,
           aeCalls' = aeReply(c, t, success, update), appendNums' = appendNums,
           success => getLastLogIndex(c.to)' >= SentUpTo(c)
    PROVE  CallsFollow
<1> DEFINE r == [c EXCEPT !.phase = "reply", !.rterm = t, !.success = success,
                          !.updateNextIndex = update]
<1>1. SameRequest(r, c) /\ r.live = c.live /\ r.to = c.to /\ r.success = success
  <2>1. c \in AECall
    BY aeFields
  <2> QED BY <2>1, ZenonT(60) DEF AECall, SameRequest
<1>2. \A a \in aeCalls' : \/ a \in aeCalls /\ a # c
                          \/ a = r /\ c.live
  BY DEF aeReply, Answered
<1> HIDE DEF r
<1>3. SentUpTo(r) = SentUpTo(c)
  BY <1>1 DEF SameRequest, SentUpTo
<1>4. ASSUME NEW a \in aeCalls'
      PROVE  \E d \in aeCalls :
               /\ SameRequest(a, d)
               /\ a.phase = "reply" /\ a.success =>
                    \/ d.phase = "reply" /\ d.success
                    \/ getLastLogIndex(a.to)' >= SentUpTo(a)
  <2>1. CASE a \in aeCalls
    BY <2>1 DEF SameRequest
  <2>2. CASE a = r
    BY <1>1, <1>3, <2>2
  <2> QED BY <1>2, <2>1, <2>2
<1>5. ASSUME NEW a \in aeCalls', NEW d \in aeCalls', a.live, SameRound(a, d), a.to = d.to
      PROVE  d = a
  <2>1. CASE a \in aeCalls /\ d \in aeCalls
    BY <1>5, <2>1 DEF RoundInv
  <2>2. CASE a = r /\ d \in aeCalls /\ d # c /\ c.live
    <3>1. SameRound(c, d) /\ d.to = c.to
      BY <1>1, <1>5, <2>2 DEF SameRound, SameRequest
    <3> QED BY <2>2, <3>1 DEF RoundInv
  <2>3. CASE d = r /\ a \in aeCalls /\ a # c /\ c.live
    <3>1. SameRound(c, a) /\ a.to = c.to
      BY <1>1, <1>5, <2>3 DEF SameRound, SameRequest
    <3> QED BY <2>3, <3>1 DEF RoundInv
  <2> QED BY <1>2, <2>1, <2>2, <2>3
<1> QED BY <1>4, <1>5 DEF CallsFollow

LEMMA FollowOrphaned ==
    ASSUME LogInv, RoundInv, NEW i \in Server, NEW closed, Die(i, closed)
    PROVE  CallsFollow
<1> DEFINE orphan(d) == [d EXCEPT !.live = FALSE]
<1>1. /\ aeCalls' = Orphaned(aeCalls, i)
      /\ appendNums' = [appendNums EXCEPT ![i] = << >>]
  BY DEF Die
<1>2. \A d \in aeCalls : SameRequest(orphan(d), d) /\ orphan(d).phase = d.phase
                         /\ orphan(d).live = FALSE
  <2> SUFFICES ASSUME NEW d \in aeCalls
               PROVE  SameRequest(orphan(d), d) /\ orphan(d).phase = d.phase
                      /\ orphan(d).live = FALSE
    OBVIOUS
  <2>1. d \in AECall
    BY aeFields
  <2> QED BY <2>1, ZenonT(60) DEF AECall, SameRequest
<1>3. \A c \in aeCalls' :
        \/ c \in aeCalls /\ c.from # i
        \/ \E d \in aeCalls : d.phase = "request" /\ c = orphan(d)
  BY <1>1 DEF Orphaned
<1> HIDE DEF orphan
<1>4. \A c \in aeCalls' : \/ c \in aeCalls /\ c.from # i
                          \/ c.live = FALSE
  BY <1>2, <1>3
<1>5. ASSUME NEW c \in aeCalls'
      PROVE  \E d \in aeCalls :
               /\ SameRequest(c, d)
               /\ c.phase = "reply" /\ c.success =>
                    \/ d.phase = "reply" /\ d.success
                    \/ getLastLogIndex(c.to)' >= SentUpTo(c)
  <2>1. CASE c \in aeCalls
    BY <2>1 DEF SameRequest
  <2>2. CASE \E d \in aeCalls : d.phase = "request" /\ c = orphan(d)
    BY <1>2, <2>2
  <2> QED BY <1>3, <2>1, <2>2
<1>6. ASSUME NEW a \in aeCalls', NEW d \in aeCalls', a.live, SameRound(a, d), a.to = d.to
      PROVE  d = a
  <2>1. a \in aeCalls /\ d \in aeCalls
    BY <1>4, <1>6 DEF SameRound
  <2> QED BY <1>6, <2>1 DEF RoundInv
<1>7. ASSUME NEW c \in aeCalls', c.live
      PROVE  appendNums'[c.from] = appendNums[c.from]
  <2>1. c \in aeCalls /\ c.from # i
    BY <1>4, <1>7
  <2>2. c.from \in Server
    BY <2>1, aeFields
  <2> QED BY <1>1, <2>1, <2>2 DEF LogInv, TypeOK
<1> QED BY <1>5, <1>6, <1>7 DEF CallsFollow

\* The servers a call counts stay counted when calls only go on or end.
LEMMA DoneStays ==
    ASSUME LogInv, LogsGrow, NEW c, NEW d, SentUpTo(d) \in Nat, SameRequest(c, d),
           \A a \in aeCalls' : SameRound(c, a) =>
              \E b \in aeCalls : SameRound(d, b) /\ b.to = a.to
    PROVE  /\ Done(d) \subseteq Done(c)'
           /\ Cardinality(Done(d)) <= Cardinality(Done(c)')
           /\ Cardinality(Done(d)) \in Nat /\ Cardinality(Done(c)') \in Nat
<1>1. SentUpTo(c) = SentUpTo(d)
  BY DEF SameRequest, SentUpTo
<1>2. Reaching(SentUpTo(d)) \subseteq Reaching(SentUpTo(c))'
  BY <1>1, ReachingGrows DEF SentUpTo
<1>3. Done(d) \subseteq Done(c)' /\ Done(c)' \subseteq Server
  BY <1>2 DEF Done, SameRound, Reaching
<1> QED BY <1>3, VotersFinite

LEMMA RoundCount ==
    ASSUME LogInv, NEW i \in Server, NEW r \in 1 .. Len(appendNums[i])
    PROVE  appendNums[i][r] \in Nat
<1>1. appendNums[i] \in Seq(Nat)
  BY DEF LogInv, TypeOK
<1> QED BY <1>1

LEMMA RoundsFollow ==
    ASSUME LogInv, LogsGrow, RoundInv, CallsFollow,
           \A c \in aeCalls' : c.to \in Server
    PROVE  RoundInv'
<1>1. ASSUME NEW c \in aeCalls', c.live
      PROVE  /\ c.round \in 1 .. Len(appendNums'[c.from])
             /\ appendNums'[c.from][c.round] <= Cardinality(Done(c)')
             /\ \A a \in aeCalls' : SameRound(c, a) =>
                  /\ SentUpTo(a) = SentUpTo(c)
                  /\ a.to = c.to => a = c
  <2>1. PICK d \in aeCalls : SameRequest(c, d)
    BY DEF CallsFollow
  <2>2. d.live /\ SentUpTo(d) \in Nat /\ SentUpTo(c) = SentUpTo(d) /\ d.from \in Server
        /\ c.from = d.from /\ c.round = d.round
    BY <1>1, <2>1, aeFields DEF SameRequest, SentUpTo
  <2>3. ASSUME NEW a \in aeCalls', SameRound(c, a)
        PROVE  \E b \in aeCalls : SameRound(d, b) /\ b.to = a.to /\ SentUpTo(b) = SentUpTo(a)
    <3>1. PICK b \in aeCalls : SameRequest(a, b)
      BY DEF CallsFollow
    <3> QED BY <2>1, <2>3, <3>1 DEF SameRequest, SameRound, SentUpTo
  <2>4. /\ Cardinality(Done(d)) <= Cardinality(Done(c)')
        /\ Cardinality(Done(d)) \in Nat /\ Cardinality(Done(c)') \in Nat
    BY <2>1, <2>2, <2>3, DoneStays
  <2>5. /\ d.round \in 1 .. Len(appendNums[d.from])
        /\ appendNums[d.from][d.round] <= Cardinality(Done(d))
        /\ \A b \in aeCalls : SameRound(d, b) => SentUpTo(b) = SentUpTo(d)
    BY <2>2 DEF RoundInv
  <2>6. appendNums'[c.from] = appendNums[d.from]
    BY <1>1, <2>2 DEF CallsFollow
  <2>7. appendNums[d.from][d.round] \in Nat
    BY <2>2, <2>5, RoundCount
  <2>8. appendNums'[c.from][c.round] <= Cardinality(Done(c)')
    BY <2>2, <2>4, <2>5, <2>6, <2>7
  <2>9. \A a \in aeCalls' : SameRound(c, a) => SentUpTo(a) = SentUpTo(c)
    BY <2>2, <2>3, <2>5
  <2> QED BY <1>1, <2>2, <2>5, <2>6, <2>8, <2>9 DEF CallsFollow
<1>2. ASSUME NEW c \in aeCalls', c.phase = "reply", c.success
      PROVE  c.to \in Reaching(SentUpTo(c))'
  <2>1. PICK d \in aeCalls : /\ SameRequest(c, d)
                             /\ \/ d.phase = "reply" /\ d.success
                                \/ getLastLogIndex(c.to)' >= SentUpTo(c)
    BY <1>2 DEF CallsFollow
  <2>2. c.to = d.to /\ SentUpTo(c) = SentUpTo(d) /\ SentUpTo(d) \in Nat
    BY <2>1, aeFields DEF SameRequest, SentUpTo
  <2>3. CASE d.phase = "reply" /\ d.success
    <3>1. d.to \in Reaching(SentUpTo(d))
      BY <2>3 DEF RoundInv
    <3> QED BY <2>2, <3>1 DEF Reaching, LogsGrow, SentUpTo
  <2>4. CASE getLastLogIndex(c.to)' >= SentUpTo(c)
    BY <2>4 DEF Reaching, SentUpTo
  <2> QED BY <2>1, <2>3, <2>4
<1> QED BY <1>1, <1>2 DEF RoundInv, SameRound, SentUpTo

\* What doHeartBeat sends reaches up to the end of the log, and announces what
\* the leader has committed.
LEMMA HeartBeatCalls ==
    ASSUME LogInv, NEW i \in Server, doHeartBeat(i), NEW c \in aeCalls' \ aeCalls
    PROVE  LET r == Len(appendNums[i]) + 1 IN
           /\ c.from = i /\ c.round = r /\ c.live /\ c.phase = "request"
           /\ c.to \in Server \ {i} /\ c = aeRequest(i, c.to, r)
           /\ SentUpTo(c) = getLastLogIndex(i) /\ c.leaderCommit = commitIndex[i]
<1> DEFINE r == Len(appendNums[i]) + 1
           peers == Server \ {i}
           behind == {j \in peers : nextIndex[i][j] <= lastSnapshotIncludeIndex[i]}
<1>1. /\ \A j \in peers : nextIndex[i][j] \in 1 .. getLastLogIndex(i) + 1
      /\ aeCalls' = aeCalls \cup {aeRequest(i, j, r) : j \in peers \ behind}
  BY DEF doHeartBeat
<1>2. PICK j \in peers \ behind : c = aeRequest(i, j, r)
  BY <1>1
<1>3. r \in Nat
  BY DEF LogInv, TypeOK
<1>4. nextIndex[i][j] > lastSnapshotIncludeIndex[i]
  <2>1. nextIndex[i][j] \in Nat /\ lastSnapshotIncludeIndex[i] \in Nat
    BY <1>2 DEF LogInv, TypeOK
  <2> QED BY <1>2, <2>1
<1> HIDE DEF r
<1>5. c.to = j /\ c.round = r /\ c.leaderCommit = commitIndex[i]
  BY <1>2 DEF aeRequest
<1>6. /\ c.from = i /\ c.live /\ c.phase = "request"
      /\ SentUpTo(c) = getLastLogIndex(i)
  BY <1>1, <1>2, <1>3, <1>4, aeRequestType
<1> QED BY <1>2, <1>5, <1>6 DEF r

\* doHeartBeat starts a round: its calls carry the same entries to different
\* servers, and the leader, counted in advance, has them.
LEMMA RoundBegins ==
    ASSUME LogInv, LogsGrow, RoundInv, NEW i \in Server, doHeartBeat(i)
    PROVE  RoundInv'
<1> DEFINE r == Len(appendNums[i]) + 1
           new == aeCalls' \ aeCalls
<1>1. /\ appendNums' = [appendNums EXCEPT ![i] = Append(@, 1)]
      /\ aeCalls' = aeCalls \cup new
      /\ UNCHANGED logVars
  BY DEF doHeartBeat
<1>2. /\ appendNums \in [Server -> Seq(Nat)] /\ Len(appendNums[i]) \in Nat /\ r \in Nat
      /\ getLastLogIndex(i) \in Nat /\ getLastLogIndex(i)' = getLastLogIndex(i)
  <2>1. appendNums \in [Server -> Seq(Nat)] /\ getLastLogIndex(i) \in Nat
    BY LastIndex DEF LogInv, TypeOK
  <2>2. getLastLogIndex(i)' = getLastLogIndex(i)
    BY <1>1 DEF logVars, getLastLogIndex
  <2> QED BY <2>1, <2>2
<1>3. ASSUME NEW c \in new
      PROVE  /\ c.from = i /\ c.round = r /\ c.live /\ c.phase = "request"
             /\ c.to # i /\ c = aeRequest(i, c.to, r)
             /\ SentUpTo(c) = getLastLogIndex(i)
  BY HeartBeatCalls
<1>4. /\ appendNums'[i] = Append(appendNums[i], 1)
      /\ \A k \in Server \ {i} : appendNums'[k] = appendNums[k]
  BY <1>1, <1>2
<1>5. /\ Len(appendNums'[i]) = r /\ appendNums'[i][r] = 1
      /\ \A q \in 1 .. Len(appendNums[i]) : appendNums'[i][q] = appendNums[i][q]
  BY <1>2, <1>4, AppendProperties
<1> HIDE DEF new, r
<1>6. r \notin 1 .. Len(appendNums[i]) /\ r \in 1 .. r
      /\ 1 .. Len(appendNums[i]) \subseteq 1 .. r
  BY <1>2 DEF r
<1>7. ASSUME NEW c \in aeCalls, c.live
      PROVE  /\ c.round \in 1 .. Len(appendNums'[c.from])
             /\ appendNums'[c.from][c.round] = appendNums[c.from][c.round]
             /\ c.from = i => c.round # r
             /\ \A a \in aeCalls' : SameRound(c, a) => a \in aeCalls
  <2>1. c.round \in 1 .. Len(appendNums[c.from]) /\ c.from \in Server
    BY <1>7, aeFields DEF RoundInv
  <2>2. \A a \in new : a.from = i /\ a.round = r
    BY <1>3
  <2> QED BY <1>1, <1>4, <1>5, <1>6, <2>1, <2>2 DEF SameRound
<1>8. ASSUME NEW c \in aeCalls, c.live
      PROVE  /\ appendNums'[c.from][c.round] <= Cardinality(Done(c)')
             /\ \A a \in aeCalls' : SameRound(c, a) =>
                  /\ SentUpTo(a) = SentUpTo(c)
                  /\ a.to = c.to => a = c
  <2>1. SentUpTo(c) \in Nat /\ SameRequest(c, c) /\ appendNums[c.from][c.round] \in Nat
    <3>1. c.from \in Server /\ c.round \in 1 .. Len(appendNums[c.from])
          /\ SentUpTo(c) \in Nat
      BY <1>8, aeFields DEF RoundInv
    <3> QED BY <1>2, <3>1 DEF SameRequest
  <2>2. \A a \in aeCalls' : SameRound(c, a) =>
           \E b \in aeCalls : SameRound(c, b) /\ b.to = a.to
    BY <1>7, <1>8
  <2>3. /\ Cardinality(Done(c)) <= Cardinality(Done(c)')
        /\ Cardinality(Done(c)) \in Nat /\ Cardinality(Done(c)') \in Nat
    BY <2>1, <2>2, DoneStays
  <2>4. appendNums[c.from][c.round] <= Cardinality(Done(c))
    BY <1>8 DEF RoundInv
  <2>5. appendNums'[c.from][c.round] = appendNums[c.from][c.round]
    BY <1>7, <1>8
  <2>6. appendNums'[c.from][c.round] <= Cardinality(Done(c)')
    BY <2>1, <2>3, <2>4, <2>5
  <2>7. \A a \in aeCalls' : SameRound(c, a) =>
          /\ SentUpTo(a) = SentUpTo(c)
          /\ a.to = c.to => a = c
    BY <1>7, <1>8 DEF RoundInv
  <2> QED BY <2>6, <2>7
<1>9. ASSUME NEW c \in new
      PROVE  /\ c.round \in 1 .. Len(appendNums'[c.from])
             /\ appendNums'[c.from][c.round] <= Cardinality(Done(c)')
             /\ \A a \in aeCalls' : SameRound(c, a) =>
                  /\ SentUpTo(a) = SentUpTo(c)
                  /\ a.to = c.to => a = c
  <2>1. \A a \in aeCalls' : SameRound(c, a) => a \in new
    <3> SUFFICES ASSUME NEW a \in aeCalls, SameRound(c, a) PROVE FALSE
      BY <1>1
    <3>1. a.live /\ a.from = i /\ a.round = r
      BY <1>3 DEF SameRound
    <3> QED BY <1>7, <3>1
  <2>2. i \in Done(c)' /\ Done(c)' \subseteq Server
    <3>1. SentUpTo(c) = getLastLogIndex(i) /\ SentUpTo(c)' = SentUpTo(c)
      BY <1>3 DEF SentUpTo
    <3>2. i \in Reaching(SentUpTo(c))'
      BY <1>2, <3>1 DEF Reaching
    <3>3. \A a \in aeCalls' : SameRound(c, a) => a.to # i
      BY <1>3, <2>1
    <3> QED BY <3>2, <3>3 DEF Done, Reaching, SameRound
  <2>3. Cardinality(Done(c)') >= 1
    <3>1. Cardinality({i}) = 1
      BY FS_Singleton
    <3>2. {i} \in SUBSET Done(c)'
      BY <2>2
    <3> QED BY <2>2, <3>1, <3>2, VotersFinite
  <2>4. c.from = i /\ c.round = r
    BY <1>3
  <2>5. c.round \in 1 .. Len(appendNums'[c.from])
        /\ appendNums'[c.from][c.round] <= Cardinality(Done(c)')
    <3>1. Cardinality(Done(c)') \in Nat
      BY <2>2, VotersFinite
    <3> QED BY <1>5, <1>6, <2>3, <2>4, <3>1
  <2>6. \A a \in new : /\ SentUpTo(a) = SentUpTo(c)
                       /\ a.to = c.to => a = c
    BY <1>3
  <2> QED BY <2>1, <2>5, <2>6
<1>10. ASSUME NEW c \in aeCalls', c.phase = "reply", c.success
       PROVE  c.to \in Reaching(SentUpTo(c))'
  <2>1. c \in aeCalls
    BY <1>1, <1>3, <1>10
  <2>2. c.to \in Reaching(SentUpTo(c)) /\ SentUpTo(c) \in Nat
    BY <1>10, <2>1, aeFields DEF RoundInv
  <2> QED BY <2>2, ReachingGrows DEF SentUpTo
<1> QED BY <1>1, <1>7, <1>8, <1>9, <1>10 DEF RoundInv, SameRound, SentUpTo

\* A success reply that is read is one more server, which was not counted.
LEMMA ReplyCounts ==
    ASSUME LogInv, RoundInv, NEW c \in aeCalls, c.phase = "reply", c.success
    PROVE  /\ c.live /\ c.from \in Server /\ SentUpTo(c) \in Nat
           /\ c.round \in 1 .. Len(appendNums[c.from])
           /\ appendNums[c.from][c.round] \in Nat
           /\ Done(c) \cup {c.to} \subseteq Reaching(SentUpTo(c))
           /\ appendNums[c.from][c.round] + 1 <= Cardinality(Done(c) \cup {c.to})
<1>1. /\ c.live /\ c.from \in Server /\ SentUpTo(c) \in Nat
      /\ c.to \in Reaching(SentUpTo(c))
  <2>1. c.live
    BY DEF LogInv, CallsWithinLog
  <2>2. c.to \in Reaching(SentUpTo(c))
    BY DEF RoundInv
  <2> QED BY <2>1, <2>2, aeFields
<1>2. /\ c.round \in 1 .. Len(appendNums[c.from])
      /\ appendNums[c.from][c.round] <= Cardinality(Done(c))
  BY <1>1 DEF RoundInv
<1>3. appendNums[c.from][c.round] \in Nat
  BY <1>1, <1>2, RoundCount
<1>4. c.to \notin Done(c)
  BY <1>1 DEF Done, SameRound
<1>5. Done(c) \subseteq Reaching(SentUpTo(c)) /\ Done(c) \subseteq Server
  BY DEF Done, Reaching
<1>6. /\ IsFiniteSet(Done(c)) /\ Cardinality(Done(c)) \in Nat
      /\ Cardinality(Done(c) \cup {c.to}) = Cardinality(Done(c)) + 1
  <2>1. IsFiniteSet(Done(c)) /\ Cardinality(Done(c)) \in Nat
    BY <1>5, VotersFinite
  <2> QED BY <1>4, <2>1, FS_AddElement
<1>7. appendNums[c.from][c.round] + 1 <= Cardinality(Done(c) \cup {c.to})
  BY <1>2, <1>3, <1>6
<1> QED BY <1>1, <1>2, <1>3, <1>5, <1>7

\* The reply that completes a round proves a majority.
LEMMA RoundReached ==
    ASSUME LogInv, RoundInv, NEW c \in aeCalls, c.phase = "reply", c.success,
           RoundComplete(c)
    PROVE  Reached(SentUpTo(c))
<1> DEFINE counted == Done(c) \cup {c.to}
           n == appendNums[c.from][c.round]
<1>1. /\ n \in Nat /\ counted \subseteq Reaching(SentUpTo(c))
      /\ n + 1 <= Cardinality(counted)
  BY ReplyCounts
<1>2. n + 1 >= Majority
  BY DEF RoundComplete
<1> HIDE DEF counted, n
<1>3. /\ Cardinality(counted) \in Nat
      /\ Cardinality(counted) <= Cardinality(Reaching(SentUpTo(c)))
      /\ Cardinality(Reaching(SentUpTo(c))) \in Nat
  <2>1. Reaching(SentUpTo(c)) \subseteq Server
    BY DEF Reaching
  <2> QED BY <1>1, <2>1, VotersFinite
<1> QED BY <1>1, <1>2, <1>3, MajorityIsMore DEF Reached

LEMMA RoundCounts ==
    ASSUME LogInv, LogsGrow, RoundInv, NEW c \in aeCalls, sendAppendEntriesSuccess(c)
    PROVE  RoundInv'
<1> DEFINE i == c.from
           v == IF RoundComplete(c) THEN 0 ELSE appendNums[i][c.round] + 1
<1>1. /\ c.phase = "reply" /\ c.success
      /\ appendNums' = [appendNums EXCEPT ![i][c.round] = v]
      /\ aeCalls' = aeCalls \ {c}
      /\ logs' = logs /\ lastSnapshotIncludeIndex' = lastSnapshotIncludeIndex
  BY DEF sendAppendEntriesSuccess, ReplyToLeader, logVars
<1>2. /\ c.live /\ i \in Server /\ SentUpTo(c) \in Nat
      /\ c.round \in 1 .. Len(appendNums[i])
      /\ appendNums[i][c.round] \in Nat
      /\ Done(c) \cup {c.to} \subseteq Reaching(SentUpTo(c))
      /\ appendNums[i][c.round] + 1 <= Cardinality(Done(c) \cup {c.to})
  BY <1>1, ReplyCounts
<1>3. v \in Nat /\ v <= appendNums[i][c.round] + 1
  BY <1>2
<1> HIDE DEF v
<1>4. appendNums \in [Server -> Seq(Nat)]
  BY DEF LogInv, TypeOK
<1>5. /\ \A k \in Server : Len(appendNums'[k]) = Len(appendNums[k])
      /\ \A k \in Server : \A q \in 1 .. Len(appendNums[k]) :
           appendNums'[k][q] = IF k = i /\ q = c.round THEN v ELSE appendNums[k][q]
  <2>1. /\ appendNums'[i] = [appendNums[i] EXCEPT ![c.round] = v]
        /\ \A k \in Server \ {i} : appendNums'[k] = appendNums[k]
    BY <1>1, <1>2, <1>4
  <2>2. appendNums[i] \in Seq(Nat)
    BY <1>2, <1>4
  <2>3. /\ Len(appendNums'[i]) = Len(appendNums[i])
        /\ \A q \in 1 .. Len(appendNums[i]) :
             appendNums'[i][q] = IF q = c.round THEN v ELSE appendNums[i][q]
    BY <1>3, <2>1, <2>2, <1>2, ExceptSeq
  <2> QED BY <2>1, <2>3
<1>6. ASSUME NEW d \in aeCalls', d.live
      PROVE  /\ d.round \in 1 .. Len(appendNums'[d.from])
             /\ appendNums'[d.from][d.round] <= Cardinality(Done(d)')
             /\ \A a \in aeCalls' : SameRound(d, a) =>
                  /\ SentUpTo(a) = SentUpTo(d)
                  /\ a.to = d.to => a = d
  <2>1. /\ d \in aeCalls /\ d.from \in Server /\ SentUpTo(d) \in Nat
        /\ d.round \in 1 .. Len(appendNums[d.from])
        /\ appendNums[d.from][d.round] <= Cardinality(Done(d))
        /\ \A a \in aeCalls : SameRound(d, a) =>
             /\ SentUpTo(a) = SentUpTo(d)
             /\ a.to = d.to => a = d
    BY <1>1, <1>6, aeFields DEF RoundInv
  <2>2. d.round \in 1 .. Len(appendNums'[d.from])
    BY <1>5, <2>1
  <2>3. CASE d.from = i /\ d.round = c.round
    <3>1. SentUpTo(d) = SentUpTo(c) /\ SentUpTo(d)' = SentUpTo(d)
      BY <1>2, <2>1, <2>3 DEF SameRound, SentUpTo
    <3>2. \A j \in Done(c) \cup {c.to} : j \in Reaching(SentUpTo(d))'
      BY <1>2, <3>1, ReachingGrows
    <3>3. \A a \in aeCalls' : SameRound(d, a) => a.to \notin Done(c) \cup {c.to}
      <4> SUFFICES ASSUME NEW a \in aeCalls', SameRound(d, a)
                   PROVE  a.to \notin Done(c) \cup {c.to}
        OBVIOUS
      <4>1. a \in aeCalls /\ a # c /\ SameRound(c, a)
        BY <1>1, <2>3 DEF SameRound
      <4>2. a.to # c.to
        BY <1>2, <4>1 DEF RoundInv
      <4> QED BY <4>1, <4>2 DEF Done
    <3>4. Done(c) \cup {c.to} \subseteq Done(d)' /\ Done(d)' \subseteq Server
      BY <3>1, <3>2, <3>3 DEF Done, SameRound, Reaching
    <3>5. /\ Cardinality(Done(c) \cup {c.to}) <= Cardinality(Done(d)')
          /\ Cardinality(Done(c) \cup {c.to}) \in Nat /\ Cardinality(Done(d)') \in Nat
      BY <3>4, VotersFinite
    <3>6. appendNums'[d.from][d.round] = v
      BY <1>5, <2>1, <2>3
    <3>7. appendNums'[d.from][d.round] <= Cardinality(Done(d)')
      BY <1>2, <1>3, <3>5, <3>6
    <3> QED BY <1>1, <2>1, <2>2, <3>7
  <2>4. CASE ~(d.from = i /\ d.round = c.round)
    <3>1. appendNums'[d.from][d.round] = appendNums[d.from][d.round]
      BY <1>5, <2>1, <2>4
    <3>2. appendNums[d.from][d.round] \in Nat
      BY <1>4, <2>1
    <3>3. SameRequest(d, d) /\ \A a \in aeCalls' : SameRound(d, a) =>
            \E b \in aeCalls : SameRound(d, b) /\ b.to = a.to
      BY <1>1 DEF SameRequest
    <3>4. /\ Cardinality(Done(d)) <= Cardinality(Done(d)')
          /\ Cardinality(Done(d)) \in Nat /\ Cardinality(Done(d)') \in Nat
      BY <2>1, <3>3, DoneStays
    <3>5. appendNums'[d.from][d.round] <= Cardinality(Done(d)')
      BY <2>1, <3>1, <3>2, <3>4
    <3> QED BY <1>1, <2>1, <2>2, <3>5
  <2> QED BY <2>3, <2>4
<1>7. ASSUME NEW d \in aeCalls', d.phase = "reply", d.success
      PROVE  d.to \in Reaching(SentUpTo(d))'
  <2>1. d.to \in Reaching(SentUpTo(d)) /\ SentUpTo(d) \in Nat
    BY <1>1, <1>7, aeFields DEF RoundInv
  <2> QED BY <2>1, ReachingGrows DEF SentUpTo
<1> QED BY <1>6, <1>7 DEF RoundInv, SameRound, SentUpTo

-----------------------------------------------------------------------------
(* What spreads had its majority *)

\* n is at most an index that a majority had reached before the step.
WasReached(n) == n \in Nat /\ \E m \in Nat : n <= m /\ Reached(m)

CommitsFollow ==
    /\ \A k \in Server : /\ WasReached(commitIndex'[k])
                         /\ WasReached(lastSnapshotIncludeIndex'[k])
    /\ \A c \in aeCalls' : WasReached(c.leaderCommit) /\ c.leaderCommit <= SentUpTo(c)

LEMMA WasReachedNow ==
    ASSUME LogsGrow, NEW n, WasReached(n)
    PROVE  Reached(n)'
<1>1. PICK m \in Nat : n \in Nat /\ n <= m /\ Reached(m)
  BY DEF WasReached
<1> QED BY <1>1, ReachedStays

LEMMA ReachedWas ==
    ASSUME LogInv, CommitInv
    PROVE  /\ WasReached(0)
           /\ \A k \in Server : /\ WasReached(commitIndex[k])
                                /\ WasReached(lastSnapshotIncludeIndex[k])
           /\ \A c \in aeCalls : WasReached(c.leaderCommit) /\ c.leaderCommit <= SentUpTo(c)
           /\ \A c \in isCalls : c.phase # "spawned" => WasReached(c.lastIndex)
<1>1. \A n \in Nat : Reached(n) => WasReached(n)
  BY DEF WasReached
<1>2. Reached(0)
  BY ReachedZero
<1>3. /\ \A k \in Server : commitIndex[k] \in Nat /\ lastSnapshotIncludeIndex[k] \in Nat
      /\ \A c \in aeCalls : c.leaderCommit \in Nat
      /\ \A c \in isCalls : c.lastIndex \in Nat
  BY ServerTypes, aeFields, isFields
<1> QED BY <1>1, <1>2, <1>3 DEF CommitInv

LEMMA WasReachedMax ==
    ASSUME NEW m, NEW n, WasReached(m), WasReached(n)
    PROVE  WasReached(max(m, n))
BY DEF max

LEMMA WasReachedMin ==
    ASSUME NEW m, NEW n \in Nat, WasReached(m)
    PROVE  WasReached(min(m, n))
<1>1. PICK k \in Nat : m \in Nat /\ m <= k /\ Reached(k)
  BY DEF WasReached
<1>2. min(m, n) \in Nat /\ min(m, n) <= k
  BY <1>1 DEF min
<1> QED BY <1>1, <1>2 DEF WasReached

\* One cell changes.
LEMMA CellReached ==
    ASSUME NEW f \in [Server -> Nat], NEW i \in Server, NEW n,
           \A k \in Server : WasReached(f[k]), WasReached(n)
    PROVE  \A k \in Server : WasReached([f EXCEPT ![i] = n][k])
OBVIOUS

LEMMA LeaderCommitsFollow ==
    ASSUME LogInv, CommitInv, CallsFollow
    PROVE  \A c \in aeCalls' : WasReached(c.leaderCommit) /\ c.leaderCommit <= SentUpTo(c)
BY ReachedWas DEF CallsFollow, SameRequest, SentUpTo

LEMMA CallsTyped ==
    ASSUME LogInv'
    PROVE  \A c \in aeCalls' : c.to \in Server
BY DEF LogInv, TypeOK, AECall

\* The steps that touch neither a commit index nor a round.
LEMMA QuietFollows ==
    ASSUME LogInv, LogInv', LogsGrow, RoundInv, CommitInv,
           UNCHANGED <<commitIndex, lastSnapshotIncludeIndex, aeCalls, appendNums>>
    PROVE  RoundInv' /\ CommitsFollow
<1>1. CallsFollow
  BY FollowFewer
<1>2. RoundInv'
  BY <1>1, RoundsFollow, CallsTyped
<1>3. CommitsFollow
  BY ReachedWas DEF CommitsFollow
<1> QED BY <1>2, <1>3

LEMMA AppendEntriesFollow ==
    ASSUME LogInv, LogInv', LogsGrow, RoundInv, CommitInv, AppendEntriesNext
    PROVE  RoundInv' /\ CommitsFollow
<1>1. PICK c \in aeCalls :
        \/ appendEntriesStale(c) \/ appendEntriesReject(c) \/ appendEntriesAccept(c)
        \/ sendAppendEntriesHigherTerm(c) \/ sendAppendEntriesBacktrack(c)
        \/ sendAppendEntriesSuccess(c) \/ sendAppendEntriesEnd(c)
  BY DEF AppendEntriesNext
<1>2. /\ c.from \in Server /\ c.to \in Server /\ SentUpTo(c) \in Nat
      /\ commitIndex \in [Server -> Nat]
      /\ WasReached(c.leaderCommit) /\ \A k \in Server : WasReached(commitIndex[k])
  BY aeFields, ReachedWas DEF LogInv, TypeOK
<1>3. lastSnapshotIncludeIndex' = lastSnapshotIncludeIndex
  BY <1>1 DEF appendEntriesStale, appendEntriesReject, appendEntriesAccept,
              sendAppendEntriesHigherTerm, sendAppendEntriesBacktrack,
              sendAppendEntriesSuccess, sendAppendEntriesEnd, logVars
<1>4. ASSUME CallsFollow, \A k \in Server : WasReached(commitIndex'[k])
      PROVE  RoundInv' /\ CommitsFollow
  <2>1. RoundInv'
    BY <1>4, RoundsFollow, CallsTyped
  <2>2. CommitsFollow
    BY <1>3, <1>4, LeaderCommitsFollow, ReachedWas DEF CommitsFollow
  <2> QED BY <2>1, <2>2
<1>5. CASE appendEntriesStale(c) \/ appendEntriesReject(c)
  <2>1. PICK t, update : aeCalls' = aeReply(c, t, FALSE, update)
    BY <1>5 DEF appendEntriesStale, appendEntriesReject
  <2>2. appendNums' = appendNums /\ commitIndex' = commitIndex
    BY <1>5 DEF appendEntriesStale, appendEntriesReject, leaderVars, indexVars
  <2>3. CallsFollow
    BY <2>1, <2>2, FollowAnswered
  <2> QED BY <1>2, <1>4, <2>2, <2>3
<1>6. CASE appendEntriesAccept(c)
  <2> DEFINE last == max(getLastLogIndex(c.to), SentUpTo(c))
             new == IF c.leaderCommit > commitIndex[c.to]
                    THEN min(c.leaderCommit, last) ELSE commitIndex[c.to]
  <2>1. /\ aeCalls' = aeReply(c, c.term, TRUE, 0) /\ appendNums' = appendNums
        /\ commitIndex' = [commitIndex EXCEPT ![c.to] = new]
    BY <1>6 DEF appendEntriesAccept, leaderVars
  <2>2. /\ last \in Nat /\ last >= SentUpTo(c) /\ getLastLogIndex(c.to)' = last
    <3>1. getLastLogIndex(c.to) \in Nat
      BY <1>2, LastIndex
    <3>2. getLastLogIndex(c.to)' = last
      BY <1>6, appendEntriesAcceptChanges
    <3> QED BY <1>2, <3>1, <3>2 DEF max
  <2>3. CallsFollow
    BY <2>1, <2>2, FollowAnswered
  <2>4. WasReached(new)
    BY <1>2, <2>2, WasReachedMin
  <2> HIDE DEF new
  <2>5. \A k \in Server : WasReached(commitIndex'[k])
    BY <1>2, <2>1, <2>4, CellReached
  <2> QED BY <1>4, <2>3, <2>5
<1>7. CASE \/ sendAppendEntriesHigherTerm(c) \/ sendAppendEntriesBacktrack(c)
           \/ sendAppendEntriesEnd(c)
  <2>1. aeCalls' \subseteq aeCalls /\ appendNums' = appendNums
        /\ commitIndex' = commitIndex
    BY <1>7 DEF sendAppendEntriesHigherTerm, sendAppendEntriesBacktrack,
                sendAppendEntriesEnd, leaderVars, indexVars
  <2>2. CallsFollow
    BY <2>1, FollowFewer
  <2> QED BY <1>2, <1>4, <2>1, <2>2
<1>8. CASE sendAppendEntriesSuccess(c)
  <2>1. /\ c.phase = "reply" /\ c.success
        /\ commitIndex' = [commitIndex EXCEPT ![c.from] = commitIndexAfter(c)]
        /\ aeCalls' \subseteq aeCalls
    BY <1>8 DEF sendAppendEntriesSuccess, ReplyToLeader
  <2>2. RoundInv'
    BY <1>8, RoundCounts
  <2>3. WasReached(commitIndexAfter(c))
    <3>1. CASE RoundComplete(c)
      <4>1. Reached(SentUpTo(c))
        BY <2>1, <3>1, RoundReached
      <4>2. WasReached(SentUpTo(c))
        BY <1>2, <4>1 DEF WasReached
      <4> QED BY <1>2, <4>2, WasReachedMax DEF commitIndexAfter
    <3>2. CASE ~RoundComplete(c)
      BY <1>2, <3>2 DEF commitIndexAfter
    <3> QED BY <3>1, <3>2
  <2>4. \A k \in Server : WasReached(commitIndex'[k])
    BY <1>2, <2>1, <2>3, CellReached
  <2>5. CommitsFollow
    BY <1>3, <2>1, <2>4, ReachedWas DEF CommitsFollow
  <2> QED BY <2>2, <2>5
<1> QED BY <1>1, <1>5, <1>6, <1>7, <1>8

LEMMA DieFollows ==
    ASSUME LogInv, LogInv', LogsGrow, RoundInv, CommitInv,
           NEW i \in Server, NEW closed, Die(i, closed),
           \A k \in Server : WasReached(lastSnapshotIncludeIndex'[k])
    PROVE  RoundInv' /\ CommitsFollow
<1>1. CallsFollow
  BY FollowOrphaned
<1>2. RoundInv'
  BY <1>1, RoundsFollow, CallsTyped
<1>3. \A k \in Server : WasReached(commitIndex'[k])
  <2>1. commitIndex' = [commitIndex EXCEPT ![i] = 0]
    BY DEF Die
  <2>2. commitIndex \in [Server -> Nat]
    BY DEF LogInv, TypeOK
  <2> QED BY <2>1, <2>2, ReachedWas, CellReached
<1> QED BY <1>1, <1>2, <1>3, LeaderCommitsFollow DEF CommitsFollow

\* A snapshot up to index moves lastSnapshotIncludeIndex_ of j there, and pulls
\* commitIndex_ along.
LEMMA InstalledFollows ==
    ASSUME LogInv, LogInv', LogsGrow, RoundInv, CommitInv,
           NEW j \in Server, NEW index, WasReached(index),
           commitIndex' = [commitIndex EXCEPT ![j] = max(@, index)],
           lastSnapshotIncludeIndex' = [lastSnapshotIncludeIndex EXCEPT ![j] = index],
           aeCalls' = aeCalls, appendNums' = appendNums
    PROVE  RoundInv' /\ CommitsFollow
<1>1. CallsFollow
  BY FollowFewer
<1>2. RoundInv'
  BY <1>1, RoundsFollow, CallsTyped
<1>3. /\ commitIndex \in [Server -> Nat] /\ lastSnapshotIncludeIndex \in [Server -> Nat]
      /\ \A k \in Server : /\ WasReached(commitIndex[k])
                           /\ WasReached(lastSnapshotIncludeIndex[k])
  BY ReachedWas DEF LogInv, TypeOK
<1>4. WasReached(max(commitIndex[j], index))
  BY <1>3, WasReachedMax
<1>5. \A k \in Server : WasReached(commitIndex'[k])
  BY <1>3, <1>4, CellReached
<1>6. \A k \in Server : WasReached(lastSnapshotIncludeIndex'[k])
  BY <1>3, CellReached
<1> QED BY <1>1, <1>2, <1>5, <1>6, LeaderCommitsFollow DEF CommitsFollow

LEMMA InstallSnapshotFollows ==
    ASSUME LogInv, LogInv', LogsGrow, RoundInv, CommitInv, InstallSnapshotNext
    PROVE  RoundInv' /\ CommitsFollow
<1>1. PICK c \in isCalls :
        \/ leaderSendSnapshot(c) \/ installSnapshotStale(c)
        \/ installSnapshotOld(c) \/ installSnapshotApply(c)
        \/ sendSnapshotHigherTerm(c) \/ sendSnapshotSuccess(c)
        \/ sendSnapshotEnd(c) \/ CrashInInstallSnapshot(c)
  BY DEF InstallSnapshotNext
<1>2. /\ c.to \in Server
      /\ c.phase # "spawned" => WasReached(c.lastIndex)
      /\ lastSnapshotIncludeIndex \in [Server -> Nat]
      /\ \A k \in Server : WasReached(lastSnapshotIncludeIndex[k])
  BY isFields, ReachedWas DEF LogInv, TypeOK
<1>3. CASE \/ leaderSendSnapshot(c) \/ installSnapshotStale(c)
           \/ installSnapshotOld(c) \/ sendSnapshotHigherTerm(c)
           \/ sendSnapshotSuccess(c) \/ sendSnapshotEnd(c)
  <2>1. UNCHANGED <<commitIndex, lastSnapshotIncludeIndex, aeCalls, appendNums>>
    BY <1>3 DEF leaderSendSnapshot, installSnapshotStale, installSnapshotOld,
                sendSnapshotHigherTerm, sendSnapshotSuccess, sendSnapshotEnd,
                logVars, indexVars, leaderVars
  <2> QED BY <2>1, QuietFollows
<1>4. CASE installSnapshotApply(c)
  <2>1. /\ c.phase = "request"
        /\ commitIndex' = [commitIndex EXCEPT ![c.to] = max(@, c.lastIndex)]
        /\ lastSnapshotIncludeIndex' =
             [lastSnapshotIncludeIndex EXCEPT ![c.to] = c.lastIndex]
        /\ aeCalls' = aeCalls /\ appendNums' = appendNums
    BY <1>4 DEF installSnapshotApply, InstallInMemory, leaderVars
  <2> QED BY <1>2, <2>1, InstalledFollows
<1>5. CASE CrashInInstallSnapshot(c)
  <2>1. /\ c.phase = "request" /\ Die(c.to, {c})
        /\ lastSnapshotIncludeIndex' =
             [lastSnapshotIncludeIndex EXCEPT ![c.to] = c.lastIndex]
    BY <1>5 DEF CrashInInstallSnapshot, InstallInMemory
  <2>2. \A k \in Server : WasReached(lastSnapshotIncludeIndex'[k])
    BY <1>2, <2>1, CellReached
  <2> QED BY <1>2, <2>1, <2>2, DieFollows
<1> QED BY <1>1, <1>3, <1>4, <1>5

LEMMA ServerFollows ==
    ASSUME LogInv, LogInv', DiskHasLog, LogsGrow, RoundInv, CommitInv, ServerNext
    PROVE  RoundInv' /\ CommitsFollow
<1>1. PICK i \in Server :
        \/ doElection(i) \/ doHeartBeat(i) \/ applierTicker(i) \/ Restart(i)
        \/ \E command \in Command : start(i, command)
        \/ \E index \in 1 .. MaxIndex : snapshot(i, index) \/ CrashInSnapshot(i, index)
  BY DEF ServerNext
<1>2. /\ lastSnapshotIncludeIndex \in [Server -> Nat]
      /\ \A k \in Server : /\ WasReached(commitIndex[k])
                           /\ WasReached(lastSnapshotIncludeIndex[k])
      /\ \A c \in aeCalls : WasReached(c.leaderCommit) /\ c.leaderCommit <= SentUpTo(c)
  BY ReachedWas DEF LogInv, TypeOK
<1>3. CASE \/ doElection(i) \/ applierTicker(i)
           \/ \E command \in Command : start(i, command)
  <2>1. UNCHANGED <<commitIndex, lastSnapshotIncludeIndex, aeCalls, appendNums>>
    BY <1>3 DEF doElection, applierTicker, start, logVars, indexVars, leaderVars, callVars
  <2> QED BY <2>1, QuietFollows
<1>4. CASE doHeartBeat(i)
  <2>1. RoundInv'
    BY <1>4, RoundBegins
  <2>2. /\ commitIndex' = commitIndex
        /\ lastSnapshotIncludeIndex' = lastSnapshotIncludeIndex
    BY <1>4 DEF doHeartBeat, logVars, indexVars
  <2>3. \A c \in aeCalls' \ aeCalls : /\ c.leaderCommit = commitIndex[i]
                                      /\ SentUpTo(c) = getLastLogIndex(i)
    BY <1>4, HeartBeatCalls
  <2>4. commitIndex[i] <= getLastLogIndex(i)
    BY DEF LogInv, CommitWithinLog
  <2>5. CommitsFollow
    BY <1>2, <2>2, <2>3, <2>4 DEF CommitsFollow
  <2> QED BY <2>1, <2>5
<1>5. CASE Restart(i)
  <2>1. PICK closed : Die(i, closed)
    BY <1>5 DEF Restart
  <2>2. lastSnapshotIncludeIndex' = lastSnapshotIncludeIndex
    BY <1>2, <1>5 DEF Restart, Boot, DiskHasLog
  <2> QED BY <1>2, <2>1, <2>2, DieFollows
<1>6. ASSUME NEW index \in 1 .. MaxIndex, SnapshotInMemory(i, index)
      PROVE  /\ WasReached(index)
             /\ lastSnapshotIncludeIndex' = [lastSnapshotIncludeIndex EXCEPT ![i] = index]
  <2>1. index \in Nat /\ index <= commitIndex[i]
    BY <1>6, BoundAssumption DEF SnapshotInMemory
  <2>2. commitIndex[i] \in Nat /\ Reached(commitIndex[i])
    BY ServerTypes DEF CommitInv
  <2> QED BY <1>6, <2>1, <2>2 DEF WasReached, SnapshotInMemory
<1>7. CASE \E index \in 1 .. MaxIndex : snapshot(i, index)
  <2>1. PICK index \in 1 .. MaxIndex : snapshot(i, index)
    BY <1>7
  <2>2. /\ SnapshotInMemory(i, index)
        /\ commitIndex' = [commitIndex EXCEPT ![i] = max(@, index)]
        /\ aeCalls' = aeCalls /\ appendNums' = appendNums
    BY <2>1 DEF snapshot, leaderVars, callVars
  <2> QED BY <1>6, <2>2, InstalledFollows
<1>8. CASE \E index \in 1 .. MaxIndex : CrashInSnapshot(i, index)
  <2>1. PICK index \in 1 .. MaxIndex : CrashInSnapshot(i, index)
    BY <1>8
  <2>2. SnapshotInMemory(i, index) /\ Die(i, {})
    BY <2>1 DEF CrashInSnapshot
  <2>3. \A k \in Server : WasReached(lastSnapshotIncludeIndex'[k])
    BY <1>2, <1>6, <2>2, CellReached
  <2> QED BY <2>2, <2>3, DieFollows
<1> QED BY <1>1, <1>3, <1>4, <1>5, <1>7, <1>8

LEMMA MajorityStep == MajorityInv /\ [Next]_vars => MajorityInv'
<1> SUFFICES ASSUME MajorityInv, [Next]_vars PROVE MajorityInv'
  OBVIOUS
<1>1. /\ DiskLogInv /\ DiskLogInv' /\ RoundInv /\ CommitInv /\ InstallsCarry
      /\ LogInv /\ LogInv' /\ DiskHasLog /\ LogsGrow
  BY DiskLogStep, InstallsStep, LogsGrowStep DEF MajorityInv, DiskLogInv
<1>2. RoundInv' /\ CommitsFollow
  <2>1. CASE RequestVoteNext
    <3>1. UNCHANGED <<commitIndex, lastSnapshotIncludeIndex, aeCalls, appendNums>>
      BY <2>1 DEF RequestVoteNext, requestVoteStale, requestVoteRefuse,
                  requestVoteGrant, sendRequestVoteHigherTerm, sendRequestVoteCount,
                  sendRequestVoteWin, sendRequestVoteEnd, rvUnchanged, logVars,
                  indexVars, leaderVars
    <3> QED BY <1>1, <3>1, QuietFollows
  <2>2. CASE AppendEntriesNext
    BY <1>1, <2>2, AppendEntriesFollow
  <2>3. CASE InstallSnapshotNext
    BY <1>1, <2>3, InstallSnapshotFollows
  <2>4. CASE ServerNext
    BY <1>1, <2>4, ServerFollows
  <2>5. CASE UNCHANGED vars
    <3>1. UNCHANGED <<commitIndex, lastSnapshotIncludeIndex, aeCalls, appendNums>>
      BY <2>5 DEF vars, logVars, indexVars, leaderVars, callVars
    <3> QED BY <1>1, <3>1, QuietFollows
  <2> QED BY <2>1, <2>2, <2>3, <2>4, <2>5 DEF Next
<1>3. ASSUME NEW c \in isCalls', c.phase # "spawned"
      PROVE  WasReached(c.lastIndex)
  BY <1>1, <1>3, ReachedWas DEF InstallsCarry
<1>4. CommitInv'
  <2>1. \A k \in Server : Reached(commitIndex[k])' /\ Reached(lastSnapshotIncludeIndex[k])'
    <3> SUFFICES ASSUME NEW k \in Server
                 PROVE  Reached(commitIndex[k])' /\ Reached(lastSnapshotIncludeIndex[k])'
      OBVIOUS
    <3>1. PICK n, m : /\ n = commitIndex'[k] /\ m = lastSnapshotIncludeIndex'[k]
                      /\ WasReached(n) /\ WasReached(m)
      BY <1>2 DEF CommitsFollow
    <3>2. Reached(n)' /\ Reached(m)'
      BY <1>1, <3>1, WasReachedNow
    <3> QED BY <3>1, <3>2 DEF Reached, Reaching
  <2>2. \A c \in aeCalls' : /\ Reached(c.leaderCommit)'
                             /\ c.leaderCommit <= SentUpTo(c)
    BY <1>1, <1>2, WasReachedNow DEF CommitsFollow
  <2>3. \A c \in isCalls' : c.phase # "spawned" => Reached(c.lastIndex)'
    BY <1>1, <1>3, WasReachedNow
  <2> QED BY <2>1, <2>2, <2>3 DEF CommitInv, SentUpTo
<1> QED BY <1>1, <1>2, <1>4 DEF MajorityInv

LEMMA MajorityInit == Init => MajorityInv
<1> SUFFICES ASSUME Init PROVE MajorityInv
  OBVIOUS
<1>1. DiskLogInv /\ LogInv
  BY DiskLogInit DEF DiskLogInv
<1>2. RoundInv
  BY DEF Init, RoundInv
<1>3. CommitInv
  BY <1>1, ReachedZero DEF Init, CommitInv
<1> QED BY <1>1, <1>2, <1>3 DEF MajorityInv

\* The rounds count distinct servers and no commit index is ahead of its
\* majority, in any behaviour of the node.
THEOREM MajorityInvariant == Spec => []MajorityInv
BY MajorityInit, MajorityStep, PTL DEF Spec

\* A leader never announces a commit index beyond the entries it sends along
\* (raft.cpp:218-261), for any number of servers and whatever is late.
THEOREM CommitsCarried == Spec => []CommitCarried
<1>1. MajorityInv => CommitCarried
  BY DEF MajorityInv, CommitInv, CommitCarried
<1> QED BY <1>1, MajorityInvariant, PTL

\* Whatever a server regards as committed, a majority holds on disk a log that
\* reaches that far, for any number of servers: the counter of one round counts
\* distinct servers, and no reply, install or restart spreads an index that a
\* majority did not have.
THEOREM CommitOnMajority == Spec => []CommittedOnMajority
<1>1. Spec => []MajorityInv
  BY MajorityInvariant
<1>2. MajorityInv => CommittedOnMajority
  <2> SUFFICES ASSUME MajorityInv, NEW i \in Server
               PROVE  Cardinality({j \in Server : DurableLastIndex(j) >= commitIndex[i]})
                        >= Majority
    BY DEF CommittedOnMajority
  <2>1. \A j \in Server : DurableLastIndex(j) = getLastLogIndex(j)
    BY DEF MajorityInv, DiskLogInv, DiskHasLog, DurableLastIndex, getLastLogIndex
  <2>2. {j \in Server : DurableLastIndex(j) >= commitIndex[i]} = Reaching(commitIndex[i])
    BY <2>1 DEF Reaching
  <2>3. Reached(commitIndex[i])
    BY DEF MajorityInv, CommitInv
  <2> QED BY <2>2, <2>3 DEF Reached
<1> QED BY <1>1, <1>2, PTL

=============================================================================
