----------------------------- MODULE RaftProofs -----------------------------
(***************************************************************************)
(* Theorems about Raft.tla, for any finite set of servers and any bounds.  *)
(***************************************************************************)
EXTENDS Raft, TLAPS, FiniteSetTheorems, SequenceTheorems

\* The last index of a log that follows base without a gap.
LEMMA LastOfContiguous ==
    ASSUME NEW log \in Seq(Entry), NEW base \in Nat, Contiguous(log, base)
    PROVE  (IF log = << >> THEN base ELSE log[Len(log)].index) = base + Len(log)
BY DEF Contiguous

\* What is left of a log when its first off entries are cut off.
LEMMA Suffix ==
    ASSUME NEW log \in Seq(Entry), NEW off \in 0 .. Len(log)
    PROVE  LET rest == SubSeq(log, off + 1, Len(log)) IN
           /\ rest \in Seq(Entry)
           /\ Len(rest) = Len(log) - off
           /\ \A k \in 1 .. Len(log) - off : rest[k] = log[off + k]
<1>1. PICK m \in Int, n \in Int : m = off + 1 /\ n = Len(log)
  OBVIOUS
<1> DEFINE rest == SubSeq(log, m, n)
<1>2. \A k \in m .. n : log[k] \in Entry
  BY <1>1
<1>3. /\ rest \in Seq(Entry)
      /\ Len(rest) = IF m <= n THEN n - m + 1 ELSE 0
      /\ \A k \in 1 .. n - m + 1 : rest[k] = log[m + k - 1]
  BY <1>2, SubSeqProperties
<1> HIDE DEF rest
<1>4. n - m + 1 = Len(log) - off /\ (m <= n \/ n - m + 1 = 0)
  BY <1>1
<1>5. Len(rest) = Len(log) - off
  BY <1>3, <1>4
<1>6. \A k \in 1 .. Len(log) - off : m + k - 1 = off + k
  BY <1>1
<1>7. \A k \in 1 .. Len(log) - off : rest[k] = log[off + k]
  BY <1>3, <1>4, <1>6
<1> QED BY <1>1, <1>3, <1>5, <1>7 DEF rest

\* If the log followed base without a gap, the rest follows base + off.
LEMMA SuffixContiguous ==
    ASSUME NEW log \in Seq(Entry), NEW base \in Nat, Contiguous(log, base),
           NEW off \in 0 .. Len(log)
    PROVE  Contiguous(SubSeq(log, off + 1, Len(log)), base + off)
<1> DEFINE rest == SubSeq(log, off + 1, Len(log))
<1>1. /\ Len(rest) = Len(log) - off
      /\ \A k \in 1 .. Len(log) - off : rest[k] = log[off + k]
  BY Suffix
<1> HIDE DEF rest
<1>2. \A k \in 1 .. Len(log) - off : off + k \in 1 .. Len(log)
  OBVIOUS
<1>3. Contiguous(rest, base + off)
  BY <1>1, <1>2 DEF Contiguous
<1> QED BY <1>3 DEF rest

\* What the entries of a live call add up to is still in the caller's log: logs
\* only grow while a process lives.  Nobody waits for the answer to an orphan.
CallsWithinLog ==
    \A c \in aeCalls :
        /\ c.live => SentUpTo(c) <= getLastLogIndex(c.from)
        /\ c.phase = "reply" => c.live

\* The inductive invariant behind the type invariant: an index read from a
\* message or a counter has its type only because it points into the log.
LogInv == TypeOK /\ LogContiguous /\ CommitWithinLog /\ CallsWithinLog

LEMMA ServerTypes ==
    ASSUME LogInv, NEW i \in Server
    PROVE  /\ logs[i] \in Seq(Entry)
           /\ lastSnapshotIncludeIndex[i] \in Nat
           /\ lastSnapshotIncludeTerm[i] \in Term
           /\ currentTerm[i] \in Term
           /\ commitIndex[i] \in Nat /\ lastApplied[i] \in Nat
           /\ Contiguous(logs[i], lastSnapshotIncludeIndex[i])
BY DEF LogInv, TypeOK, LogContiguous

LEMMA LastIndex ==
    ASSUME LogInv, NEW i \in Server
    PROVE  /\ getLastLogIndex(i) = lastSnapshotIncludeIndex[i] + Len(logs[i])
           /\ getLastLogIndex(i) \in Nat
           /\ getLastLogTerm(i) \in Term
<1>1. getLastLogIndex(i) = lastSnapshotIncludeIndex[i] + Len(logs[i])
  BY ServerTypes, LastOfContiguous DEF getLastLogIndex
<1>2. \A e \in Entry : e.term \in Term
  BY DEF Entry
<1>3. logs[i] # << >> => logs[i][Len(logs[i])] \in Entry
  BY ServerTypes
<1> QED BY <1>1, <1>2, <1>3, ServerTypes DEF getLastLogTerm

LEMMA TermAt ==
    ASSUME LogInv, NEW i \in Server,
           NEW k \in lastSnapshotIncludeIndex[i] .. getLastLogIndex(i)
    PROVE  getLogTermFromLogIndex(i, k) \in Term
<1>1. \A e \in Entry : e.term \in Term
  BY DEF Entry
<1>2. k # lastSnapshotIncludeIndex[i] =>
        logs[i][k - lastSnapshotIncludeIndex[i]] \in Entry
  BY ServerTypes, LastIndex
<1> QED BY <1>1, <1>2, ServerTypes
        DEF getLogTermFromLogIndex, getSlicesIndexFromLogIndex

LEMMA MergedLog ==
    ASSUME LogInv, NEW i \in Server, NEW entries \in Seq(Entry),
           NEW prev \in lastSnapshotIncludeIndex[i] .. getLastLogIndex(i),
           Contiguous(entries, prev)
    PROVE  /\ mergedLog(i, prev, entries) \in Seq(Entry)
           /\ Contiguous(mergedLog(i, prev, entries), lastSnapshotIncludeIndex[i])
           /\ lastSnapshotIncludeIndex[i] + Len(mergedLog(i, prev, entries))
                = max(getLastLogIndex(i), prev + Len(entries))
<1> DEFINE off == prev - lastSnapshotIncludeIndex[i]
           n == max(Len(logs[i]), off + Len(entries))
           log == mergedLog(i, prev, entries)
           base == lastSnapshotIncludeIndex[i]
<1>1. /\ base \in Nat /\ logs[i] \in Seq(Entry) /\ Contiguous(logs[i], base)
      /\ getLastLogIndex(i) = base + Len(logs[i])
      /\ prev = base + off /\ prev \in base .. getLastLogIndex(i)
  BY LastIndex, ServerTypes
<1>2. log = [k \in 1 .. n |->
               IF k - off \notin 1 .. Len(entries) THEN logs[i][k]
               ELSE IF k <= Len(logs[i]) /\ logs[i][k].term = entries[k - off].term
                    THEN logs[i][k] ELSE entries[k - off]]
  BY DEF mergedLog, getSlicesIndexFromLogIndex
<1>3. n = Len(logs[i]) \/ n = off + Len(entries)
  BY DEF max
<1>4. n >= Len(logs[i]) /\ n >= off + Len(entries) /\ off \in 0 .. Len(logs[i])
  <2>1. off \in 0 .. Len(logs[i])
    BY <1>1
  <2> HIDE DEF off
  <2> QED BY <1>1, <2>1 DEF max
<1>5. max(getLastLogIndex(i), prev + Len(entries)) = base + n
  <2>1. prev + Len(entries) = base + (off + Len(entries))
    BY <1>1, <1>4
  <2> HIDE DEF off, base
  <2>2. off + Len(entries) \in Int
    BY <1>4
  <2> QED BY <1>1, <2>1, <2>2 DEF max
<1> HIDE DEF off, n, log, base
<1>6. n \in Nat
  BY <1>1, <1>3, <1>4
<1>7. ASSUME NEW k \in 1 .. n
      PROVE  log[k] \in Entry /\ log[k].index = base + k
  <2>1. k <= Len(logs[i]) => logs[i][k].index = base + k /\ logs[i][k] \in Entry
    BY <1>1 DEF Contiguous
  <2>2. CASE k - off \in 1 .. Len(entries)
    <3>1. entries[k - off].index = prev + (k - off) /\ entries[k - off] \in Entry
      BY <2>2 DEF Contiguous
    <3>2. prev + (k - off) = base + k
      BY <1>1, <1>4
    <3> QED BY <1>2, <2>1, <2>2, <3>1, <3>2
  <2>3. CASE k - off \notin 1 .. Len(entries)
    <3>1. k <= Len(logs[i])
      BY <1>3, <1>4, <1>6, <2>3
    <3> QED BY <1>2, <2>1, <2>3, <3>1
  <2> QED BY <2>2, <2>3
<1>8. log \in Seq(Entry) /\ Len(log) = n
  <2>1. log = [k \in 1 .. n |-> log[k]]
    BY <1>2
  <2> QED BY <1>6, <1>7, <2>1
<1> QED BY <1>5, <1>7, <1>8 DEF Contiguous, log, base

LEMMA ErasedLog ==
    ASSUME LogInv, NEW i \in Server, NEW index \in Nat,
           index > lastSnapshotIncludeIndex[i]
    PROVE  /\ erasedLog(i, index) \in Seq(Entry)
           /\ Contiguous(erasedLog(i, index), index)
           /\ index + Len(erasedLog(i, index)) = max(getLastLogIndex(i), index)
<1>1. CASE getLastLogIndex(i) > index
  <2> DEFINE off == index - lastSnapshotIncludeIndex[i]
  <2>1. /\ off \in 1 .. Len(logs[i]) /\ logs[i] \in Seq(Entry) /\ off < Len(logs[i])
        /\ lastSnapshotIncludeIndex[i] \in Nat
    BY <1>1, LastIndex, ServerTypes
  <2>2. erasedLog(i, index) = SubSeq(logs[i], off + 1, Len(logs[i]))
    BY <1>1 DEF erasedLog, getSlicesIndexFromLogIndex
  <2>3. Contiguous(logs[i], lastSnapshotIncludeIndex[i])
    BY ServerTypes
  <2>4. /\ erasedLog(i, index) \in Seq(Entry)
        /\ Len(erasedLog(i, index)) = Len(logs[i]) - off
        /\ Contiguous(erasedLog(i, index), lastSnapshotIncludeIndex[i] + off)
    <3>1. off \in 0 .. Len(logs[i])
      BY <2>1
    <3> HIDE DEF off
    <3>2. /\ SubSeq(logs[i], off + 1, Len(logs[i])) \in Seq(Entry)
          /\ Len(SubSeq(logs[i], off + 1, Len(logs[i]))) = Len(logs[i]) - off
      BY <2>1, <3>1, Suffix
    <3>3. Contiguous(SubSeq(logs[i], off + 1, Len(logs[i])),
                     lastSnapshotIncludeIndex[i] + off)
      BY <2>1, <2>3, <3>1, SuffixContiguous
    <3> QED BY <2>2, <3>2, <3>3
  <2>5. lastSnapshotIncludeIndex[i] + off = index
    BY <2>1
  <2> QED BY <1>1, <2>1, <2>4, <2>5, LastIndex, SMTT(60) DEF max
<1>2. CASE ~(getLastLogIndex(i) > index)
  BY <1>2, LastIndex DEF erasedLog, Contiguous, max
<1> QED BY <1>1, <1>2

\* Updating one cell of a table.
LEMMA Cell ==
    ASSUME NEW A, NEW B, NEW V, NEW f \in [A -> [B -> V]],
           NEW a \in A, NEW b \in B, NEW v \in V
    PROVE  [f EXCEPT ![a][b] = v] \in [A -> [B -> V]]
OBVIOUS

\* What persist(i) writes, and that it leaves the other files alone.
LEMMA Persisted ==
    ASSUME NEW i \in Server, raftState \in [Server -> RaftState], persist(i),
           currentTerm'[i] \in Term, votedFor'[i] \in Server \cup {NoVote},
           lastSnapshotIncludeIndex'[i] \in Nat,
           lastSnapshotIncludeTerm'[i] \in Term, logs'[i] \in Seq(Entry)
    PROVE  /\ raftState' \in [Server -> RaftState]
           /\ raftState'[i].logs = logs'[i]
           /\ raftState'[i].lastSnapshotIncludeIndex = lastSnapshotIncludeIndex'[i]
           /\ \A j \in Server \ {i} : raftState'[j] = raftState[j]
<1>1. /\ persistData(i)' \in RaftState
      /\ persistData(i)'.logs = logs'[i]
      /\ persistData(i)'.lastSnapshotIncludeIndex = lastSnapshotIncludeIndex'[i]
  BY DEF persistData, RaftState
<1> QED BY <1>1 DEF persist

\* Every call after the step goes back to one before it.
CallsKept ==
    \A c \in aeCalls' : \E d \in aeCalls :
        /\ c.prevLogIndex = d.prevLogIndex /\ c.entries = d.entries
        /\ c.from = d.from /\ (c.live => d.live)
        /\ c.phase = "reply" => c.live

\* The actions that touch neither a log nor an index.
LEMMA LogUntouched ==
    ASSUME LogInv, UNCHANGED <<logVars, indexVars>>,
           UNCHANGED raftState \/ \E i \in Server : persist(i),
           TypeOK', CallsKept
    PROVE  LogInv'
<1>1. /\ logs' = logs /\ lastSnapshotIncludeIndex' = lastSnapshotIncludeIndex
      /\ commitIndex' = commitIndex /\ lastApplied' = lastApplied
  BY DEF logVars, indexVars
<1>2. \A i \in Server : Contiguous(raftState'[i].logs,
                                   raftState'[i].lastSnapshotIncludeIndex)
  <2>1. CASE UNCHANGED raftState
    BY <2>1 DEF LogInv, LogContiguous
  <2>2. CASE \E i \in Server : persist(i)
    <3>1. PICK i \in Server : persist(i)
      BY <2>2
    <3>2. /\ raftState \in [Server -> RaftState]
          /\ currentTerm'[i] \in Term /\ votedFor'[i] \in Server \cup {NoVote}
          /\ lastSnapshotIncludeIndex'[i] \in Nat
          /\ lastSnapshotIncludeTerm'[i] \in Term /\ logs'[i] \in Seq(Entry)
      BY DEF LogInv, TypeOK
    <3>3. /\ raftState'[i].logs = logs[i]
          /\ raftState'[i].lastSnapshotIncludeIndex = lastSnapshotIncludeIndex[i]
          /\ \A j \in Server \ {i} : raftState'[j] = raftState[j]
      BY <1>1, <3>1, <3>2, Persisted
    <3> QED BY <3>3 DEF LogInv, LogContiguous
  <2> QED BY <2>1, <2>2
<1>3. LogContiguous'
  BY <1>1, <1>2 DEF LogInv, LogContiguous, CallsKept
<1>4. CommitWithinLog'
  BY <1>1 DEF LogInv, CommitWithinLog, getLastLogIndex
<1>5. CallsWithinLog'
  BY <1>1 DEF LogInv, CallsWithinLog, CallsKept, getLastLogIndex, SentUpTo
<1> QED BY <1>3, <1>4, <1>5 DEF LogInv

-----------------------------------------------------------------------------
(* Elections *)

LEMMA rvReplyType ==
    ASSUME LogInv, NEW c \in rvCalls, NEW t \in Term, NEW granted \in BOOLEAN
    PROVE  rvReply(c, t, granted) \subseteq RVCall
<1>1. c \in RVCall
  BY DEF LogInv, TypeOK
<1>2. [c EXCEPT !.phase = "reply", !.rterm = t, !.voteGranted = granted] \in RVCall
  BY <1>1 DEF RVCall
<1> QED BY <1>2 DEF rvReply, Answered, LogInv, TypeOK

LEMMA doElectionType ==
    ASSUME LogInv, NEW i \in Server, doElection(i)
    PROVE  TypeOK'
<1> DEFINE t == currentTerm[i] + 1
<1>1. t \in Term /\ getLastLogIndex(i) \in Nat /\ getLastLogTerm(i) \in Term
  BY ServerTypes, LastIndex, BoundAssumption DEF doElection, Term
<1>2. /\ currentTerm' \in [Server -> Term]
      /\ votedFor' \in [Server -> Server \cup {NoVote}]
      /\ status' \in [Server -> {"Follower", "Candidate", "Leader"}]
  BY <1>1 DEF LogInv, TypeOK, doElection
<1>3. voteNum' \in [Server -> [Term -> Nat]]
  <2>1. voteNum \in [Server -> [Term -> Nat]] /\ 1 \in Nat
    BY DEF LogInv, TypeOK
  <2> QED BY <1>1, <2>1, Cell DEF doElection
<1>4. voteHistory' \in [Server -> [Term -> Server \cup {NoVote}]]
  <2>1. voteHistory \in [Server -> [Term -> Server \cup {NoVote}]]
    BY DEF LogInv, TypeOK
  <2> QED BY <1>1, <2>1, Cell DEF doElection
<1>5. rvCalls' \subseteq RVCall
  <2>1. 0 \in Term
    BY BoundAssumption DEF Term
  <2>2. \A j \in Server :
          [from |-> i, to |-> j, live |-> TRUE, phase |-> "request",
           term |-> t, lastLogIndex |-> getLastLogIndex(i),
           lastLogTerm |-> getLastLogTerm(i),
           rterm |-> 0, voteGranted |-> FALSE] \in RVCall
    BY <1>1, <2>1 DEF RVCall
  <2> QED BY <2>2 DEF LogInv, TypeOK, doElection
<1>6. /\ UNCHANGED <<logVars, indexVars, leaderVars, snapshotFile, aeCalls,
                     isCalls, leaders, restarts>>
      /\ persist(i)
  BY DEF doElection
<1>7. raftState' \in [Server -> RaftState]
  <2>1. /\ raftState \in [Server -> RaftState]
        /\ currentTerm'[i] \in Term /\ votedFor'[i] \in Server \cup {NoVote}
        /\ lastSnapshotIncludeIndex'[i] \in Nat
        /\ lastSnapshotIncludeTerm'[i] \in Term /\ logs'[i] \in Seq(Entry)
    BY <1>2, <1>6 DEF LogInv, TypeOK, logVars
  <2> QED BY <1>6, <2>1, Persisted
<1> QED BY <1>2, <1>3, <1>4, <1>5, <1>6, <1>7
        DEF LogInv, TypeOK, logVars, indexVars, leaderVars

\* Types of the fields an answer and its caller are updated from.
LEMMA rvFields ==
    ASSUME LogInv, NEW c \in rvCalls
    PROVE  /\ c.from \in Server /\ c.to \in Server
           /\ c.term \in Term /\ c.rterm \in Term
BY DEF LogInv, TypeOK, RVCall

\* The state file is well typed when its owner's variables are.
LEMMA PersistType ==
    ASSUME LogInv, NEW i \in Server, persist(i), UNCHANGED logVars,
           currentTerm' \in [Server -> Term],
           votedFor' \in [Server -> Server \cup {NoVote}]
    PROVE  raftState' \in [Server -> RaftState]
<1>1. /\ raftState \in [Server -> RaftState]
      /\ currentTerm'[i] \in Term /\ votedFor'[i] \in Server \cup {NoVote}
      /\ lastSnapshotIncludeIndex'[i] \in Nat
      /\ lastSnapshotIncludeTerm'[i] \in Term /\ logs'[i] \in Seq(Entry)
  BY DEF LogInv, TypeOK, logVars
<1> QED BY <1>1, Persisted

LEMMA requestVoteType ==
    ASSUME LogInv, NEW c \in rvCalls,
           requestVoteStale(c) \/ requestVoteRefuse(c) \/ requestVoteGrant(c)
    PROVE  TypeOK'
<1>1. c.from \in Server /\ c.to \in Server /\ c.term \in Term /\ c.rterm \in Term
  BY rvFields
<1>2. /\ currentTerm' \in [Server -> Term]
      /\ votedFor' \in [Server -> Server \cup {NoVote}]
      /\ status' \in [Server -> {"Follower", "Candidate", "Leader"}]
  <2>1. /\ currentTerm \in [Server -> Term]
        /\ votedFor \in [Server -> Server \cup {NoVote}]
        /\ status \in [Server -> {"Follower", "Candidate", "Leader"}]
        /\ AdoptedVote(c.to, c.term) \in Server \cup {NoVote}
        /\ AdoptedStatus(c.to, c.term) \in {"Follower", "Candidate", "Leader"}
    BY <1>1 DEF LogInv, TypeOK, AdoptedVote, AdoptedStatus
  <2>2. CASE requestVoteStale(c)
    BY <2>1, <2>2 DEF requestVoteStale, termVars
  <2>3. CASE requestVoteRefuse(c)
    BY <1>1, <2>1, <2>3 DEF requestVoteRefuse
  <2>4. CASE requestVoteGrant(c)
    BY <1>1, <2>1, <2>4 DEF requestVoteGrant
  <2> QED BY <2>2, <2>3, <2>4
<1>3. rvCalls' \subseteq RVCall
  <2>1. currentTerm[c.to] \in Term
    BY <1>1 DEF LogInv, TypeOK
  <2>2. \E t \in Term, granted \in BOOLEAN : rvCalls' = rvReply(c, t, granted)
    BY <1>1, <2>1 DEF requestVoteStale, requestVoteRefuse, requestVoteGrant
  <2> QED BY <2>2, rvReplyType
<1>4. voteHistory' \in [Server -> [Term -> Server \cup {NoVote}]]
  <2>1. voteHistory \in [Server -> [Term -> Server \cup {NoVote}]]
    BY DEF LogInv, TypeOK
  <2>2. \/ voteHistory' = voteHistory
        \/ voteHistory' = [voteHistory EXCEPT ![c.to][c.term] = c.from]
    BY DEF requestVoteStale, requestVoteRefuse, requestVoteGrant
  <2>3. c.from \in Server \cup {NoVote}
    BY <1>1
  <2>4. [voteHistory EXCEPT ![c.to][c.term] = c.from]
          \in [Server -> [Term -> Server \cup {NoVote}]]
    BY <1>1, <2>1, <2>3, Cell
  <2> QED BY <2>1, <2>2, <2>4
<1>5. rvUnchanged /\ persist(c.to)
  BY DEF requestVoteStale, requestVoteRefuse, requestVoteGrant
<1>6. raftState' \in [Server -> RaftState]
  BY <1>1, <1>2, <1>5, PersistType DEF rvUnchanged
<1> QED BY <1>2, <1>3, <1>4, <1>5, <1>6
        DEF LogInv, TypeOK, rvUnchanged, logVars, indexVars, leaderVars

LEMMA sendRequestVoteType ==
    ASSUME LogInv, NEW c \in rvCalls,
           \/ sendRequestVoteHigherTerm(c) \/ sendRequestVoteCount(c)
           \/ sendRequestVoteWin(c) \/ sendRequestVoteEnd(c)
    PROVE  TypeOK'
<1>1. c.from \in Server /\ c.to \in Server /\ c.term \in Term /\ c.rterm \in Term
  BY rvFields
<1>2. rvCalls' \subseteq RVCall
  <2>1. rvCalls' = rvCalls \ {c}
    BY DEF sendRequestVoteHigherTerm, sendRequestVoteCount,
           sendRequestVoteWin, sendRequestVoteEnd
  <2> QED BY <2>1 DEF LogInv, TypeOK
<1>3. voteNum \in [Server -> [Term -> Nat]] /\ voteNum[c.from][c.term] \in Nat
  BY <1>1 DEF LogInv, TypeOK
<1>4. CASE sendRequestVoteHigherTerm(c)
  <2>1. /\ currentTerm' \in [Server -> Term]
        /\ votedFor' \in [Server -> Server \cup {NoVote}]
        /\ status' \in [Server -> {"Follower", "Candidate", "Leader"}]
    BY <1>1, <1>4 DEF LogInv, TypeOK, sendRequestVoteHigherTerm, BecomeFollower
  <2>2. raftState' \in [Server -> RaftState]
    BY <1>1, <1>4, <2>1, PersistType DEF sendRequestVoteHigherTerm, rvUnchanged
  <2> QED BY <1>2, <1>4, <2>1, <2>2
          DEF LogInv, TypeOK, sendRequestVoteHigherTerm, rvUnchanged, logVars,
              indexVars, leaderVars
<1>5. CASE sendRequestVoteCount(c)
  <2>1. voteNum' \in [Server -> [Term -> Nat]]
    <3>1. voteNum[c.from][c.term] + 1 \in Nat
      BY <1>3
    <3> QED BY <1>1, <1>3, <1>5, <3>1, Cell DEF sendRequestVoteCount
  <2> QED BY <1>2, <1>5, <2>1
          DEF LogInv, TypeOK, sendRequestVoteCount, termVars, logVars, indexVars,
              leaderVars, diskVars, histVars
<1>6. CASE sendRequestVoteWin(c)
  <2>1. voteNum' \in [Server -> [Term -> Nat]]
    BY <1>1, <1>3, <1>6, Cell DEF sendRequestVoteWin
  <2>2. status' \in [Server -> {"Follower", "Candidate", "Leader"}]
    BY <1>1, <1>6 DEF LogInv, TypeOK, sendRequestVoteWin
  <2>3. /\ nextIndex' \in [Server -> [Server -> Nat]]
        /\ matchIndex' \in [Server -> [Server -> Nat]]
    <3>1. getLastLogIndex(c.from) + 1 \in Nat
      BY <1>1, LastIndex
    <3>2. /\ nextIndex \in [Server -> [Server -> Nat]]
          /\ matchIndex \in [Server -> [Server -> Nat]]
      BY DEF LogInv, TypeOK
    <3> QED BY <1>1, <1>6, <3>1, <3>2 DEF sendRequestVoteWin
  <2>4. leaders' \in [Term -> SUBSET Server]
    BY <1>1, <1>6 DEF LogInv, TypeOK, sendRequestVoteWin
  <2> QED BY <1>2, <1>6, <2>1, <2>2, <2>3, <2>4
          DEF LogInv, TypeOK, sendRequestVoteWin, logVars, indexVars, diskVars
<1>7. CASE sendRequestVoteEnd(c)
  BY <1>2, <1>7
     DEF LogInv, TypeOK, sendRequestVoteEnd, termVars, logVars, indexVars,
         leaderVars, diskVars, histVars
<1> QED BY <1>4, <1>5, <1>6, <1>7

LEMMA ElectionStep ==
    ASSUME LogInv, RequestVoteNext \/ \E i \in Server : doElection(i)
    PROVE  LogInv'
<1>1. CASE \E i \in Server : doElection(i)
  <2>1. PICK i \in Server : doElection(i)
    BY <1>1
  <2>2. TypeOK' /\ UNCHANGED <<logVars, indexVars, aeCalls>> /\ persist(i)
    BY <2>1, doElectionType DEF doElection
  <2> QED BY <2>2, LogUntouched DEF CallsKept, LogInv, CallsWithinLog
<1>2. CASE RequestVoteNext
  <2>1. PICK c \in rvCalls :
          \/ requestVoteStale(c) \/ requestVoteRefuse(c) \/ requestVoteGrant(c)
          \/ sendRequestVoteHigherTerm(c) \/ sendRequestVoteCount(c)
          \/ sendRequestVoteWin(c) \/ sendRequestVoteEnd(c)
    BY <1>2 DEF RequestVoteNext
  <2>2. TypeOK'
    BY <2>1, requestVoteType, sendRequestVoteType
  <2>3. /\ UNCHANGED <<logVars, indexVars, aeCalls>>
        /\ UNCHANGED raftState \/ \E i \in Server : persist(i)
    BY <2>1, rvFields
       DEF requestVoteStale, requestVoteRefuse, requestVoteGrant,
           sendRequestVoteHigherTerm, sendRequestVoteCount, sendRequestVoteWin,
           sendRequestVoteEnd, rvUnchanged, diskVars
  <2> QED BY <2>2, <2>3, LogUntouched DEF CallsKept, LogInv, CallsWithinLog
<1> QED BY <1>1, <1>2

-----------------------------------------------------------------------------
(* Log replication *)

LEMMA aeFields ==
    ASSUME LogInv, NEW c \in aeCalls
    PROVE  /\ c \in AECall /\ c.from \in Server /\ c.to \in Server
           /\ c.term \in Term /\ c.rterm \in Term
           /\ c.prevLogIndex \in Nat /\ c.leaderCommit \in Nat
           /\ c.entries \in Seq(Entry) /\ c.updateNextIndex \in Nat \cup {-100}
           /\ SentUpTo(c) \in Nat /\ Contiguous(c.entries, c.prevLogIndex)
<1>1. c \in AECall
  BY DEF LogInv, TypeOK
<1>2. Contiguous(c.entries, c.prevLogIndex)
  BY DEF LogInv, LogContiguous
<1> QED BY <1>1, <1>2 DEF AECall, SentUpTo

\* The actions that change the log or the indices of one server j.
LEMMA LogChanged ==
    ASSUME LogInv, TypeOK', CallsKept, NEW j \in Server,
           persist(j) \/ UNCHANGED raftState,
           \A i \in Server \ {j} :
               /\ logs'[i] = logs[i] /\ commitIndex'[i] = commitIndex[i]
               /\ lastSnapshotIncludeIndex'[i] = lastSnapshotIncludeIndex[i]
               /\ lastApplied'[i] = lastApplied[i],
           Contiguous(logs'[j], lastSnapshotIncludeIndex'[j]),
           \/ getLastLogIndex(j)' >= getLastLogIndex(j)
           \/ \A c \in aeCalls' : c.live => c.from # j,
           commitIndex'[j] <= getLastLogIndex(j)',
           lastSnapshotIncludeIndex'[j] <= lastApplied'[j],
           lastApplied'[j] <= max(commitIndex'[j], lastSnapshotIncludeIndex'[j])
    PROVE  LogInv'
<1>1. \A i \in Server : Contiguous(raftState'[i].logs,
                                   raftState'[i].lastSnapshotIncludeIndex)
  <2>1. CASE UNCHANGED raftState
    BY <2>1 DEF LogInv, LogContiguous
  <2>2. CASE persist(j)
    <3>1. /\ raftState \in [Server -> RaftState]
          /\ currentTerm'[j] \in Term /\ votedFor'[j] \in Server \cup {NoVote}
          /\ lastSnapshotIncludeIndex'[j] \in Nat
          /\ lastSnapshotIncludeTerm'[j] \in Term /\ logs'[j] \in Seq(Entry)
      BY DEF LogInv, TypeOK
    <3>2. /\ raftState'[j].logs = logs'[j]
          /\ raftState'[j].lastSnapshotIncludeIndex = lastSnapshotIncludeIndex'[j]
          /\ \A k \in Server \ {j} : raftState'[k] = raftState[k]
      BY <2>2, <3>1, Persisted
    <3> QED BY <3>2 DEF LogInv, LogContiguous
  <2> QED BY <2>1, <2>2
<1>2. \A i \in Server : Contiguous(logs'[i], lastSnapshotIncludeIndex'[i])
  BY DEF LogInv, LogContiguous
<1>3. \A c \in aeCalls' : Contiguous(c.entries, c.prevLogIndex)
  BY DEF LogInv, LogContiguous, CallsKept
<1>4. LogContiguous'
  BY <1>1, <1>2, <1>3 DEF LogContiguous
<1>5. \A i \in Server \ {j} : getLastLogIndex(i)' = getLastLogIndex(i)
  BY DEF getLastLogIndex
<1>6. CommitWithinLog'
  BY <1>5 DEF LogInv, CommitWithinLog
<1>7. CallsWithinLog'
  <2> SUFFICES ASSUME NEW c \in aeCalls', c.live
               PROVE  SentUpTo(c) <= getLastLogIndex(c.from)'
    BY DEF CallsWithinLog, SentUpTo, CallsKept
  <2>1. PICK d \in aeCalls :
          /\ c.prevLogIndex = d.prevLogIndex /\ c.entries = d.entries
          /\ c.from = d.from /\ d.live
    BY DEF CallsKept
  <2>2. SentUpTo(c) = SentUpTo(d) /\ SentUpTo(d) \in Nat /\ c.from \in Server
    BY <2>1, aeFields DEF SentUpTo
  <2>3. SentUpTo(c) <= getLastLogIndex(c.from)
    BY <2>1, <2>2 DEF LogInv, CallsWithinLog
  <2>4. c.from # j => getLastLogIndex(c.from)' = getLastLogIndex(c.from)
    BY <1>5, <2>2
  <2>5. getLastLogIndex(c.from) \in Nat
    BY <2>2, LastIndex
  <2>6. getLastLogIndex(c.from)' \in Nat
    <3>1. /\ logs'[c.from] \in Seq(Entry)
          /\ lastSnapshotIncludeIndex'[c.from] \in Nat
          /\ Contiguous(logs'[c.from], lastSnapshotIncludeIndex'[c.from])
      BY <1>2, <2>2 DEF TypeOK
    <3> QED BY <3>1, LastOfContiguous DEF getLastLogIndex
  <2> QED BY <2>2, <2>3, <2>4, <2>5, <2>6
<1> QED BY <1>4, <1>6, <1>7 DEF LogInv

LEMMA aeReplyType ==
    ASSUME LogInv, NEW c \in aeCalls, NEW t \in Term, NEW success \in BOOLEAN,
           NEW update \in Nat \cup {-100}, aeCalls' = aeReply(c, t, success, update)
    PROVE  aeCalls' \subseteq AECall /\ CallsKept
<1> DEFINE r == [c EXCEPT !.phase = "reply", !.rterm = t, !.success = success,
                          !.updateNextIndex = update]
<1>1. c \in AECall
  BY aeFields
<1>2. /\ r \in AECall /\ r.prevLogIndex = c.prevLogIndex /\ r.from = c.from
      /\ r.entries = c.entries /\ r.live = c.live
  BY <1>1, ZenonT(60) DEF AECall
<1>3. aeCalls' \subseteq aeCalls \cup {a \in {r} : c.live}
  BY DEF aeReply, Answered
<1> HIDE DEF r
<1>4. aeCalls \subseteq AECall
  BY DEF LogInv, TypeOK
<1> QED BY <1>2, <1>3, <1>4 DEF CallsKept, LogInv, CallsWithinLog

LEMMA startStep ==
    ASSUME LogInv, NEW i \in Server, NEW command \in Command, start(i, command)
    PROVE  LogInv'
<1> DEFINE e == [index |-> getNewCommandIndex(i), term |-> currentTerm[i],
                 command |-> command]
<1>1. /\ logs[i] \in Seq(Entry) /\ lastSnapshotIncludeIndex[i] \in Nat
      /\ Contiguous(logs[i], lastSnapshotIncludeIndex[i])
      /\ getLastLogIndex(i) = lastSnapshotIncludeIndex[i] + Len(logs[i])
  BY ServerTypes, LastIndex
<1>2. e \in Entry /\ e.index = lastSnapshotIncludeIndex[i] + Len(logs[i]) + 1
  BY <1>1, ServerTypes DEF getNewCommandIndex, Entry
<1> HIDE DEF e
<1>3. /\ logs' = [logs EXCEPT ![i] = Append(@, e)]
      /\ UNCHANGED <<termVars, lastSnapshotIncludeIndex, lastSnapshotIncludeTerm,
                     indexVars, leaderVars, voteNum, snapshotFile, callVars,
                     histVars>>
      /\ persist(i)
  BY DEF start, e
<1>4. /\ logs'[i] \in Seq(Entry) /\ Len(logs'[i]) = Len(logs[i]) + 1
      /\ Contiguous(logs'[i], lastSnapshotIncludeIndex'[i])
  <2>1. logs'[i] = Append(logs[i], e)
    BY <1>3 DEF LogInv, TypeOK
  <2>2. /\ logs'[i] \in Seq(Entry) /\ Len(logs'[i]) = Len(logs[i]) + 1
        /\ \A k \in 1 .. Len(logs[i]) : logs'[i][k] = logs[i][k]
        /\ logs'[i][Len(logs[i]) + 1] = e
    BY <1>1, <1>2, <2>1, AppendProperties
  <2>3. Contiguous(logs'[i], lastSnapshotIncludeIndex[i])
    <3> SUFFICES ASSUME NEW k \in 1 .. Len(logs[i]) + 1
                 PROVE  logs'[i][k].index = lastSnapshotIncludeIndex[i] + k
      BY <2>2 DEF Contiguous
    <3>1. CASE k = Len(logs[i]) + 1
      <4>1. logs'[i][k].index = e.index
        BY <2>2, <3>1
      <4> QED BY <1>1, <1>2, <3>1, <4>1
    <3>2. CASE k \in 1 .. Len(logs[i])
      BY <1>1, <2>2, <3>2 DEF Contiguous
    <3> QED BY <1>1, <3>1, <3>2
  <2> QED BY <1>3, <2>2, <2>3
<1>5. logs' \in [Server -> Seq(Entry)]
  BY <1>3, <1>4 DEF LogInv, TypeOK
<1>6. raftState' \in [Server -> RaftState]
  <2>1. /\ raftState \in [Server -> RaftState]
        /\ currentTerm'[i] \in Term /\ votedFor'[i] \in Server \cup {NoVote}
        /\ lastSnapshotIncludeIndex'[i] \in Nat
        /\ lastSnapshotIncludeTerm'[i] \in Term
    BY <1>3 DEF LogInv, TypeOK, termVars
  <2> QED BY <1>3, <1>4, <2>1, Persisted
<1>7. TypeOK'
  BY <1>3, <1>5, <1>6
     DEF LogInv, TypeOK, termVars, indexVars, leaderVars, callVars, histVars
<1>8. CallsKept
  BY <1>3 DEF CallsKept, callVars, LogInv, CallsWithinLog
<1>9. /\ \A k \in Server \ {i} : logs'[k] = logs[k]
      /\ commitIndex' = commitIndex /\ lastApplied' = lastApplied
      /\ lastSnapshotIncludeIndex' = lastSnapshotIncludeIndex
  BY <1>3 DEF LogInv, TypeOK, indexVars
<1>10. getLastLogIndex(i)' = getLastLogIndex(i) + 1 /\ getLastLogIndex(i) \in Nat
  <2>1. getLastLogIndex(i)' = lastSnapshotIncludeIndex[i] + Len(logs'[i])
    BY <1>1, <1>3, <1>4, LastOfContiguous DEF getLastLogIndex
  <2>2. Len(logs[i]) \in Nat /\ Len(logs'[i]) = Len(logs[i]) + 1
    BY <1>1, <1>4
  <2>3. getLastLogIndex(i)' = lastSnapshotIncludeIndex[i] + (Len(logs[i]) + 1)
    BY <2>1, <2>2, Zenon
  <2> HIDE DEF getLastLogIndex
  <2> QED BY <1>1, <2>2, <2>3, SMTT(60)
<1>11. /\ commitIndex'[i] <= getLastLogIndex(i)'
       /\ lastSnapshotIncludeIndex'[i] <= lastApplied'[i]
       /\ lastApplied'[i] <= max(commitIndex'[i], lastSnapshotIncludeIndex'[i])
  <2>1. /\ commitIndex[i] <= getLastLogIndex(i)
        /\ lastSnapshotIncludeIndex[i] <= lastApplied[i]
        /\ lastApplied[i] <= max(commitIndex[i], lastSnapshotIncludeIndex[i])
        /\ commitIndex[i] \in Nat
    BY ServerTypes DEF LogInv, CommitWithinLog
  <2> QED BY <1>9, <1>10, <2>1
<1>12. getLastLogIndex(i)' >= getLastLogIndex(i)
  BY <1>10
<1> QED BY <1>3, <1>4, <1>7, <1>8, <1>9, <1>11, <1>12, LogChanged

LEMMA applierTickerStep ==
    ASSUME LogInv, NEW i \in Server, applierTicker(i)
    PROVE  LogInv'
<1>1. /\ lastApplied' = [lastApplied EXCEPT ![i] = commitIndex[i]]
      /\ lastApplied[i] < commitIndex[i]
      /\ UNCHANGED <<termVars, logVars, commitIndex, leaderVars, voteNum, diskVars,
                     callVars, histVars>>
  BY DEF applierTicker
<1>2. TypeOK'
  <2>1. lastApplied' \in [Server -> Nat]
    BY <1>1 DEF LogInv, TypeOK
  <2> QED BY <1>1, <2>1 DEF LogInv, TypeOK, termVars, logVars, leaderVars,
                            diskVars, callVars, histVars
<1>3. /\ logs' = logs /\ commitIndex' = commitIndex
      /\ lastSnapshotIncludeIndex' = lastSnapshotIncludeIndex
      /\ raftState' = raftState /\ aeCalls' = aeCalls
      /\ lastApplied'[i] = commitIndex[i]
      /\ \A k \in Server \ {i} : lastApplied'[k] = lastApplied[k]
  BY <1>1 DEF LogInv, TypeOK, logVars, diskVars, callVars
<1>4. /\ commitIndex[i] <= getLastLogIndex(i)
      /\ lastSnapshotIncludeIndex[i] <= lastApplied[i]
      /\ commitIndex[i] \in Nat /\ lastSnapshotIncludeIndex[i] \in Nat
      /\ lastApplied[i] \in Nat
      /\ Contiguous(logs[i], lastSnapshotIncludeIndex[i])
      /\ getLastLogIndex(i) \in Nat
  BY ServerTypes, LastIndex DEF LogInv, CommitWithinLog
<1>5. getLastLogIndex(i)' = getLastLogIndex(i)
  BY <1>3 DEF getLastLogIndex
<1>6. /\ commitIndex'[i] <= getLastLogIndex(i)'
      /\ lastSnapshotIncludeIndex'[i] <= lastApplied'[i]
      /\ lastApplied'[i] <= max(commitIndex'[i], lastSnapshotIncludeIndex'[i])
      /\ getLastLogIndex(i)' >= getLastLogIndex(i)
  BY <1>1, <1>3, <1>4, <1>5 DEF max
<1>7. CallsKept
  BY <1>3 DEF CallsKept, LogInv, CallsWithinLog
<1> QED BY <1>2, <1>3, <1>4, <1>6, <1>7, LogChanged

LEMMA FollowLeaderType ==
    ASSUME LogInv, NEW j \in Server, NEW t \in Term, FollowLeader(j, t)
    PROVE  /\ currentTerm' \in [Server -> Term]
           /\ votedFor' \in [Server -> Server \cup {NoVote}]
           /\ status' \in [Server -> {"Follower", "Candidate", "Leader"}]
<1>1. /\ currentTerm \in [Server -> Term]
      /\ votedFor \in [Server -> Server \cup {NoVote}]
      /\ status \in [Server -> {"Follower", "Candidate", "Leader"}]
      /\ AdoptedVote(j, t) \in Server \cup {NoVote}
  BY DEF LogInv, TypeOK, AdoptedVote
<1> QED BY <1>1 DEF FollowLeader

LEMMA BecomeFollowerType ==
    ASSUME LogInv, NEW i \in Server, NEW t \in Term, BecomeFollower(i, t)
    PROVE  /\ currentTerm' \in [Server -> Term]
           /\ votedFor' \in [Server -> Server \cup {NoVote}]
           /\ status' \in [Server -> {"Follower", "Candidate", "Leader"}]
BY DEF LogInv, TypeOK, BecomeFollower

LEMMA appendEntriesStaleStep ==
    ASSUME LogInv, NEW c \in aeCalls, appendEntriesStale(c)
    PROVE  LogInv'
<1>1. /\ aeCalls' = aeReply(c, currentTerm[c.to], FALSE, -100)
      /\ UNCHANGED <<termVars, logVars, indexVars, leaderVars, voteNum, diskVars,
                     rvCalls, isCalls, histVars>>
  BY DEF appendEntriesStale
<1>2. currentTerm[c.to] \in Term
  BY aeFields DEF LogInv, TypeOK
<1>3. aeCalls' \subseteq AECall /\ CallsKept
  BY <1>1, <1>2, aeReplyType
<1>4. TypeOK'
  BY <1>1, <1>3 DEF LogInv, TypeOK, termVars, logVars, indexVars, leaderVars,
                    diskVars, histVars
<1> QED BY <1>1, <1>3, <1>4, LogUntouched DEF diskVars

LEMMA ConflictType ==
    ASSUME LogInv, NEW j \in Server, NEW prev \in Nat
    PROVE  conflictNextIndex(j, prev) \in Nat
<1> DEFINE term(k) == getLogTermFromLogIndex(j, k)
           runStart == {k \in lastSnapshotIncludeIndex[j] + 1 .. prev :
                          /\ term(k - 1) # term(prev)
                          /\ \A m \in k .. prev : term(m) = term(prev)}
<1>1. runStart \subseteq Nat
  BY ServerTypes
<1>2. conflictNextIndex(j, prev) = IF runStart = {} THEN prev
                                  ELSE CHOOSE k \in runStart : TRUE
  BY DEF conflictNextIndex
<1> HIDE DEF runStart
<1> QED BY <1>1, <1>2

LEMMA appendEntriesRejectStep ==
    ASSUME LogInv, NEW c \in aeCalls, appendEntriesReject(c)
    PROVE  LogInv'
<1>1. PICK update :
        /\ update \in Nat \cup {-100}
        /\ aeCalls' = aeReply(c, c.term, FALSE, update)
  <2>1. /\ getLastLogIndex(c.to) + 1 \in Nat
        /\ lastSnapshotIncludeIndex[c.to] + 1 \in Nat
        /\ conflictNextIndex(c.to, c.prevLogIndex) \in Nat
    <3>1. c.to \in Server /\ c.prevLogIndex \in Nat
      BY aeFields
    <3>2. getLastLogIndex(c.to) \in Nat
      BY <3>1, LastIndex
    <3>3. lastSnapshotIncludeIndex[c.to] \in Nat
      BY <3>1, ServerTypes
    <3>4. conflictNextIndex(c.to, c.prevLogIndex) \in Nat
      BY <3>1, ConflictType
    <3> QED BY <3>2, <3>3, <3>4
  <2> QED BY <2>1 DEF appendEntriesReject
<1>2. /\ FollowLeader(c.to, c.term)
      /\ UNCHANGED <<logVars, indexVars, leaderVars, voteNum, snapshotFile,
                     rvCalls, isCalls, histVars>>
      /\ persist(c.to)
  BY DEF appendEntriesReject
<1>3. aeCalls' \subseteq AECall /\ CallsKept
  BY <1>1, aeFields, aeReplyType
<1>4. /\ currentTerm' \in [Server -> Term]
      /\ votedFor' \in [Server -> Server \cup {NoVote}]
      /\ status' \in [Server -> {"Follower", "Candidate", "Leader"}]
  BY <1>2, aeFields, FollowLeaderType
<1>5. raftState' \in [Server -> RaftState]
  BY <1>2, <1>4, aeFields, PersistType
<1>6. TypeOK'
  BY <1>2, <1>3, <1>4, <1>5
     DEF LogInv, TypeOK, logVars, indexVars, leaderVars, histVars
<1> QED BY <1>2, <1>3, <1>6, aeFields, LogUntouched

LEMMA appendEntriesAcceptStep ==
    ASSUME LogInv, NEW c \in aeCalls, appendEntriesAccept(c)
    PROVE  LogInv'
<1> DEFINE j == c.to
           merged == mergedLog(j, c.prevLogIndex, c.entries)
           last == max(getLastLogIndex(j), SentUpTo(c))
<1>1. /\ FollowLeader(j, c.term)
      /\ logs' = [logs EXCEPT ![j] = merged]
      /\ commitIndex' = [commitIndex EXCEPT
                           ![j] = IF c.leaderCommit > @
                                  THEN min(c.leaderCommit, last) ELSE @]
      /\ aeCalls' = aeReply(c, c.term, TRUE, 0)
      /\ UNCHANGED <<lastSnapshotIncludeIndex, lastSnapshotIncludeTerm,
                     lastApplied, leaderVars, voteNum, snapshotFile, rvCalls,
                     isCalls, histVars>>
      /\ persist(j)
  BY DEF appendEntriesAccept
<1>2. /\ j \in Server /\ c.term \in Term /\ c.leaderCommit \in Nat
      /\ SentUpTo(c) = c.prevLogIndex + Len(c.entries) /\ SentUpTo(c) \in Nat
      /\ c.prevLogIndex \in lastSnapshotIncludeIndex[j] .. getLastLogIndex(j)
  BY aeFields DEF appendEntriesAccept, matchLog, SentUpTo
<1>3. /\ merged \in Seq(Entry) /\ Contiguous(merged, lastSnapshotIncludeIndex[j])
      /\ lastSnapshotIncludeIndex[j] + Len(merged) = last
  BY <1>2, aeFields, MergedLog
<1>4. /\ getLastLogIndex(j) \in Nat /\ last \in Nat /\ last >= getLastLogIndex(j)
      /\ commitIndex[j] \in Nat /\ commitIndex[j] <= getLastLogIndex(j)
      /\ lastSnapshotIncludeIndex[j] <= lastApplied[j]
      /\ lastApplied[j] <= max(commitIndex[j], lastSnapshotIncludeIndex[j])
      /\ lastApplied[j] \in Nat /\ lastSnapshotIncludeIndex[j] \in Nat
  BY <1>2, LastIndex, ServerTypes DEF max, LogInv, CommitWithinLog
<1> HIDE DEF j, merged, last
<1>5. /\ logs' \in [Server -> Seq(Entry)] /\ logs'[j] = merged
      /\ \A k \in Server \ {j} : logs'[k] = logs[k]
  BY <1>1, <1>2, <1>3 DEF LogInv, TypeOK
<1>6. /\ commitIndex' \in [Server -> Nat]
      /\ commitIndex'[j] <= last /\ commitIndex'[j] >= commitIndex[j]
      /\ \A k \in Server \ {j} : commitIndex'[k] = commitIndex[k]
  <2>1. commitIndex \in [Server -> Nat]
    BY DEF LogInv, TypeOK
  <2> DEFINE v == IF c.leaderCommit > commitIndex[j]
                  THEN min(c.leaderCommit, last) ELSE commitIndex[j]
  <2>2. commitIndex' = [commitIndex EXCEPT ![j] = v]
    BY <1>1
  <2>3. v \in Nat /\ v <= last /\ v >= commitIndex[j]
    BY <1>2, <1>4 DEF min
  <2> HIDE DEF v
  <2> QED BY <1>2, <2>1, <2>2, <2>3
<1>7. getLastLogIndex(j)' = last
  <2>1. getLastLogIndex(j)' = lastSnapshotIncludeIndex[j] + Len(merged)
    BY <1>1, <1>3, <1>4, <1>5, LastOfContiguous DEF getLastLogIndex
  <2> QED BY <1>3, <2>1
<1>8. /\ currentTerm' \in [Server -> Term]
      /\ votedFor' \in [Server -> Server \cup {NoVote}]
      /\ status' \in [Server -> {"Follower", "Candidate", "Leader"}]
  BY <1>1, <1>2, FollowLeaderType
<1>9. raftState' \in [Server -> RaftState]
  <2>1. /\ raftState \in [Server -> RaftState]
        /\ lastSnapshotIncludeIndex'[j] \in Nat
        /\ lastSnapshotIncludeTerm'[j] \in Term
    BY <1>1, <1>2 DEF LogInv, TypeOK
  <2> QED BY <1>1, <1>2, <1>3, <1>5, <1>8, <2>1, Persisted
<1>10. aeCalls' \subseteq AECall /\ CallsKept
  BY <1>1, <1>2, aeReplyType
<1>11. TypeOK'
  BY <1>1, <1>5, <1>6, <1>8, <1>9, <1>10
     DEF LogInv, TypeOK, leaderVars, histVars
<1>12. /\ lastSnapshotIncludeIndex'[j] <= lastApplied'[j]
       /\ lastApplied'[j] <= max(commitIndex'[j], lastSnapshotIncludeIndex'[j])
       /\ commitIndex'[j] <= getLastLogIndex(j)'
       /\ getLastLogIndex(j)' >= getLastLogIndex(j)
       /\ Contiguous(logs'[j], lastSnapshotIncludeIndex'[j])
  <2>1. commitIndex'[j] \in Nat
    BY <1>2, <1>6
  <2> QED BY <1>1, <1>3, <1>4, <1>5, <1>6, <1>7, <2>1 DEF max
<1> QED BY <1>1, <1>2, <1>5, <1>6, <1>10, <1>11, <1>12, LogChanged

LEMMA sendAppendEntriesStep ==
    ASSUME LogInv, NEW c \in aeCalls,
           \/ sendAppendEntriesHigherTerm(c) \/ sendAppendEntriesBacktrack(c)
           \/ sendAppendEntriesEnd(c)
    PROVE  LogInv'
<1>1. aeCalls' \subseteq AECall /\ CallsKept
  <2>1. aeCalls' = aeCalls \ {c}
    BY DEF sendAppendEntriesHigherTerm, sendAppendEntriesBacktrack,
           sendAppendEntriesEnd
  <2> QED BY <2>1 DEF CallsKept, LogInv, TypeOK, CallsWithinLog
<1>2. UNCHANGED <<logVars, indexVars, raftState>>
  BY DEF sendAppendEntriesHigherTerm, sendAppendEntriesBacktrack,
         sendAppendEntriesEnd, diskVars
<1>3. TypeOK'
  <2>1. CASE sendAppendEntriesHigherTerm(c)
    <3>1. /\ currentTerm' \in [Server -> Term]
          /\ votedFor' \in [Server -> Server \cup {NoVote}]
          /\ status' \in [Server -> {"Follower", "Candidate", "Leader"}]
      BY <2>1, aeFields, BecomeFollowerType DEF sendAppendEntriesHigherTerm
    <3> QED BY <1>1, <2>1, <3>1
            DEF LogInv, TypeOK, sendAppendEntriesHigherTerm, logVars, indexVars,
                leaderVars, diskVars, histVars
  <2>2. CASE sendAppendEntriesBacktrack(c)
    <3>1. /\ nextIndex \in [Server -> [Server -> Nat]]
          /\ c.from \in Server /\ c.to \in Server /\ c.updateNextIndex \in Nat
      BY <2>2, aeFields DEF LogInv, TypeOK, sendAppendEntriesBacktrack
    <3>2. nextIndex' \in [Server -> [Server -> Nat]]
      BY <2>2, <3>1, Cell DEF sendAppendEntriesBacktrack
    <3> QED BY <1>1, <2>2, <3>2
            DEF LogInv, TypeOK, sendAppendEntriesBacktrack, termVars, logVars,
                indexVars, diskVars, histVars
  <2>3. CASE sendAppendEntriesEnd(c)
    BY <1>1, <2>3 DEF LogInv, TypeOK, sendAppendEntriesEnd, termVars, logVars,
                      indexVars, leaderVars, diskVars, histVars
  <2> QED BY <2>1, <2>2, <2>3
<1> QED BY <1>1, <1>2, <1>3, LogUntouched

\* A counter of a round that does not exist is not there to be updated.
LEMMA RoundCell ==
    ASSUME NEW f \in [Server -> Seq(Nat)], NEW a \in Server, NEW r \in Nat,
           NEW v, r \in DOMAIN f[a] => v \in Nat
    PROVE  [f EXCEPT ![a][r] = v] \in [Server -> Seq(Nat)]
<1> DEFINE g == [f[a] EXCEPT ![r] = v]
<1>1. f[a] \in Seq(Nat)
  OBVIOUS
<1>2. g \in Seq(Nat)
  <2>1. CASE r \in DOMAIN f[a]
    <3>1. v \in Nat /\ r \in 1 .. Len(f[a])
      BY <1>1, <2>1
    <3> QED BY <1>1, <3>1, ExceptSeq
  <2>2. CASE r \notin DOMAIN f[a]
    <3>1. PICK n \in Nat : f[a] \in [1 .. n -> Nat]
      BY <1>1
    <3>2. g = f[a]
      BY <2>2, <3>1
    <3> QED BY <1>1, <3>2
  <2> QED BY <2>1, <2>2
<1> QED BY <1>2

LEMMA sendAppendEntriesSuccessStep ==
    ASSUME LogInv, NEW c \in aeCalls, sendAppendEntriesSuccess(c)
    PROVE  LogInv'
<1> DEFINE i == c.from
           match == max(matchIndex[i][c.to], SentUpTo(c))
<1>1. /\ i \in Server /\ c.to \in Server /\ c.round \in Nat
      /\ SentUpTo(c) \in Nat /\ SentUpTo(c) <= getLastLogIndex(i)
  BY aeFields DEF AECall, LogInv, CallsWithinLog, sendAppendEntriesSuccess,
                  ReplyToLeader
<1>2. /\ matchIndex' = [matchIndex EXCEPT ![i][c.to] = match]
      /\ nextIndex' = [nextIndex EXCEPT ![i][c.to] = match + 1]
      /\ appendNums' = [appendNums EXCEPT
                          ![i][c.round] = IF RoundComplete(c) THEN 0 ELSE @ + 1]
      /\ commitIndex' = [commitIndex EXCEPT ![i] = commitIndexAfter(c)]
      /\ aeCalls' = aeCalls \ {c}
      /\ UNCHANGED <<termVars, logVars, lastApplied, voteNum, diskVars, rvCalls,
                     isCalls, histVars>>
  BY DEF sendAppendEntriesSuccess
<1>3. match \in Nat
  <2>1. matchIndex[i][c.to] \in Nat
    BY <1>1 DEF LogInv, TypeOK
  <2> QED BY <1>1, <2>1 DEF max
<1> HIDE DEF match
<1>4. /\ matchIndex' \in [Server -> [Server -> Nat]]
      /\ nextIndex' \in [Server -> [Server -> Nat]]
  <2>1. /\ matchIndex \in [Server -> [Server -> Nat]]
        /\ nextIndex \in [Server -> [Server -> Nat]]
        /\ match + 1 \in Nat
    BY <1>3 DEF LogInv, TypeOK
  <2> QED BY <1>1, <1>2, <1>3, <2>1, Cell
<1>5. appendNums' \in [Server -> Seq(Nat)]
  <2> DEFINE v == IF RoundComplete(c) THEN 0 ELSE appendNums[i][c.round] + 1
  <2>1. appendNums \in [Server -> Seq(Nat)]
    BY DEF LogInv, TypeOK
  <2>2. appendNums' = [appendNums EXCEPT ![i][c.round] = v]
    BY <1>2
  <2>3. c.round \in DOMAIN appendNums[i] => v \in Nat
    BY <1>1, <2>1
  <2> HIDE DEF v
  <2> QED BY <1>1, <2>1, <2>2, <2>3, RoundCell
<1>6. /\ commitIndexAfter(c) \in Nat
      /\ commitIndexAfter(c) >= commitIndex[i]
      /\ commitIndexAfter(c) <= getLastLogIndex(i)
  <2>1. /\ commitIndex[i] \in Nat /\ commitIndex[i] <= getLastLogIndex(i)
        /\ getLastLogIndex(i) \in Nat
    BY <1>1, ServerTypes, LastIndex DEF LogInv, CommitWithinLog
  <2> QED BY <1>1, <2>1 DEF commitIndexAfter, max
<1>7. /\ commitIndex' \in [Server -> Nat] /\ commitIndex'[i] = commitIndexAfter(c)
      /\ \A k \in Server \ {i} : commitIndex'[k] = commitIndex[k]
  <2>1. commitIndex \in [Server -> Nat]
    BY DEF LogInv, TypeOK
  <2> QED BY <1>1, <1>2, <1>6, <2>1
<1>8. aeCalls' \subseteq AECall /\ CallsKept
  BY <1>2 DEF CallsKept, LogInv, TypeOK, CallsWithinLog
<1>9. TypeOK'
  BY <1>2, <1>4, <1>5, <1>7, <1>8
     DEF LogInv, TypeOK, termVars, logVars, diskVars, histVars
<1>10. /\ logs' = logs /\ lastSnapshotIncludeIndex' = lastSnapshotIncludeIndex
       /\ lastApplied' = lastApplied /\ raftState' = raftState
       /\ getLastLogIndex(i)' = getLastLogIndex(i)
  BY <1>2 DEF logVars, diskVars, getLastLogIndex
<1>11. /\ Contiguous(logs'[i], lastSnapshotIncludeIndex'[i])
       /\ getLastLogIndex(i)' >= getLastLogIndex(i)
       /\ commitIndex'[i] <= getLastLogIndex(i)'
       /\ lastSnapshotIncludeIndex'[i] <= lastApplied'[i]
       /\ lastApplied'[i] <= max(commitIndex'[i], lastSnapshotIncludeIndex'[i])
  <2>1. /\ Contiguous(logs[i], lastSnapshotIncludeIndex[i])
        /\ getLastLogIndex(i) \in Nat
        /\ lastSnapshotIncludeIndex[i] <= lastApplied[i]
        /\ lastApplied[i] <= max(commitIndex[i], lastSnapshotIncludeIndex[i])
        /\ lastSnapshotIncludeIndex[i] \in Nat /\ commitIndex[i] \in Nat
        /\ lastApplied[i] \in Nat
    BY <1>1, ServerTypes, LastIndex DEF LogInv, CommitWithinLog
  <2> QED BY <1>6, <1>7, <1>10, <2>1 DEF max
<1> QED BY <1>1, <1>7, <1>8, <1>9, <1>10, <1>11, LogChanged

\* Index n - 1 lies at offset (n - 1) - a of a log of len entries after a.
LEMMA Offset ==
    ASSUME NEW a \in Nat, NEW len \in Nat, NEW n \in Nat, a < n, n <= a + len + 1
    PROVE  /\ n - 1 \in a .. a + len /\ n - 1 \in Nat
           /\ (n - 1) - a \in 0 .. len
           /\ a + ((n - 1) - a) = n - 1
           /\ (n - 1) + (len - ((n - 1) - a)) = a + len
OBVIOUS

\* A call the guard of doHeartBeat allows carries everything up to the end of
\* the log.
LEMMA aeRequestType ==
    ASSUME LogInv, NEW i \in Server, NEW j \in Server, NEW r \in Nat,
           nextIndex[i][j] \in 1 .. getLastLogIndex(i) + 1,
           nextIndex[i][j] > lastSnapshotIncludeIndex[i]
    PROVE  LET c == aeRequest(i, j, r) IN
           /\ c \in AECall /\ c.from = i /\ c.live /\ c.phase = "request"
           /\ Contiguous(c.entries, c.prevLogIndex)
           /\ SentUpTo(c) = getLastLogIndex(i)
<1> DEFINE prev == nextIndex[i][j] - 1
           off == prev - lastSnapshotIncludeIndex[i]
           entries == SubSeq(logs[i], off + 1, Len(logs[i]))
           c == aeRequest(i, j, r)
<1>1. /\ prev \in lastSnapshotIncludeIndex[i] .. getLastLogIndex(i)
      /\ prev \in Nat /\ off \in 0 .. Len(logs[i])
      /\ lastSnapshotIncludeIndex[i] + off = prev
      /\ prev + (Len(logs[i]) - off) = getLastLogIndex(i)
  <2>1. /\ lastSnapshotIncludeIndex[i] \in Nat /\ logs[i] \in Seq(Entry)
        /\ getLastLogIndex(i) = lastSnapshotIncludeIndex[i] + Len(logs[i])
        /\ Len(logs[i]) \in Nat
    BY ServerTypes, LastIndex
  <2>2. PICK n \in Nat, a \in Nat, len \in Nat :
          /\ n = nextIndex[i][j] /\ a = lastSnapshotIncludeIndex[i]
          /\ len = Len(logs[i]) /\ a < n /\ n <= a + len + 1
    BY <2>1
  <2>3. /\ n - 1 \in a .. a + len /\ n - 1 \in Nat
        /\ (n - 1) - a \in 0 .. len
        /\ a + ((n - 1) - a) = n - 1
        /\ (n - 1) + (len - ((n - 1) - a)) = a + len
    <3>1. a < n /\ n <= a + len + 1
      BY <2>2
    <3>2. \A x, y, z \in Nat : x < y /\ y <= x + z + 1 =>
            /\ y - 1 \in x .. x + z /\ y - 1 \in Nat
            /\ (y - 1) - x \in 0 .. z
            /\ x + ((y - 1) - x) = y - 1
            /\ (y - 1) + (z - ((y - 1) - x)) = x + z
      BY Offset
    <3> QED BY <3>1, <3>2 
  <2>4. prev = n - 1 /\ off = (n - 1) - a /\ getLastLogIndex(i) = a + len
    BY <2>1, <2>2
  <2> HIDE DEF prev, off
  <2> QED BY <2>2, <2>3, <2>4
<1>2. getLogTermFromLogIndex(i, prev) \in Term
  BY <1>1, TermAt
<1>3. /\ logs[i] \in Seq(Entry) /\ lastSnapshotIncludeIndex[i] \in Nat
      /\ Contiguous(logs[i], lastSnapshotIncludeIndex[i])
      /\ currentTerm[i] \in Term /\ commitIndex[i] \in Nat /\ 0 \in Term
  BY ServerTypes, BoundAssumption DEF Term
<1> HIDE DEF off
<1>4. /\ entries \in Seq(Entry) /\ Len(entries) = Len(logs[i]) - off
      /\ Contiguous(entries, lastSnapshotIncludeIndex[i] + off)
  BY <1>1, <1>3, Suffix, SuffixContiguous
<1>5. c = [from |-> i, to |-> j, live |-> TRUE, round |-> r, phase |-> "request",
           term |-> currentTerm[i], prevLogIndex |-> prev,
           prevLogTerm |-> getLogTermFromLogIndex(i, prev),
           entries |-> entries, leaderCommit |-> commitIndex[i],
           rterm |-> 0, success |-> FALSE, updateNextIndex |-> 0]
  BY DEF aeRequest, getSlicesIndexFromLogIndex, off
<1> HIDE DEF prev, entries, c
<1>6. c \in AECall
  BY <1>1, <1>2, <1>3, <1>4, <1>5 DEF AECall
<1>7. /\ c.from = i /\ c.live /\ c.phase = "request"
      /\ c.entries = entries /\ c.prevLogIndex = prev
  BY <1>5
<1>8. SentUpTo(c) = getLastLogIndex(i)
  BY <1>1, <1>4, <1>7 DEF SentUpTo
<1> QED BY <1>1, <1>4, <1>6, <1>7, <1>8 DEF c

LEMMA doHeartBeatStep ==
    ASSUME LogInv, NEW i \in Server, doHeartBeat(i)
    PROVE  LogInv'
<1> DEFINE r == Len(appendNums[i]) + 1
           peers == Server \ {i}
           behind == {j \in peers : nextIndex[i][j] <= lastSnapshotIncludeIndex[i]}
           new == {aeRequest(i, j, r) : j \in peers \ behind}
           spawned == {isSpawn(i, j, r) : j \in behind}
<1>1. /\ \A j \in peers : nextIndex[i][j] \in 1 .. getLastLogIndex(i) + 1
      /\ appendNums' = [appendNums EXCEPT ![i] = Append(@, 1)]
      /\ aeCalls' = aeCalls \cup new
      /\ isCalls' = isCalls \cup spawned
      /\ UNCHANGED <<termVars, logVars, indexVars, nextIndex, matchIndex, voteNum,
                     diskVars, rvCalls, histVars>>
  BY DEF doHeartBeat
<1>2. r \in Nat /\ appendNums' \in [Server -> Seq(Nat)]
  <2>1. appendNums \in [Server -> Seq(Nat)] /\ 1 \in Nat
    BY DEF LogInv, TypeOK
  <2>2. Append(appendNums[i], 1) \in Seq(Nat)
    BY <2>1, AppendProperties
  <2> QED BY <1>1, <2>1, <2>2
<1>3. ASSUME NEW c \in new
      PROVE  /\ c \in AECall /\ c.from = i /\ c.live /\ c.phase = "request"
             /\ Contiguous(c.entries, c.prevLogIndex)
             /\ SentUpTo(c) = getLastLogIndex(i)
  <2>1. PICK j \in peers \ behind : c = aeRequest(i, j, r)
    OBVIOUS
  <2>2. nextIndex[i][j] > lastSnapshotIncludeIndex[i]
    <3>1. nextIndex[i][j] \in Nat /\ lastSnapshotIncludeIndex[i] \in Nat
      BY DEF LogInv, TypeOK
    <3> QED BY <2>1, <3>1
  <2> HIDE DEF r
  <2> QED BY <1>1, <1>2, <2>1, <2>2, aeRequestType
<1>4. spawned \subseteq ISCall
  <2>1. 0 \in Term
    BY BoundAssumption DEF Term
  <2>2. \A j \in Server : isSpawn(i, j, r) \in ISCall
    BY <1>2, <2>1 DEF isSpawn, ISCall
  <2> QED BY <2>2
<1> HIDE DEF new, spawned, r
<1>5. TypeOK'
  <2>1. aeCalls' \subseteq AECall /\ isCalls' \subseteq ISCall
    BY <1>1, <1>3, <1>4 DEF LogInv, TypeOK
  <2> QED BY <1>1, <1>2, <2>1
          DEF LogInv, TypeOK, termVars, logVars, indexVars, diskVars, histVars
<1>6. /\ logs' = logs /\ lastSnapshotIncludeIndex' = lastSnapshotIncludeIndex
      /\ commitIndex' = commitIndex /\ lastApplied' = lastApplied
      /\ raftState' = raftState
      /\ \A k \in Server : getLastLogIndex(k)' = getLastLogIndex(k)
  BY <1>1 DEF logVars, indexVars, diskVars, getLastLogIndex
<1>7. LogContiguous' /\ CommitWithinLog'
  BY <1>1, <1>3, <1>6 DEF LogInv, LogContiguous, CommitWithinLog
<1>8. CallsWithinLog'
  <2> SUFFICES ASSUME NEW c \in aeCalls'
               PROVE  /\ c.live => SentUpTo(c) <= getLastLogIndex(c.from)'
                      /\ c.phase = "reply" => c.live
    BY DEF CallsWithinLog, SentUpTo
  <2>1. CASE c \in aeCalls
    BY <1>6, <2>1, aeFields DEF LogInv, CallsWithinLog
  <2>2. CASE c \in new
    BY <1>3, <1>6, <2>2, LastIndex
  <2> QED BY <1>1, <2>1, <2>2
<1> QED BY <1>5, <1>7, <1>8 DEF LogInv

LEMMA AppendEntriesStep ==
    ASSUME LogInv,
           AppendEntriesNext \/ \E i \in Server : doHeartBeat(i)
    PROVE  LogInv'
BY appendEntriesStaleStep, appendEntriesRejectStep, appendEntriesAcceptStep,
   sendAppendEntriesStep, sendAppendEntriesSuccessStep, doHeartBeatStep
   DEF AppendEntriesNext

-----------------------------------------------------------------------------
(* Snapshots *)

LEMMA isFields ==
    ASSUME LogInv, NEW c \in isCalls
    PROVE  /\ c \in ISCall /\ c.from \in Server /\ c.to \in Server
           /\ c.term \in Term /\ c.rterm \in Term /\ c.data \in Nat
           /\ c.lastIndex \in Nat /\ c.lastTerm \in Term
<1>1. c \in ISCall
  BY DEF LogInv, TypeOK
<1> QED BY <1>1 DEF ISCall

LEMMA isReplyType ==
    ASSUME LogInv, NEW c \in isCalls, NEW t \in Term,
           NEW phase \in {"unanswered", "reply"}
    PROVE  isReply(c, phase, t) \subseteq ISCall
<1>1. [c EXCEPT !.phase = phase, !.rterm = t] \in ISCall
  BY isFields DEF ISCall
<1> QED BY <1>1 DEF isReply, Answered, LogInv, TypeOK

LEMMA leaderSendSnapshotStep ==
    ASSUME LogInv, NEW c \in isCalls, leaderSendSnapshot(c)
    PROVE  LogInv'
<1> DEFINE i == c.from
           r == [c EXCEPT !.phase = "request", !.term = currentTerm[i],
                          !.lastIndex = lastSnapshotIncludeIndex[i],
                          !.lastTerm = lastSnapshotIncludeTerm[i],
                          !.data = snapshotFile[i]]
<1>1. /\ isCalls' = (isCalls \ {c}) \cup {r}
      /\ UNCHANGED <<termVars, logVars, indexVars, leaderVars, voteNum, diskVars,
                     rvCalls, aeCalls, histVars>>
  BY DEF leaderSendSnapshot
<1>2. r \in ISCall
  <2>1. /\ currentTerm[i] \in Term /\ lastSnapshotIncludeIndex[i] \in Nat
        /\ lastSnapshotIncludeTerm[i] \in Term /\ snapshotFile[i] \in Nat
    BY isFields DEF LogInv, TypeOK
  <2> QED BY <2>1, isFields DEF ISCall
<1> HIDE DEF r
<1>3. TypeOK'
  BY <1>1, <1>2 DEF LogInv, TypeOK, termVars, logVars, indexVars, leaderVars,
                    diskVars, histVars
<1>4. CallsKept
  BY <1>1 DEF CallsKept, LogInv, CallsWithinLog
<1> QED BY <1>1, <1>3, <1>4, LogUntouched DEF diskVars

LEMMA sendSnapshotStep ==
    ASSUME LogInv, NEW c \in isCalls,
           \/ sendSnapshotHigherTerm(c) \/ sendSnapshotSuccess(c)
           \/ sendSnapshotEnd(c)
    PROVE  LogInv'
<1>1. isCalls' \subseteq ISCall
  <2>1. isCalls' = isCalls \ {c}
    BY DEF sendSnapshotHigherTerm, sendSnapshotSuccess, sendSnapshotEnd
  <2> QED BY <2>1 DEF LogInv, TypeOK
<1>2. UNCHANGED <<logVars, indexVars, aeCalls>>
  BY DEF sendSnapshotHigherTerm, sendSnapshotSuccess, sendSnapshotEnd
<1>3. CASE sendSnapshotHigherTerm(c)
  <2>1. /\ currentTerm' \in [Server -> Term]
        /\ votedFor' \in [Server -> Server \cup {NoVote}]
        /\ status' \in [Server -> {"Follower", "Candidate", "Leader"}]
    BY <1>3, isFields, BecomeFollowerType DEF sendSnapshotHigherTerm
  <2>2. persist(c.from) /\ c.from \in Server
    BY <1>3, isFields DEF sendSnapshotHigherTerm
  <2>3. raftState' \in [Server -> RaftState]
    BY <1>2, <2>1, <2>2, PersistType
  <2>4. TypeOK'
    BY <1>1, <1>3, <2>1, <2>3
       DEF LogInv, TypeOK, sendSnapshotHigherTerm, logVars, indexVars, leaderVars,
           histVars
  <2> QED BY <1>2, <2>2, <2>4, LogUntouched DEF CallsKept, LogInv, CallsWithinLog
<1>4. CASE sendSnapshotSuccess(c)
  <2>1. /\ matchIndex' \in [Server -> [Server -> Nat]]
        /\ nextIndex' \in [Server -> [Server -> Nat]]
    <3>1. /\ matchIndex \in [Server -> [Server -> Nat]]
          /\ nextIndex \in [Server -> [Server -> Nat]]
          /\ c.from \in Server /\ c.to \in Server
          /\ c.lastIndex \in Nat /\ c.lastIndex + 1 \in Nat
      BY isFields, SMTT(60) DEF LogInv, TypeOK
    <3> QED BY <1>4, <3>1, Cell DEF sendSnapshotSuccess
  <2>2. TypeOK'
    BY <1>1, <1>4, <2>1
       DEF LogInv, TypeOK, sendSnapshotSuccess, termVars, logVars, indexVars,
           diskVars, histVars
  <2>3. UNCHANGED raftState
    BY <1>4 DEF sendSnapshotSuccess, diskVars
  <2> QED BY <1>2, <2>2, <2>3, LogUntouched DEF CallsKept, LogInv, CallsWithinLog
<1>5. CASE sendSnapshotEnd(c)
  <2>1. TypeOK'
    BY <1>1, <1>5 DEF LogInv, TypeOK, sendSnapshotEnd, termVars, logVars,
                      indexVars, leaderVars, diskVars, histVars
  <2>2. UNCHANGED raftState
    BY <1>5 DEF sendSnapshotEnd, diskVars
  <2> QED BY <1>2, <2>1, <2>2, LogUntouched DEF CallsKept, LogInv, CallsWithinLog
<1> QED BY <1>3, <1>4, <1>5

LEMMA installSnapshotStep ==
    ASSUME LogInv, NEW c \in isCalls,
           installSnapshotStale(c) \/ installSnapshotOld(c)
    PROVE  LogInv'
<1>1. CASE installSnapshotStale(c)
  <2>1. currentTerm[c.to] \in Term
    BY isFields DEF LogInv, TypeOK
  <2>2. isCalls' \subseteq ISCall
    BY <1>1, <2>1, isReplyType DEF installSnapshotStale
  <2>3. TypeOK'
    BY <1>1, <2>2 DEF LogInv, TypeOK, installSnapshotStale, termVars, logVars,
                      indexVars, leaderVars, diskVars, histVars
  <2>4. UNCHANGED <<logVars, indexVars, raftState, aeCalls>>
    BY <1>1 DEF installSnapshotStale, diskVars
  <2> QED BY <2>3, <2>4, LogUntouched DEF CallsKept, LogInv, CallsWithinLog
<1>2. CASE installSnapshotOld(c)
  <2>1. /\ UNCHANGED <<logVars, indexVars, leaderVars, voteNum, snapshotFile,
                       rvCalls, aeCalls, histVars>>
        /\ FollowLeader(c.to, c.term) /\ isCalls' = isReply(c, "unanswered", 0)
        /\ persist(c.to) \/ UNCHANGED raftState
    BY <1>2 DEF installSnapshotOld
  <2>2. /\ currentTerm' \in [Server -> Term]
        /\ votedFor' \in [Server -> Server \cup {NoVote}]
        /\ status' \in [Server -> {"Follower", "Candidate", "Leader"}]
    BY <2>1, isFields, FollowLeaderType
  <2>3. isCalls' \subseteq ISCall
    <3>1. 0 \in Term
      BY BoundAssumption DEF Term
    <3> QED BY <2>1, <3>1, isReplyType
  <2>4. raftState' \in [Server -> RaftState]
    <3>1. CASE persist(c.to)
      BY <2>1, <2>2, <3>1, isFields, PersistType
    <3>2. CASE UNCHANGED raftState
      BY <3>2 DEF LogInv, TypeOK
    <3> QED BY <2>1, <3>1, <3>2
  <2>5. TypeOK'
    BY <2>1, <2>2, <2>3, <2>4
       DEF LogInv, TypeOK, logVars, indexVars, leaderVars, histVars
  <2> QED BY <2>1, <2>5, isFields, LogUntouched DEF CallsKept, LogInv, CallsWithinLog
<1> QED BY <1>1, <1>2

\* Cutting the log of j at index, which becomes its snapshot.
Cut(j, index, term) ==
    /\ logs' = [logs EXCEPT ![j] = erasedLog(j, index)]
    /\ lastSnapshotIncludeIndex' = [lastSnapshotIncludeIndex EXCEPT ![j] = index]
    /\ lastSnapshotIncludeTerm' = [lastSnapshotIncludeTerm EXCEPT ![j] = term]

LEMMA CutType ==
    ASSUME LogInv, NEW j \in Server, NEW index \in Nat, NEW term \in Term,
           index > lastSnapshotIncludeIndex[j], Cut(j, index, term)
    PROVE  /\ logs' \in [Server -> Seq(Entry)]
           /\ lastSnapshotIncludeIndex' \in [Server -> Nat]
           /\ lastSnapshotIncludeTerm' \in [Server -> Term]
           /\ lastSnapshotIncludeIndex'[j] = index
           /\ \A k \in Server \ {j} :
                /\ logs'[k] = logs[k]
                /\ lastSnapshotIncludeIndex'[k] = lastSnapshotIncludeIndex[k]
           /\ Contiguous(logs'[j], lastSnapshotIncludeIndex'[j])
           /\ getLastLogIndex(j)' = max(getLastLogIndex(j), index)
           /\ getLastLogIndex(j)' \in Nat
           /\ getLastLogIndex(j)' >= getLastLogIndex(j)
           /\ getLastLogIndex(j)' >= index
<1>1. /\ erasedLog(j, index) \in Seq(Entry)
      /\ Contiguous(erasedLog(j, index), index)
      /\ index + Len(erasedLog(j, index)) = max(getLastLogIndex(j), index)
  BY ErasedLog
<1>2. /\ logs' \in [Server -> Seq(Entry)] /\ logs'[j] = erasedLog(j, index)
      /\ lastSnapshotIncludeIndex' \in [Server -> Nat]
      /\ lastSnapshotIncludeTerm' \in [Server -> Term]
      /\ lastSnapshotIncludeIndex'[j] = index
      /\ \A k \in Server \ {j} :
            /\ logs'[k] = logs[k]
            /\ lastSnapshotIncludeIndex'[k] = lastSnapshotIncludeIndex[k]
  BY <1>1 DEF Cut, LogInv, TypeOK
<1>3. getLastLogIndex(j)' = max(getLastLogIndex(j), index)
  <2>1. getLastLogIndex(j)' = index + Len(logs'[j])
    BY <1>1, <1>2, LastOfContiguous DEF getLastLogIndex
  <2> QED BY <1>1, <1>2, <2>1
<1>4. getLastLogIndex(j) \in Nat
  BY LastIndex
<1>5. /\ getLastLogIndex(j)' \in Nat /\ getLastLogIndex(j)' >= getLastLogIndex(j)
      /\ getLastLogIndex(j)' >= index
  BY <1>3, <1>4 DEF max
<1> QED BY <1>1, <1>2, <1>3, <1>5

\* Cut, the two indices raised to it, the whole persisted.
LEMMA CutStep ==
    ASSUME LogInv, NEW j \in Server, NEW index \in Nat, NEW term \in Term,
           NEW data \in Nat, index > lastSnapshotIncludeIndex[j],
           Cut(j, index, term),
           commitIndex' = [commitIndex EXCEPT ![j] = max(@, index)],
           lastApplied' = [lastApplied EXCEPT ![j] = max(@, index)],
           SaveWithSnapshot(j, data),
           UNCHANGED <<leaderVars, voteNum, rvCalls, aeCalls, histVars>>,
           isCalls' \subseteq ISCall,
           currentTerm' \in [Server -> Term],
           votedFor' \in [Server -> Server \cup {NoVote}],
           status' \in [Server -> {"Follower", "Candidate", "Leader"}]
    PROVE  LogInv'
<1>1. /\ commitIndex[j] \in Nat /\ lastApplied[j] \in Nat
      /\ commitIndex[j] <= getLastLogIndex(j)
      /\ lastApplied[j] <= max(commitIndex[j], lastSnapshotIncludeIndex[j])
      /\ lastSnapshotIncludeIndex[j] \in Nat /\ getLastLogIndex(j) \in Nat
  BY ServerTypes, LastIndex DEF LogInv, CommitWithinLog
<1>2. max(commitIndex[j], index) \in Nat /\ max(lastApplied[j], index) \in Nat
  BY <1>1 DEF max
<1>3. /\ commitIndex' \in [Server -> Nat] /\ lastApplied' \in [Server -> Nat]
      /\ commitIndex'[j] = max(commitIndex[j], index)
      /\ lastApplied'[j] = max(lastApplied[j], index)
      /\ \A k \in Server \ {j} : /\ commitIndex'[k] = commitIndex[k]
                                 /\ lastApplied'[k] = lastApplied[k]
  BY <1>2 DEF LogInv, TypeOK
<1>4. persist(j) /\ snapshotFile' \in [Server -> Nat]
  BY DEF SaveWithSnapshot, LogInv, TypeOK
<1>5. raftState' \in [Server -> RaftState]
  <2>1. /\ logs'[j] \in Seq(Entry) /\ lastSnapshotIncludeIndex'[j] \in Nat
        /\ lastSnapshotIncludeTerm'[j] \in Term
        /\ currentTerm'[j] \in Term /\ votedFor'[j] \in Server \cup {NoVote}
    BY CutType
  <2>2. raftState \in [Server -> RaftState]
    BY DEF LogInv, TypeOK
  <2> QED BY <1>4, <2>1, <2>2, Persisted
<1>6. TypeOK'
  BY <1>3, <1>4, <1>5, CutType DEF LogInv, TypeOK, leaderVars, histVars
<1>7. CallsKept
  BY DEF CallsKept, LogInv, CallsWithinLog
<1>8. /\ commitIndex'[j] <= getLastLogIndex(j)'
      /\ lastSnapshotIncludeIndex'[j] <= lastApplied'[j]
      /\ lastApplied'[j] <= max(commitIndex'[j], lastSnapshotIncludeIndex'[j])
  <2>1. /\ lastSnapshotIncludeIndex'[j] = index
        /\ getLastLogIndex(j)' = max(getLastLogIndex(j), index)
    BY CutType
  <2> QED BY <1>1, <1>3, <2>1 DEF max
<1>9. /\ Contiguous(logs'[j], lastSnapshotIncludeIndex'[j])
      /\ getLastLogIndex(j)' >= getLastLogIndex(j)
      /\ \A k \in Server \ {j} :
           /\ logs'[k] = logs[k]
           /\ lastSnapshotIncludeIndex'[k] = lastSnapshotIncludeIndex[k]
  BY CutType
<1> QED BY <1>3, <1>4, <1>6, <1>7, <1>8, <1>9, LogChanged

LEMMA installSnapshotApplyStep ==
    ASSUME LogInv, NEW c \in isCalls, installSnapshotApply(c)
    PROVE  LogInv'
<1>1. /\ c.to \in Server /\ c.lastIndex \in Nat /\ c.lastTerm \in Term
      /\ c.data \in Nat /\ c.term \in Term
  BY isFields
<1>2. /\ FollowLeader(c.to, c.term) /\ Cut(c.to, c.lastIndex, c.lastTerm)
      /\ c.lastIndex > lastSnapshotIncludeIndex[c.to]
      /\ commitIndex' = [commitIndex EXCEPT ![c.to] = max(@, c.lastIndex)]
      /\ lastApplied' = [lastApplied EXCEPT ![c.to] = max(@, c.lastIndex)]
      /\ isCalls' = isReply(c, "reply", c.term)
      /\ UNCHANGED <<leaderVars, voteNum, rvCalls, aeCalls, histVars>>
      /\ SaveWithSnapshot(c.to, c.data)
  BY DEF installSnapshotApply, InstallInMemory, Cut
<1>3. isCalls' \subseteq ISCall
  BY <1>1, <1>2, isReplyType
<1>4. /\ currentTerm' \in [Server -> Term]
      /\ votedFor' \in [Server -> Server \cup {NoVote}]
      /\ status' \in [Server -> {"Follower", "Candidate", "Leader"}]
  BY <1>1, <1>2, FollowLeaderType
<1> QED BY <1>1, <1>2, <1>3, <1>4, CutStep

\* What the guard of SnapshotInMemory gives.
LEMMA SnapshotCut ==
    ASSUME LogInv, NEW i \in Server, NEW index \in 1 .. MaxIndex,
           SnapshotInMemory(i, index)
    PROVE  /\ index \in Nat /\ index > lastSnapshotIncludeIndex[i]
           /\ index <= getLastLogIndex(i)
           /\ getLogTermFromLogIndex(i, index) \in Term
           /\ Cut(i, index, getLogTermFromLogIndex(i, index))
<1>1. /\ index \in Nat /\ index > lastSnapshotIncludeIndex[i]
      /\ index <= commitIndex[i]
      /\ Cut(i, index, getLogTermFromLogIndex(i, index))
  BY ServerTypes, BoundAssumption DEF SnapshotInMemory, Cut
<1>2. /\ commitIndex[i] <= getLastLogIndex(i) /\ commitIndex[i] \in Nat
      /\ getLastLogIndex(i) \in Nat /\ lastSnapshotIncludeIndex[i] \in Nat
  BY ServerTypes, LastIndex DEF LogInv, CommitWithinLog
<1>3. index \in lastSnapshotIncludeIndex[i] .. getLastLogIndex(i)
  BY <1>1, <1>2
<1> QED BY <1>1, <1>2, <1>3, TermAt

LEMMA snapshotStep ==
    ASSUME LogInv, NEW i \in Server, NEW index \in 1 .. MaxIndex,
           snapshot(i, index)
    PROVE  LogInv'
<1>1. /\ SnapshotInMemory(i, index)
      /\ commitIndex' = [commitIndex EXCEPT ![i] = max(@, index)]
      /\ lastApplied' = [lastApplied EXCEPT ![i] = max(@, index)]
      /\ UNCHANGED <<termVars, leaderVars, voteNum, callVars, histVars>>
      /\ SaveWithSnapshot(i, index)
  BY DEF snapshot
<1>2. /\ isCalls' \subseteq ISCall /\ rvCalls' = rvCalls /\ aeCalls' = aeCalls
      /\ currentTerm' \in [Server -> Term]
      /\ votedFor' \in [Server -> Server \cup {NoVote}]
      /\ status' \in [Server -> {"Follower", "Candidate", "Leader"}]
  BY <1>1 DEF LogInv, TypeOK, termVars, callVars
<1> QED BY <1>1, <1>2, SnapshotCut, CutStep

-----------------------------------------------------------------------------
(* Crashes *)

\* What every death has in common, whatever the process boots from.
LEMMA DieType ==
    ASSUME LogInv, NEW i \in Server, NEW closed \in SUBSET isCalls, Die(i, closed)
    PROVE  /\ status' \in [Server -> {"Follower", "Candidate", "Leader"}]
           /\ commitIndex' \in [Server -> Nat]
           /\ nextIndex' \in [Server -> [Server -> Nat]]
           /\ matchIndex' \in [Server -> [Server -> Nat]]
           /\ voteNum' \in [Server -> [Term -> Nat]]
           /\ appendNums' \in [Server -> Seq(Nat)]
           /\ snapshotFile' \in [Server -> Nat]
           /\ rvCalls' \subseteq RVCall /\ aeCalls' \subseteq AECall
           /\ isCalls' \subseteq ISCall
           /\ voteHistory' \in [Server -> [Term -> Server \cup {NoVote}]]
           /\ leaders' \in [Term -> SUBSET Server]
           /\ restarts' \in Nat
           /\ CallsKept /\ \A c \in aeCalls' : c.live => c.from # i
           /\ commitIndex'[i] = 0
           /\ \A k \in Server \ {i} : commitIndex'[k] = commitIndex[k]
<1>1. /\ status' \in [Server -> {"Follower", "Candidate", "Leader"}]
      /\ commitIndex' \in [Server -> Nat] /\ commitIndex'[i] = 0
      /\ \A k \in Server \ {i} : commitIndex'[k] = commitIndex[k]
      /\ restarts' \in Nat
  <2>1. /\ status \in [Server -> {"Follower", "Candidate", "Leader"}]
        /\ commitIndex \in [Server -> Nat] /\ restarts \in Nat
    BY DEF LogInv, TypeOK
  <2>2. /\ status' = [status EXCEPT ![i] = "Follower"]
        /\ commitIndex' = [commitIndex EXCEPT ![i] = 0]
        /\ restarts' = restarts + 1
    BY DEF Die
  <2> QED BY <2>1, <2>2
<1>2. /\ nextIndex' \in [Server -> [Server -> Nat]]
      /\ matchIndex' \in [Server -> [Server -> Nat]]
      /\ voteNum' \in [Server -> [Term -> Nat]]
  BY DEF LogInv, TypeOK, Die
<1>3. appendNums' \in [Server -> Seq(Nat)]
  <2>1. << >> \in Seq(Nat) /\ appendNums \in [Server -> Seq(Nat)]
    BY SMTT(60) DEF LogInv, TypeOK
  <2> QED BY <2>1 DEF Die
<1>4. /\ snapshotFile' \in [Server -> Nat]
      /\ voteHistory' \in [Server -> [Term -> Server \cup {NoVote}]]
      /\ leaders' \in [Term -> SUBSET Server]
  BY DEF LogInv, TypeOK, Die
<1>5. rvCalls' \subseteq RVCall
  <2>1. ASSUME NEW c \in rvCalls
        PROVE  c \in RVCall /\ [c EXCEPT !.live = FALSE] \in RVCall
    <3>1. c \in RVCall
      BY DEF LogInv, TypeOK
    <3> QED BY <3>1 DEF RVCall
  <2> QED BY <2>1 DEF Die, Orphaned
<1>6. ASSUME NEW c \in aeCalls
      PROVE  LET o == [c EXCEPT !.live = FALSE] IN
             /\ o \in AECall /\ ~o.live /\ o.phase = c.phase
             /\ o.from = c.from /\ o.entries = c.entries
             /\ o.prevLogIndex = c.prevLogIndex
  <2>1. c \in AECall
    BY aeFields
  <2> QED BY <2>1 DEF AECall
<1>7. ASSUME NEW c \in aeCalls'
      PROVE  \/ c \in aeCalls /\ c.from # i
             \/ \E d \in aeCalls : d.phase = "request" /\ c = [d EXCEPT !.live = FALSE]
  BY DEF Die, Orphaned
<1>8. aeCalls' \subseteq AECall
  <2>1. aeCalls \subseteq AECall
    BY DEF LogInv, TypeOK
  <2>2. \A d \in aeCalls : [d EXCEPT !.live = FALSE] \in AECall
    BY <1>6
  <2> QED BY <1>7, <2>1, <2>2
<1>9. CallsKept
  <2> SUFFICES ASSUME NEW c \in aeCalls'
               PROVE  /\ \E d \in aeCalls :
                           /\ c.prevLogIndex = d.prevLogIndex
                           /\ c.entries = d.entries
                           /\ c.from = d.from /\ (c.live => d.live)
                           /\ c.phase = "reply" => c.live
    BY DEF CallsKept
  <2>1. CASE c \in aeCalls
    BY <2>1 DEF LogInv, CallsWithinLog
  <2>2. CASE \E d \in aeCalls : d.phase = "request" /\ c = [d EXCEPT !.live = FALSE]
    <3>1. PICK d \in aeCalls : d.phase = "request" /\ c = [d EXCEPT !.live = FALSE]
      BY <2>2
    <3>2. /\ c.prevLogIndex = d.prevLogIndex /\ c.entries = d.entries
          /\ c.from = d.from /\ ~c.live /\ c.phase = "request"
      BY <1>6, <3>1
    <3> QED BY <3>2
  <2> QED BY <1>7, <2>1, <2>2
<1>10. \A c \in aeCalls' : c.live => c.from # i
  BY <1>6, <1>7
<1>11. isCalls' \subseteq ISCall
  <2>1. 0 \in Term
    BY BoundAssumption DEF Term
  <2>2. ASSUME NEW c \in isCalls
        PROVE  /\ c \in ISCall /\ [c EXCEPT !.live = FALSE] \in ISCall
               /\ [c EXCEPT !.phase = "reply", !.rterm = 0] \in ISCall
    BY <2>1, isFields DEF ISCall
  <2> QED BY <2>2 DEF Die, Orphaned
<1> QED BY <1>1, <1>2, <1>3, <1>4, <1>5, <1>8, <1>9, <1>10, <1>11

LEMMA RestartStep ==
    ASSUME LogInv, NEW i \in Server, Restart(i)
    PROVE  LogInv'
<1>1. PICK closed \in SUBSET isCalls : Die(i, closed)
  BY DEF Restart, PendingInstalls
<1>2. Boot(i, raftState[i]) /\ raftState' = raftState
  BY DEF Restart
<1> DEFINE d == raftState[i]
<1>3. /\ d \in RaftState /\ raftState \in [Server -> RaftState]
      /\ Contiguous(d.logs, d.lastSnapshotIncludeIndex)
  BY DEF LogInv, TypeOK, LogContiguous
<1>4. /\ d.currentTerm \in Term /\ d.votedFor \in Server \cup {NoVote}
      /\ d.lastSnapshotIncludeIndex \in Nat /\ d.lastSnapshotIncludeTerm \in Term
      /\ d.logs \in Seq(Entry)
  BY <1>3 DEF RaftState
<1> HIDE DEF d
<1>5. /\ currentTerm' \in [Server -> Term]
      /\ votedFor' \in [Server -> Server \cup {NoVote}]
      /\ lastSnapshotIncludeIndex' \in [Server -> Nat]
      /\ lastSnapshotIncludeTerm' \in [Server -> Term]
      /\ logs' \in [Server -> Seq(Entry)]
      /\ lastApplied' \in [Server -> Nat]
      /\ logs'[i] = d.logs
      /\ lastSnapshotIncludeIndex'[i] = d.lastSnapshotIncludeIndex
      /\ lastApplied'[i] = d.lastSnapshotIncludeIndex
      /\ \A k \in Server \ {i} :
            /\ logs'[k] = logs[k] /\ lastApplied'[k] = lastApplied[k]
            /\ lastSnapshotIncludeIndex'[k] = lastSnapshotIncludeIndex[k]
  BY <1>2, <1>4 DEF Boot, d, LogInv, TypeOK
<1>6. TypeOK'
  BY <1>1, <1>2, <1>3, <1>5, DieType DEF TypeOK
<1>7. Contiguous(logs'[i], lastSnapshotIncludeIndex'[i])
  BY <1>3, <1>5
<1>8. getLastLogIndex(i)' \in Nat
  BY <1>4, <1>5, <1>7, LastOfContiguous DEF getLastLogIndex
<1>9. /\ commitIndex'[i] <= getLastLogIndex(i)'
      /\ lastSnapshotIncludeIndex'[i] <= lastApplied'[i]
      /\ lastApplied'[i] <= max(commitIndex'[i], lastSnapshotIncludeIndex'[i])
  BY <1>1, <1>4, <1>5, <1>8, DieType DEF max
<1>10. /\ CallsKept /\ \A c \in aeCalls' : c.live => c.from # i
       /\ \A k \in Server \ {i} : commitIndex'[k] = commitIndex[k]
  BY <1>1, DieType
<1> QED BY <1>2, <1>5, <1>6, <1>7, <1>9, <1>10, LogChanged

\* A death in the middle of Save, after Cut and the state file.
LEMMA TornSave ==
    ASSUME LogInv, NEW j \in Server, NEW closed \in SUBSET isCalls, Die(j, closed),
           NEW index \in Nat, NEW term \in Term,
           index > lastSnapshotIncludeIndex[j], Cut(j, index, term),
           lastApplied' = [lastApplied EXCEPT ![j] = index],
           persist(j),
           currentTerm' \in [Server -> Term],
           votedFor' \in [Server -> Server \cup {NoVote}]
    PROVE  LogInv'
<1>1. /\ logs' \in [Server -> Seq(Entry)]
      /\ lastSnapshotIncludeIndex' \in [Server -> Nat]
      /\ lastSnapshotIncludeTerm' \in [Server -> Term]
      /\ lastSnapshotIncludeIndex'[j] = index
      /\ \A k \in Server \ {j} :
            /\ logs'[k] = logs[k]
            /\ lastSnapshotIncludeIndex'[k] = lastSnapshotIncludeIndex[k]
      /\ Contiguous(logs'[j], lastSnapshotIncludeIndex'[j])
      /\ getLastLogIndex(j)' \in Nat
  BY CutType
<1>2. /\ lastApplied' \in [Server -> Nat] /\ lastApplied'[j] = index
      /\ \A k \in Server \ {j} : lastApplied'[k] = lastApplied[k]
  BY DEF LogInv, TypeOK
<1>3. raftState' \in [Server -> RaftState]
  <2>1. raftState \in [Server -> RaftState]
    BY DEF LogInv, TypeOK
  <2>2. /\ logs'[j] \in Seq(Entry) /\ lastSnapshotIncludeIndex'[j] \in Nat
        /\ lastSnapshotIncludeTerm'[j] \in Term
        /\ currentTerm'[j] \in Term /\ votedFor'[j] \in Server \cup {NoVote}
    BY <1>1
  <2> QED BY <2>1, <2>2, Persisted
<1>4. TypeOK'
  BY <1>1, <1>2, <1>3, DieType DEF TypeOK
<1>5. /\ commitIndex'[j] <= getLastLogIndex(j)'
      /\ lastSnapshotIncludeIndex'[j] <= lastApplied'[j]
      /\ lastApplied'[j] <= max(commitIndex'[j], lastSnapshotIncludeIndex'[j])
  BY <1>1, <1>2, DieType DEF max
<1>6. /\ CallsKept /\ \A c \in aeCalls' : c.live => c.from # j
      /\ \A k \in Server \ {j} : commitIndex'[k] = commitIndex[k]
  BY DieType
<1> QED BY <1>1, <1>2, <1>4, <1>5, <1>6, LogChanged

LEMMA CrashStep ==
    ASSUME LogInv,
           \/ \E i \in Server : \E index \in 1 .. MaxIndex : CrashInSnapshot(i, index)
           \/ \E c \in isCalls : CrashInInstallSnapshot(c)
    PROVE  LogInv'
<1>1. CASE \E i \in Server : \E index \in 1 .. MaxIndex : CrashInSnapshot(i, index)
  <2>1. PICK i \in Server, index \in 1 .. MaxIndex : CrashInSnapshot(i, index)
    BY <1>1
  <2>2. /\ SnapshotInMemory(i, index) /\ Die(i, {}) /\ persist(i)
        /\ lastApplied' = [lastApplied EXCEPT ![i] = index]
        /\ currentTerm' \in [Server -> Term]
        /\ votedFor' \in [Server -> Server \cup {NoVote}]
    BY <2>1 DEF CrashInSnapshot, LogInv, TypeOK
  <2>3. /\ index \in Nat /\ index > lastSnapshotIncludeIndex[i]
        /\ getLogTermFromLogIndex(i, index) \in Term
        /\ Cut(i, index, getLogTermFromLogIndex(i, index))
    BY <2>2, SnapshotCut
  <2>4. {} \in SUBSET isCalls
    OBVIOUS
  <2> QED BY <2>2, <2>3, <2>4, TornSave
<1>2. CASE \E c \in isCalls : CrashInInstallSnapshot(c)
  <2>1. PICK c \in isCalls : CrashInInstallSnapshot(c)
    BY <1>2
  <2>2. /\ c.to \in Server /\ c.lastIndex \in Nat /\ c.lastTerm \in Term
        /\ c.term \in Term /\ {c} \in SUBSET isCalls
    BY isFields
  <2>3. /\ FollowLeader(c.to, c.term) /\ Die(c.to, {c}) /\ persist(c.to)
        /\ lastApplied' = [lastApplied EXCEPT ![c.to] = c.lastIndex]
        /\ c.lastIndex > lastSnapshotIncludeIndex[c.to]
        /\ Cut(c.to, c.lastIndex, c.lastTerm)
    BY <2>1 DEF CrashInInstallSnapshot, InstallInMemory, Cut
  <2>4. /\ currentTerm' \in [Server -> Term]
        /\ votedFor' \in [Server -> Server \cup {NoVote}]
    BY <2>2, <2>3, FollowLeaderType
  <2> QED BY <2>2, <2>3, <2>4, TornSave
<1> QED BY <1>1, <1>2

-----------------------------------------------------------------------------
(* The theorems *)

LEMMA LogInit == Init => LogInv
<1> SUFFICES ASSUME Init PROVE LogInv
  OBVIOUS
<1>1. 0 \in Term
  BY BoundAssumption DEF Term
<1>2. << >> \in Seq(Entry) /\ << >> \in Seq(Nat)
  OBVIOUS
<1>3. \A i \in Server :
        /\ persistData(i) \in RaftState
        /\ persistData(i).logs = << >>
        /\ persistData(i).lastSnapshotIncludeIndex = 0
  BY <1>1, <1>2 DEF Init, persistData, RaftState
<1>4. raftState \in [Server -> RaftState]
  BY <1>3 DEF Init
<1>5. TypeOK
  BY <1>1, <1>2, <1>4 DEF Init, TypeOK
<1>6. \A i \in Server :
        /\ logs[i] = << >> /\ raftState[i].logs = << >>
        /\ lastSnapshotIncludeIndex[i] = 0 /\ commitIndex[i] = 0
        /\ lastApplied[i] = 0
        /\ aeCalls = {}
  BY <1>3 DEF Init
<1>7. \A i \in Server :
        /\ Contiguous(logs[i], lastSnapshotIncludeIndex[i])
        /\ Contiguous(raftState[i].logs, raftState[i].lastSnapshotIncludeIndex)
  BY <1>6 DEF Contiguous
<1>8. LogContiguous
  BY <1>7 DEF LogContiguous, Init
<1>9. CommitWithinLog
  BY <1>6 DEF CommitWithinLog, getLastLogIndex, max
<1>10. CallsWithinLog
  BY DEF CallsWithinLog, Init
<1> QED BY <1>5, <1>8, <1>9, <1>10 DEF LogInv

LEMMA LogStutter ==
    ASSUME LogInv, UNCHANGED vars
    PROVE  LogInv'
<1>1. UNCHANGED <<logVars, indexVars, raftState, aeCalls>>
  BY DEF vars, diskVars, callVars
<1>2. TypeOK'
  BY DEF LogInv, TypeOK, vars, termVars, logVars, indexVars, leaderVars, diskVars,
         callVars, histVars
<1>3. CallsKept
  BY <1>1 DEF CallsKept, LogInv, CallsWithinLog
<1> QED BY <1>1, <1>2, <1>3, LogUntouched

\* LogInv is inductive.
LEMMA LogStep == LogInv /\ [Next]_vars => LogInv'
<1> SUFFICES ASSUME LogInv, [Next]_vars PROVE LogInv'
  OBVIOUS
<1>1. CASE RequestVoteNext
  BY <1>1, ElectionStep
<1>2. CASE AppendEntriesNext
  BY <1>2, AppendEntriesStep
<1>3. CASE InstallSnapshotNext
  <2>1. PICK c \in isCalls :
          \/ leaderSendSnapshot(c)
          \/ installSnapshotStale(c) \/ installSnapshotOld(c)
          \/ installSnapshotApply(c)
          \/ sendSnapshotHigherTerm(c) \/ sendSnapshotSuccess(c)
          \/ sendSnapshotEnd(c)
          \/ CrashInInstallSnapshot(c)
    BY <1>3 DEF InstallSnapshotNext
  <2> QED BY <2>1, leaderSendSnapshotStep, installSnapshotStep,
             installSnapshotApplyStep, sendSnapshotStep, CrashStep
<1>4. CASE ServerNext
  <2>1. PICK i \in Server :
          \/ doElection(i) \/ doHeartBeat(i) \/ applierTicker(i) \/ Restart(i)
          \/ \E command \in Command : start(i, command)
          \/ \E index \in 1 .. MaxIndex :
               snapshot(i, index) \/ CrashInSnapshot(i, index)
    BY <1>4 DEF ServerNext
  <2>2. CASE doElection(i)
    BY <2>2, ElectionStep
  <2>3. CASE doHeartBeat(i)
    BY <2>3, doHeartBeatStep
  <2>4. CASE applierTicker(i)
    BY <2>4, applierTickerStep
  <2>5. CASE Restart(i)
    BY <2>5, RestartStep
  <2>6. CASE \E command \in Command : start(i, command)
    BY <2>6, startStep
  <2>7. CASE \E index \in 1 .. MaxIndex :
               snapshot(i, index) \/ CrashInSnapshot(i, index)
    BY <2>7, snapshotStep, CrashStep
  <2> QED BY <2>1, <2>2, <2>3, <2>4, <2>5, <2>6, <2>7
<1>5. CASE UNCHANGED vars
  BY <1>5, LogStutter
<1> QED BY <1>1, <1>2, <1>3, <1>4, <1>5 DEF Next

THEOREM LogInvariant == Spec => []LogInv
BY LogInit, LogStep, PTL DEF Spec

\* Every variable keeps its type, for any number of servers and any bounds.
THEOREM TypeCorrect == Spec => []TypeOK
<1>1. LogInv => TypeOK
  BY DEF LogInv
<1> QED BY <1>1, LogInvariant, PTL

\* The entries of a log follow its snapshot without a gap, in memory, on disk
\* and in every message.
THEOREM NoGaps == Spec => []LogContiguous
<1>1. LogInv => LogContiguous
  BY DEF LogInv
<1> QED BY <1>1, LogInvariant, PTL

\* commitIndex_ and lastApplied_ never leave the log: the asserts of
\* raft.cpp:357, 538 and 771 hold.
THEOREM CommitInLog == Spec => []CommitWithinLog
<1>1. LogInv => CommitWithinLog
  BY DEF LogInv
<1> QED BY <1>1, LogInvariant, PTL

=============================================================================
