---------------------------- MODULE LeaderProofs ----------------------------
(***************************************************************************)
(* What a leader can rely on, for any number of servers, through crashes   *)
(* and late, lost and orphaned messages: it wins its term once, nobody     *)
(* appends to its log in that term, and an index and a term name one       *)
(* entry.                                                                  *)
(*                                                                         *)
(* The argument: the votes that made a leader stay counted, so that those  *)
(* still out are too few for a second win (WonInv); whoever sends entries  *)
(* of a term has won it (LeadsInv), and so has whoever starts one; a term  *)
(* has one winner, who hands out growing indices while it leads            *)
(* (EntriesInv).                                                           *)
(***************************************************************************)
EXTENDS CommitProofs

-----------------------------------------------------------------------------
(* A term is won once *)

\* The winner of a term has it on disk, and the votes that are counted or were
\* used up are those of different servers.
WonInv ==
    \A t \in Term : \A i \in leaders[t] :
        /\ t <= raftState[i].currentTerm
        /\ voteNum[i][t] + Majority <= Cardinality(Counted(i, t))

\* A step that brings no new question and counts nothing.
NoCount ==
    /\ leaders' = leaders
    /\ \A c \in rvCalls' : c.live => \E d \in rvCalls : d.live /\ SameCall(c, d)
    /\ \A i \in Server, t \in Term : voteNum'[i][t] <= voteNum[i][t]

\* A vote that has not been read is not counted, so there is room for it.
LEMMA RoomForVote ==
    ASSUME ElectionInv, NEW c \in rvCalls, GrantedNow(c)
    PROVE  /\ c.from \in Server /\ c.term \in Term /\ c.term = currentTerm[c.from]
           /\ voteNum[c.from][c.term] \in Nat
           /\ Cardinality(Counted(c.from, c.term)) \in Nat
           /\ Cardinality(Counted(c.from, c.term)) + 1 <= Cardinality(Server)
           /\ c.term <= raftState[c.from].currentTerm
<1> DEFINE counted == Counted(c.from, c.term)
<1>1. /\ TypeOK /\ CallInv /\ c.from \in Server /\ c.to \in Server /\ c.term \in Term
  BY rvTypes DEF ElectionInv
<1>2. /\ c.live /\ c.term = currentTerm[c.from]
      /\ c.term <= raftState[c.from].currentTerm
  <2>1. c.phase = "reply" /\ c.voteGranted /\ c.rterm = currentTerm[c.from]
    BY DEF GrantedNow
  <2>2. /\ c.term <= raftState[c.from].currentTerm
        /\ c.phase = "reply" => c.live
        /\ c.phase = "reply" /\ c.voteGranted => c.rterm = c.term
    BY <1>1 DEF CallInv
  <2> QED BY <2>1, <2>2
<1>3. c.to \notin counted /\ counted \subseteq Server
  BY <1>1, <1>2 DEF Counted, Unread, Voters
<1> HIDE DEF counted
<1>4. IsFiniteSet(counted) /\ Cardinality(counted) \in Nat
  BY <1>3, VotersFinite
<1>5. Cardinality(counted \cup {c.to}) = Cardinality(counted) + 1
  BY <1>3, <1>4, FS_AddElement
<1>6. Cardinality(counted \cup {c.to}) <= Cardinality(Server)
  <2>1. counted \cup {c.to} \in SUBSET Server
    BY <1>1, <1>3
  <2> QED BY <2>1, VotersFinite
<1>7. voteNum[c.from][c.term] \in Nat
  <2>1. voteNum \in [Server -> [Term -> Nat]]
    BY <1>1 DEF TypeOK
  <2> QED BY <1>1, <2>1
<1> QED BY <1>1, <1>2, <1>4, <1>5, <1>6, <1>7 DEF counted

\* The votes that are out never make a second majority.
LEMMA WonOnce ==
    ASSUME ElectionInv, WonInv, NEW c \in rvCalls, GrantedNow(c), Elected(c)
    PROVE  c.from \notin leaders[c.term]
<1>1. /\ c.from \in Server /\ c.term \in Term
      /\ voteNum[c.from][c.term] \in Nat
      /\ Cardinality(Counted(c.from, c.term)) \in Nat
      /\ Cardinality(Counted(c.from, c.term)) + 1 <= Cardinality(Server)
  BY RoomForVote
<1>2. voteNum[c.from][c.term] + 1 >= Majority
  BY DEF Elected
<1>3. Majority \in Nat /\ 2 * Majority > Cardinality(Server) /\ Cardinality(Server) \in Nat
  BY MajorityIsMore, ServerAssumption, FS_CardinalityType
<1>4. ~(voteNum[c.from][c.term] + Majority <= Cardinality(Counted(c.from, c.term)))
  BY <1>1, <1>2, <1>3
<1> QED BY <1>1, <1>4 DEF WonInv

LEMMA FewerCalls ==
    ASSUME rvCalls' \subseteq rvCalls
    PROVE  \A c \in rvCalls' : c.live => \E d \in rvCalls : d.live /\ SameCall(c, d)
BY DEF SameCall

LEMMA AnsweredCall ==
    ASSUME TypeOK, NEW c \in rvCalls, NEW t, NEW granted, rvCalls' = rvReply(c, t, granted)
    PROVE  \A a \in rvCalls' : a.live => \E d \in rvCalls : d.live /\ SameCall(a, d)
<1> DEFINE r == [c EXCEPT !.phase = "reply", !.rterm = t, !.voteGranted = granted]
<1>1. SameCall(r, c)
  BY rvTypes DEF RVCall, SameCall
<1>2. \A a \in rvCalls' : a \in rvCalls \/ (a = r /\ c.live)
  BY DEF rvReply, Answered
<1> HIDE DEF r
<1> QED BY <1>1, <1>2 DEF SameCall

LEMMA OrphanedCalls ==
    ASSUME TypeOK, NEW i \in Server, NEW closed, Die(i, closed)
    PROVE  NoCount
<1>1. /\ rvCalls' = Orphaned(rvCalls, i) /\ leaders' = leaders
      /\ voteNum' = [voteNum EXCEPT ![i] = [t \in Term |-> 0]]
  BY DEF Die
<1>2. ASSUME NEW d \in rvCalls
      PROVE  [d EXCEPT !.live = FALSE].live = FALSE
  BY rvTypes DEF RVCall
<1>3. \A c \in rvCalls' : c \in rvCalls \/ c.live = FALSE
  BY <1>1, <1>2 DEF Orphaned
<1>4. ASSUME NEW k \in Server, NEW t \in Term
      PROVE  voteNum'[k][t] <= voteNum[k][t]
  <2>1. voteNum \in [Server -> [Term -> Nat]]
    BY DEF TypeOK
  <2>2. voteNum'[k][t] \in {0, voteNum[k][t]} /\ voteNum[k][t] \in Nat
    BY <1>1, <2>1
  <2> QED BY <2>2
<1> QED BY <1>1, <1>3, <1>4 DEF NoCount, SameCall

LEMMA CountStep ==
    ASSUME TypeOK, [Next]_vars
    PROVE  \/ NoCount
           \/ \E i \in Server : doElection(i)
           \/ \E c \in rvCalls : sendRequestVoteCount(c) \/ sendRequestVoteWin(c)
<1>1. ASSUME voteNum' = voteNum, rvCalls' = rvCalls, leaders' = leaders
      PROVE  NoCount
  BY <1>1, FewerCalls, SameCount DEF NoCount
<1>2. CASE RequestVoteNext
  <2>1. PICK c \in rvCalls :
          \/ requestVoteStale(c) \/ requestVoteRefuse(c) \/ requestVoteGrant(c)
          \/ sendRequestVoteHigherTerm(c) \/ sendRequestVoteCount(c)
          \/ sendRequestVoteWin(c) \/ sendRequestVoteEnd(c)
    BY <1>2 DEF RequestVoteNext
  <2>2. CASE requestVoteStale(c) \/ requestVoteRefuse(c) \/ requestVoteGrant(c)
    <3>1. PICK t, granted : rvCalls' = rvReply(c, t, granted)
      BY <2>2 DEF requestVoteStale, requestVoteRefuse, requestVoteGrant
    <3>2. voteNum' = voteNum /\ leaders' = leaders
      BY <2>2 DEF requestVoteStale, requestVoteRefuse, requestVoteGrant, rvUnchanged
    <3> QED BY <3>1, <3>2, AnsweredCall, SameCount DEF NoCount
  <2>3. CASE sendRequestVoteHigherTerm(c) \/ sendRequestVoteEnd(c)
    <3>1. voteNum' = voteNum /\ leaders' = leaders /\ rvCalls' \subseteq rvCalls
      BY <2>3 DEF sendRequestVoteHigherTerm, sendRequestVoteEnd, rvUnchanged, histVars
    <3> QED BY <3>1, FewerCalls, SameCount DEF NoCount
  <2> QED BY <2>1, <2>2, <2>3
<1>3. CASE AppendEntriesNext
  <2>1. PICK c \in aeCalls :
          \/ appendEntriesStale(c) \/ appendEntriesReject(c) \/ appendEntriesAccept(c)
          \/ sendAppendEntriesHigherTerm(c) \/ sendAppendEntriesBacktrack(c)
          \/ sendAppendEntriesSuccess(c) \/ sendAppendEntriesEnd(c)
    BY <1>3 DEF AppendEntriesNext
  <2>2. voteNum' = voteNum /\ rvCalls' = rvCalls /\ leaders' = leaders
    BY <2>1 DEF appendEntriesStale, appendEntriesReject, appendEntriesAccept,
                sendAppendEntriesHigherTerm, sendAppendEntriesBacktrack,
                sendAppendEntriesSuccess, sendAppendEntriesEnd, histVars
  <2> QED BY <1>1, <2>2
<1>4. CASE InstallSnapshotNext
  <2>1. PICK c \in isCalls :
          \/ leaderSendSnapshot(c) \/ installSnapshotStale(c)
          \/ installSnapshotOld(c) \/ installSnapshotApply(c)
          \/ sendSnapshotHigherTerm(c) \/ sendSnapshotSuccess(c)
          \/ sendSnapshotEnd(c) \/ CrashInInstallSnapshot(c)
    BY <1>4 DEF InstallSnapshotNext
  <2>2. CASE CrashInInstallSnapshot(c)
    <3>1. c.to \in Server /\ Die(c.to, {c})
      BY <2>2 DEF CrashInInstallSnapshot, TypeOK, ISCall
    <3> QED BY <3>1, OrphanedCalls
  <2>3. CASE ~CrashInInstallSnapshot(c)
    <3>1. voteNum' = voteNum /\ rvCalls' = rvCalls /\ leaders' = leaders
      BY <2>1, <2>3 DEF leaderSendSnapshot, installSnapshotStale, installSnapshotOld,
                        installSnapshotApply, sendSnapshotHigherTerm,
                        sendSnapshotSuccess, sendSnapshotEnd, histVars
    <3> QED BY <1>1, <3>1
  <2> QED BY <2>2, <2>3
<1>5. CASE ServerNext
  <2>1. PICK i \in Server :
          \/ doElection(i) \/ doHeartBeat(i) \/ applierTicker(i) \/ Restart(i)
          \/ \E command \in Command : start(i, command)
          \/ \E index \in 1 .. MaxIndex : snapshot(i, index) \/ CrashInSnapshot(i, index)
    BY <1>5 DEF ServerNext
  <2>2. CASE doHeartBeat(i) \/ applierTicker(i)
    <3>1. voteNum' = voteNum /\ rvCalls' = rvCalls /\ leaders' = leaders
      BY <2>2 DEF doHeartBeat, applierTicker, callVars, histVars
    <3> QED BY <1>1, <3>1
  <2>3. CASE \/ \E command \in Command : start(i, command)
             \/ \E index \in 1 .. MaxIndex : snapshot(i, index)
    <3>1. voteNum' = voteNum /\ rvCalls' = rvCalls /\ leaders' = leaders
      BY <2>3 DEF start, snapshot, callVars, histVars
    <3> QED BY <1>1, <3>1
  <2>4. CASE Restart(i) \/ \E index \in 1 .. MaxIndex : CrashInSnapshot(i, index)
    <3>1. PICK closed : Die(i, closed)
      BY <2>4 DEF Restart, CrashInSnapshot
    <3> QED BY <3>1, OrphanedCalls
  <2> QED BY <2>1, <2>2, <2>3, <2>4
<1>6. CASE UNCHANGED vars
  BY <1>1, <1>6 DEF vars, callVars, histVars
<1> QED BY <1>2, <1>3, <1>4, <1>5, <1>6 DEF Next

\* Old winners keep their votes when the questions out for them are fewer.
LEMMA WonStays ==
    ASSUME TypeOK, TypeOK', WonInv, VotesKept, DiskForward,
           NEW t \in Term, NEW i \in leaders[t],
           Unread(i, t)' \subseteq Unread(i, t),
           voteNum'[i][t] <= voteNum[i][t]
    PROVE  /\ t <= raftState'[i].currentTerm
           /\ voteNum'[i][t] + Majority <= Cardinality(Counted(i, t)')
<1>1. i \in Server
  BY DEF TypeOK
<1>2. /\ t <= raftState[i].currentTerm
      /\ voteNum[i][t] + Majority <= Cardinality(Counted(i, t))
      /\ raftState'[i].currentTerm >= raftState[i].currentTerm
  BY <1>1 DEF WonInv, DiskForward
<1>3. t \in Nat /\ raftState[i].currentTerm \in Nat /\ raftState'[i].currentTerm \in Nat
  <2>1. t \in Nat /\ raftState[i].currentTerm \in Nat
    BY <1>1, TermTypes
  <2>2. raftState'[i] \in RaftState /\ Term \subseteq Nat
    BY <1>1, TermTypes DEF TypeOK
  <2> QED BY <2>1, <2>2 DEF RaftState
<1>4. /\ Cardinality(Counted(i, t)) <= Cardinality(Counted(i, t)')
      /\ Cardinality(Counted(i, t)) \in Nat /\ Cardinality(Counted(i, t)') \in Nat
  <2>1. Counted(i, t) \subseteq Counted(i, t)' /\ Counted(i, t)' \subseteq Server
    BY <1>1, VotersGrow DEF Counted, Voters
  <2> QED BY <2>1, VotersFinite
<1>5. voteNum[i][t] \in Nat /\ voteNum'[i][t] \in Nat /\ Majority \in Nat
  BY <1>1, MajorityIsMore DEF TypeOK
<1>6. t <= raftState'[i].currentTerm
  BY <1>2, <1>3
<1>7. voteNum'[i][t] + Majority <= Cardinality(Counted(i, t)')
  BY <1>2, <1>4, <1>5
<1> QED BY <1>6, <1>7

LEMMA WonStep ==
    ASSUME ElectionInv, TypeOK', WonInv, [Next]_vars
    PROVE  WonInv'
<1>1. TypeOK /\ VotesKept /\ DiskForward /\ leaders \in [Term -> SUBSET Server]
      /\ voteNum \in [Server -> [Term -> Nat]]
  BY VotesStep DEF ElectionInv, TypeOK
<1>2. CASE NoCount
  <2>1. \A i \in Server, t \in Term : Unread(i, t)' \subseteq Unread(i, t)
    BY <1>2 DEF NoCount, Unread, SameCall
  <2> SUFFICES ASSUME NEW t \in Term, NEW i \in leaders[t]
               PROVE  /\ t <= raftState'[i].currentTerm
                      /\ voteNum'[i][t] + Majority <= Cardinality(Counted(i, t)')
    BY <1>2 DEF NoCount, WonInv
  <2>2. i \in Server /\ voteNum'[i][t] <= voteNum[i][t]
    BY <1>1, <1>2 DEF NoCount
  <2> QED BY <1>1, <2>1, <2>2, WonStays
<1>3. ASSUME NEW i \in Server, doElection(i)
      PROVE  WonInv'
  <2> DEFINE u == currentTerm[i] + 1
             asked(j) == [from |-> i, to |-> j, live |-> TRUE, phase |-> "request",
                          term |-> u, lastLogIndex |-> getLastLogIndex(i),
                          lastLogTerm |-> getLastLogTerm(i),
                          rterm |-> 0, voteGranted |-> FALSE]
  <2>1. /\ leaders' = leaders
        /\ voteNum' = [voteNum EXCEPT ![i][u] = 1]
        /\ rvCalls' = rvCalls \cup {asked(j) : j \in Server \ {i}}
    BY <1>3 DEF doElection
  <2>2. \A c \in rvCalls' : c \in rvCalls \/ (c.from = i /\ c.term = u)
    BY <2>1
  <2> HIDE DEF asked
  <2> SUFFICES ASSUME NEW t \in Term, NEW k \in leaders[t]
               PROVE  /\ t <= raftState'[k].currentTerm
                      /\ voteNum'[k][t] + Majority <= Cardinality(Counted(k, t)')
    BY <2>1 DEF WonInv
  <2>3. k \in Server
    BY <1>1
  <2>4. ~(k = i /\ t = u)
    <3>1. t <= raftState[k].currentTerm /\ raftState[i].currentTerm <= currentTerm[i]
      BY DEF WonInv, ElectionInv, VoteInv
    <3>2. t \in Nat /\ raftState[i].currentTerm \in Nat /\ currentTerm[i] \in Nat
      BY <1>1, TermTypes
    <3> QED BY <3>1, <3>2
  <2> HIDE DEF u
  <2>5. Unread(k, t)' \subseteq Unread(k, t)
    BY <2>2, <2>4 DEF Unread
  <2>6. voteNum'[k][t] = voteNum[k][t] /\ voteNum[k][t] \in Nat
    BY <1>1, <2>1, <2>3, <2>4
  <2>7. voteNum'[k][t] <= voteNum[k][t]
    BY <2>6
  <2> QED BY <1>1, <2>5, <2>7, WonStays
<1>4. ASSUME NEW c \in rvCalls, sendRequestVoteCount(c) \/ sendRequestVoteWin(c)
      PROVE  WonInv'
  <2>1. GrantedNow(c) /\ rvCalls' = rvCalls \ {c} /\ voteHistory' = voteHistory
        /\ raftState' = raftState
    BY <1>4 DEF sendRequestVoteCount, sendRequestVoteWin, histVars, diskVars
  <2>2. /\ c.from \in Server /\ c.term \in Term /\ c.term = currentTerm[c.from]
        /\ voteNum[c.from][c.term] \in Nat
        /\ Cardinality(Counted(c.from, c.term)) \in Nat
        /\ Cardinality(Counted(c.from, c.term)') \in Nat
        /\ Cardinality(Counted(c.from, c.term)) + 1
             <= Cardinality(Counted(c.from, c.term)')
        /\ voteNum[c.from][c.term] + 1 <= Cardinality(Counted(c.from, c.term)')
    BY <2>1, NewlyCounted
  <2>3. \A i \in Server, t \in Term : Unread(i, t)' \subseteq Unread(i, t)
    BY <2>1 DEF Unread
  <2>4. ASSUME NEW t \in Term, NEW i \in leaders[t], ~(i = c.from /\ t = c.term)
        PROVE  /\ t <= raftState'[i].currentTerm
               /\ voteNum'[i][t] + Majority <= Cardinality(Counted(i, t)')
    <3>1. i \in Server
      BY <1>1
    <3>2. voteNum'[i][t] = voteNum[i][t] /\ voteNum[i][t] \in Nat
      BY <1>1, <1>4, <2>2, <2>4, <3>1 DEF sendRequestVoteCount, sendRequestVoteWin
    <3>3. voteNum'[i][t] <= voteNum[i][t]
      BY <3>2
    <3> QED BY <1>1, <2>3, <3>1, <3>3, WonStays
  <2>5. c.term <= raftState'[c.from].currentTerm
    BY <2>1, RoomForVote
  <2>6. Majority \in Nat
    BY MajorityIsMore
  <2>7. CASE sendRequestVoteCount(c)
    <3>1. /\ leaders' = leaders
          /\ voteNum'[c.from][c.term] = voteNum[c.from][c.term] + 1
      BY <1>1, <2>2, <2>7 DEF sendRequestVoteCount, histVars
    <3>2. ASSUME c.from \in leaders[c.term]
          PROVE  voteNum'[c.from][c.term] + Majority
                   <= Cardinality(Counted(c.from, c.term)')
      <4>1. voteNum[c.from][c.term] + Majority <= Cardinality(Counted(c.from, c.term))
        BY <2>2, <3>2 DEF WonInv
      <4> QED BY <2>2, <2>6, <3>1, <4>1
    <3> QED BY <2>4, <2>5, <3>1, <3>2 DEF WonInv
  <2>8. CASE sendRequestVoteWin(c)
    <3>1. /\ leaders' = [leaders EXCEPT ![c.term] = @ \cup {c.from}]
          /\ voteNum'[c.from][c.term] = 0 /\ Elected(c)
      BY <1>1, <2>2, <2>8 DEF sendRequestVoteWin
    <3>2. 0 + Majority <= Cardinality(Counted(c.from, c.term)')
      <4>1. voteNum[c.from][c.term] + 1 >= Majority
        BY <3>1 DEF Elected
      <4> QED BY <2>2, <2>6, <4>1
    <3>3. \A t \in Term : \A i \in leaders'[t] :
            i \in leaders[t] \/ (i = c.from /\ t = c.term)
      BY <1>1, <2>2, <3>1
    <3> QED BY <2>4, <2>5, <3>1, <3>2, <3>3 DEF WonInv
  <2> QED BY <1>4, <2>7, <2>8
<1> QED BY <1>1, <1>2, <1>3, <1>4, CountStep

LEMMA WonInit == Init => WonInv
BY DEF Init, WonInv

-----------------------------------------------------------------------------
(* Who leads has won *)

LeadsInv ==
    /\ \A i \in Server : status[i] = "Leader" => i \in leaders[currentTerm[i]]
    /\ \A c \in aeCalls : c.from \in leaders[c.term] /\ c.from # c.to

\* Nobody comes to lead but by winning.
LeadsFollow ==
    \A k \in Server : status'[k] = "Leader" =>
        \/ status[k] = "Leader" /\ currentTerm'[k] = currentTerm[k]
        \/ \E c \in rvCalls : sendRequestVoteWin(c) /\ c.from = k

LEMMA SameStatus ==
    ASSUME status' = status, currentTerm' = currentTerm
    PROVE  LeadsFollow
BY DEF LeadsFollow

\* Every change of a term ends the lead of the server whose term it is.
LEMMA OneSteps ==
    ASSUME LogInv, NEW j \in Server, NEW s, NEW t,
           status' = [status EXCEPT ![j] = s],
           currentTerm' = [currentTerm EXCEPT ![j] = t],
           s # "Leader" \/ (s = status[j] /\ t = currentTerm[j])
    PROVE  LeadsFollow
<1>1. /\ status \in [Server -> {"Follower", "Candidate", "Leader"}]
      /\ currentTerm \in [Server -> Term]
  BY DEF LogInv, TypeOK
<1> QED BY <1>1 DEF LeadsFollow

LEMMA FollowLeads ==
    ASSUME LogInv, NEW j \in Server, NEW t,
           FollowLeader(j, t) \/ BecomeFollower(j, t)
    PROVE  LeadsFollow
<1>1. /\ status' = [status EXCEPT ![j] = "Follower"]
      /\ currentTerm' = [currentTerm EXCEPT ![j] = t]
  BY DEF FollowLeader, BecomeFollower
<1> QED BY <1>1, OneSteps

\* The term of a server that dies is what its file says.
LEMMA DieLeads ==
    ASSUME LogInv, NEW i \in Server, NEW closed, Die(i, closed),
           \A k \in Server \ {i} : currentTerm'[k] = currentTerm[k]
    PROVE  LeadsFollow
<1>1. status' = [status EXCEPT ![i] = "Follower"]
  BY DEF Die
<1>2. status \in [Server -> {"Follower", "Candidate", "Leader"}]
  BY DEF LogInv, TypeOK
<1> QED BY <1>1, <1>2 DEF LeadsFollow

LEMMA LeadsStep ==
    ASSUME LogInv, [Next]_vars
    PROVE  LeadsFollow
<1>1. /\ status \in [Server -> {"Follower", "Candidate", "Leader"}]
      /\ currentTerm \in [Server -> Term]
  BY DEF LogInv, TypeOK
<1>2. CASE RequestVoteNext
  <2>1. PICK c \in rvCalls :
          \/ requestVoteStale(c) \/ requestVoteRefuse(c) \/ requestVoteGrant(c)
          \/ sendRequestVoteHigherTerm(c) \/ sendRequestVoteCount(c)
          \/ sendRequestVoteWin(c) \/ sendRequestVoteEnd(c)
    BY <1>2 DEF RequestVoteNext
  <2>2. /\ c.from \in Server /\ c.to \in Server /\ c.term \in Term
        /\ c.term \in Nat /\ currentTerm[c.to] \in Nat
    <3>1. c.from \in Server /\ c.to \in Server /\ c.term \in Term
      BY rvFields
    <3> QED BY <1>1, <3>1, BoundAssumption DEF Term
  <2>3. CASE requestVoteStale(c) \/ sendRequestVoteCount(c) \/ sendRequestVoteEnd(c)
    <3>1. status' = status /\ currentTerm' = currentTerm
      BY <2>3 DEF requestVoteStale, sendRequestVoteCount, sendRequestVoteEnd, termVars
    <3> QED BY <3>1, SameStatus
  <2>4. CASE requestVoteRefuse(c) \/ requestVoteGrant(c)
    <3>1. /\ c.term >= currentTerm[c.to]
          /\ status' = [status EXCEPT ![c.to] = AdoptedStatus(c.to, c.term)]
          /\ currentTerm' = [currentTerm EXCEPT ![c.to] = c.term]
      BY <2>4 DEF requestVoteRefuse, requestVoteGrant
    <3>2. \/ AdoptedStatus(c.to, c.term) = "Follower"
          \/ AdoptedStatus(c.to, c.term) = status[c.to] /\ c.term = currentTerm[c.to]
      BY <2>2, <3>1 DEF AdoptedStatus
    <3> QED BY <2>2, <3>1, <3>2, OneSteps
  <2>5. CASE sendRequestVoteHigherTerm(c)
    BY <2>2, <2>5, FollowLeads DEF sendRequestVoteHigherTerm
  <2>6. CASE sendRequestVoteWin(c)
    <3>1. status' = [status EXCEPT ![c.from] = "Leader"] /\ currentTerm' = currentTerm
      BY <2>6 DEF sendRequestVoteWin
    <3> QED BY <1>1, <2>2, <2>6, <3>1 DEF LeadsFollow
  <2> QED BY <2>1, <2>3, <2>4, <2>5, <2>6
<1>3. CASE AppendEntriesNext
  <2>1. PICK c \in aeCalls :
          \/ appendEntriesStale(c) \/ appendEntriesReject(c) \/ appendEntriesAccept(c)
          \/ sendAppendEntriesHigherTerm(c) \/ sendAppendEntriesBacktrack(c)
          \/ sendAppendEntriesSuccess(c) \/ sendAppendEntriesEnd(c)
    BY <1>3 DEF AppendEntriesNext
  <2>2. c.from \in Server /\ c.to \in Server
    BY aeFields
  <2>3. CASE appendEntriesReject(c) \/ appendEntriesAccept(c)
    BY <2>2, <2>3, FollowLeads DEF appendEntriesReject, appendEntriesAccept
  <2>4. CASE sendAppendEntriesHigherTerm(c)
    BY <2>2, <2>4, FollowLeads DEF sendAppendEntriesHigherTerm
  <2>5. CASE \/ appendEntriesStale(c) \/ sendAppendEntriesBacktrack(c)
             \/ sendAppendEntriesSuccess(c) \/ sendAppendEntriesEnd(c)
    <3>1. status' = status /\ currentTerm' = currentTerm
      BY <2>5 DEF appendEntriesStale, sendAppendEntriesBacktrack,
                  sendAppendEntriesSuccess, sendAppendEntriesEnd, termVars
    <3> QED BY <3>1, SameStatus
  <2> QED BY <2>1, <2>3, <2>4, <2>5
<1>4. CASE InstallSnapshotNext
  <2>1. PICK c \in isCalls :
          \/ leaderSendSnapshot(c) \/ installSnapshotStale(c)
          \/ installSnapshotOld(c) \/ installSnapshotApply(c)
          \/ sendSnapshotHigherTerm(c) \/ sendSnapshotSuccess(c)
          \/ sendSnapshotEnd(c) \/ CrashInInstallSnapshot(c)
    BY <1>4 DEF InstallSnapshotNext
  <2>2. c.from \in Server /\ c.to \in Server
    BY isFields
  <2>3. CASE installSnapshotOld(c) \/ installSnapshotApply(c)
    BY <2>2, <2>3, FollowLeads DEF installSnapshotOld, installSnapshotApply,
                                   InstallInMemory
  <2>4. CASE sendSnapshotHigherTerm(c)
    BY <2>2, <2>4, FollowLeads DEF sendSnapshotHigherTerm
  <2>5. CASE \/ leaderSendSnapshot(c) \/ installSnapshotStale(c)
             \/ sendSnapshotSuccess(c) \/ sendSnapshotEnd(c)
    <3>1. status' = status /\ currentTerm' = currentTerm
      BY <2>5 DEF leaderSendSnapshot, installSnapshotStale, sendSnapshotSuccess,
                  sendSnapshotEnd, termVars
    <3> QED BY <3>1, SameStatus
  <2>6. CASE CrashInInstallSnapshot(c)
    BY <2>2, <2>6, FollowLeads DEF CrashInInstallSnapshot, InstallInMemory
  <2> QED BY <2>1, <2>3, <2>4, <2>5, <2>6
<1>5. CASE ServerNext
  <2>1. PICK i \in Server :
          \/ doElection(i) \/ doHeartBeat(i) \/ applierTicker(i) \/ Restart(i)
          \/ \E command \in Command : start(i, command)
          \/ \E index \in 1 .. MaxIndex : snapshot(i, index) \/ CrashInSnapshot(i, index)
    BY <1>5 DEF ServerNext
  <2>2. CASE doElection(i)
    <3>1. /\ status' = [status EXCEPT ![i] = "Candidate"]
          /\ currentTerm' = [currentTerm EXCEPT ![i] = currentTerm[i] + 1]
      BY <2>2 DEF doElection
    <3> QED BY <3>1, OneSteps
  <2>3. CASE \/ doHeartBeat(i) \/ applierTicker(i)
             \/ \E command \in Command : start(i, command)
             \/ \E index \in 1 .. MaxIndex : snapshot(i, index)
    <3>1. status' = status /\ currentTerm' = currentTerm
      BY <2>3 DEF doHeartBeat, applierTicker, start, snapshot, termVars
    <3> QED BY <3>1, SameStatus
  <2>4. CASE Restart(i) \/ \E index \in 1 .. MaxIndex : CrashInSnapshot(i, index)
    <3>1. PICK closed : Die(i, closed)
      BY <2>4 DEF Restart, CrashInSnapshot
    <3>2. \A k \in Server \ {i} : currentTerm'[k] = currentTerm[k]
      BY <1>1, <2>4 DEF Restart, Boot, CrashInSnapshot
    <3> QED BY <3>1, <3>2, DieLeads
  <2> QED BY <2>1, <2>2, <2>3, <2>4
<1>6. CASE UNCHANGED vars
  <2>1. status' = status /\ currentTerm' = currentTerm
    BY <1>6 DEF vars, termVars
  <2> QED BY <2>1, SameStatus
<1> QED BY <1>2, <1>3, <1>4, <1>5, <1>6 DEF Next

-----------------------------------------------------------------------------
(* Where entries come from *)

Has(log, e) == \E k \in DOMAIN log : log[k] = e

\* e is in a log or on the wire.
Known(e) == \/ \E j \in Server : Has(logs[j], e)
            \/ \E c \in aeCalls : Has(c.entries, e)

\* Every call goes back to one before the step, which was accepted by now if it
\* has a success reply, or is sent by a leader, in its term and off its log.
CallsFlow ==
    \A c \in aeCalls' :
        \/ \E d \in aeCalls :
             /\ c.from = d.from /\ c.to = d.to
             /\ c.term = d.term /\ c.entries = d.entries
             /\ c.phase = "reply" /\ c.success =>
                  \/ d.phase = "reply" /\ d.success
                  \/ appendEntriesAccept(d)
        \/ /\ c.phase = "request" /\ c.from \in Server /\ c.to # c.from
           /\ status[c.from] = "Leader" /\ c.term = currentTerm[c.from]
           /\ \A e : Has(c.entries, e) => Has(logs[c.from], e)

\* No log gets an entry that was not there before.
LogsFlow == \A j \in Server : \A e : Has(logs'[j], e) => Known(e)

LEMMA FlowFewer == ASSUME aeCalls' \subseteq aeCalls PROVE CallsFlow
BY DEF CallsFlow

LEMMA FlowAnswered ==
    ASSUME LogInv, NEW c \in aeCalls, NEW t, NEW success, NEW update,
           aeCalls' = aeReply(c, t, success, update),
           success => appendEntriesAccept(c)
    PROVE  CallsFlow
<1> DEFINE r == [c EXCEPT !.phase = "reply", !.rterm = t, !.success = success,
                          !.updateNextIndex = update]
<1>1. /\ r.from = c.from /\ r.to = c.to /\ r.term = c.term
      /\ r.entries = c.entries /\ r.success = success
  <2>1. c \in AECall
    BY aeFields
  <2> QED BY <2>1, ZenonT(60) DEF AECall
<1>2. \A a \in aeCalls' : a \in aeCalls \/ a = r
  BY DEF aeReply, Answered
<1> HIDE DEF r
<1> QED BY <1>1, <1>2 DEF CallsFlow

LEMMA FlowOrphaned ==
    ASSUME LogInv, NEW i \in Server, NEW closed, Die(i, closed)
    PROVE  CallsFlow
<1> DEFINE orphan(d) == [d EXCEPT !.live = FALSE]
<1>1. \A d \in aeCalls : /\ orphan(d).from = d.from /\ orphan(d).to = d.to
                         /\ orphan(d).term = d.term /\ orphan(d).entries = d.entries
                         /\ orphan(d).phase = d.phase /\ orphan(d).success = d.success
  <2> SUFFICES ASSUME NEW d \in aeCalls
               PROVE  /\ orphan(d).from = d.from /\ orphan(d).to = d.to
                      /\ orphan(d).term = d.term /\ orphan(d).entries = d.entries
                      /\ orphan(d).phase = d.phase /\ orphan(d).success = d.success
    OBVIOUS
  <2>1. d \in AECall
    BY aeFields
  <2> QED BY <2>1, ZenonT(60) DEF AECall
<1>2. \A c \in aeCalls' : c \in aeCalls \/ \E d \in aeCalls : c = orphan(d)
  BY DEF Die, Orphaned
<1> HIDE DEF orphan
<1> QED BY <1>1, <1>2 DEF CallsFlow

LEMMA HasSuffix ==
    ASSUME NEW log \in Seq(Entry), NEW off \in 0 .. Len(log), NEW e,
           Has(SubSeq(log, off + 1, Len(log)), e)
    PROVE  Has(log, e)
<1> DEFINE rest == SubSeq(log, off + 1, Len(log))
<1>1. /\ rest \in Seq(Entry) /\ Len(rest) = Len(log) - off
      /\ \A k \in 1 .. Len(log) - off : rest[k] = log[off + k]
  BY Suffix
<1>2. PICK k \in DOMAIN rest : rest[k] = e
  BY DEF Has
<1> HIDE DEF rest
<1>3. k \in 1 .. Len(log) - off /\ off + k \in DOMAIN log
  BY <1>1, <1>2
<1> QED BY <1>1, <1>2, <1>3 DEF Has

LEMMA FlowHeartBeat ==
    ASSUME LogInv, NEW i \in Server, doHeartBeat(i)
    PROVE  CallsFlow
<1> SUFFICES ASSUME NEW c \in aeCalls' \ aeCalls
             PROVE  /\ c.phase = "request" /\ c.from \in Server /\ c.to # c.from
                    /\ status[c.from] = "Leader" /\ c.term = currentTerm[c.from]
                    /\ \A e : Has(c.entries, e) => Has(logs[c.from], e)
  BY DEF CallsFlow
<1> DEFINE r == Len(appendNums[i]) + 1
           peers == Server \ {i}
           behind == {j \in peers : nextIndex[i][j] <= lastSnapshotIncludeIndex[i]}
<1>1. /\ status[i] = "Leader"
      /\ \A j \in peers : nextIndex[i][j] \in 1 .. getLastLogIndex(i) + 1
      /\ aeCalls' = aeCalls \cup {aeRequest(i, j, r) : j \in peers \ behind}
  BY DEF doHeartBeat
<1>2. PICK j \in peers \ behind : c = aeRequest(i, j, r)
  BY <1>1
<1> HIDE DEF r
<1> DEFINE prev == nextIndex[i][j] - 1
           off == prev - lastSnapshotIncludeIndex[i]
<1>3. /\ c.from = i /\ c.to = j /\ c.term = currentTerm[i] /\ c.phase = "request"
      /\ c.entries = SubSeq(logs[i], off + 1, Len(logs[i]))
  BY <1>2 DEF aeRequest, getSlicesIndexFromLogIndex
<1>4. off \in 0 .. Len(logs[i]) /\ logs[i] \in Seq(Entry)
  <2>1. /\ nextIndex[i][j] \in Nat /\ lastSnapshotIncludeIndex[i] \in Nat
        /\ Len(logs[i]) \in Nat /\ logs[i] \in Seq(Entry)
        /\ getLastLogIndex(i) = lastSnapshotIncludeIndex[i] + Len(logs[i])
    <3>1. nextIndex[i][j] \in Nat
      BY <1>2 DEF LogInv, TypeOK
    <3>2. /\ lastSnapshotIncludeIndex[i] \in Nat /\ logs[i] \in Seq(Entry)
          /\ getLastLogIndex(i) = lastSnapshotIncludeIndex[i] + Len(logs[i])
      BY LastIndex, ServerTypes
    <3> QED BY <3>1, <3>2
  <2>2. nextIndex[i][j] <= getLastLogIndex(i) + 1
        /\ nextIndex[i][j] > lastSnapshotIncludeIndex[i]
    BY <1>1, <1>2, <2>1
  <2> QED BY <2>1, <2>2
<1> HIDE DEF off
<1>5. \A e : Has(c.entries, e) => Has(logs[i], e)
  BY <1>3, <1>4, HasSuffix
<1> QED BY <1>1, <1>2, <1>3, <1>5

LEMMA CallsFlowStep ==
    ASSUME LogInv, [Next]_vars
    PROVE  CallsFlow
<1>1. CASE aeCalls' = aeCalls
  BY <1>1, FlowFewer
<1>2. CASE RequestVoteNext
  <2>1. aeCalls' = aeCalls
    BY <1>2 DEF RequestVoteNext, requestVoteStale, requestVoteRefuse,
                requestVoteGrant, sendRequestVoteHigherTerm, sendRequestVoteCount,
                sendRequestVoteWin, sendRequestVoteEnd, rvUnchanged
  <2> QED BY <1>1, <2>1
<1>3. CASE AppendEntriesNext
  <2>1. PICK c \in aeCalls :
          \/ appendEntriesStale(c) \/ appendEntriesReject(c) \/ appendEntriesAccept(c)
          \/ sendAppendEntriesHigherTerm(c) \/ sendAppendEntriesBacktrack(c)
          \/ sendAppendEntriesSuccess(c) \/ sendAppendEntriesEnd(c)
    BY <1>3 DEF AppendEntriesNext
  <2>2. CASE appendEntriesStale(c) \/ appendEntriesReject(c) \/ appendEntriesAccept(c)
    <3>1. PICK t, success, update : /\ aeCalls' = aeReply(c, t, success, update)
                                    /\ success => appendEntriesAccept(c)
      BY <2>2 DEF appendEntriesStale, appendEntriesReject, appendEntriesAccept
    <3> QED BY <3>1, FlowAnswered
  <2>3. CASE \/ sendAppendEntriesHigherTerm(c) \/ sendAppendEntriesBacktrack(c)
             \/ sendAppendEntriesSuccess(c) \/ sendAppendEntriesEnd(c)
    <3>1. aeCalls' \subseteq aeCalls
      BY <2>3 DEF sendAppendEntriesHigherTerm, sendAppendEntriesBacktrack,
                  sendAppendEntriesSuccess, sendAppendEntriesEnd
    <3> QED BY <3>1, FlowFewer
  <2> QED BY <2>1, <2>2, <2>3
<1>4. CASE InstallSnapshotNext
  <2>1. PICK c \in isCalls :
          \/ leaderSendSnapshot(c) \/ installSnapshotStale(c)
          \/ installSnapshotOld(c) \/ installSnapshotApply(c)
          \/ sendSnapshotHigherTerm(c) \/ sendSnapshotSuccess(c)
          \/ sendSnapshotEnd(c) \/ CrashInInstallSnapshot(c)
    BY <1>4 DEF InstallSnapshotNext
  <2>2. CASE CrashInInstallSnapshot(c)
    <3>1. c.to \in Server /\ Die(c.to, {c})
      BY <2>2, isFields DEF CrashInInstallSnapshot
    <3> QED BY <3>1, FlowOrphaned
  <2>3. CASE ~CrashInInstallSnapshot(c)
    <3>1. aeCalls' = aeCalls
      BY <2>1, <2>3 DEF leaderSendSnapshot, installSnapshotStale, installSnapshotOld,
                        installSnapshotApply, sendSnapshotHigherTerm,
                        sendSnapshotSuccess, sendSnapshotEnd
    <3> QED BY <1>1, <3>1
  <2> QED BY <2>2, <2>3
<1>5. CASE ServerNext
  <2>1. PICK i \in Server :
          \/ doElection(i) \/ doHeartBeat(i) \/ applierTicker(i) \/ Restart(i)
          \/ \E command \in Command : start(i, command)
          \/ \E index \in 1 .. MaxIndex : snapshot(i, index) \/ CrashInSnapshot(i, index)
    BY <1>5 DEF ServerNext
  <2>2. CASE doHeartBeat(i)
    BY <2>2, FlowHeartBeat
  <2>3. CASE \/ doElection(i) \/ applierTicker(i)
             \/ \E command \in Command : start(i, command)
             \/ \E index \in 1 .. MaxIndex : snapshot(i, index)
    <3>1. aeCalls' = aeCalls
      BY <2>3 DEF doElection, applierTicker, start, snapshot, callVars
    <3> QED BY <1>1, <3>1
  <2>4. CASE Restart(i) \/ \E index \in 1 .. MaxIndex : CrashInSnapshot(i, index)
    <3>1. PICK closed : Die(i, closed)
      BY <2>4 DEF Restart, CrashInSnapshot
    <3> QED BY <3>1, FlowOrphaned
  <2> QED BY <2>1, <2>2, <2>3, <2>4
<1>6. CASE UNCHANGED vars
  <2>1. aeCalls' = aeCalls
    BY <1>6 DEF vars, callVars
  <2> QED BY <1>1, <2>1
<1> QED BY <1>2, <1>3, <1>4, <1>5, <1>6 DEF Next

LEMMA HasMerged ==
    ASSUME LogInv, NEW i \in Server, NEW entries \in Seq(Entry),
           NEW prev \in lastSnapshotIncludeIndex[i] .. getLastLogIndex(i),
           NEW e, Has(mergedLog(i, prev, entries), e)
    PROVE  Has(logs[i], e) \/ Has(entries, e)
<1> DEFINE off == prev - lastSnapshotIncludeIndex[i]
           n == max(Len(logs[i]), off + Len(entries))
           log == mergedLog(i, prev, entries)
<1>1. off \in 0 .. Len(logs[i]) /\ logs[i] \in Seq(Entry)
  BY LastIndex, ServerTypes
<1>2. log = [k \in 1 .. n |->
               IF k - off \notin 1 .. Len(entries) THEN logs[i][k]
               ELSE IF k <= Len(logs[i]) /\ logs[i][k].term = entries[k - off].term
                    THEN logs[i][k] ELSE entries[k - off]]
  BY DEF mergedLog, getSlicesIndexFromLogIndex
<1>3. n = Len(logs[i]) \/ n = off + Len(entries)
  BY DEF max
<1>4. PICK k \in DOMAIN log : log[k] = e
  BY DEF Has
<1> HIDE DEF off, n, log
<1>5. k \in 1 .. n
  BY <1>2, <1>4
<1>6. CASE k - off \in 1 .. Len(entries)
  <2>1. k <= Len(logs[i]) => k \in DOMAIN logs[i]
    BY <1>1, <1>3, <1>5
  <2>2. k - off \in DOMAIN entries
    BY <1>6
  <2>3. e = entries[k - off] \/ (e = logs[i][k] /\ k <= Len(logs[i]))
    BY <1>2, <1>4, <1>5, <1>6
  <2> QED BY <2>1, <2>2, <2>3 DEF Has
<1>7. CASE k - off \notin 1 .. Len(entries)
  <2>1. k \in DOMAIN logs[i]
    BY <1>1, <1>3, <1>5, <1>7
  <2>2. e = logs[i][k]
    BY <1>2, <1>4, <1>5, <1>7
  <2> QED BY <2>1, <2>2 DEF Has
<1> QED BY <1>6, <1>7

LEMMA HasErased ==
    ASSUME LogInv, NEW i \in Server, NEW index \in Nat,
           index > lastSnapshotIncludeIndex[i],
           NEW e, Has(erasedLog(i, index), e)
    PROVE  Has(logs[i], e)
<1>1. CASE getLastLogIndex(i) > index
  <2> DEFINE off == index - lastSnapshotIncludeIndex[i]
  <2>1. erasedLog(i, index) = SubSeq(logs[i], off + 1, Len(logs[i]))
    BY <1>1 DEF erasedLog, getSlicesIndexFromLogIndex
  <2>2. off \in 0 .. Len(logs[i]) /\ logs[i] \in Seq(Entry)
    BY <1>1, LastIndex, ServerTypes
  <2> HIDE DEF off
  <2> QED BY <2>1, <2>2, HasSuffix
<1>2. CASE ~(getLastLogIndex(i) > index)
  <2>1. erasedLog(i, index) = << >>
    BY <1>2 DEF erasedLog
  <2> QED BY <2>1 DEF Has
<1> QED BY <1>1, <1>2

LEMMA FlowCut ==
    ASSUME LogInv, NEW j \in Server, NEW index \in Nat,
           index > lastSnapshotIncludeIndex[j],
           logs' = [logs EXCEPT ![j] = erasedLog(j, index)]
    PROVE  LogsFlow
<1>1. /\ logs'[j] = erasedLog(j, index)
      /\ \A k \in Server \ {j} : logs'[k] = logs[k]
  BY DEF LogInv, TypeOK
<1> QED BY <1>1, HasErased DEF LogsFlow, Known

\* Only start() makes an entry.
LEMMA LogsFlowStep ==
    ASSUME LogInv, DiskHasLog, [Next]_vars
    PROVE  LogsFlow \/ \E i \in Server, command \in Command : start(i, command)
<1>1. CASE logs' = logs
  BY <1>1 DEF LogsFlow, Known
<1>2. CASE RequestVoteNext
  <2>1. logs' = logs
    BY <1>2 DEF RequestVoteNext, requestVoteStale, requestVoteRefuse,
                requestVoteGrant, sendRequestVoteHigherTerm, sendRequestVoteCount,
                sendRequestVoteWin, sendRequestVoteEnd, rvUnchanged, logVars
  <2> QED BY <1>1, <2>1
<1>3. CASE AppendEntriesNext
  <2>1. PICK c \in aeCalls :
          \/ appendEntriesStale(c) \/ appendEntriesReject(c) \/ appendEntriesAccept(c)
          \/ sendAppendEntriesHigherTerm(c) \/ sendAppendEntriesBacktrack(c)
          \/ sendAppendEntriesSuccess(c) \/ sendAppendEntriesEnd(c)
    BY <1>3 DEF AppendEntriesNext
  <2>2. CASE appendEntriesAccept(c)
    <3>1. /\ logs' = [logs EXCEPT ![c.to] = mergedLog(c.to, c.prevLogIndex, c.entries)]
          /\ c.prevLogIndex \in lastSnapshotIncludeIndex[c.to] .. getLastLogIndex(c.to)
      BY <2>2 DEF appendEntriesAccept, matchLog
    <3>2. c.to \in Server /\ c.entries \in Seq(Entry)
      BY aeFields
    <3>3. /\ logs'[c.to] = mergedLog(c.to, c.prevLogIndex, c.entries)
          /\ \A k \in Server \ {c.to} : logs'[k] = logs[k]
      BY <3>1, <3>2 DEF LogInv, TypeOK
    <3>4. \A e : Has(logs'[c.to], e) => Has(logs[c.to], e) \/ Has(c.entries, e)
      BY <3>1, <3>2, <3>3, HasMerged
    <3>5. LogsFlow
      BY <3>2, <3>3, <3>4 DEF LogsFlow, Known
    <3> QED BY <3>5
  <2>3. CASE ~appendEntriesAccept(c)
    <3>1. logs' = logs
      BY <2>1, <2>3 DEF appendEntriesStale, appendEntriesReject,
                        sendAppendEntriesHigherTerm, sendAppendEntriesBacktrack,
                        sendAppendEntriesSuccess, sendAppendEntriesEnd, logVars
    <3> QED BY <1>1, <3>1
  <2> QED BY <2>2, <2>3
<1>4. CASE InstallSnapshotNext
  <2>1. PICK c \in isCalls :
          \/ leaderSendSnapshot(c) \/ installSnapshotStale(c)
          \/ installSnapshotOld(c) \/ installSnapshotApply(c)
          \/ sendSnapshotHigherTerm(c) \/ sendSnapshotSuccess(c)
          \/ sendSnapshotEnd(c) \/ CrashInInstallSnapshot(c)
    BY <1>4 DEF InstallSnapshotNext
  <2>2. CASE installSnapshotApply(c) \/ CrashInInstallSnapshot(c)
    <3>1. /\ c.lastIndex > lastSnapshotIncludeIndex[c.to]
          /\ logs' = [logs EXCEPT ![c.to] = erasedLog(c.to, c.lastIndex)]
      BY <2>2 DEF installSnapshotApply, CrashInInstallSnapshot, InstallInMemory
    <3>2. c.to \in Server /\ c.lastIndex \in Nat
      BY isFields
    <3> QED BY <3>1, <3>2, FlowCut
  <2>3. CASE \/ leaderSendSnapshot(c) \/ installSnapshotStale(c)
             \/ installSnapshotOld(c) \/ sendSnapshotHigherTerm(c)
             \/ sendSnapshotSuccess(c) \/ sendSnapshotEnd(c)
    <3>1. logs' = logs
      BY <2>3 DEF leaderSendSnapshot, installSnapshotStale, installSnapshotOld,
                  sendSnapshotHigherTerm, sendSnapshotSuccess, sendSnapshotEnd, logVars
    <3> QED BY <1>1, <3>1
  <2> QED BY <2>1, <2>2, <2>3
<1>5. CASE ServerNext
  <2>1. PICK i \in Server :
          \/ doElection(i) \/ doHeartBeat(i) \/ applierTicker(i) \/ Restart(i)
          \/ \E command \in Command : start(i, command)
          \/ \E index \in 1 .. MaxIndex : snapshot(i, index) \/ CrashInSnapshot(i, index)
    BY <1>5 DEF ServerNext
  <2>2. CASE doElection(i) \/ doHeartBeat(i) \/ applierTicker(i)
    <3>1. logs' = logs
      BY <2>2 DEF doElection, doHeartBeat, applierTicker, logVars
    <3> QED BY <1>1, <3>1
  <2>3. CASE Restart(i)
    <3>1. logs' = [logs EXCEPT ![i] = raftState[i].logs]
      BY <2>3 DEF Restart, Boot
    <3>2. logs' = logs
      BY <3>1 DEF DiskHasLog, LogInv, TypeOK
    <3> QED BY <1>1, <3>2
  <2>4. CASE \E index \in 1 .. MaxIndex : snapshot(i, index) \/ CrashInSnapshot(i, index)
    <3>1. PICK index \in 1 .. MaxIndex :
            /\ lastSnapshotIncludeIndex[i] < index
            /\ logs' = [logs EXCEPT ![i] = erasedLog(i, index)]
      BY <2>4 DEF snapshot, CrashInSnapshot, SnapshotInMemory
    <3>2. index \in Nat /\ lastSnapshotIncludeIndex[i] \in Nat
      BY ServerTypes
    <3> QED BY <3>1, <3>2, FlowCut
  <2> QED BY <2>1, <2>2, <2>3, <2>4
<1>6. CASE UNCHANGED vars
  <2>1. logs' = logs
    BY <1>6 DEF vars, logVars
  <2> QED BY <1>1, <2>1
<1> QED BY <1>2, <1>3, <1>4, <1>5, <1>6 DEF Next

-----------------------------------------------------------------------------
(* The invariant *)

\* The winner of the term of an entry has started it: while it still leads that
\* term its log reaches the entry.
EntriesInv ==
    \A e \in Entry : Known(e) =>
        /\ leaders[e.term] # {}
        /\ \A i \in leaders[e.term] :
             status[i] = "Leader" /\ currentTerm[i] = e.term
               => e.index <= getLastLogIndex(i)

Distinct ==
    \A e, f \in Entry :
        /\ Known(e) /\ Known(f)
        /\ e.index = f.index /\ e.term = f.term
        => e.command = f.command

LeaderInv ==
    /\ DiskLogInv /\ ElectionInv
    /\ WonInv /\ LeadsInv /\ EntriesInv /\ Distinct

\* A term is won when nobody has won it.
LEMMA FreshWin ==
    ASSUME ElectionInv, ElectionSafety', WonInv,
           NEW c \in rvCalls, sendRequestVoteWin(c)
    PROVE  /\ c.from \in Server /\ currentTerm[c.from] \in Term
           /\ leaders[currentTerm[c.from]] = {}
           /\ leaders' = [leaders EXCEPT ![currentTerm[c.from]] = {c.from}]
<1>1. /\ GrantedNow(c) /\ Elected(c)
      /\ leaders' = [leaders EXCEPT ![currentTerm[c.from]] = @ \cup {c.from}]
  BY DEF sendRequestVoteWin
<1>2. c.from \in Server /\ c.term \in Term /\ c.term = currentTerm[c.from]
  BY <1>1, RoomForVote
<1>3. leaders \in [Term -> SUBSET Server]
  BY DEF ElectionInv, TypeOK
<1>4. leaders'[c.term] = leaders[c.term] \cup {c.from}
  BY <1>1, <1>2, <1>3
<1>5. c.from \notin leaders[c.term]
  BY <1>1, WonOnce
<1>6. leaders[c.term] = {}
  BY <1>2, <1>4, <1>5 DEF ElectionSafety
<1> QED BY <1>1, <1>2, <1>6

\* Only a win changes who won a term.
LEMMA LeadersChange ==
    ASSUME [Next]_vars
    PROVE  \/ leaders' = leaders
           \/ \E c \in rvCalls : sendRequestVoteWin(c)
<1>1. CASE RequestVoteNext
  <2>1. PICK c \in rvCalls :
          \/ requestVoteStale(c) \/ requestVoteRefuse(c) \/ requestVoteGrant(c)
          \/ sendRequestVoteHigherTerm(c) \/ sendRequestVoteCount(c)
          \/ sendRequestVoteWin(c) \/ sendRequestVoteEnd(c)
    BY <1>1 DEF RequestVoteNext
  <2>2. CASE \/ requestVoteStale(c) \/ requestVoteRefuse(c) \/ requestVoteGrant(c)
             \/ sendRequestVoteHigherTerm(c)
    BY <2>2 DEF requestVoteStale, requestVoteRefuse, requestVoteGrant,
                sendRequestVoteHigherTerm, rvUnchanged
  <2>3. CASE sendRequestVoteCount(c) \/ sendRequestVoteEnd(c)
    BY <2>3 DEF sendRequestVoteCount, sendRequestVoteEnd, histVars
  <2> QED BY <2>1, <2>2, <2>3
<1>2. CASE AppendEntriesNext
  <2>1. PICK c \in aeCalls :
          \/ appendEntriesStale(c) \/ appendEntriesReject(c)
          \/ appendEntriesAccept(c) \/ sendAppendEntriesHigherTerm(c)
          \/ sendAppendEntriesBacktrack(c) \/ sendAppendEntriesSuccess(c)
          \/ sendAppendEntriesEnd(c)
    BY <1>2 DEF AppendEntriesNext
  <2>2. CASE appendEntriesStale(c)
    BY <2>2 DEF appendEntriesStale, histVars
  <2>3. CASE appendEntriesReject(c)
    BY <2>3 DEF appendEntriesReject, histVars
  <2>4. CASE appendEntriesAccept(c)
    BY <2>4 DEF appendEntriesAccept, histVars
  <2>5. CASE sendAppendEntriesHigherTerm(c)
    BY <2>5 DEF sendAppendEntriesHigherTerm, histVars
  <2>6. CASE sendAppendEntriesBacktrack(c)
    BY <2>6 DEF sendAppendEntriesBacktrack, histVars
  <2>7. CASE sendAppendEntriesSuccess(c)
    BY <2>7 DEF sendAppendEntriesSuccess, histVars
  <2>8. CASE sendAppendEntriesEnd(c)
    BY <2>8 DEF sendAppendEntriesEnd, histVars
  <2> QED BY <2>1, <2>2, <2>3, <2>4, <2>5, <2>6, <2>7, <2>8
<1>3. CASE InstallSnapshotNext
  <2>1. PICK c \in isCalls :
          \/ leaderSendSnapshot(c) \/ installSnapshotStale(c)
          \/ installSnapshotOld(c) \/ installSnapshotApply(c)
          \/ sendSnapshotHigherTerm(c) \/ sendSnapshotSuccess(c)
          \/ sendSnapshotEnd(c) \/ CrashInInstallSnapshot(c)
    BY <1>3 DEF InstallSnapshotNext
  <2>2. CASE \/ leaderSendSnapshot(c) \/ installSnapshotStale(c)
             \/ installSnapshotOld(c) \/ installSnapshotApply(c)
    BY <2>2 DEF leaderSendSnapshot, installSnapshotStale, installSnapshotOld,
                installSnapshotApply, histVars
  <2>3. CASE \/ sendSnapshotHigherTerm(c) \/ sendSnapshotSuccess(c)
             \/ sendSnapshotEnd(c)
    BY <2>3 DEF sendSnapshotHigherTerm, sendSnapshotSuccess, sendSnapshotEnd,
                histVars
  <2>4. CASE CrashInInstallSnapshot(c)
    BY <2>4 DEF CrashInInstallSnapshot, Die
  <2> QED BY <2>1, <2>2, <2>3, <2>4
<1>4. CASE ServerNext
  <2>1. PICK i \in Server :
          \/ doElection(i) \/ doHeartBeat(i) \/ applierTicker(i) \/ Restart(i)
          \/ \E command \in Command : start(i, command)
          \/ \E index \in 1 .. MaxIndex : snapshot(i, index) \/ CrashInSnapshot(i, index)
    BY <1>4 DEF ServerNext
  <2>2. CASE doElection(i) \/ applierTicker(i)
    BY <2>2 DEF doElection, applierTicker, histVars
  <2>3. CASE doHeartBeat(i)
    BY <2>3 DEF doHeartBeat, histVars
  <2>4. CASE Restart(i)
    BY <2>4 DEF Restart, Die
  <2>5. CASE \E command \in Command : start(i, command)
    BY <2>5 DEF start, histVars
  <2>6. CASE \E index \in 1 .. MaxIndex : snapshot(i, index) \/ CrashInSnapshot(i, index)
    BY <2>6 DEF snapshot, CrashInSnapshot, Die, histVars
  <2> QED BY <2>1, <2>2, <2>3, <2>4, <2>5, <2>6
<1>5. CASE UNCHANGED vars
  BY <1>5 DEF vars, histVars
<1> QED BY <1>1, <1>2, <1>3, <1>4, <1>5 DEF Next

\* Who won before the step has still won.
LEMMA WinnersStay ==
    ASSUME TypeOK, [Next]_vars, NEW t \in Term
    PROVE  leaders[t] \subseteq leaders'[t]
<1>1. leaders \in [Term -> SUBSET Server]
  BY DEF TypeOK
<1>2. ASSUME NEW c \in rvCalls, sendRequestVoteWin(c)
      PROVE  leaders[t] \subseteq leaders'[t]
  <2>1. PICK u, i : leaders' = [leaders EXCEPT ![u] = @ \cup {i}]
    BY <1>2 DEF sendRequestVoteWin
  <2> QED BY <1>1, <2>1
<1> QED BY <1>2, LeadersChange

LEMMA LeadsInvStep ==
    ASSUME LogInv, LogInv', LeadsInv, [Next]_vars
    PROVE  LeadsInv'
<1>1. TypeOK /\ TypeOK'
  BY DEF LogInv
<1>2. ASSUME NEW k \in Server, status'[k] = "Leader"
      PROVE  k \in leaders'[currentTerm'[k]]
  <2>1. currentTerm'[k] \in Term /\ currentTerm[k] \in Term
    BY <1>1 DEF TypeOK
  <2>2. CASE status[k] = "Leader" /\ currentTerm'[k] = currentTerm[k]
    BY <1>1, <2>1, <2>2, WinnersStay DEF LeadsInv
  <2>3. CASE \E c \in rvCalls : sendRequestVoteWin(c) /\ c.from = k
    <3>1. /\ leaders' = [leaders EXCEPT ![currentTerm[k]] = @ \cup {k}]
          /\ currentTerm' = currentTerm
      BY <2>3 DEF sendRequestVoteWin
    <3> QED BY <1>1, <2>1, <3>1 DEF TypeOK
  <2> QED BY <1>2, <2>2, <2>3, LeadsStep DEF LeadsFollow
<1>3. ASSUME NEW c \in aeCalls'
      PROVE  c.from \in leaders'[c.term] /\ c.from # c.to
  <2>1. c.term \in Term
    BY <1>1 DEF TypeOK, AECall
  <2>2. c.from \in leaders[c.term] /\ c.from # c.to
    BY CallsFlowStep DEF CallsFlow, LeadsInv
  <2> QED BY <1>1, <2>1, <2>2, WinnersStay
<1> QED BY <1>2, <1>3 DEF LeadsInv

\* A step that makes no entry.
LEMMA KnownBefore ==
    ASSUME CallsFlow, LogsFlow, NEW e, Known(e)'
    PROVE  Known(e)
<1>1. CASE \E j \in Server : Has(logs'[j], e)
  BY <1>1 DEF LogsFlow
<1>2. CASE \E c \in aeCalls' : Has(c.entries, e)
  BY <1>2 DEF CallsFlow, Known
<1> QED BY <1>1, <1>2 DEF Known, Has

\* start() makes one entry, after everything in the log of a leader.
LEMMA KnownAfterStart ==
    ASSUME LogInv, CallsFlow, NEW i \in Server, NEW command \in Command,
           start(i, command), NEW e, Known(e)'
    PROVE  \/ Known(e)
           \/ e = [index |-> getLastLogIndex(i) + 1, term |-> currentTerm[i],
                   command |-> command]
<1> DEFINE n == [index |-> getLastLogIndex(i) + 1, term |-> currentTerm[i],
                 command |-> command]
<1>1. logs' = [logs EXCEPT ![i] = Append(@, n)]
  BY DEF start, getNewCommandIndex
<1>2. logs \in [Server -> Seq(Entry)] /\ n \in Entry
  <2>1. getLastLogIndex(i) + 1 \in Nat /\ currentTerm[i] \in Term
    BY LastIndex, ServerTypes
  <2> QED BY <2>1 DEF LogInv, TypeOK, Entry
<1> HIDE DEF n
<1>3. /\ logs'[i] = Append(logs[i], n)
      /\ \A k \in Server \ {i} : logs'[k] = logs[k]
  BY <1>1, <1>2
<1>4. Has(logs'[i], e) => Has(logs[i], e) \/ e = n
  BY <1>2, <1>3, AppendProperties DEF Has
<1>5. CASE \E j \in Server : Has(logs'[j], e)
  BY <1>3, <1>4, <1>5 DEF Known, n
<1>6. CASE \E c \in aeCalls' : Has(c.entries, e)
  BY <1>6 DEF CallsFlow, Known
<1> QED BY <1>5, <1>6 DEF Known, Has

\* An entry that is known stays within the log of a leader of its term.
LEMMA OldEntry ==
    ASSUME DiskLogInv, TypeOK', ElectionInv, ElectionSafety', WonInv, LeadsInv,
           EntriesInv, [Next]_vars, NEW e \in Entry, Known(e)
    PROVE  /\ leaders'[e.term] # {}
           /\ \A i \in leaders'[e.term] :
                status'[i] = "Leader" /\ currentTerm'[i] = e.term
                  => e.index <= getLastLogIndex(i)'
<1>1. LogInv /\ TypeOK /\ LogsGrow /\ LeadsFollow
  BY LogsGrowStep, LeadsStep DEF DiskLogInv, LogInv
<1>2. e.term \in Term /\ e.index \in Nat
  BY DEF Entry
<1>3. leaders[e.term] # {}
  BY DEF EntriesInv
<1>4. leaders'[e.term] # {}
  BY <1>1, <1>2, <1>3, WinnersStay
<1>5. ASSUME NEW i \in leaders'[e.term],
             status'[i] = "Leader", currentTerm'[i] = e.term
      PROVE  e.index <= getLastLogIndex(i)'
  <2>1. i \in Server
    BY <1>2 DEF TypeOK
  <2>2. CASE status[i] = "Leader" /\ currentTerm'[i] = currentTerm[i]
    <3>1. e.index <= getLastLogIndex(i)
      BY <1>5, <2>1, <2>2 DEF LeadsInv, EntriesInv
    <3>2. /\ getLastLogIndex(i) \in Nat /\ getLastLogIndex(i)' \in Nat
          /\ getLastLogIndex(i)' >= getLastLogIndex(i)
      BY <1>1, <2>1 DEF LogsGrow
    <3> QED BY <1>2, <3>1, <3>2
  <2>3. ASSUME NEW c \in rvCalls, sendRequestVoteWin(c), c.from = i
        PROVE  FALSE
    <3>1. leaders[currentTerm[i]] = {}
      BY <2>3, FreshWin
    <3>2. currentTerm'[i] = currentTerm[i]
      BY <2>3 DEF sendRequestVoteWin
    <3> QED BY <1>3, <1>5, <3>1, <3>2
  <2> QED BY <1>1, <1>5, <2>1, <2>2, <2>3 DEF LeadsFollow
<1> QED BY <1>4, <1>5

LEMMA StartStep ==
    ASSUME DiskLogInv, TypeOK', ElectionInv, ElectionSafety, LeadsInv,
           EntriesInv, Distinct, CallsFlow,
           NEW i \in Server, NEW command \in Command, start(i, command),
           \A e \in Entry : Known(e) =>
             /\ leaders'[e.term] # {}
             /\ \A k \in leaders'[e.term] :
                  status'[k] = "Leader" /\ currentTerm'[k] = e.term
                    => e.index <= getLastLogIndex(k)'
    PROVE  EntriesInv' /\ Distinct'
<1> DEFINE n == [index |-> getLastLogIndex(i) + 1, term |-> currentTerm[i],
                 command |-> command]
<1>1. LogInv
  BY DEF DiskLogInv
<1>2. /\ status[i] = "Leader" /\ leaders' = leaders
      /\ logs' = [logs EXCEPT ![i] = Append(@, n)]
  BY DEF start, getNewCommandIndex, histVars
<1>3. /\ getLastLogIndex(i) \in Nat /\ currentTerm[i] \in Term
      /\ n \in Entry /\ logs[i] \in Seq(Entry)
  <2>1. getLastLogIndex(i) \in Nat /\ currentTerm[i] \in Term /\ logs[i] \in Seq(Entry)
    BY <1>1, LastIndex, ServerTypes
  <2> QED BY <2>1 DEF Entry
<1>4. n.index = getLastLogIndex(i) + 1 /\ n.term = currentTerm[i]
  OBVIOUS
<1>5. \A e : Known(e)' => Known(e) \/ e = n
  BY <1>1, KnownAfterStart
<1> HIDE DEF n
<1>6. getLastLogIndex(i)' = n.index
  <2>1. logs'[i] = Append(logs[i], n)
    BY <1>1, <1>2 DEF LogInv, TypeOK
  <2>2. logs'[i] # << >> /\ logs'[i][Len(logs'[i])] = n
    BY <1>3, <2>1, AppendProperties
  <2> QED BY <2>2 DEF getLastLogIndex
<1>7. i \in leaders[n.term] /\ \A k \in leaders[n.term] : k = i
  <2>1. i \in leaders[currentTerm[i]]
    BY <1>2 DEF LeadsInv
  <2> QED BY <1>3, <1>4, <2>1 DEF ElectionSafety
<1>8. \A e \in Entry : Known(e) /\ e.term = n.term => e.index # n.index
  <2> SUFFICES ASSUME NEW e \in Entry, Known(e), e.term = n.term
               PROVE  e.index # n.index
    OBVIOUS
  <2>1. e.index <= getLastLogIndex(i)
    BY <1>2, <1>4, <1>7 DEF EntriesInv
  <2>2. e.index \in Nat
    BY DEF Entry
  <2> QED BY <1>3, <1>4, <2>1, <2>2
<1>9. Distinct'
  <2> SUFFICES ASSUME NEW e \in Entry, NEW f \in Entry, Known(e)', Known(f)',
                      e.index = f.index, e.term = f.term
               PROVE  e.command = f.command
    BY DEF Distinct
  <2> QED BY <1>5, <1>8 DEF Distinct
<1>10. EntriesInv'
  <2> SUFFICES ASSUME NEW e \in Entry, Known(e)'
               PROVE  /\ leaders'[e.term] # {}
                      /\ \A k \in leaders'[e.term] :
                           status'[k] = "Leader" /\ currentTerm'[k] = e.term
                             => e.index <= getLastLogIndex(k)'
    BY DEF EntriesInv, getLastLogIndex
  <2>1. CASE Known(e)
    BY <2>1
  <2>2. CASE e = n
    <3>1. n.index <= getLastLogIndex(i)'
      BY <1>3, <1>4, <1>6
    <3> QED BY <1>2, <1>7, <2>2, <3>1
  <2> QED BY <1>5, <2>1, <2>2
<1> QED BY <1>9, <1>10

LEMMA LeaderStep == LeaderInv /\ TypeOK' /\ [Next]_vars => LeaderInv'
<1> SUFFICES ASSUME LeaderInv, TypeOK', [Next]_vars PROVE LeaderInv'
  OBVIOUS
<1>1. /\ DiskLogInv /\ ElectionInv /\ WonInv /\ LeadsInv /\ EntriesInv /\ Distinct
      /\ LogInv /\ DiskHasLog /\ ElectionSafety
  BY OneWinner DEF LeaderInv, DiskLogInv
<1>2. DiskLogInv' /\ LogInv' /\ ElectionInv'
  BY <1>1, DiskLogStep, LogStep, ElectionStepInv
<1>3. WonInv' /\ LeadsInv'
  BY <1>1, <1>2, WonStep, LeadsInvStep
<1>4. ElectionSafety'
  BY <1>2, OneWinner, PTL
<1>5. CallsFlow
  BY <1>1, CallsFlowStep
<1>6. \A e \in Entry : Known(e) =>
        /\ leaders'[e.term] # {}
        /\ \A k \in leaders'[e.term] :
             status'[k] = "Leader" /\ currentTerm'[k] = e.term
               => e.index <= getLastLogIndex(k)'
  BY <1>1, <1>4, OldEntry
<1>7. CASE LogsFlow
  <2>1. \A e : Known(e)' => Known(e)
    BY <1>5, <1>7, KnownBefore
  <2>2. Distinct'
    BY <1>1, <2>1 DEF Distinct
  <2>3. EntriesInv'
    BY <1>6, <2>1 DEF EntriesInv, getLastLogIndex
  <2> QED BY <1>2, <1>3, <2>2, <2>3 DEF LeaderInv
<1>8. ASSUME NEW i \in Server, NEW command \in Command, start(i, command)
      PROVE  LeaderInv'
  <2>1. EntriesInv' /\ Distinct'
    BY <1>1, <1>5, <1>6, <1>8, StartStep
  <2> QED BY <1>2, <1>3, <2>1 DEF LeaderInv
<1> QED BY <1>1, <1>7, <1>8, LogsFlowStep

LEMMA LeaderInit == Init => LeaderInv
<1> SUFFICES ASSUME Init PROVE LeaderInv
  OBVIOUS
<1>1. DiskLogInv /\ ElectionInv /\ WonInv
  BY DiskLogInit, ElectionInit, WonInit
<1>2. LeadsInv
  BY DEF Init, LeadsInv
<1>3. \A e : ~Known(e)
  BY DEF Init, Known, Has
<1> QED BY <1>1, <1>2, <1>3 DEF LeaderInv, EntriesInv, Distinct

\* Who leads has won its term, and what is in a log was started by the winner
\* of its term, in any behaviour of the node.
THEOREM LeaderInvariant == Spec => []LeaderInv
<1>1. LeaderInv /\ TypeOK' /\ [Next]_vars => LeaderInv'
  BY LeaderStep
<1> QED BY <1>1, LeaderInit, TypeCorrect, PTL DEF Spec

\* The assert of raft.cpp:402-405 holds for any number of servers: the votes
\* that are still out when a term is won are too few to win it again.
THEOREM WinsOnce == Spec => []NoDoubleWin
<1>1. LeaderInv => NoDoubleWin
  <2> SUFFICES ASSUME LeaderInv, NEW c \in rvCalls, GrantedNow(c), Elected(c),
                      status[c.from] = "Leader"
               PROVE  FALSE
    BY DEF NoDoubleWin
  <2>1. c.from \in Server /\ c.term = currentTerm[c.from]
    BY RoomForVote DEF LeaderInv
  <2>2. c.from \notin leaders[c.term]
    BY WonOnce DEF LeaderInv
  <2> QED BY <2>1, <2>2 DEF LeaderInv, LeadsInv
<1> QED BY <1>1, LeaderInvariant, PTL

\* No leader ever receives an AppendEntries of its own term (raft.cpp:485), for
\* any number of servers: who sends one has won that term, and is another.
THEOREM NoRival == Spec => []NoRivalAppend
<1>1. LeaderInv => NoRivalAppend
  <2> SUFFICES ASSUME LeaderInv, NEW c \in aeCalls, c.term = currentTerm[c.to],
                      status[c.to] = "Leader"
               PROVE  FALSE
    BY DEF NoRivalAppend
  <2>1. c.from \in leaders[c.term] /\ c.from # c.to
    BY DEF LeaderInv, LeadsInv
  <2>2. c.to \in Server /\ c.term \in Term
    BY aeFields DEF LeaderInv, DiskLogInv
  <2>3. c.to \in leaders[c.term]
    BY <2>2 DEF LeaderInv, LeadsInv
  <2>4. ElectionSafety
    BY OneWinner DEF LeaderInv
  <2> QED BY <2>1, <2>2, <2>3, <2>4 DEF ElectionSafety
<1> QED BY <1>1, LeaderInvariant, PTL

\* The assert of raft.cpp:509-518 holds for any number of servers: an index and
\* a term name one entry, in every log, state file and message, because a term
\* has one winner and hands out each index once while it leads.
THEOREM IndexAndTermNameEntry == Spec => []EntryIdentity
<1>1. LeaderInv => EntryIdentity
  <2> SUFFICES ASSUME LeaderInv, NEW e \in AllEntries, NEW f \in AllEntries,
                      e.index = f.index, e.term = f.term
               PROVE  e.command = f.command
    BY DEF EntryIdentity
  <2>1. \A g \in AllEntries : g \in Entry /\ Known(g)
    <3> SUFFICES ASSUME NEW g \in AllEntries PROVE g \in Entry /\ Known(g)
      OBVIOUS
    <3>1. LogInv /\ DiskHasLog
      BY DEF LeaderInv, DiskLogInv
    <3>2. \/ \E j \in Server : Has(logs[j], g)
          \/ \E j \in Server : Has(raftState[j].logs, g)
          \/ \E c \in aeCalls : Has(c.entries, g)
      BY DEF AllEntries, Has
    <3>3. \/ \E j \in Server : Has(logs[j], g)
          \/ \E c \in aeCalls : Has(c.entries, g)
      BY <3>1, <3>2 DEF DiskHasLog
    <3>4. g \in Entry
      <4>1. \A j \in Server : logs[j] \in Seq(Entry)
        BY <3>1, ServerTypes
      <4>2. \A c \in aeCalls : c.entries \in Seq(Entry)
        BY <3>1, aeFields
      <4>3. \A s \in Seq(Entry) : Has(s, g) => g \in Entry
        BY DEF Has
      <4> QED BY <3>3, <4>1, <4>2, <4>3
    <3> QED BY <3>3, <3>4 DEF Known
  <2> QED BY <2>1 DEF LeaderInv, Distinct
<1> QED BY <1>1, LeaderInvariant, PTL

-----------------------------------------------------------------------------
(***************************************************************************)
(* What a success reply of AppendEntries says stays true, for any number   *)
(* of servers, whatever is late, repeated, installed or crashes.           *)
(*                                                                         *)
(* The argument: the calls of one term come from one leader, whose log     *)
(* only grows while it leads (LeaderHasSent), so they never disagree       *)
(* (CallsAgree); a follower that has answered call c persists its term, so *)
(* that as long as its disk is in that term it follows only calls that     *)
(* agree with c, and merging those keeps what c carried (Acked).           *)
(***************************************************************************)

(* The invariant *)

\* e is in the log of i, or i has a snapshot of it.
Within(e, i) == e.index <= lastSnapshotIncludeIndex[i] \/ Has(logs[i], e)

CallsAgree ==
    \A c, d \in aeCalls : c.term = d.term =>
        \A e, f \in Entry :
            Has(c.entries, e) /\ Has(d.entries, f) /\ e.index = f.index => e = f

LeaderHasSent ==
    \A c \in aeCalls :
        status[c.from] = "Leader" /\ currentTerm[c.from] = c.term =>
            \A e \in Entry : Has(c.entries, e) => Within(e, c.from)

Acked ==
    \A c \in aeCalls : c.phase = "reply" /\ c.success =>
        /\ raftState[c.to].currentTerm >= c.term
        /\ raftState[c.to].currentTerm = c.term =>
             \A e \in Entry : Has(c.entries, e) => Within(e, c.to)

AckInv == LeaderInv /\ CallsAgree /\ LeaderHasSent /\ Acked

-----------------------------------------------------------------------------
(* What a log keeps *)

LEMMA IndexAt ==
    ASSUME NEW log \in Seq(Entry), NEW base \in Nat, Contiguous(log, base),
           NEW e, Has(log, e)
    PROVE  \E k \in 1 .. Len(log) :
             /\ log[k] = e /\ e.index = base + k
             /\ e \in Entry /\ k \in DOMAIN log
<1>1. PICK k \in DOMAIN log : log[k] = e
  BY DEF Has
<1>2. k \in 1 .. Len(log)
  OBVIOUS
<1>3. log[k] \in Entry /\ log[k].index = base + k
  BY <1>2 DEF Contiguous
<1> QED BY <1>1, <1>2, <1>3

LEMMA OneEntryPerIndex ==
    ASSUME LogInv, NEW i \in Server, NEW e, NEW f,
           Has(logs[i], e), Has(logs[i], f), e.index = f.index
    PROVE  e = f
<1>1. /\ logs[i] \in Seq(Entry) /\ lastSnapshotIncludeIndex[i] \in Nat
      /\ Contiguous(logs[i], lastSnapshotIncludeIndex[i])
  BY ServerTypes
<1>2. PICK k \in 1 .. Len(logs[i]) :
        logs[i][k] = e /\ e.index = lastSnapshotIncludeIndex[i] + k
  BY <1>1, IndexAt
<1>3. PICK m \in 1 .. Len(logs[i]) :
        logs[i][m] = f /\ f.index = lastSnapshotIncludeIndex[i] + m
  BY <1>1, IndexAt
<1>4. k = m
  <2>1. lastSnapshotIncludeIndex[i] + k = lastSnapshotIncludeIndex[i] + m
    BY <1>2, <1>3
  <2> QED BY <1>1, <2>1
<1> QED BY <1>2, <1>3, <1>4

\* What is in a log is not in its snapshot.
LEMMA AboveSnapshot ==
    ASSUME LogInv, NEW i \in Server, NEW e, Has(logs[i], e)
    PROVE  ~(e.index <= lastSnapshotIncludeIndex[i])
<1>1. /\ logs[i] \in Seq(Entry) /\ lastSnapshotIncludeIndex[i] \in Nat
      /\ Contiguous(logs[i], lastSnapshotIncludeIndex[i])
  BY ServerTypes
<1>2. PICK k \in 1 .. Len(logs[i]) : e.index = lastSnapshotIncludeIndex[i] + k
  BY <1>1, IndexAt
<1> QED BY <1>1, <1>2

LEMMA CutKeeps ==
    ASSUME LogInv, NEW i \in Server, NEW index \in Nat,
           index > lastSnapshotIncludeIndex[i], NEW e \in Entry, Has(logs[i], e)
    PROVE  e.index <= index \/ Has(erasedLog(i, index), e)
<1> SUFFICES ASSUME ~(e.index <= index) PROVE Has(erasedLog(i, index), e)
  OBVIOUS
<1> DEFINE base == lastSnapshotIncludeIndex[i]
           off == index - base
           rest == SubSeq(logs[i], off + 1, Len(logs[i]))
<1>1. /\ logs[i] \in Seq(Entry) /\ base \in Nat /\ Contiguous(logs[i], base)
      /\ getLastLogIndex(i) = base + Len(logs[i])
  BY ServerTypes, LastIndex
<1>2. PICK k \in 1 .. Len(logs[i]) : logs[i][k] = e /\ e.index = base + k
  BY <1>1, IndexAt
<1>3. base + k > index /\ k <= Len(logs[i])
  BY <1>1, <1>2
<1>4. /\ off \in 0 .. Len(logs[i]) /\ k - off \in 1 .. Len(logs[i]) - off
      /\ off + (k - off) = k /\ getLastLogIndex(i) > index
  <2>1. Len(logs[i]) \in Nat
    BY <1>1
  <2> HIDE DEF base
  <2>2. off \in Nat /\ off < k
    BY <1>1, <1>3 DEF base
  <2> QED BY <1>1, <1>3, <2>1, <2>2
<1>5. erasedLog(i, index) = rest
  BY <1>4 DEF erasedLog, getSlicesIndexFromLogIndex
<1> HIDE DEF off
<1>6. /\ rest \in Seq(Entry) /\ Len(rest) = Len(logs[i]) - off
      /\ \A m \in 1 .. Len(logs[i]) - off : rest[m] = logs[i][off + m]
  BY <1>1, <1>4, Suffix
<1> HIDE DEF rest
<1>7. k - off \in DOMAIN rest /\ rest[k - off] = e
  BY <1>2, <1>4, <1>6
<1> QED BY <1>5, <1>7 DEF Has

\* Merging entries keeps an entry that none of them contradicts, and has in the
\* end every one of them.
LEMMA MergeKeeps ==
    ASSUME LogInv, NEW i \in Server, NEW entries \in Seq(Entry),
           NEW prev \in lastSnapshotIncludeIndex[i] .. getLastLogIndex(i),
           Contiguous(entries, prev), NEW e \in Entry, Has(logs[i], e),
           \A f \in Entry : Has(entries, f) /\ f.index = e.index => f = e
    PROVE  Has(mergedLog(i, prev, entries), e)
<1> DEFINE off == prev - lastSnapshotIncludeIndex[i]
           n == max(Len(logs[i]), off + Len(entries))
           log == mergedLog(i, prev, entries)
<1>1. /\ off \in 0 .. Len(logs[i]) /\ logs[i] \in Seq(Entry)
      /\ lastSnapshotIncludeIndex[i] \in Nat
      /\ Contiguous(logs[i], lastSnapshotIncludeIndex[i])
      /\ prev = lastSnapshotIncludeIndex[i] + off
  BY LastIndex, ServerTypes
<1>2. log = [k \in 1 .. n |->
               IF k - off \notin 1 .. Len(entries) THEN logs[i][k]
               ELSE IF k <= Len(logs[i]) /\ logs[i][k].term = entries[k - off].term
                    THEN logs[i][k] ELSE entries[k - off]]
  BY DEF mergedLog, getSlicesIndexFromLogIndex
<1>3. n >= Len(logs[i]) /\ n \in Nat
  <2>1. off + Len(entries) \in Nat /\ Len(logs[i]) \in Nat
    BY <1>1
  <2> HIDE DEF off
  <2> QED BY <2>1 DEF max
<1>4. PICK k \in 1 .. Len(logs[i]) :
        logs[i][k] = e /\ e.index = lastSnapshotIncludeIndex[i] + k
  BY <1>1, IndexAt
<1> HIDE DEF off, n, log
<1>5. k \in 1 .. n
  BY <1>1, <1>3
<1>6. ASSUME k - off \in 1 .. Len(entries)
      PROVE  entries[k - off] = e
  <2>1. /\ entries[k - off] \in Entry /\ k - off \in DOMAIN entries
        /\ entries[k - off].index = prev + (k - off)
    BY <1>6 DEF Contiguous
  <2>2. prev + (k - off) = lastSnapshotIncludeIndex[i] + k
    BY <1>1
  <2> QED BY <1>4, <2>1, <2>2 DEF Has
<1>7. log[k] = e /\ k \in DOMAIN log
  BY <1>2, <1>4, <1>5, <1>6
<1> QED BY <1>7 DEF Has, log

LEMMA MergeGets ==
    ASSUME LogInv, NEW i \in Server, NEW entries \in Seq(Entry),
           NEW prev \in lastSnapshotIncludeIndex[i] .. getLastLogIndex(i),
           Contiguous(entries, prev), NEW e \in Entry, Has(entries, e),
           \A f \in Entry :
               Has(logs[i], f) /\ f.index = e.index /\ f.term = e.term => f = e
    PROVE  Has(mergedLog(i, prev, entries), e)
<1> DEFINE off == prev - lastSnapshotIncludeIndex[i]
           n == max(Len(logs[i]), off + Len(entries))
           log == mergedLog(i, prev, entries)
<1>1. /\ off \in 0 .. Len(logs[i]) /\ logs[i] \in Seq(Entry)
      /\ lastSnapshotIncludeIndex[i] \in Nat
      /\ Contiguous(logs[i], lastSnapshotIncludeIndex[i])
      /\ prev = lastSnapshotIncludeIndex[i] + off
  BY LastIndex, ServerTypes
<1>2. log = [k \in 1 .. n |->
               IF k - off \notin 1 .. Len(entries) THEN logs[i][k]
               ELSE IF k <= Len(logs[i]) /\ logs[i][k].term = entries[k - off].term
                    THEN logs[i][k] ELSE entries[k - off]]
  BY DEF mergedLog, getSlicesIndexFromLogIndex
<1>3. n >= off + Len(entries) /\ n \in Nat
  <2>1. off + Len(entries) \in Nat /\ Len(logs[i]) \in Nat
    BY <1>1
  <2> HIDE DEF off
  <2> QED BY <2>1 DEF max
<1>4. PICK m \in 1 .. Len(entries) : entries[m] = e /\ e.index = prev + m
  <2>1. prev \in Nat
    BY <1>1
  <2> QED BY <2>1, IndexAt
<1> HIDE DEF n, log, off
<1>5. (off + m) - off = m /\ off + m \in 1 .. n /\ off \in Nat
  BY <1>1, <1>3
<1>6. ASSUME off + m <= Len(logs[i]), logs[i][off + m].term = e.term
      PROVE  logs[i][off + m] = e
  <2>1. off + m \in 1 .. Len(logs[i]) /\ off + m \in DOMAIN logs[i]
    BY <1>1, <1>5, <1>6
  <2>2. /\ logs[i][off + m] \in Entry /\ Has(logs[i], logs[i][off + m])
        /\ logs[i][off + m].index = lastSnapshotIncludeIndex[i] + (off + m)
    <3>1. logs[i][off + m] \in Entry
      BY <1>1, <2>1
    <3>2. logs[i][off + m].index = lastSnapshotIncludeIndex[i] + (off + m)
      BY <1>1, <2>1 DEF Contiguous
    <3> QED BY <2>1, <3>1, <3>2 DEF Has
  <2>3. lastSnapshotIncludeIndex[i] + (off + m) = prev + m
    BY <1>1
  <2> QED BY <1>4, <1>6, <2>2, <2>3
<1>7. log[off + m] = e /\ off + m \in DOMAIN log
  BY <1>2, <1>4, <1>5, <1>6
<1> QED BY <1>7 DEF Has, log

\* What j has it keeps.
LogKeeps(j) == \A e \in Entry : Within(e, j) => Within(e, j)'

LEMMA KeepSame ==
    ASSUME logs' = logs, lastSnapshotIncludeIndex' = lastSnapshotIncludeIndex, NEW j
    PROVE  LogKeeps(j)
BY DEF LogKeeps, Within, Has

LEMMA KeepCut ==
    ASSUME LogInv, NEW j \in Server, NEW i \in Server, NEW index \in Nat,
           index > lastSnapshotIncludeIndex[i],
           logs' = [logs EXCEPT ![i] = erasedLog(i, index)],
           lastSnapshotIncludeIndex' = [lastSnapshotIncludeIndex EXCEPT ![i] = index]
    PROVE  LogKeeps(j)
<1>1. /\ \A k \in Server \ {i} : /\ logs'[k] = logs[k]
                                 /\ lastSnapshotIncludeIndex'[k] = lastSnapshotIncludeIndex[k]
      /\ logs'[i] = erasedLog(i, index) /\ lastSnapshotIncludeIndex'[i] = index
  BY DEF LogInv, TypeOK
<1>2. CASE j = i
  <2> SUFFICES ASSUME NEW e \in Entry, Within(e, j)
               PROVE  e.index <= index \/ Has(erasedLog(i, index), e)
    BY <1>1, <1>2 DEF LogKeeps, Within, Has
  <2>1. CASE Has(logs[i], e)
    BY <2>1, CutKeeps
  <2>2. CASE e.index <= lastSnapshotIncludeIndex[i]
    <3>1. e.index \in Nat /\ lastSnapshotIncludeIndex[i] \in Nat
      BY ServerTypes DEF Entry
    <3> QED BY <2>2, <3>1
  <2> QED BY <1>2, <2>1, <2>2 DEF Within
<1>3. CASE j # i
  BY <1>1, <1>3 DEF LogKeeps, Within, Has
<1> QED BY <1>2, <1>3

LEMMA KeepStart ==
    ASSUME LogInv, NEW j \in Server, NEW i \in Server, NEW command \in Command,
           start(i, command)
    PROVE  LogKeeps(j)
<1> DEFINE n == [index |-> getNewCommandIndex(i), term |-> currentTerm[i],
                 command |-> command]
<1>1. /\ logs' = [logs EXCEPT ![i] = Append(@, n)]
      /\ lastSnapshotIncludeIndex' = lastSnapshotIncludeIndex
  BY DEF start
<1>2. logs \in [Server -> Seq(Entry)] /\ n \in Entry
  <2>1. getNewCommandIndex(i) \in Nat /\ currentTerm[i] \in Term
    BY LastIndex, ServerTypes DEF getNewCommandIndex
  <2> QED BY <2>1 DEF LogInv, TypeOK, Entry
<1> HIDE DEF n
<1>3. /\ logs'[i] = Append(logs[i], n)
      /\ \A k \in Server \ {i} : logs'[k] = logs[k]
  BY <1>1, <1>2
<1>4. \A k \in DOMAIN logs[i] : k \in DOMAIN logs'[i] /\ logs'[i][k] = logs[i][k]
  BY <1>2, <1>3, AppendProperties
<1> QED BY <1>1, <1>3, <1>4 DEF LogKeeps, Within, Has

LEMMA KeepStep ==
    ASSUME LogInv, DiskHasLog, [Next]_vars, NEW j \in Server
    PROVE  LogKeeps(j) \/ \E d \in aeCalls : appendEntriesAccept(d) /\ d.to = j
<1>1. CASE UNCHANGED logVars
  BY <1>1, KeepSame DEF logVars
<1>2. CASE RequestVoteNext
  <2>1. UNCHANGED logVars
    BY <1>2 DEF RequestVoteNext, requestVoteStale, requestVoteRefuse,
                requestVoteGrant, sendRequestVoteHigherTerm, sendRequestVoteCount,
                sendRequestVoteWin, sendRequestVoteEnd, rvUnchanged
  <2> QED BY <1>1, <2>1
<1>3. CASE AppendEntriesNext
  <2>1. PICK c \in aeCalls :
          \/ appendEntriesStale(c) \/ appendEntriesReject(c) \/ appendEntriesAccept(c)
          \/ sendAppendEntriesHigherTerm(c) \/ sendAppendEntriesBacktrack(c)
          \/ sendAppendEntriesSuccess(c) \/ sendAppendEntriesEnd(c)
    BY <1>3 DEF AppendEntriesNext
  <2>2. CASE appendEntriesAccept(c) /\ c.to # j
    <3>1. /\ logs' = [logs EXCEPT ![c.to] = mergedLog(c.to, c.prevLogIndex, c.entries)]
          /\ lastSnapshotIncludeIndex' = lastSnapshotIncludeIndex
      BY <2>2 DEF appendEntriesAccept
    <3>2. logs'[j] = logs[j]
      BY <2>2, <3>1 DEF LogInv, TypeOK
    <3> QED BY <3>1, <3>2 DEF LogKeeps, Within, Has
  <2>3. CASE ~appendEntriesAccept(c)
    <3>1. UNCHANGED logVars
      BY <2>1, <2>3 DEF appendEntriesStale, appendEntriesReject,
                        sendAppendEntriesHigherTerm, sendAppendEntriesBacktrack,
                        sendAppendEntriesSuccess, sendAppendEntriesEnd
    <3> QED BY <1>1, <3>1
  <2> QED BY <2>2, <2>3
<1>4. CASE InstallSnapshotNext
  <2>1. PICK c \in isCalls :
          \/ leaderSendSnapshot(c) \/ installSnapshotStale(c)
          \/ installSnapshotOld(c) \/ installSnapshotApply(c)
          \/ sendSnapshotHigherTerm(c) \/ sendSnapshotSuccess(c)
          \/ sendSnapshotEnd(c) \/ CrashInInstallSnapshot(c)
    BY <1>4 DEF InstallSnapshotNext
  <2>2. CASE installSnapshotApply(c) \/ CrashInInstallSnapshot(c)
    <3>1. /\ c.lastIndex > lastSnapshotIncludeIndex[c.to]
          /\ logs' = [logs EXCEPT ![c.to] = erasedLog(c.to, c.lastIndex)]
          /\ lastSnapshotIncludeIndex' =
               [lastSnapshotIncludeIndex EXCEPT ![c.to] = c.lastIndex]
      BY <2>2 DEF installSnapshotApply, CrashInInstallSnapshot, InstallInMemory
    <3>2. c.to \in Server /\ c.lastIndex \in Nat
      BY isFields
    <3> QED BY <3>1, <3>2, KeepCut
  <2>3. CASE \/ leaderSendSnapshot(c) \/ installSnapshotStale(c)
             \/ installSnapshotOld(c) \/ sendSnapshotHigherTerm(c)
             \/ sendSnapshotSuccess(c) \/ sendSnapshotEnd(c)
    <3>1. UNCHANGED logVars
      BY <2>3 DEF leaderSendSnapshot, installSnapshotStale, installSnapshotOld,
                  sendSnapshotHigherTerm, sendSnapshotSuccess, sendSnapshotEnd
    <3> QED BY <1>1, <3>1
  <2> QED BY <2>1, <2>2, <2>3
<1>5. CASE ServerNext
  <2>1. PICK i \in Server :
          \/ doElection(i) \/ doHeartBeat(i) \/ applierTicker(i) \/ Restart(i)
          \/ \E command \in Command : start(i, command)
          \/ \E index \in 1 .. MaxIndex : snapshot(i, index) \/ CrashInSnapshot(i, index)
    BY <1>5 DEF ServerNext
  <2>2. CASE doElection(i) \/ doHeartBeat(i) \/ applierTicker(i)
    <3>1. UNCHANGED logVars
      BY <2>2 DEF doElection, doHeartBeat, applierTicker
    <3> QED BY <1>1, <3>1
  <2>3. CASE Restart(i)
    <3>1. /\ logs' = [logs EXCEPT ![i] = raftState[i].logs]
          /\ lastSnapshotIncludeIndex' =
               [lastSnapshotIncludeIndex EXCEPT
                  ![i] = raftState[i].lastSnapshotIncludeIndex]
      BY <2>3 DEF Restart, Boot
    <3>2. /\ logs \in [Server -> Seq(Entry)]
          /\ lastSnapshotIncludeIndex \in [Server -> Nat]
      BY DEF LogInv, TypeOK
    <3>3. logs' = logs /\ lastSnapshotIncludeIndex' = lastSnapshotIncludeIndex
      BY <3>1, <3>2 DEF DiskHasLog
    <3> QED BY <3>3, KeepSame
  <2>4. CASE \E command \in Command : start(i, command)
    BY <2>4, KeepStart
  <2>5. CASE \E index \in 1 .. MaxIndex : snapshot(i, index) \/ CrashInSnapshot(i, index)
    <3>1. PICK index \in 1 .. MaxIndex :
            /\ lastSnapshotIncludeIndex[i] < index
            /\ logs' = [logs EXCEPT ![i] = erasedLog(i, index)]
            /\ lastSnapshotIncludeIndex' = [lastSnapshotIncludeIndex EXCEPT ![i] = index]
      BY <2>5 DEF snapshot, CrashInSnapshot, SnapshotInMemory
    <3>2. index \in Nat /\ lastSnapshotIncludeIndex[i] \in Nat
      BY ServerTypes
    <3> QED BY <3>1, <3>2, KeepCut
  <2> QED BY <2>1, <2>2, <2>3, <2>4, <2>5
<1>6. CASE UNCHANGED vars
  BY <1>1, <1>6 DEF vars
<1> QED BY <1>2, <1>3, <1>4, <1>5, <1>6 DEF Next

-----------------------------------------------------------------------------
(* Accepting a call *)

LEMMA AcceptMerges ==
    ASSUME LogInv, NEW d \in aeCalls, appendEntriesAccept(d)
    PROVE  /\ d.to \in Server /\ d.entries \in Seq(Entry)
           /\ Contiguous(d.entries, d.prevLogIndex)
           /\ d.prevLogIndex \in lastSnapshotIncludeIndex[d.to] .. getLastLogIndex(d.to)
           /\ logs'[d.to] = mergedLog(d.to, d.prevLogIndex, d.entries)
           /\ lastSnapshotIncludeIndex' = lastSnapshotIncludeIndex
<1>1. /\ d.to \in Server /\ d.entries \in Seq(Entry)
      /\ Contiguous(d.entries, d.prevLogIndex)
  BY aeFields
<1>2. /\ d.prevLogIndex \in lastSnapshotIncludeIndex[d.to] .. getLastLogIndex(d.to)
      /\ logs' = [logs EXCEPT ![d.to] = mergedLog(d.to, d.prevLogIndex, d.entries)]
      /\ lastSnapshotIncludeIndex' = lastSnapshotIncludeIndex
  BY DEF appendEntriesAccept, matchLog
<1> QED BY <1>1, <1>2 DEF LogInv, TypeOK

LEMMA AcceptKeeps ==
    ASSUME LogInv, NEW d \in aeCalls, appendEntriesAccept(d),
           NEW e \in Entry, Within(e, d.to),
           \A f \in Entry : Has(d.entries, f) /\ f.index = e.index => f = e
    PROVE  Within(e, d.to)'
<1>1. CASE e.index <= lastSnapshotIncludeIndex[d.to]
  BY <1>1, AcceptMerges DEF Within
<1>2. CASE Has(logs[d.to], e)
  <2>1. Has(mergedLog(d.to, d.prevLogIndex, d.entries), e)
    BY <1>2, AcceptMerges, MergeKeeps
  <2> QED BY <2>1, AcceptMerges DEF Within, Has
<1> QED BY <1>1, <1>2 DEF Within

LEMMA AcceptGets ==
    ASSUME LogInv, Distinct, NEW d \in aeCalls, appendEntriesAccept(d),
           NEW e \in Entry, Has(d.entries, e)
    PROVE  Within(e, d.to)'
<1>1. \A f \in Entry :
        Has(logs[d.to], f) /\ f.index = e.index /\ f.term = e.term => f = e
  <2> SUFFICES ASSUME NEW f \in Entry, Has(logs[d.to], f),
                      f.index = e.index, f.term = e.term
               PROVE  f = e
    OBVIOUS
  <2>1. Known(e) /\ Known(f)
    BY AcceptMerges DEF Known
  <2>2. f.command = e.command
    BY <2>1 DEF Distinct
  <2> QED BY <2>2 DEF Entry
<1>2. Has(mergedLog(d.to, d.prevLogIndex, d.entries), e)
  BY <1>1, AcceptMerges, MergeGets
<1> QED BY <1>2, AcceptMerges DEF Within, Has

-----------------------------------------------------------------------------
(* The steps *)

\* c carries what the call d before the step did.
Carries(c, d) == /\ c.from = d.from /\ c.to = d.to
                 /\ c.term = d.term /\ c.entries = d.entries

\* c is sent by the step.
SentNow(c) == /\ c.phase = "request" /\ c.from \in Server
              /\ status[c.from] = "Leader" /\ c.term = currentTerm[c.from]
              /\ \A e : Has(c.entries, e) => Has(logs[c.from], e)

LEMMA OldOrNew ==
    ASSUME LogInv, [Next]_vars, NEW c \in aeCalls'
    PROVE  (\E d \in aeCalls : Carries(c, d)) \/ SentNow(c)
BY CallsFlowStep DEF CallsFlow, Carries, SentNow

LEMMA AgreeStep ==
    ASSUME AckInv, [Next]_vars
    PROVE  CallsAgree'
<1>1. LogInv /\ LeadsInv /\ ElectionSafety /\ CallsAgree /\ LeaderHasSent
  BY OneWinner DEF AckInv, LeaderInv, DiskLogInv
<1>2. /\ \A i \in Server : currentTerm[i] \in Term
      /\ \A i, j \in Server :
           /\ status[i] = "Leader" /\ status[j] = "Leader"
           /\ currentTerm[i] = currentTerm[j]
           => i = j
  <2>1. \A i \in Server : currentTerm[i] \in Term
    BY <1>1, ServerTypes
  <2> QED BY <1>1, <2>1 DEF LeadsInv, ElectionSafety
<1>3. ASSUME NEW c, SentNow(c), NEW d \in aeCalls, c.term = d.term,
             NEW e \in Entry, NEW f \in Entry,
             Has(c.entries, e), Has(d.entries, f), e.index = f.index
      PROVE  e = f
  <2>1. c.from \in Server /\ Has(logs[c.from], e)
    BY <1>3 DEF SentNow
  <2>2. d.from = c.from /\ status[d.from] = "Leader" /\ currentTerm[d.from] = d.term
    BY <1>1, <1>2, <1>3 DEF SentNow, LeadsInv, ElectionSafety
  <2>3. Within(f, c.from)
    BY <1>1, <1>3, <2>2 DEF LeaderHasSent
  <2>4. Has(logs[c.from], f)
    BY <1>1, <1>3, <2>1, <2>3, AboveSnapshot DEF Within
  <2> QED BY <1>1, <1>3, <2>1, <2>4, OneEntryPerIndex
<1>4. ASSUME NEW c, SentNow(c), NEW d, SentNow(d), c.term = d.term,
             NEW e \in Entry, NEW f \in Entry,
             Has(c.entries, e), Has(d.entries, f), e.index = f.index
      PROVE  e = f
  <2>1. c.from \in Server /\ Has(logs[c.from], e) /\ Has(logs[d.from], f)
    BY <1>4 DEF SentNow
  <2>2. d.from = c.from
    BY <1>2, <1>4 DEF SentNow
  <2> QED BY <1>1, <1>4, <2>1, <2>2, OneEntryPerIndex
<1> SUFFICES ASSUME NEW c \in aeCalls', NEW d \in aeCalls', c.term = d.term,
                    NEW e \in Entry, NEW f \in Entry,
                    Has(c.entries, e), Has(d.entries, f), e.index = f.index
             PROVE  e = f
  BY DEF CallsAgree, Has
<1>5. CASE SentNow(c) /\ SentNow(d)
  BY <1>4, <1>5
<1>6. CASE SentNow(c) /\ \E b \in aeCalls : Carries(d, b)
  BY <1>3, <1>6 DEF Carries
<1>7. CASE SentNow(d) /\ \E b \in aeCalls : Carries(c, b)
  BY <1>3, <1>7 DEF Carries
<1>8. ASSUME NEW a \in aeCalls, NEW b \in aeCalls, Carries(c, a), Carries(d, b)
      PROVE  e = f
  BY <1>1, <1>8 DEF Carries, CallsAgree
<1> QED BY <1>1, <1>5, <1>6, <1>7, <1>8, OldOrNew

LEMMA SentStep ==
    ASSUME AckInv, ElectionSafety', TypeOK', [Next]_vars
    PROVE  LeaderHasSent'
<1>1. /\ LogInv /\ DiskHasLog /\ LeadsInv /\ LeaderHasSent /\ ElectionInv /\ WonInv
      /\ LeadsFollow
  BY LeadsStep DEF AckInv, LeaderInv, DiskLogInv
<1> SUFFICES ASSUME NEW c \in aeCalls', status'[c.from] = "Leader",
                    currentTerm'[c.from] = c.term,
                    NEW e \in Entry, Has(c.entries, e)
             PROVE  Within(e, c.from)'
  BY DEF LeaderHasSent, Within, Has
<1>2. PICK i \in Server : i = c.from
  BY DEF TypeOK, AECall
<1>3. i \in leaders[c.term]
  BY <1>1, <1>2, OldOrNew DEF LeadsInv, Carries, SentNow
<1>4. status[i] = "Leader" /\ currentTerm'[i] = currentTerm[i]
  <2>1. ASSUME NEW a \in rvCalls, sendRequestVoteWin(a), a.from = i
        PROVE  FALSE
    <3>1. leaders[currentTerm[i]] = {}
      BY <1>1, <2>1, FreshWin
    <3>2. currentTerm'[i] = currentTerm[i]
      BY <2>1 DEF sendRequestVoteWin
    <3> QED BY <1>2, <1>3, <3>1, <3>2
  <2> QED BY <1>1, <1>2, <2>1 DEF LeadsFollow
<1>5. Within(e, i)
  <2>1. CASE SentNow(c)
    BY <1>2, <2>1 DEF SentNow, Within
  <2>2. CASE \E d \in aeCalls : Carries(c, d)
    BY <1>1, <1>2, <1>4, <2>2 DEF Carries, LeaderHasSent
  <2> QED BY <1>1, <2>1, <2>2, OldOrNew
<1>6. LogKeeps(i)
  <2>1. ASSUME NEW d \in aeCalls, appendEntriesAccept(d), d.to = i
        PROVE  FALSE
    <3>1. status' = [status EXCEPT ![i] = "Follower"]
      BY <2>1 DEF appendEntriesAccept, FollowLeader
    <3> QED BY <1>1, <1>2, <3>1 DEF LogInv, TypeOK
  <2> QED BY <1>1, <2>1, KeepStep
<1>7. Within(e, i)'
  BY <1>5, <1>6 DEF LogKeeps
<1> QED BY <1>2, <1>7 DEF Within, Has

\* What accepting a call leaves on disk.
LEMMA AcceptPersists ==
    ASSUME LogInv, NEW d \in aeCalls, appendEntriesAccept(d)
    PROVE  raftState'[d.to].currentTerm = d.term
<1>1. d.to \in Server
  BY aeFields
<1>2. currentTerm' = [currentTerm EXCEPT ![d.to] = d.term] /\ persist(d.to)
  BY DEF appendEntriesAccept, FollowLeader
<1>3. TypeOK /\ currentTerm \in [Server -> Term]
  BY DEF LogInv, TypeOK
<1>4. raftState'[d.to].currentTerm = currentTerm'[d.to]
  BY <1>1, <1>2, <1>3, PersistedVote
<1> QED BY <1>1, <1>2, <1>3, <1>4

LEMMA AckedStep ==
    ASSUME AckInv, TypeOK', [Next]_vars
    PROVE  Acked'
<1>1. /\ LogInv /\ DiskHasLog /\ Distinct /\ CallsAgree /\ Acked
      /\ TypeOK /\ DiskForward
  BY VotesStep DEF AckInv, LeaderInv, DiskLogInv, LogInv
<1> SUFFICES ASSUME NEW c \in aeCalls', c.phase = "reply", c.success
             PROVE  /\ raftState'[c.to].currentTerm >= c.term
                    /\ raftState'[c.to].currentTerm = c.term =>
                         \A e \in Entry : Has(c.entries, e) => Within(e, c.to)'
  BY DEF Acked, Within, Has
<1>2. PICK d \in aeCalls : /\ Carries(c, d)
                           /\ \/ d.phase = "reply" /\ d.success
                              \/ appendEntriesAccept(d)
  BY <1>1, CallsFlowStep DEF CallsFlow, Carries
<1>3. /\ d.to \in Server /\ d.term \in Nat /\ d.entries \in Seq(Entry)
      /\ raftState[d.to].currentTerm \in Nat /\ raftState'[d.to].currentTerm \in Nat
  <2>1. d.to \in Server /\ d.term \in Term /\ d.entries \in Seq(Entry)
    BY <1>1, aeFields
  <2>2. raftState[d.to] \in RaftState /\ raftState'[d.to] \in RaftState
    BY <1>1, <2>1 DEF TypeOK
  <2> QED BY <2>1, <2>2, BoundAssumption DEF RaftState, Term
<1>4. c.to = d.to /\ c.term = d.term /\ c.entries = d.entries
  BY <1>2 DEF Carries
<1>5. CASE appendEntriesAccept(d)
  <2>1. raftState'[d.to].currentTerm = d.term
    BY <1>1, <1>5, AcceptPersists
  <2>2. \A e \in Entry : Has(d.entries, e) => Within(e, d.to)'
    BY <1>1, <1>5, AcceptGets
  <2>3. raftState'[c.to].currentTerm >= c.term
    BY <1>3, <1>4, <2>1
  <2> QED BY <1>4, <2>2, <2>3 DEF Within, Has
<1>6. CASE d.phase = "reply" /\ d.success
  <2>1. raftState[d.to].currentTerm >= d.term
    BY <1>1, <1>6 DEF Acked
  <2>2. raftState'[d.to].currentTerm >= raftState[d.to].currentTerm
    BY <1>1, <1>3 DEF DiskForward
  <2>3. raftState'[d.to].currentTerm >= d.term
    BY <1>3, <2>1, <2>2
  <2>4. ASSUME raftState'[d.to].currentTerm = d.term, NEW e \in Entry, Has(d.entries, e)
        PROVE  Within(e, d.to)'
    <3>1. raftState[d.to].currentTerm = d.term
      BY <1>3, <2>1, <2>2, <2>4
    <3>2. Within(e, d.to)
      BY <1>1, <1>6, <2>4, <3>1 DEF Acked
    <3>3. CASE LogKeeps(d.to)
      BY <3>2, <3>3 DEF LogKeeps
    <3>4. ASSUME NEW a \in aeCalls, appendEntriesAccept(a), a.to = d.to
          PROVE  Within(e, d.to)'
      <4>1. a.term = d.term
        BY <1>1, <2>4, <3>4, AcceptPersists
      <4>2. \A f \in Entry : Has(a.entries, f) /\ f.index = e.index => f = e
        BY <1>1, <2>4, <4>1 DEF CallsAgree
      <4>3. Within(e, a.to)
        BY <3>2, <3>4
      <4>4. Within(e, a.to)'
        BY <1>1, <3>4, <4>2, <4>3, AcceptKeeps
      <4> QED BY <3>4, <4>4 DEF Within, Has
    <3> QED BY <1>1, <1>3, <3>3, <3>4, KeepStep
  <2> QED BY <1>4, <2>3, <2>4 DEF Within, Has
<1> QED BY <1>2, <1>5, <1>6

LEMMA AckInit == Init => AckInv
<1> SUFFICES ASSUME Init PROVE AckInv
  OBVIOUS
<1>1. LeaderInv /\ aeCalls = {}
  BY LeaderInit DEF Init
<1> QED BY <1>1 DEF AckInv, CallsAgree, LeaderHasSent, Acked

LEMMA AckStep == AckInv /\ TypeOK' /\ [Next]_vars => AckInv'
<1> SUFFICES ASSUME AckInv, TypeOK', [Next]_vars PROVE AckInv'
  OBVIOUS
<1>1. LeaderInv'
  BY LeaderStep DEF AckInv
<1>2. ElectionInv'
  BY <1>1 DEF LeaderInv
<1>3. ElectionSafety'
  BY <1>2, OneWinner, PTL
<1>4. CallsAgree' /\ LeaderHasSent' /\ Acked'
  BY <1>3, AgreeStep, SentStep, AckedStep
<1> QED BY <1>1, <1>4 DEF AckInv

\* Calls of one term agree, and what was acknowledged in a term is kept in it,
\* in any behaviour of the node.
THEOREM AckInvariant == Spec => []AckInv
<1>1. AckInv /\ TypeOK' /\ [Next]_vars => AckInv'
  BY AckStep
<1> QED BY <1>1, AckInit, TypeCorrect, PTL DEF Spec

\* What a follower has acknowledged it keeps for as long as it is in that term
\* (raft.cpp:499-526), for any number of servers and entries: later calls of the
\* term agree with it, an installed snapshot covers what it erases, and a
\* restart brings back the log that was persisted before the reply.
THEOREM AcksHold == Spec => []AckedEntriesStay
<1>1. AckInv => AckedEntriesStay
  <2> SUFFICES ASSUME AckInv, NEW c \in aeCalls, c.phase = "reply", c.success,
                      currentTerm[c.to] = c.term, NEW k \in 1 .. Len(c.entries),
                      ~(c.prevLogIndex + k <= lastSnapshotIncludeIndex[c.to])
               PROVE  /\ Holds(c.to, c.prevLogIndex + k)
                      /\ EntryAt(c.to, c.prevLogIndex + k) = c.entries[k]
    BY DEF AckedEntriesStay
  <2>1. LogInv /\ TypeOK /\ VoteInv
    BY DEF AckInv, LeaderInv, ElectionInv, DiskLogInv
  <2>2. /\ c.to \in Server /\ c.term \in Term /\ c.entries \in Seq(Entry)
        /\ Contiguous(c.entries, c.prevLogIndex)
    BY <2>1, aeFields
  <2>3. raftState[c.to].currentTerm = c.term
    <3>1. raftState[c.to].currentTerm >= c.term
      BY DEF AckInv, Acked
    <3>2. raftState[c.to].currentTerm <= currentTerm[c.to]
      BY <2>1, <2>2 DEF VoteInv
    <3>3. raftState[c.to].currentTerm \in Nat /\ currentTerm[c.to] \in Nat
      BY <2>1, <2>2, TermTypes
    <3> QED BY <3>1, <3>2, <3>3
  <2> DEFINE e == c.entries[k]
  <2>4. e \in Entry /\ e.index = c.prevLogIndex + k /\ Has(c.entries, e)
    <3>1. k \in DOMAIN c.entries /\ c.entries[k] \in Entry
      BY <2>2
    <3> QED BY <2>2, <3>1 DEF Contiguous, Has
  <2> HIDE DEF e
  <2>5. Has(logs[c.to], e)
    BY <2>3, <2>4 DEF AckInv, Acked, Within
  <2>6. /\ logs[c.to] \in Seq(Entry) /\ lastSnapshotIncludeIndex[c.to] \in Nat
        /\ Contiguous(logs[c.to], lastSnapshotIncludeIndex[c.to])
        /\ getLastLogIndex(c.to) = lastSnapshotIncludeIndex[c.to] + Len(logs[c.to])
    BY <2>1, <2>2, ServerTypes, LastIndex
  <2>7. PICK m \in 1 .. Len(logs[c.to]) :
          logs[c.to][m] = e /\ e.index = lastSnapshotIncludeIndex[c.to] + m
    BY <2>5, <2>6, IndexAt
  <2>8. /\ e.index \in lastSnapshotIncludeIndex[c.to] + 1 .. getLastLogIndex(c.to)
        /\ e.index - lastSnapshotIncludeIndex[c.to] = m
    BY <2>6, <2>7
  <2>9. Holds(c.to, e.index) /\ EntryAt(c.to, e.index) = e
    BY <2>7, <2>8 DEF Holds, EntryAt, getSlicesIndexFromLogIndex
  <2> QED BY <2>4, <2>9 DEF e
<1> QED BY <1>1, AckInvariant, PTL

=============================================================================
