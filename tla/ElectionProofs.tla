--------------------------- MODULE ElectionProofs ---------------------------
(***************************************************************************)
(* At most one leader per term, for any number of servers, through crashes *)
(* and late, lost and orphaned messages.                                   *)
(*                                                                         *)
(* The argument: a vote is on disk before its answer leaves (VoteInv), so  *)
(* a server never votes for two candidates of one term; a live call is the *)
(* only one between its two ends in its term (CallInv), so voteNum counts  *)
(* distinct voters (CountInv); a win therefore has a majority behind it    *)
(* (WinInv), and two majorities share a voter.                             *)
(***************************************************************************)
EXTENDS RaftProofs

\* Memory is never behind the disk, both agree with the votes cast, and no vote
\* was cast in a term the disk has not reached.
VoteInv ==
    \A j \in Server :
        /\ raftState[j].currentTerm <= currentTerm[j]
        /\ voteHistory[j][currentTerm[j]] = votedFor[j]
        /\ voteHistory[j][raftState[j].currentTerm] = raftState[j].votedFor
        /\ \A t \in Term : t > raftState[j].currentTerm => voteHistory[j][t] = NoVote

\* c and d are the same question.
SameCall(c, d) == c.from = d.from /\ c.to = d.to /\ c.term = d.term

CallInv ==
    /\ \A c \in rvCalls :
         /\ c.from # c.to
         /\ c.term <= raftState[c.from].currentTerm
         /\ c.phase = "reply" => c.live
         /\ c.phase = "reply" /\ c.voteGranted =>
              c.rterm = c.term /\ voteHistory[c.to][c.term] = c.from
    /\ \A c, d \in rvCalls : c.live /\ d.live /\ SameCall(c, d) => c = d

\* Who voted for i in term t, and whose answer i has not read yet.
Voters(i, t)  == {j \in Server : voteHistory[j][t] = i}
Unread(i, t)  == {j \in Server : \E c \in rvCalls :
                    c.live /\ c.from = i /\ c.to = j /\ c.term = t}
Counted(i, t) == Voters(i, t) \ Unread(i, t)

CountInv == \A i \in Server, t \in Term :
                voteNum[i][t] <= Cardinality(Counted(i, t))

WinInv == \A t \in Term : \A i \in leaders[t] :
              Cardinality(Voters(i, t)) >= Majority

ElectionInv == TypeOK /\ VoteInv /\ CallInv /\ CountInv /\ WinInv

-----------------------------------------------------------------------------
(* What a step may do to votes, terms and files *)

\* A vote that has been cast stands.
VotesKept ==
    \A j \in Server, t \in Term :
        voteHistory[j][t] # NoVote => voteHistory'[j][t] = voteHistory[j][t]

\* The term on disk does not go back.
DiskForward ==
    \A j \in Server : raftState'[j].currentTerm >= raftState[j].currentTerm

LEMMA TermTypes ==
    ASSUME TypeOK, NEW j \in Server
    PROVE  /\ currentTerm[j] \in Term /\ votedFor[j] \in Server \cup {NoVote}
           /\ raftState[j].currentTerm \in Term
           /\ raftState[j].votedFor \in Server \cup {NoVote}
           /\ \A t \in Term : voteHistory[j][t] \in Server \cup {NoVote}
           /\ Term \subseteq Nat
<1>1. raftState[j] \in RaftState
  BY DEF TypeOK
<1>2. /\ raftState[j].currentTerm \in Term
      /\ raftState[j].votedFor \in Server \cup {NoVote}
  BY <1>1 DEF RaftState
<1>3. Term \subseteq Nat
  BY BoundAssumption DEF Term
<1>4. /\ currentTerm[j] \in Term /\ votedFor[j] \in Server \cup {NoVote}
      /\ \A t \in Term : voteHistory[j][t] \in Server \cup {NoVote}
  BY DEF TypeOK
<1> QED BY <1>2, <1>3, <1>4

LEMMA PersistedVote ==
    ASSUME TypeOK, NEW j \in Server, persist(j)
    PROVE  /\ raftState'[j].currentTerm = currentTerm'[j]
           /\ raftState'[j].votedFor = votedFor'[j]
           /\ \A k \in Server \ {j} : raftState'[k] = raftState[k]
<1>1. /\ persistData(j)'.currentTerm = currentTerm'[j]
      /\ persistData(j)'.votedFor = votedFor'[j]
  BY DEF persistData
<1>2. raftState' = [raftState EXCEPT ![j] = persistData(j)']
  BY DEF persist
<1> QED BY <1>1, <1>2 DEF TypeOK

\* j follows into term t >= its own without voting, with or without persisting.
LEMMA Follow ==
    ASSUME TypeOK, TypeOK', VoteInv, NEW j \in Server, NEW t \in Term,
           t >= currentTerm[j], currentTerm'[j] = t,
           votedFor'[j] = AdoptedVote(j, t),
           \A k \in Server \ {j} : /\ currentTerm'[k] = currentTerm[k]
                                  /\ votedFor'[k] = votedFor[k],
           voteHistory' = voteHistory,
           persist(j) \/ raftState' = raftState
    PROVE  VoteInv' /\ VotesKept /\ DiskForward
<1>1. /\ raftState[j].currentTerm <= currentTerm[j]
      /\ voteHistory[j][currentTerm[j]] = votedFor[j]
      /\ voteHistory[j][raftState[j].currentTerm] = raftState[j].votedFor
      /\ \A u \in Term : u > raftState[j].currentTerm => voteHistory[j][u] = NoVote
      /\ currentTerm[j] \in Nat /\ raftState[j].currentTerm \in Nat /\ t \in Nat
      /\ Term \subseteq Nat
  BY TermTypes DEF VoteInv
<1>2. voteHistory[j][t] = votedFor'[j]
  BY <1>1 DEF AdoptedVote
<1>3. /\ raftState'[j].currentTerm <= t
      /\ raftState'[j].currentTerm >= raftState[j].currentTerm
      /\ voteHistory[j][raftState'[j].currentTerm] = raftState'[j].votedFor
      /\ \A u \in Term : u > raftState'[j].currentTerm => voteHistory[j][u] = NoVote
      /\ \A k \in Server \ {j} : raftState'[k] = raftState[k]
  <2>1. CASE persist(j)
    <3>1. /\ raftState'[j].currentTerm = t /\ raftState'[j].votedFor = votedFor'[j]
          /\ \A k \in Server \ {j} : raftState'[k] = raftState[k]
      BY <2>1, PersistedVote
    <3> QED BY <1>1, <1>2, <3>1
  <2>2. CASE raftState' = raftState
    BY <1>1, <2>2
  <2> QED BY <2>1, <2>2
<1>4. VoteInv'
  BY <1>2, <1>3 DEF VoteInv
<1>5. DiskForward
  <2>1. \A k \in Server : raftState[k].currentTerm \in Nat
    BY TermTypes
  <2> QED BY <1>3, <2>1 DEF DiskForward
<1> QED BY <1>4, <1>5 DEF VotesKept

\* Terms and votes stay, with or without persisting them once more.
LEMMA Stay ==
    ASSUME TypeOK, TypeOK', VoteInv, NEW j \in Server,
           currentTerm' = currentTerm, votedFor' = votedFor,
           voteHistory' = voteHistory, persist(j) \/ raftState' = raftState
    PROVE  VoteInv' /\ VotesKept /\ DiskForward
<1>1. /\ currentTerm[j] \in Term /\ currentTerm[j] >= currentTerm[j]
      /\ ~(currentTerm[j] > currentTerm[j])
  <2>1. currentTerm[j] \in Term /\ currentTerm[j] \in Nat
    BY TermTypes
  <2> QED BY <2>1
<1>2. AdoptedVote(j, currentTerm[j]) = votedFor[j]
  BY <1>1 DEF AdoptedVote
<1> QED BY <1>1, <1>2, Follow

\* j votes for x in term t >= its own and persists.
LEMMA Cast ==
    ASSUME TypeOK, TypeOK', VoteInv, NEW j \in Server, NEW t \in Term,
           NEW x \in Server, t >= currentTerm[j], AdoptedVote(j, t) \in {NoVote, x},
           currentTerm' = [currentTerm EXCEPT ![j] = t],
           votedFor' = [votedFor EXCEPT ![j] = x],
           voteHistory' = [voteHistory EXCEPT ![j][t] = x],
           persist(j)
    PROVE  /\ VoteInv' /\ VotesKept /\ DiskForward
           /\ voteHistory'[j][t] = x
           /\ raftState'[j].currentTerm = t
<1>1. /\ raftState[j].currentTerm <= currentTerm[j]
      /\ voteHistory[j][currentTerm[j]] = votedFor[j]
      /\ \A u \in Term : u > raftState[j].currentTerm => voteHistory[j][u] = NoVote
      /\ currentTerm[j] \in Nat /\ raftState[j].currentTerm \in Nat /\ t \in Nat
      /\ Term \subseteq Nat
  BY TermTypes DEF VoteInv
<1>2. /\ currentTerm'[j] = t /\ votedFor'[j] = x
      /\ \A k \in Server \ {j} : /\ currentTerm'[k] = currentTerm[k]
                                /\ votedFor'[k] = votedFor[k]
  BY DEF TypeOK
<1>3. /\ voteHistory'[j][t] = x
      /\ \A u \in Term \ {t} : voteHistory'[j][u] = voteHistory[j][u]
      /\ \A k \in Server \ {j} : voteHistory'[k] = voteHistory[k]
  BY DEF TypeOK
<1>4. /\ raftState'[j].currentTerm = t /\ raftState'[j].votedFor = x
      /\ \A k \in Server \ {j} : raftState'[k] = raftState[k]
  BY <1>2, PersistedVote
<1>5. voteHistory[j][t] \in {NoVote, x}
  <2>1. CASE t > currentTerm[j]
    BY <1>1, <2>1
  <2>2. CASE t = currentTerm[j]
    BY <1>1, <2>2 DEF AdoptedVote
  <2> QED BY <1>1, <2>1, <2>2
<1>6. VotesKept
  BY <1>3, <1>5 DEF VotesKept
<1>7. DiskForward
  <2>1. \A k \in Server : raftState[k].currentTerm \in Nat
    BY TermTypes
  <2> QED BY <1>1, <1>4, <2>1 DEF DiskForward
<1>8. \A u \in Term : u > t => voteHistory'[j][u] = NoVote
  BY <1>1, <1>3
<1>9. VoteInv'
  <2> SUFFICES ASSUME NEW k \in Server
               PROVE  /\ raftState'[k].currentTerm <= currentTerm'[k]
                      /\ voteHistory'[k][currentTerm'[k]] = votedFor'[k]
                      /\ voteHistory'[k][raftState'[k].currentTerm]
                            = raftState'[k].votedFor
                      /\ \A u \in Term : u > raftState'[k].currentTerm
                                           => voteHistory'[k][u] = NoVote
    BY DEF VoteInv
  <2>1. CASE k = j
    BY <1>1, <1>2, <1>3, <1>4, <1>8, <2>1
  <2>2. CASE k # j
    BY <1>2, <1>3, <1>4, <2>2 DEF VoteInv
  <2> QED BY <2>1, <2>2
<1> QED BY <1>3, <1>4, <1>6, <1>7, <1>9

-----------------------------------------------------------------------------
(* What a step may do to the calls *)

\* Every call after the step is a call before it, possibly answered, and no
\* question is there twice.
CallsDerived ==
    /\ \A c \in rvCalls' :
         /\ \E d \in rvCalls : SameCall(c, d) /\ (c.live => d.live)
         /\ c.phase = "reply" => c.live
         /\ c.phase = "reply" /\ c.voteGranted =>
              c.rterm = c.term /\ voteHistory'[c.to][c.term] = c.from
    /\ \A c, d \in rvCalls' : c.live /\ d.live /\ SameCall(c, d) => c = d

LEMMA rvTypes ==
    ASSUME TypeOK, NEW c \in rvCalls
    PROVE  /\ c \in RVCall /\ c.from \in Server /\ c.to \in Server
           /\ c.term \in Term /\ c.rterm \in Term
<1>1. c \in RVCall
  BY DEF TypeOK
<1> QED BY <1>1 DEF RVCall

LEMMA CallsStep ==
    ASSUME TypeOK, TypeOK', CallInv, DiskForward, CallsDerived
    PROVE  /\ CallInv'
           /\ \A i \in Server, t \in Term : Unread(i, t)' \subseteq Unread(i, t)
<1>1. ASSUME NEW c \in rvCalls'
      PROVE  c.from # c.to /\ c.term <= raftState'[c.from].currentTerm
  <2>1. PICK d \in rvCalls : SameCall(c, d)
    BY DEF CallsDerived
  <2>2. /\ d.from # d.to /\ d.term <= raftState[d.from].currentTerm
        /\ d.from \in Server /\ d.term \in Nat
        /\ raftState[d.from].currentTerm \in Nat
    BY TermTypes, rvTypes DEF CallInv
  <2>3. raftState'[d.from].currentTerm >= raftState[d.from].currentTerm
    BY <2>2 DEF DiskForward
  <2>4. raftState'[d.from].currentTerm \in Nat
    <3>1. raftState'[d.from] \in RaftState /\ Term \subseteq Nat
      BY <2>2, TermTypes DEF TypeOK
    <3> QED BY <3>1 DEF RaftState
  <2> QED BY <2>1, <2>2, <2>3, <2>4 DEF SameCall
<1>2. CallInv'
  BY <1>1 DEF CallInv, CallsDerived, SameCall
<1>3. ASSUME NEW i \in Server, NEW t \in Term, NEW j \in Unread(i, t)'
      PROVE  j \in Unread(i, t)
  <2>1. PICK c \in rvCalls' : c.live /\ c.from = i /\ c.to = j /\ c.term = t
    BY <1>3 DEF Unread
  <2>2. PICK d \in rvCalls : SameCall(c, d) /\ d.live
    BY <2>1 DEF CallsDerived
  <2> QED BY <1>3, <2>1, <2>2 DEF Unread, SameCall
<1> QED BY <1>2, <1>3

\* The three ways to get there: calls end, ...
LEMMA CallsFewer ==
    ASSUME TypeOK, CallInv, VotesKept, rvCalls' \subseteq rvCalls
    PROVE  CallsDerived
<1>1. ASSUME NEW c \in rvCalls', c.phase = "reply", c.voteGranted
      PROVE  c.rterm = c.term /\ voteHistory'[c.to][c.term] = c.from
  <2>1. /\ c.rterm = c.term /\ voteHistory[c.to][c.term] = c.from
        /\ c.from \in Server /\ c.to \in Server /\ c.term \in Term
    BY <1>1, rvTypes DEF CallInv
  <2> QED BY <2>1, NoVoteAssumption DEF VotesKept
<1> QED BY <1>1 DEF CallsDerived, CallInv, SameCall

\* ... one call is answered, ...
LEMMA CallsAnswered ==
    ASSUME TypeOK, CallInv, VotesKept, NEW c \in rvCalls, NEW t \in Term,
           NEW granted \in BOOLEAN, rvCalls' = rvReply(c, t, granted),
           granted => t = c.term /\ voteHistory'[c.to][c.term] = c.from
    PROVE  CallsDerived
<1> DEFINE r == [c EXCEPT !.phase = "reply", !.rterm = t, !.voteGranted = granted]
<1>1. /\ SameCall(r, c) /\ r.live = c.live /\ r.phase = "reply"
      /\ r.rterm = t /\ r.voteGranted = granted
      /\ r.from = c.from /\ r.to = c.to /\ r.term = c.term
  BY rvTypes DEF RVCall, SameCall
<1>2. \A d \in rvCalls' : (d \in rvCalls /\ d # c) \/ (d = r /\ c.live)
  BY DEF rvReply, Answered
<1> HIDE DEF r
<1>3. ASSUME NEW d \in rvCalls, d.phase = "reply", d.voteGranted
      PROVE  d.rterm = d.term /\ voteHistory'[d.to][d.term] = d.from
  <2>1. /\ d.rterm = d.term /\ voteHistory[d.to][d.term] = d.from
        /\ d.from \in Server /\ d.to \in Server /\ d.term \in Term
    BY <1>3, rvTypes DEF CallInv
  <2> QED BY <2>1, NoVoteAssumption DEF VotesKept
<1>4. ASSUME NEW d \in rvCalls'
      PROVE  /\ \E e \in rvCalls : SameCall(d, e) /\ (d.live => e.live)
             /\ d.phase = "reply" => d.live
             /\ d.phase = "reply" /\ d.voteGranted =>
                  d.rterm = d.term /\ voteHistory'[d.to][d.term] = d.from
  <2>1. CASE d \in rvCalls
    BY <1>3, <2>1 DEF CallInv, SameCall
  <2>2. CASE d = r /\ c.live
    BY <1>1, <2>2
  <2> QED BY <1>2, <2>1, <2>2
<1>5. ASSUME NEW d \in rvCalls', NEW e \in rvCalls', d.live, e.live, SameCall(d, e)
      PROVE  d = e
  <2>1. CASE d \in rvCalls /\ e \in rvCalls
    BY <1>5, <2>1 DEF CallInv
  <2>2. CASE d \in rvCalls /\ d # c /\ e = r /\ c.live
    BY <1>1, <1>5, <2>2 DEF CallInv, SameCall
  <2>3. CASE e \in rvCalls /\ e # c /\ d = r /\ c.live
    BY <1>1, <1>5, <2>3 DEF CallInv, SameCall
  <2> QED BY <1>2, <2>1, <2>2, <2>3
<1> QED BY <1>4, <1>5 DEF CallsDerived

\* ... or their caller dies.
LEMMA CallsOrphaned ==
    ASSUME TypeOK, CallInv, VotesKept, NEW i \in Server,
           rvCalls' = Orphaned(rvCalls, i)
    PROVE  CallsDerived
<1>1. ASSUME NEW d \in rvCalls
      PROVE  LET o == [d EXCEPT !.live = FALSE] IN
             SameCall(o, d) /\ ~o.live /\ o.phase = d.phase
  BY rvTypes DEF RVCall, SameCall
<1>2. ASSUME NEW c \in rvCalls'
      PROVE  \/ c \in rvCalls
             \/ /\ ~c.live /\ c.phase = "request"
                /\ \E d \in rvCalls : SameCall(c, d)
  BY <1>1 DEF Orphaned
<1>3. ASSUME NEW c \in rvCalls, c.phase = "reply", c.voteGranted
      PROVE  c.rterm = c.term /\ voteHistory'[c.to][c.term] = c.from
  <2>1. /\ c.rterm = c.term /\ voteHistory[c.to][c.term] = c.from
        /\ c.from \in Server /\ c.to \in Server /\ c.term \in Term
    BY <1>3, rvTypes DEF CallInv
  <2> QED BY <2>1, NoVoteAssumption DEF VotesKept
<1>4. ASSUME NEW c \in rvCalls'
      PROVE  /\ \E d \in rvCalls : SameCall(c, d) /\ (c.live => d.live)
             /\ c.phase = "reply" => c.live
             /\ c.phase = "reply" /\ c.voteGranted =>
                  c.rterm = c.term /\ voteHistory'[c.to][c.term] = c.from
  <2>1. CASE c \in rvCalls
    BY <1>3, <2>1 DEF CallInv, SameCall
  <2>2. CASE /\ ~c.live /\ c.phase = "request"
             /\ \E d \in rvCalls : SameCall(c, d)
    BY <2>2
  <2> QED BY <1>2, <2>1, <2>2
<1>5. ASSUME NEW c \in rvCalls', NEW d \in rvCalls', c.live, d.live, SameCall(c, d)
      PROVE  c = d
  BY <1>2, <1>5 DEF CallInv
<1> QED BY <1>4, <1>5 DEF CallsDerived

-----------------------------------------------------------------------------
(* Counting *)

LEMMA VotersFinite ==
    ASSUME NEW S, S \subseteq Server
    PROVE  /\ IsFiniteSet(S) /\ Cardinality(S) \in Nat
           /\ \A T \in SUBSET S : Cardinality(T) <= Cardinality(S)
                                  /\ Cardinality(T) \in Nat
<1>1. IsFiniteSet(S)
  BY ServerAssumption, FS_Subset
<1> QED BY <1>1, FS_Subset, FS_CardinalityType

LEMMA VotersGrow ==
    ASSUME VotesKept, NEW i \in Server, NEW t \in Term
    PROVE  Voters(i, t) \subseteq Voters(i, t)'
BY NoVoteAssumption DEF VotesKept, Voters

\* Votes stand and answers only come in, so the counted voters stay.
LEMMA CountKept ==
    ASSUME TypeOK, TypeOK', VotesKept, CountInv,
           NEW i \in Server, NEW t \in Term,
           Unread(i, t)' \subseteq Unread(i, t),
           voteNum'[i][t] <= voteNum[i][t]
    PROVE  voteNum'[i][t] <= Cardinality(Counted(i, t)')
<1>1. Counted(i, t) \subseteq Counted(i, t)' /\ Counted(i, t)' \subseteq Server
  BY VotersGrow DEF Counted, Voters
<1>2. /\ Cardinality(Counted(i, t)) <= Cardinality(Counted(i, t)')
      /\ Cardinality(Counted(i, t)) \in Nat
      /\ Cardinality(Counted(i, t)') \in Nat
  BY <1>1, VotersFinite
<1>3. /\ voteNum[i][t] <= Cardinality(Counted(i, t))
      /\ voteNum[i][t] \in Nat /\ voteNum'[i][t] \in Nat
  BY DEF CountInv, TypeOK
<1> QED BY <1>2, <1>3

LEMMA WinKept ==
    ASSUME TypeOK, VotesKept, WinInv, leaders' = leaders
    PROVE  WinInv'
<1> SUFFICES ASSUME NEW t \in Term, NEW i \in leaders[t]
             PROVE  Cardinality(Voters(i, t)') >= Majority
  BY DEF WinInv
<1>1. i \in Server
  BY DEF TypeOK
<1>2. /\ Cardinality(Voters(i, t)') >= Cardinality(Voters(i, t))
      /\ Cardinality(Voters(i, t)') \in Nat /\ Cardinality(Voters(i, t)) \in Nat
  <2>1. Voters(i, t) \subseteq Voters(i, t)' /\ Voters(i, t)' \subseteq Server
    BY <1>1, VotersGrow DEF Voters
  <2> QED BY <2>1, VotersFinite
<1>3. Cardinality(Voters(i, t)) >= Majority
  BY DEF WinInv
<1>4. Majority \in Nat
  BY ServerAssumption, FS_CardinalityType DEF Majority
<1> QED BY <1>2, <1>3, <1>4

\* The steps that neither count a vote nor open an election.
LEMMA Uncounted ==
    ASSUME ElectionInv, TypeOK', VoteInv', VotesKept, DiskForward, CallsDerived,
           leaders' = leaders,
           \A i \in Server, t \in Term : voteNum'[i][t] <= voteNum[i][t]
    PROVE  ElectionInv'
<1>1. CallInv' /\ \A i \in Server, t \in Term : Unread(i, t)' \subseteq Unread(i, t)
  BY CallsStep DEF ElectionInv
<1>2. CountInv'
  BY <1>1, CountKept DEF ElectionInv, CountInv
<1>3. WinInv'
  BY WinKept DEF ElectionInv
<1> QED BY <1>1, <1>2, <1>3 DEF ElectionInv

LEMMA SameCount ==
    ASSUME TypeOK, voteNum' = voteNum
    PROVE  \A i \in Server, t \in Term : voteNum'[i][t] <= voteNum[i][t]
<1>1. \A i \in Server, t \in Term : voteNum[i][t] \in Nat
  BY DEF TypeOK
<1> QED BY <1>1

-----------------------------------------------------------------------------
(* The steps of an election *)

LEMMA doElectionKeeps ==
    ASSUME ElectionInv, TypeOK', NEW i \in Server, doElection(i)
    PROVE  ElectionInv'
<1> DEFINE t == currentTerm[i] + 1
           call(j) == [from |-> i, to |-> j, live |-> TRUE, phase |-> "request",
                       term |-> t, lastLogIndex |-> getLastLogIndex(i),
                       lastLogTerm |-> getLastLogTerm(i),
                       rterm |-> 0, voteGranted |-> FALSE]
           new == {call(j) : j \in Server \ {i}}
<1>1. /\ TypeOK /\ VoteInv /\ CallInv /\ CountInv /\ WinInv
      /\ currentTerm[i] \in Nat /\ t \in Term /\ t > currentTerm[i]
      /\ raftState[i].currentTerm \in Nat /\ raftState[i].currentTerm < t
  <2>1. /\ currentTerm[i] \in Term /\ raftState[i].currentTerm \in Term
        /\ Term \subseteq Nat /\ raftState[i].currentTerm <= currentTerm[i]
    BY TermTypes DEF ElectionInv, VoteInv
  <2>2. t \in Term
    BY <2>1, BoundAssumption DEF doElection, Term
  <2>3. currentTerm[i] \in Nat /\ raftState[i].currentTerm \in Nat
    BY <2>1
  <2> QED BY <2>1, <2>2, <2>3 DEF ElectionInv
<1>2. /\ currentTerm' = [currentTerm EXCEPT ![i] = t]
      /\ votedFor' = [votedFor EXCEPT ![i] = i]
      /\ voteNum' = [voteNum EXCEPT ![i][t] = 1]
      /\ rvCalls' = rvCalls \cup new
      /\ voteHistory' = [voteHistory EXCEPT ![i][t] = i]
      /\ leaders' = leaders /\ persist(i)
  BY DEF doElection
<1>3. \A c \in new : /\ c.from = i /\ c.to \in Server \ {i} /\ c.term = t
                     /\ c.phase = "request"
  OBVIOUS
<1>4. \A c, d \in new : c.to = d.to => c = d
  <2> SUFFICES ASSUME NEW c \in new, NEW d \in new, c.to = d.to PROVE c = d
    OBVIOUS
  <2>1. PICK j \in Server \ {i} : c = call(j)
    OBVIOUS
  <2>2. PICK k \in Server \ {i} : d = call(k)
    OBVIOUS
  <2>3. j = k
    BY <2>1, <2>2
  <2> QED BY <2>1, <2>2, <2>3
<1> HIDE DEF new, t
<1>5. /\ VoteInv' /\ VotesKept /\ DiskForward /\ voteHistory'[i][t] = i
      /\ raftState'[i].currentTerm = t
  <2>1. t >= currentTerm[i] /\ AdoptedVote(i, t) = NoVote
    BY <1>1 DEF AdoptedVote, t
  <2> QED BY <1>1, <1>2, <2>1, Cast
<1>6. \A c \in rvCalls : c.from = i => c.term < t
  <2> SUFFICES ASSUME NEW c \in rvCalls, c.from = i
               PROVE  c.term < t
    OBVIOUS
  <2>1. c.term <= raftState[i].currentTerm /\ c.term \in Term /\ Term \subseteq Nat
    BY <1>1, rvTypes, TermTypes DEF CallInv
  <2>2. c.term \in Nat /\ t \in Nat
    BY <1>1, <2>1
  <2> QED BY <1>1, <2>1, <2>2
<1>7. CallInv'
  <2>1. ASSUME NEW c \in rvCalls'
        PROVE  /\ c.from # c.to
               /\ c.term <= raftState'[c.from].currentTerm
               /\ c.phase = "reply" => c.live
               /\ c.phase = "reply" /\ c.voteGranted =>
                    c.rterm = c.term /\ voteHistory'[c.to][c.term] = c.from
    <3>1. CASE c \in rvCalls
      <4>1. /\ c.from \in Server /\ c.to \in Server /\ c.term \in Term
            /\ c.from # c.to /\ c.term <= raftState[c.from].currentTerm
            /\ c.phase = "reply" => c.live
            /\ c.phase = "reply" /\ c.voteGranted =>
                 c.rterm = c.term /\ voteHistory[c.to][c.term] = c.from
        BY <1>1, <3>1, rvTypes DEF CallInv
      <4>2. c.term \in Nat /\ raftState[c.from].currentTerm \in Nat
            /\ raftState'[c.from].currentTerm \in Nat
        <5>1. raftState'[c.from] \in RaftState /\ Term \subseteq Nat
          BY <1>1, <4>1, TermTypes DEF TypeOK
        <5> QED BY <1>1, <4>1, <5>1, TermTypes DEF RaftState
      <4>3. c.term <= raftState'[c.from].currentTerm
        BY <1>5, <4>1, <4>2 DEF DiskForward
      <4>4. voteHistory[c.to][c.term] = c.from => voteHistory'[c.to][c.term] = c.from
        BY <1>5, <4>1, NoVoteAssumption DEF VotesKept
      <4> QED BY <4>1, <4>3, <4>4
    <3>2. CASE c \in new
      BY <1>1, <1>3, <1>5, <3>2, TermTypes
    <3> QED BY <1>2, <3>1, <3>2
  <2>2. ASSUME NEW c \in rvCalls', NEW d \in rvCalls', c.live, d.live, SameCall(c, d)
        PROVE  c = d
    <3>1. CASE c \in rvCalls /\ d \in rvCalls
      BY <1>1, <2>2, <3>1 DEF CallInv
    <3>2. CASE c \in new /\ d \in new
      BY <1>4, <2>2, <3>2 DEF SameCall
    <3>3. CASE (c \in rvCalls /\ d \in new) \/ (c \in new /\ d \in rvCalls)
      <4>1. c.from = i /\ d.from = i /\ c.term = t /\ d.term = t
        BY <1>3, <2>2, <3>3 DEF SameCall
      <4> QED BY <1>1, <1>6, <3>3, <4>1, TermTypes
    <3> QED BY <1>2, <3>1, <3>2, <3>3
  <2> QED BY <2>1, <2>2 DEF CallInv
<1>8. CountInv'
  <2> SUFFICES ASSUME NEW k \in Server, NEW u \in Term
               PROVE  voteNum'[k][u] <= Cardinality(Counted(k, u)')
    BY DEF CountInv
  <2>1. CASE k = i /\ u = t
    <3>1. voteNum'[k][u] = 1
      BY <1>1, <1>2, <2>1 DEF TypeOK
    <3>2. k \in Voters(k, u)'
      BY <1>5, <2>1 DEF Voters
    <3>3. k \notin Unread(k, u)'
      BY <1>7 DEF Unread, CallInv
    <3>4. {k} \subseteq Counted(k, u)' /\ Counted(k, u)' \subseteq Server
      BY <3>2, <3>3 DEF Counted, Voters
    <3>5. /\ Cardinality({k}) <= Cardinality(Counted(k, u)')
          /\ Cardinality({k}) = 1 /\ Cardinality(Counted(k, u)') \in Nat
      BY <3>4, VotersFinite, FS_Singleton
    <3> QED BY <3>1, <3>5
  <2>2. CASE ~(k = i /\ u = t)
    <3>1. voteNum'[k][u] = voteNum[k][u] /\ voteNum[k][u] \in Nat
      <4>1. voteNum \in [Server -> [Term -> Nat]]
        BY <1>1 DEF TypeOK
      <4> QED BY <1>2, <2>2, <4>1
    <3>2. Unread(k, u)' \subseteq Unread(k, u)
      BY <1>2, <1>3, <2>2 DEF Unread
    <3> QED BY <1>1, <1>5, <3>1, <3>2, CountKept
  <2> QED BY <2>1, <2>2
<1>9. WinInv'
  BY <1>1, <1>2, <1>5, WinKept
<1> QED BY <1>5, <1>7, <1>8, <1>9 DEF ElectionInv

LEMMA requestVoteKeeps ==
    ASSUME ElectionInv, TypeOK', NEW c \in rvCalls,
           requestVoteStale(c) \/ requestVoteRefuse(c) \/ requestVoteGrant(c)
    PROVE  ElectionInv'
<1>1. /\ TypeOK /\ VoteInv /\ CallInv
      /\ c.from \in Server /\ c.to \in Server /\ c.term \in Term
      /\ currentTerm[c.to] \in Term /\ Term \subseteq Nat
  BY rvTypes, TermTypes DEF ElectionInv
<1>2. leaders' = leaders /\ voteNum' = voteNum /\ persist(c.to)
  BY DEF requestVoteStale, requestVoteRefuse, requestVoteGrant, rvUnchanged
<1>3. CASE requestVoteStale(c)
  <2>1. /\ rvCalls' = rvReply(c, currentTerm[c.to], FALSE)
        /\ currentTerm' = currentTerm /\ votedFor' = votedFor
        /\ voteHistory' = voteHistory
    BY <1>3 DEF requestVoteStale, termVars
  <2>2. VoteInv' /\ VotesKept /\ DiskForward
    BY <1>1, <1>2, <2>1, Stay
  <2>3. CallsDerived
    BY <1>1, <2>1, <2>2, CallsAnswered
  <2> QED BY <1>1, <1>2, <2>2, <2>3, SameCount, Uncounted
<1>4. CASE requestVoteRefuse(c)
  <2>1. /\ rvCalls' = rvReply(c, c.term, FALSE)
        /\ c.term >= currentTerm[c.to]
        /\ currentTerm' = [currentTerm EXCEPT ![c.to] = c.term]
        /\ votedFor' = [votedFor EXCEPT ![c.to] = AdoptedVote(c.to, c.term)]
        /\ voteHistory' = voteHistory
    BY <1>4 DEF requestVoteRefuse
  <2>2. /\ currentTerm'[c.to] = c.term
        /\ votedFor'[c.to] = AdoptedVote(c.to, c.term)
        /\ \A k \in Server \ {c.to} : /\ currentTerm'[k] = currentTerm[k]
                                     /\ votedFor'[k] = votedFor[k]
    BY <1>1, <2>1 DEF TypeOK
  <2>3. VoteInv' /\ VotesKept /\ DiskForward
    BY <1>1, <1>2, <2>1, <2>2, Follow
  <2>4. CallsDerived
    BY <1>1, <2>1, <2>3, CallsAnswered
  <2> QED BY <1>1, <1>2, <2>3, <2>4, SameCount, Uncounted
<1>5. CASE requestVoteGrant(c)
  <2>1. /\ rvCalls' = rvReply(c, c.term, TRUE)
        /\ c.term >= currentTerm[c.to]
        /\ AdoptedVote(c.to, c.term) \in {NoVote, c.from}
        /\ currentTerm' = [currentTerm EXCEPT ![c.to] = c.term]
        /\ votedFor' = [votedFor EXCEPT ![c.to] = c.from]
        /\ voteHistory' = [voteHistory EXCEPT ![c.to][c.term] = c.from]
    BY <1>5 DEF requestVoteGrant, CanGrant
  <2>2. /\ VoteInv' /\ VotesKept /\ DiskForward
        /\ voteHistory'[c.to][c.term] = c.from
    BY <1>1, <1>2, <2>1, Cast
  <2>3. CallsDerived
    BY <1>1, <2>1, <2>2, CallsAnswered
  <2> QED BY <1>1, <1>2, <2>2, <2>3, SameCount, Uncounted
<1> QED BY <1>3, <1>4, <1>5

\* The voter whose answer is read joins the counted ones.
LEMMA NewlyCounted ==
    ASSUME ElectionInv, NEW c \in rvCalls, GrantedNow(c), rvCalls' = rvCalls \ {c},
           voteHistory' = voteHistory
    PROVE  /\ c.from \in Server /\ c.term \in Term
           /\ c.term = currentTerm[c.from]
           /\ voteNum[c.from][c.term] \in Nat
           /\ Cardinality(Counted(c.from, c.term)') \in Nat
           /\ Cardinality(Counted(c.from, c.term)) \in Nat
           /\ Cardinality(Counted(c.from, c.term)) + 1
                <= Cardinality(Counted(c.from, c.term)')
           /\ voteNum[c.from][c.term] + 1 <= Cardinality(Counted(c.from, c.term)')
<1> DEFINE i == c.from
           t == c.term
           old == Counted(i, t)
           new == Counted(i, t)'
<1>1. /\ TypeOK /\ CallInv /\ CountInv
      /\ i \in Server /\ c.to \in Server /\ t \in Term
  BY rvTypes DEF ElectionInv
<1>2. c.live /\ voteHistory[c.to][t] = i /\ c.rterm = t /\ c.rterm = currentTerm[i]
  <2>1. /\ c.phase = "reply" /\ c.voteGranted /\ c.rterm = currentTerm[i]
    BY DEF GrantedNow
  <2>2. /\ c.phase = "reply" => c.live
        /\ c.phase = "reply" /\ c.voteGranted =>
             c.rterm = c.term /\ voteHistory[c.to][c.term] = c.from
    BY <1>1 DEF CallInv
  <2> QED BY <2>1, <2>2
<1>3. c.to \notin old
  <2>1. c.to \in Unread(i, t)
    BY <1>1, <1>2 DEF Unread
  <2> QED BY <2>1 DEF Counted
<1>4. old \cup {c.to} \subseteq new
  <2>1. Voters(i, t)' = Voters(i, t) /\ c.to \in Voters(i, t)
    BY <1>1, <1>2 DEF Voters
  <2>2. Unread(i, t)' \subseteq Unread(i, t)
    BY DEF Unread
  <2>3. c.to \notin Unread(i, t)'
    <3> SUFFICES ASSUME NEW d \in rvCalls', d.live, d.from = i, d.to = c.to, d.term = t
                 PROVE  FALSE
      BY DEF Unread
    <3>1. d \in rvCalls /\ d # c /\ SameCall(c, d)
      BY DEF SameCall
    <3> QED BY <1>1, <1>2, <3>1 DEF CallInv
  <2> QED BY <2>1, <2>2, <2>3 DEF Counted
<1>5. new \subseteq Server /\ old \subseteq Server
  BY DEF Counted, Voters
<1> HIDE DEF old, new
<1>6. /\ IsFiniteSet(old) /\ Cardinality(old) \in Nat /\ Cardinality(new) \in Nat
      /\ Cardinality(old \cup {c.to}) <= Cardinality(new)
  BY <1>4, <1>5, VotersFinite
<1>7. Cardinality(old \cup {c.to}) = Cardinality(old) + 1
  BY <1>3, <1>6, FS_AddElement
<1>8. voteNum[i][t] <= Cardinality(old) /\ voteNum[i][t] \in Nat
  BY <1>1 DEF CountInv, TypeOK, old
<1>9. voteNum[i][t] + 1 <= Cardinality(new)
  BY <1>6, <1>7, <1>8
<1>10. Cardinality(old) + 1 <= Cardinality(new)
  BY <1>6, <1>7
<1> QED BY <1>1, <1>2, <1>6, <1>8, <1>9, <1>10 DEF old, new

LEMMA sendRequestVoteKeeps ==
    ASSUME ElectionInv, TypeOK', NEW c \in rvCalls,
           \/ sendRequestVoteHigherTerm(c) \/ sendRequestVoteCount(c)
           \/ sendRequestVoteWin(c) \/ sendRequestVoteEnd(c)
    PROVE  ElectionInv'
<1>1. /\ TypeOK /\ VoteInv /\ CallInv /\ CountInv /\ WinInv
      /\ c.from \in Server /\ c.term \in Term /\ c.rterm \in Term
      /\ currentTerm[c.from] \in Term /\ Term \subseteq Nat
  BY rvTypes, TermTypes DEF ElectionInv
<1>2. rvCalls' = rvCalls \ {c} /\ voteHistory' = voteHistory
  BY DEF sendRequestVoteHigherTerm, sendRequestVoteCount, sendRequestVoteWin,
         sendRequestVoteEnd, histVars
<1>3. CASE sendRequestVoteHigherTerm(c)
  <2>1. /\ c.rterm > currentTerm[c.from] /\ BecomeFollower(c.from, c.rterm)
        /\ persist(c.from) /\ leaders' = leaders /\ voteNum' = voteNum
    BY <1>3 DEF sendRequestVoteHigherTerm, rvUnchanged
  <2>2. /\ c.rterm >= currentTerm[c.from]
        /\ currentTerm'[c.from] = c.rterm
        /\ votedFor'[c.from] = AdoptedVote(c.from, c.rterm)
        /\ \A k \in Server \ {c.from} : /\ currentTerm'[k] = currentTerm[k]
                                       /\ votedFor'[k] = votedFor[k]
    <3>1. currentTerm \in [Server -> Term] /\ votedFor \in [Server -> Server \cup {NoVote}]
      BY <1>1 DEF TypeOK
    <3>2. c.rterm \in Nat /\ currentTerm[c.from] \in Nat
      BY <1>1
    <3>3. /\ currentTerm' = [currentTerm EXCEPT ![c.from] = c.rterm]
          /\ votedFor' = [votedFor EXCEPT ![c.from] = NoVote]
      BY <2>1 DEF BecomeFollower
    <3>4. AdoptedVote(c.from, c.rterm) = NoVote
      BY <2>1 DEF AdoptedVote
    <3> QED BY <1>1, <2>1, <3>1, <3>2, <3>3, <3>4
  <2>3. VoteInv' /\ VotesKept /\ DiskForward
    BY <1>1, <1>2, <2>1, <2>2, Follow
  <2>4. CallsDerived
    BY <1>1, <1>2, <2>3, CallsFewer
  <2> QED BY <1>1, <2>1, <2>3, <2>4, SameCount, Uncounted
<1>4. ASSUME currentTerm' = currentTerm, votedFor' = votedFor, raftState' = raftState
      PROVE  VoteInv' /\ VotesKept /\ DiskForward /\ CallsDerived
  <2>1. VoteInv' /\ VotesKept /\ DiskForward
    BY <1>1, <1>2, <1>4, Stay
  <2> QED BY <1>1, <1>2, <2>1, CallsFewer
<1>5. CASE sendRequestVoteEnd(c)
  <2>1. /\ currentTerm' = currentTerm /\ votedFor' = votedFor
        /\ raftState' = raftState /\ leaders' = leaders /\ voteNum' = voteNum
    BY <1>5 DEF sendRequestVoteEnd, termVars, diskVars, histVars
  <2> QED BY <1>1, <1>4, <2>1, SameCount, Uncounted
<1>6. CASE sendRequestVoteCount(c)
  <2>1. /\ currentTerm' = currentTerm /\ votedFor' = votedFor
        /\ raftState' = raftState /\ leaders' = leaders /\ GrantedNow(c)
        /\ voteNum' = [voteNum EXCEPT ![c.from][c.term] = @ + 1]
    BY <1>6 DEF sendRequestVoteCount, termVars, diskVars, histVars
  <2>2. VoteInv' /\ VotesKept /\ DiskForward /\ CallsDerived
    BY <1>4, <2>1
  <2>3. CallInv' /\ \A i \in Server, t \in Term : Unread(i, t)' \subseteq Unread(i, t)
    BY <1>1, <2>2, CallsStep
  <2>4. voteNum \in [Server -> [Term -> Nat]]
    BY <1>1 DEF TypeOK
  <2>5. CountInv'
    <3> SUFFICES ASSUME NEW i \in Server, NEW t \in Term
                 PROVE  voteNum'[i][t] <= Cardinality(Counted(i, t)')
      BY DEF CountInv
    <3>1. CASE i = c.from /\ t = c.term
      <4>1. voteNum'[i][t] = voteNum[i][t] + 1
        BY <2>1, <2>4, <3>1
      <4>2. voteNum[c.from][c.term] + 1 <= Cardinality(Counted(c.from, c.term)')
        BY <1>2, <2>1, NewlyCounted
      <4> QED BY <3>1, <4>1, <4>2
    <3>2. CASE ~(i = c.from /\ t = c.term)
      <4>1. voteNum'[i][t] = voteNum[i][t] /\ voteNum[i][t] \in Nat
        BY <2>1, <2>4, <3>2
      <4> QED BY <1>1, <2>2, <2>3, <4>1, CountKept
    <3> QED BY <3>1, <3>2
  <2>6. WinInv'
    BY <1>1, <2>1, <2>2, WinKept
  <2> QED BY <2>2, <2>3, <2>5, <2>6 DEF ElectionInv
<1>7. CASE sendRequestVoteWin(c)
  <2>1. /\ currentTerm' = currentTerm /\ votedFor' = votedFor
        /\ raftState' = raftState /\ GrantedNow(c) /\ Elected(c)
        /\ leaders' = [leaders EXCEPT ![currentTerm[c.from]] = @ \cup {c.from}]
        /\ voteNum' = [voteNum EXCEPT ![c.from][c.term] = 0]
    BY <1>7 DEF sendRequestVoteWin, diskVars
  <2>2. VoteInv' /\ VotesKept /\ DiskForward /\ CallsDerived
    BY <1>4, <2>1
  <2>3. CallInv' /\ \A i \in Server, t \in Term : Unread(i, t)' \subseteq Unread(i, t)
    BY <1>1, <2>2, CallsStep
  <2>4. voteNum \in [Server -> [Term -> Nat]]
    BY <1>1 DEF TypeOK
  <2>5. CountInv'
    <3> SUFFICES ASSUME NEW i \in Server, NEW t \in Term
                 PROVE  voteNum'[i][t] <= Cardinality(Counted(i, t)')
      BY DEF CountInv
    <3>1. voteNum'[i][t] <= voteNum[i][t]
      <4>1. voteNum[i][t] \in Nat
        BY <2>4
      <4>2. voteNum'[i][t] \in {0, voteNum[i][t]}
        BY <2>1, <2>4
      <4> QED BY <4>1, <4>2
    <3> QED BY <1>1, <2>2, <2>3, <3>1, CountKept
  <2>6. WinInv'
    <3> SUFFICES ASSUME NEW t \in Term, NEW i \in leaders'[t]
                 PROVE  Cardinality(Voters(i, t)') >= Majority
      BY DEF WinInv
    <3>1. Voters(i, t)' = Voters(i, t)
      BY <1>2 DEF Voters
    <3>2. CASE i \in leaders[t]
      BY <1>1, <3>1, <3>2 DEF WinInv
    <3>3. CASE i = c.from /\ t = currentTerm[c.from]
      <4>1. /\ t = c.term
            /\ voteNum[c.from][c.term] \in Nat
            /\ Cardinality(Counted(i, t)') \in Nat
            /\ voteNum[c.from][c.term] + 1 <= Cardinality(Counted(i, t)')
        BY <1>2, <2>1, <3>3, NewlyCounted
      <4>2. voteNum[c.from][c.term] + 1 >= Majority
        BY <2>1 DEF Elected
      <4>3. /\ Cardinality(Counted(i, t)') <= Cardinality(Voters(i, t)')
            /\ Cardinality(Voters(i, t)') \in Nat
        <5>1. /\ Counted(i, t)' \subseteq Voters(i, t)'
              /\ Voters(i, t)' \subseteq Server
          BY DEF Counted, Voters
        <5> QED BY <5>1, VotersFinite
      <4>4. Majority \in Nat
        BY ServerAssumption, FS_CardinalityType DEF Majority
      <4> QED BY <4>1, <4>2, <4>3, <4>4
    <3>4. i \in leaders[t] \/ (i = c.from /\ t = currentTerm[c.from])
      <4>1. leaders \in [Term -> SUBSET Server]
        BY <1>1 DEF TypeOK
      <4> QED BY <2>1, <4>1
    <3> QED BY <3>2, <3>3, <3>4
  <2> QED BY <2>2, <2>3, <2>5, <2>6 DEF ElectionInv
<1> QED BY <1>3, <1>5, <1>6, <1>7

-----------------------------------------------------------------------------
(* The other steps: no vote is cast, read or counted *)

\* What all of them have in common with respect to server j.
LEMMA Quiet ==
    ASSUME ElectionInv, TypeOK', NEW j \in Server, NEW t \in Term,
           t >= currentTerm[j], currentTerm'[j] = t,
           votedFor'[j] = AdoptedVote(j, t),
           \A k \in Server \ {j} : /\ currentTerm'[k] = currentTerm[k]
                                  /\ votedFor'[k] = votedFor[k],
           persist(j) \/ raftState' = raftState,
           UNCHANGED <<rvCalls, voteNum, voteHistory, leaders>>
    PROVE  ElectionInv'
<1>1. TypeOK /\ VoteInv /\ CallInv
  BY DEF ElectionInv
<1>2. VoteInv' /\ VotesKept /\ DiskForward
  BY <1>1, Follow
<1>3. CallsDerived
  BY <1>1, <1>2, CallsFewer
<1> QED BY <1>1, <1>2, <1>3, SameCount, Uncounted

LEMMA QuietStay ==
    ASSUME ElectionInv, TypeOK', NEW j \in Server,
           UNCHANGED <<currentTerm, votedFor, rvCalls, voteNum, voteHistory, leaders>>,
           persist(j) \/ raftState' = raftState
    PROVE  ElectionInv'
<1>1. TypeOK /\ VoteInv /\ CallInv
  BY DEF ElectionInv
<1>2. VoteInv' /\ VotesKept /\ DiskForward
  BY <1>1, Stay
<1>3. CallsDerived
  BY <1>1, <1>2, CallsFewer
<1> QED BY <1>1, <1>2, <1>3, SameCount, Uncounted

LEMMA FollowLeaderKeeps ==
    ASSUME ElectionInv, TypeOK', NEW j \in Server, NEW t \in Term,
           FollowLeader(j, t), persist(j) \/ raftState' = raftState,
           UNCHANGED <<rvCalls, voteNum, voteHistory, leaders>>
    PROVE  ElectionInv'
<1>1. /\ currentTerm \in [Server -> Term]
      /\ votedFor \in [Server -> Server \cup {NoVote}]
  BY DEF ElectionInv, TypeOK
<1>2. /\ t >= currentTerm[j] /\ currentTerm'[j] = t
      /\ votedFor'[j] = AdoptedVote(j, t)
      /\ \A k \in Server \ {j} : /\ currentTerm'[k] = currentTerm[k]
                                /\ votedFor'[k] = votedFor[k]
  BY <1>1 DEF FollowLeader
<1> QED BY <1>2, Quiet

LEMMA BecomeFollowerKeeps ==
    ASSUME ElectionInv, TypeOK', NEW i \in Server, NEW t \in Term,
           t > currentTerm[i], BecomeFollower(i, t),
           persist(i) \/ raftState' = raftState,
           UNCHANGED <<rvCalls, voteNum, voteHistory, leaders>>
    PROVE  ElectionInv'
<1>1. /\ currentTerm \in [Server -> Term]
      /\ votedFor \in [Server -> Server \cup {NoVote}]
      /\ currentTerm[i] \in Nat /\ t \in Nat
  BY TermTypes DEF ElectionInv, TypeOK
<1>2. /\ currentTerm' = [currentTerm EXCEPT ![i] = t]
      /\ votedFor' = [votedFor EXCEPT ![i] = NoVote]
  BY DEF BecomeFollower
<1>3. AdoptedVote(i, t) = NoVote /\ t >= currentTerm[i]
  BY <1>1 DEF AdoptedVote
<1>4. /\ currentTerm'[i] = t /\ votedFor'[i] = AdoptedVote(i, t)
      /\ \A k \in Server \ {i} : /\ currentTerm'[k] = currentTerm[k]
                                /\ votedFor'[k] = votedFor[k]
  BY <1>1, <1>2, <1>3
<1> QED BY <1>3, <1>4, Quiet

LEMMA AppendEntriesKeeps ==
    ASSUME ElectionInv, TypeOK', AppendEntriesNext
    PROVE  ElectionInv'
<1>1. PICK c \in aeCalls :
        \/ appendEntriesStale(c) \/ appendEntriesReject(c) \/ appendEntriesAccept(c)
        \/ sendAppendEntriesHigherTerm(c) \/ sendAppendEntriesBacktrack(c)
        \/ sendAppendEntriesSuccess(c) \/ sendAppendEntriesEnd(c)
  BY DEF AppendEntriesNext
<1>2. /\ c.from \in Server /\ c.to \in Server
      /\ c.term \in Term /\ c.rterm \in Term
  <2>1. c \in AECall
    BY DEF ElectionInv, TypeOK
  <2> QED BY <2>1 DEF AECall
<1>3. UNCHANGED <<rvCalls, voteNum, voteHistory, leaders>>
  BY <1>1 DEF appendEntriesStale, appendEntriesReject, appendEntriesAccept,
              sendAppendEntriesHigherTerm, sendAppendEntriesBacktrack,
              sendAppendEntriesSuccess, sendAppendEntriesEnd, histVars
<1>4. CASE appendEntriesReject(c) \/ appendEntriesAccept(c)
  BY <1>2, <1>3, <1>4, FollowLeaderKeeps DEF appendEntriesReject, appendEntriesAccept
<1>5. CASE sendAppendEntriesHigherTerm(c)
  BY <1>2, <1>3, <1>5, BecomeFollowerKeeps DEF sendAppendEntriesHigherTerm, diskVars
<1>6. CASE \/ appendEntriesStale(c) \/ sendAppendEntriesBacktrack(c)
           \/ sendAppendEntriesSuccess(c) \/ sendAppendEntriesEnd(c)
  <2>1. UNCHANGED <<currentTerm, votedFor, raftState>>
    BY <1>6 DEF appendEntriesStale, sendAppendEntriesBacktrack,
                sendAppendEntriesSuccess, sendAppendEntriesEnd, termVars, diskVars
  <2> QED BY <1>2, <1>3, <2>1, QuietStay
<1> QED BY <1>1, <1>4, <1>5, <1>6

\* A death: the caller's counters and calls are gone.
LEMMA DieKeeps ==
    ASSUME ElectionInv, TypeOK', VoteInv', VotesKept, DiskForward,
           NEW i \in Server, NEW closed, Die(i, closed)
    PROVE  ElectionInv'
<1>1. /\ rvCalls' = Orphaned(rvCalls, i) /\ leaders' = leaders
      /\ voteNum' = [voteNum EXCEPT ![i] = [t \in Term |-> 0]]
  BY DEF Die
<1>2. TypeOK /\ CallInv
  BY DEF ElectionInv
<1>3. CallsDerived
  BY <1>1, <1>2, CallsOrphaned
<1>4. ASSUME NEW k \in Server, NEW t \in Term
      PROVE  voteNum'[k][t] <= voteNum[k][t]
  <2>1. voteNum \in [Server -> [Term -> Nat]]
    BY <1>2 DEF TypeOK
  <2>2. voteNum'[k][t] \in {0, voteNum[k][t]} /\ voteNum[k][t] \in Nat
    BY <1>1, <2>1
  <2> QED BY <2>2
<1> QED BY <1>1, <1>3, <1>4, Uncounted

LEMMA RestartKeeps ==
    ASSUME ElectionInv, TypeOK', NEW i \in Server, Restart(i)
    PROVE  ElectionInv'
<1>1. PICK closed : Die(i, closed)
  BY DEF Restart
<1>2. voteHistory' = voteHistory /\ raftState' = raftState
  BY <1>1 DEF Restart, Die
<1>3. /\ TypeOK /\ VoteInv /\ currentTerm \in [Server -> Term]
      /\ votedFor \in [Server -> Server \cup {NoVote}]
  BY DEF ElectionInv, TypeOK
<1>4. /\ currentTerm' = [currentTerm EXCEPT ![i] = raftState[i].currentTerm]
      /\ votedFor' = [votedFor EXCEPT ![i] = raftState[i].votedFor]
  BY DEF Restart, Boot
<1>5. /\ currentTerm'[i] = raftState[i].currentTerm
      /\ votedFor'[i] = raftState[i].votedFor
      /\ \A k \in Server \ {i} : /\ currentTerm'[k] = currentTerm[k]
                                /\ votedFor'[k] = votedFor[k]
  BY <1>3, <1>4
<1>6. \A k \in Server : raftState[k].currentTerm \in Nat
  BY <1>3, TermTypes
<1>7. VoteInv'
  <2> SUFFICES ASSUME NEW k \in Server
               PROVE  /\ raftState[k].currentTerm <= currentTerm'[k]
                      /\ voteHistory[k][currentTerm'[k]] = votedFor'[k]
                      /\ voteHistory[k][raftState[k].currentTerm]
                            = raftState[k].votedFor
                      /\ \A u \in Term : u > raftState[k].currentTerm
                                           => voteHistory[k][u] = NoVote
    BY <1>2 DEF VoteInv
  <2>1. CASE k = i
    BY <1>3, <1>5, <1>6, <2>1 DEF VoteInv
  <2>2. CASE k # i
    BY <1>3, <1>5, <2>2 DEF VoteInv
  <2> QED BY <2>1, <2>2
<1>8. VotesKept /\ DiskForward
  BY <1>2, <1>6 DEF VotesKept, DiskForward
<1> QED BY <1>1, <1>7, <1>8, DieKeeps

LEMMA isInstall ==
    ASSUME ElectionInv, NEW c \in isCalls
    PROVE  /\ c.from \in Server /\ c.to \in Server
           /\ c.term \in Term /\ c.rterm \in Term
<1>1. c \in ISCall
  BY DEF ElectionInv, TypeOK
<1> QED BY <1>1 DEF ISCall

LEMMA InstallSnapshotKeeps ==
    ASSUME ElectionInv, TypeOK', InstallSnapshotNext
    PROVE  ElectionInv'
<1>1. PICK c \in isCalls :
        \/ leaderSendSnapshot(c) \/ installSnapshotStale(c)
        \/ installSnapshotOld(c) \/ installSnapshotApply(c)
        \/ sendSnapshotHigherTerm(c) \/ sendSnapshotSuccess(c)
        \/ sendSnapshotEnd(c) \/ CrashInInstallSnapshot(c)
  BY DEF InstallSnapshotNext
<1>2. /\ c.from \in Server /\ c.to \in Server
      /\ c.term \in Term /\ c.rterm \in Term
  BY isInstall
<1>3. CASE \/ leaderSendSnapshot(c) \/ installSnapshotStale(c)
           \/ sendSnapshotSuccess(c) \/ sendSnapshotEnd(c)
  <2>1. UNCHANGED <<currentTerm, votedFor, rvCalls, voteNum, voteHistory,
                    leaders, raftState>>
    BY <1>3 DEF leaderSendSnapshot, installSnapshotStale, sendSnapshotSuccess,
                sendSnapshotEnd, termVars, diskVars, histVars
  <2> QED BY <1>2, <2>1, QuietStay
<1>4. CASE installSnapshotOld(c)
  <2>1. /\ FollowLeader(c.to, c.term)
        /\ persist(c.to) \/ raftState' = raftState
        /\ UNCHANGED <<rvCalls, voteNum, voteHistory, leaders>>
    BY <1>4 DEF installSnapshotOld, histVars
  <2> QED BY <1>2, <2>1, FollowLeaderKeeps
<1>5. CASE installSnapshotApply(c)
  <2>1. /\ FollowLeader(c.to, c.term) /\ persist(c.to)
        /\ UNCHANGED <<rvCalls, voteNum, voteHistory, leaders>>
    BY <1>5 DEF installSnapshotApply, InstallInMemory, SaveWithSnapshot, histVars
  <2> QED BY <1>2, <2>1, FollowLeaderKeeps
<1>6. CASE sendSnapshotHigherTerm(c)
  <2>1. /\ c.rterm > currentTerm[c.from] /\ BecomeFollower(c.from, c.rterm)
        /\ persist(c.from) /\ UNCHANGED <<rvCalls, voteNum, voteHistory, leaders>>
    BY <1>6 DEF sendSnapshotHigherTerm, histVars
  <2> QED BY <1>2, <2>1, BecomeFollowerKeeps
<1>7. CASE CrashInInstallSnapshot(c)
  <2>1. /\ c.term >= currentTerm[c.to] /\ persist(c.to)
        /\ Die(c.to, {c}) /\ voteHistory' = voteHistory
        /\ currentTerm' = [currentTerm EXCEPT ![c.to] = c.term]
        /\ votedFor' = [votedFor EXCEPT ![c.to] = AdoptedVote(c.to, c.term)]
    BY <1>7 DEF CrashInInstallSnapshot, InstallInMemory, FollowLeader, Die
  <2>2. /\ TypeOK /\ VoteInv /\ currentTerm \in [Server -> Term]
        /\ votedFor \in [Server -> Server \cup {NoVote}]
    BY DEF ElectionInv, TypeOK
  <2>3. /\ currentTerm'[c.to] = c.term
        /\ votedFor'[c.to] = AdoptedVote(c.to, c.term)
        /\ \A k \in Server \ {c.to} : /\ currentTerm'[k] = currentTerm[k]
                                     /\ votedFor'[k] = votedFor[k]
    BY <1>2, <2>1, <2>2
  <2>4. VoteInv' /\ VotesKept /\ DiskForward
    BY <1>2, <2>1, <2>2, <2>3, Follow
  <2> QED BY <1>2, <2>1, <2>4, DieKeeps
<1> QED BY <1>1, <1>3, <1>4, <1>5, <1>6, <1>7

LEMMA CrashInSnapshotKeeps ==
    ASSUME ElectionInv, TypeOK', NEW i \in Server, NEW index,
           CrashInSnapshot(i, index)
    PROVE  ElectionInv'
<1>1. /\ currentTerm' = currentTerm /\ votedFor' = votedFor /\ persist(i)
      /\ Die(i, {}) /\ voteHistory' = voteHistory
  BY DEF CrashInSnapshot, Die
<1>2. TypeOK /\ VoteInv
  BY DEF ElectionInv
<1>3. VoteInv' /\ VotesKept /\ DiskForward
  BY <1>1, <1>2, Stay
<1> QED BY <1>1, <1>3, DieKeeps

LEMMA ServerKeeps ==
    ASSUME ElectionInv, TypeOK', ServerNext
    PROVE  ElectionInv'
<1>1. PICK i \in Server :
        \/ doElection(i) \/ doHeartBeat(i) \/ applierTicker(i) \/ Restart(i)
        \/ \E command \in Command : start(i, command)
        \/ \E index \in 1 .. MaxIndex : snapshot(i, index) \/ CrashInSnapshot(i, index)
  BY DEF ServerNext
<1>2. CASE doHeartBeat(i) \/ applierTicker(i)
  <2>1. UNCHANGED <<currentTerm, votedFor, rvCalls, voteNum, voteHistory,
                    leaders, raftState>>
    BY <1>2 DEF doHeartBeat, applierTicker, termVars, diskVars, callVars, histVars
  <2> QED BY <2>1, QuietStay
<1>3. CASE \E command \in Command : start(i, command)
  <2>1. /\ persist(i)
        /\ UNCHANGED <<currentTerm, votedFor, rvCalls, voteNum, voteHistory, leaders>>
    BY <1>3 DEF start, termVars, callVars, histVars
  <2> QED BY <2>1, QuietStay
<1>4. ASSUME NEW index \in 1 .. MaxIndex, snapshot(i, index)
      PROVE  ElectionInv'
  <2>1. /\ persist(i)
        /\ UNCHANGED <<currentTerm, votedFor, rvCalls, voteNum, voteHistory, leaders>>
    BY <1>4 DEF snapshot, SaveWithSnapshot, termVars, callVars, histVars
  <2> QED BY <2>1, QuietStay
<1> QED BY <1>1, <1>2, <1>3, <1>4, doElectionKeeps, RestartKeeps,
          CrashInSnapshotKeeps

-----------------------------------------------------------------------------
(* The invariant *)

LEMMA ElectionInit == Init => ElectionInv
<1> SUFFICES ASSUME Init PROVE ElectionInv
  OBVIOUS
<1>1. TypeOK
  BY LogInit DEF LogInv
<1>2. VoteInv
  <2>1. 0 \in Term
    BY BoundAssumption DEF Term
  <2>2. \A j \in Server :
          /\ raftState[j].currentTerm = 0 /\ raftState[j].votedFor = NoVote
          /\ currentTerm[j] = 0 /\ votedFor[j] = NoVote
          /\ \A t \in Term : voteHistory[j][t] = NoVote
    BY DEF Init, persistData
  <2> QED BY <2>1, <2>2 DEF VoteInv
<1>3. CallInv
  BY DEF Init, CallInv
<1>4. CountInv
  <2> SUFFICES ASSUME NEW i \in Server, NEW t \in Term
               PROVE  voteNum[i][t] <= Cardinality(Counted(i, t))
    BY DEF CountInv
  <2>1. Counted(i, t) \subseteq Server
    BY DEF Counted, Voters
  <2>2. Cardinality(Counted(i, t)) \in Nat
    BY <2>1, VotersFinite
  <2>3. voteNum[i][t] = 0
    BY DEF Init
  <2> QED BY <2>2, <2>3
<1>5. WinInv
  BY DEF Init, WinInv
<1> QED BY <1>1, <1>2, <1>3, <1>4, <1>5 DEF ElectionInv

LEMMA RequestVoteKeepsAll ==
    ASSUME ElectionInv, TypeOK', RequestVoteNext
    PROVE  ElectionInv'
<1>1. PICK c \in rvCalls :
        \/ requestVoteStale(c) \/ requestVoteRefuse(c) \/ requestVoteGrant(c)
        \/ sendRequestVoteHigherTerm(c) \/ sendRequestVoteCount(c)
        \/ sendRequestVoteWin(c) \/ sendRequestVoteEnd(c)
  BY DEF RequestVoteNext
<1> QED BY <1>1, requestVoteKeeps, sendRequestVoteKeeps

LEMMA ElectionStepInv ==
    ASSUME ElectionInv, TypeOK', [Next]_vars
    PROVE  ElectionInv'
<1>1. CASE Next
  BY <1>1, RequestVoteKeepsAll, AppendEntriesKeeps, InstallSnapshotKeeps,
     ServerKeeps DEF Next
<1>2. CASE UNCHANGED vars
  <2>1. UNCHANGED <<currentTerm, votedFor, rvCalls, voteNum, voteHistory,
                    leaders, raftState>>
    BY <1>2 DEF vars, termVars, diskVars, callVars, histVars
  <2>2. PICK j \in Server : TRUE
    BY ServerAssumption
  <2> QED BY <2>1, <2>2, QuietStay
<1> QED BY <1>1, <1>2

THEOREM ElectionInvariant == Spec => []ElectionInv
<1>1. Init => ElectionInv
  BY ElectionInit
<1>2. ElectionInv /\ TypeOK' /\ [Next]_vars => ElectionInv'
  BY ElectionStepInv
<1> QED BY <1>1, <1>2, TypeCorrect, PTL DEF Spec

-----------------------------------------------------------------------------
(* One leader per term *)

LEMMA MajorityIsMore == Majority \in Nat /\ 2 * Majority > Cardinality(Server)
<1>1. PICK n \in Nat : n = Cardinality(Server)
  BY ServerAssumption, FS_CardinalityType
<1>2. Majority = n \div 2 + 1
  BY <1>1 DEF Majority
<1> QED BY <1>1, <1>2

LEMMA OneWinner == ElectionInv => ElectionSafety
<1> SUFFICES ASSUME ElectionInv, NEW t \in Term,
                    NEW i \in leaders[t], NEW j \in leaders[t]
             PROVE  i = j
  BY DEF ElectionSafety
<1>1. /\ Voters(i, t) \subseteq Server /\ Voters(j, t) \subseteq Server
  BY DEF Voters
<1>2. /\ Cardinality(Voters(i, t)) >= Majority
      /\ Cardinality(Voters(j, t)) >= Majority
  BY DEF ElectionInv, WinInv
<1>3. /\ Cardinality(Voters(i, t)) \in Nat /\ Cardinality(Voters(j, t)) \in Nat
      /\ Cardinality(Server) \in Nat
  BY <1>1, ServerAssumption, VotersFinite, FS_CardinalityType
<1>4. Cardinality(Voters(i, t)) + Cardinality(Voters(j, t)) > Cardinality(Server)
  BY <1>2, <1>3, MajorityIsMore
<1>5. Voters(i, t) \cap Voters(j, t) # {}
  BY <1>1, <1>4, ServerAssumption, FS_MajoritiesIntersect
<1> QED BY <1>5 DEF Voters

\* No term is ever won by two servers, for any number of servers, through
\* crashes and lost, late and orphaned messages (sendRequestVote and
\* requestVoteImpl, raft.cpp:367-420 and 564-611).
THEOREM ElectionSafe == Spec => []ElectionSafety
BY ElectionInvariant, OneWinner, PTL

=============================================================================
