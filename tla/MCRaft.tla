------------------------------- MODULE MCRaft -------------------------------
(* Raft.tla for TLC: servers and commands are interchangeable.             *)
EXTENDS Raft, TLC, Functions

CONSTANTS
    MaxElection,    \* bound on the elections of one behaviour
    MaxCall,        \* bound on the RPCs outstanding at the same time
    MaxBeat         \* bound on the heartbeat rounds of all servers together

Symmetry == Permutations(Server) \cup Permutations(Command)

\* Every doElection leaves a vote for oneself in the history.
elections == Cardinality({<<i, t>> \in Server \X Term : voteHistory[i][t] = i})
beats == FoldFunction(LAMBDA a, n : Len(a) + n, 0, appendNums)

calls == Cardinality(rvCalls) + Cardinality(aeCalls) + Cardinality(isCalls)

Bound ==
    /\ elections <= MaxElection
    /\ calls <= MaxCall
    /\ beats <= MaxBeat

\* One server has won term 1 with the vote of a second one, nobody answers for
\* that term any more, and there is one election more at most.
OneSuccessor ==
    /\ leaders[1] # {}
    /\ Cardinality({j \in Server : voteHistory[j][1] # NoVote}) = 2
    /\ \A c \in rvCalls : c.term > 1
    /\ \A i \in Server : currentTerm[i] <= 2
    /\ elections <= 2

\* All the elections with empty logs; or what a leader and its successor do, two
\* calls at a time, and with one log entry if there is a successor.
Recovery ==
    /\ Bound
    /\ \/ beats = 0 /\ \A i \in Server : getLastLogIndex(i) <= 0
       \/ /\ OneSuccessor /\ calls <= 2
          /\ elections <= 1 \/ \A i \in Server : getLastLogIndex(i) <= 1

\* A reachable start for what is not about elections: i has won term 1 with the
\* vote of j, and its calls to the others have failed.
ElectedInit == \E i, j \in Server :
    /\ i # j
    /\ currentTerm = [k \in Server |-> IF k \in {i, j} THEN 1 ELSE 0]
    /\ votedFor = [k \in Server |-> IF k \in {i, j} THEN i ELSE NoVote]
    /\ status = [k \in Server |-> IF k = i THEN "Leader" ELSE "Follower"]
    /\ logs = [k \in Server |-> << >>]
    /\ lastSnapshotIncludeIndex = [k \in Server |-> 0]
    /\ lastSnapshotIncludeTerm = [k \in Server |-> 0]
    /\ commitIndex = [k \in Server |-> 0]
    /\ lastApplied = [k \in Server |-> 0]
    /\ nextIndex = [k \in Server |-> [m \in Server |-> IF k = i THEN 1 ELSE 0]]
    /\ matchIndex = [k \in Server |-> [m \in Server |-> 0]]
    /\ voteNum = [k \in Server |-> [t \in Term |-> 0]]
    /\ appendNums = [k \in Server |-> << >>]
    /\ raftState = [k \in Server |-> persistData(k)]
    /\ snapshotFile = [k \in Server |-> 0]
    /\ rvCalls = {} /\ aeCalls = {} /\ isCalls = {}
    /\ voteHistory = [k \in Server |-> [t \in Term |->
                        IF k \in {i, j} /\ t = 1 THEN i ELSE NoVote]]
    /\ leaders = [t \in Term |-> IF t = 1 THEN {i} ELSE {}]
    /\ restarts = 0

ElectedSpec == ElectedInit /\ [][Next]_vars

=============================================================================
