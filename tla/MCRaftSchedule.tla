--------------------------- MODULE MCRaftSchedule ---------------------------
(* Raft.tla restricted to behaviours in which each term has a given         *)
(* candidate and a given number of commands: what the other servers, the    *)
(* network and the order of steps do is left open.                          *)
EXTENDS MCRaft

CONSTANTS A, B, C   \* the three servers

\* Who may campaign in term t, the last index written in it, and the number of
\* heartbeats it may take.
Candidate == <<A, B, C, B>>
LastIndex == <<3, 1, 2, 0>>
Beats(i) == CASE i = A -> 0 [] i = B -> 1 [] i = C -> 2

Schedule ==
    /\ Bound
    /\ \A i \in Server : \A t \in Term \ {0} :
         voteHistory[i][t] = i => i = Candidate[t]
    /\ \A i \in Server : \A k \in DOMAIN logs[i] : k <= LastIndex[logs[i][k].term]
    /\ \A i \in Server : Len(appendNums[i]) <= Beats(i)
    /\ leaders[1] = {A}
    /\ currentTerm[B] > 1 => Len(logs[A]) = LastIndex[1]

=============================================================================
