----------------------------- MODULE MCKvServer -----------------------------
(* KvServer.tla for TLC: clients and keys are interchangeable, servers are  *)
(* numbered because a clerk goes through them in order.                     *)
EXTENDS KvServer

CONSTANTS
    Requests,       \* bound on the requests of all clients together
    MaxLog,         \* bound on the commands a server has logged
    MaxQueue,       \* bound on what a server has collected and not received
    MaxCall,        \* bound on the RPCs outstanding at the same time
    MaxFault,       \* bound on the timeouts and failing RPCs together
    Kinds           \* the operations that are called

Symmetry == Permutations(Client) \cup Permutations(Key)

Bound ==
    /\ FoldFunction(+, 0, requestId) <= Requests
    /\ Cardinality(calls) <= MaxCall
    /\ timeouts + fails <= MaxFault
    /\ \A call \in calls : call.op.op \in Kinds
    /\ \A i \in Server :
         /\ lastIndex[i] <= MaxLog
         /\ Len(batch[i]) + Len(applyChan[i]) <= MaxQueue

=============================================================================
