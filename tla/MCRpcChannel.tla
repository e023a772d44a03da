---------------------------- MODULE MCRpcChannel ----------------------------
(* RpcChannel.tla for TLC: a few messages of every kind.  Fields with their *)
(* default value are among them, because they are not on the wire.          *)
EXTENDS RpcChannel, TLC

CONSTANTS t1, t2, Methods       \* the methods that are called

MCLong == {"long"}

MCArgs == [method \in Methods |->
    CASE method = "RequestVote" ->
            {[Term |-> 2, CandidateId |-> 1, LastLogIndex |-> 0, LastLogTerm |-> 0]}
      [] method = "AppendEntries" ->
            {[Term |-> 1, LeaderId |-> 0, PrevLogIndex |-> 0, PrevLogTerm |-> 0,
              Entries |-> <<[Command |-> "", LogTerm |-> 1, LogIndex |-> 1]>>,
              LeaderCommit |-> 0]}
      [] method = "InstallSnapshot" ->
            {[LeaderId |-> 1, Term |-> 1, Data |-> "long",
              LastSnapShotIncludeIndex |-> 2, LastSnapShotIncludeTerm |-> 1]}
      [] method = "Get" -> {[key |-> "k", ClientId |-> "c", RequestId |-> 1]}
      [] method = "PutAppend" ->
            {[key |-> "k", Value |-> "", Op |-> "Put", ClientId |-> "c",
              RequestId |-> 1]}]

MCReplies == [method \in Methods |->
    CASE method = "RequestVote" ->
            {[Term |-> 2, VoteGranted |-> g, VoteState |-> IF g THEN 3 ELSE 1]
                : g \in BOOLEAN}
      [] method = "AppendEntries" ->
            {[Term |-> 1, Success |-> TRUE, UpdateNextIndex |-> 0, AppState |-> 2]}
      [] method = "InstallSnapshot" -> {[Term |-> 1], [Term |-> 0]}
      [] method = "Get" -> {[Err |-> "OK", Value |-> "long"],
                            [Err |-> "ErrNoKey", Value |-> ""]}
      [] method = "PutAppend" -> {[Err |-> "OK"]}]

Symmetry == Permutations(Thread)

\* The calls to come are of every method, the last one asks for a long answer.
LastIsGet == \A a \in asked : a.id = MaxCall => a.method = "Get"

=============================================================================
