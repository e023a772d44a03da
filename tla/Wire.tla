-------------------------------- MODULE Wire --------------------------------
(***************************************************************************)
(* The messages of raftRPC.proto, kvServerRpc.proto and rpcheader.proto as *)
(* the generated code writes and reads them.  A message on the wire is a   *)
(* sequence of fields; it has no length and no type of its own, so what is *)
(* read from it depends on the message the reader takes it for, and on     *)
(* where the reader's bytes begin and end.                                 *)
(*                                                                         *)
(* A unit is a field [num, wt, val] with its tag, or a piece of one: a     *)
(* value in Long is spread over several units, numbered part out of of.    *)
(***************************************************************************)
EXTENDS Integers, SequencesExt, Functions

CONSTANTS
    Long        \* the values of type bytes that take three units

Unit(num, wt, val, part, of) ==
    [num |-> num, wt |-> wt, val |-> val, part |-> part, of |-> of]

WireType(kind) == IF kind \in {"bytes", "message"} THEN "len" ELSE "varint"

Default(kind) ==
    CASE kind = "bytes" -> ""
      [] kind = "bool" -> FALSE
      [] kind = "message" -> << >>
      [] OTHER -> 0

\* One field of _InternalSerialize: a value that is the default is left out, and
\* a repeated field is written once for every element.
Out(num, kind, val) ==
    IF val = Default(kind) THEN << >>
    ELSE CASE kind = "message" ->
                [j \in 1 .. Len(val) |-> Unit(num, "len", val[j], 1, 1)]
           [] kind = "bytes" ->
                LET n == IF val \in Long THEN 3 ELSE 1
                IN  [j \in 1 .. n |-> Unit(num, "len", val, j, n)]
           [] kind = "bool" -> <<Unit(num, "varint", 1, 1, 1)>>
           [] OTHER -> <<Unit(num, "varint", val, 1, 1)>>

Field(name, kind) == [name |-> name, kind |-> kind]

\* Clear, which every Parse begins with.
Cleared(fields) ==
    [name \in {f.name : f \in Range(fields)} |->
        Default((CHOOSE f \in Range(fields) : f.name = name).kind)]

\* Where the units of a field are.
Places(num, kind, bytes) ==
    {j \in 1 .. Len(bytes) : bytes[j].num = num /\ bytes[j].wt = WireType(kind)}

Nth(n, S) == CHOOSE j \in S : Cardinality({i \in S : i <= j}) = n

\* _InternalParse of one field, from the units with its number and wire type: the
\* last one counts, unless the field is repeated: a repeated message is the
\* sequence of its elements' bytes.
In(num, kind, bytes) ==
    LET places == Places(num, kind, bytes)
        val == bytes[Max(places)].val
    IN  IF kind = "message"
        THEN [n \in 1 .. Cardinality(places) |-> bytes[Nth(n, places)].val]
        ELSE IF places = {} THEN Default(kind)
        ELSE IF kind = "bool" THEN val # 0 ELSE val

\* What ParseFromArray makes of the bytes, if they are fields from end to end.  A
\* field the message does not have, or has with another wire type, is put aside.
Parsed(fields, bytes) ==
    IF bytes = << >> THEN Cleared(fields)
    ELSE [name \in {f.name : f \in Range(fields)} |->
            LET num == CHOOSE k \in DOMAIN fields : fields[k].name = name
            IN  In(num, fields[num].kind, bytes)]

\* The fields have a value each, of their kind.
IsMessage(fields, m) ==
    /\ m = [name \in {f.name : f \in Range(fields)} |-> m[name]]
    /\ \A f \in Range(fields) :
         /\ f.kind = "bool" => m[f.name] \in BOOLEAN
         /\ f.kind = "message" => m[f.name] \in Seq(Range(m[f.name]))

\* The bytes neither begin nor end inside a field.
WholeFields(bytes) ==
    \A j \in 1 .. Len(bytes) :
        /\ bytes[j].part > 1 => j > 1 /\ bytes[j - 1].part = bytes[j].part - 1
        /\ bytes[j].part < bytes[j].of => j < Len(bytes)

-----------------------------------------------------------------------------
(* rpcheader.proto.  Of every message: its fields, in the order of their   *)
(* numbers, as its accessors get and set them; what it writes; and what it *)
(* reads.                                                                  *)

RpcHeaderFields ==
    <<Field("service_name", "bytes"), Field("method_name", "bytes"),
      Field("args_size", "uint32")>>

RpcHeaderOut(m) ==
    Out(1, "bytes", m.service_name) \o Out(2, "bytes", m.method_name) \o
    Out(3, "uint32", m.args_size)

RpcHeaderIn(bytes) == Parsed(RpcHeaderFields, bytes)

-----------------------------------------------------------------------------
(* raftRPC.proto                                                           *)

LogEntryFields ==
    <<Field("Command", "bytes"), Field("LogTerm", "int32"),
      Field("LogIndex", "int32")>>

LogEntryOut(m) ==
    Out(1, "bytes", m.Command) \o Out(2, "int32", m.LogTerm) \o
    Out(3, "int32", m.LogIndex)

LogEntryIn(bytes) == Parsed(LogEntryFields, bytes)

AppendEntriesArgsFields ==
    <<Field("Term", "int32"), Field("LeaderId", "int32"),
      Field("PrevLogIndex", "int32"), Field("PrevLogTerm", "int32"),
      Field("Entries", "message"), Field("LeaderCommit", "int32")>>

AppendEntriesArgsOut(m) ==
    Out(1, "int32", m.Term) \o Out(2, "int32", m.LeaderId) \o
    Out(3, "int32", m.PrevLogIndex) \o Out(4, "int32", m.PrevLogTerm) \o
    Out(5, "message", [j \in 1 .. Len(m.Entries) |-> LogEntryOut(m.Entries[j])]) \o
    Out(6, "int32", m.LeaderCommit)

AppendEntriesArgsIn(bytes) ==
    LET m == Parsed(AppendEntriesArgsFields, bytes)
    IN  [m EXCEPT !.Entries = [j \in 1 .. Len(@) |-> LogEntryIn(@[j])]]

AppendEntriesReplyFields ==
    <<Field("Term", "int32"), Field("Success", "bool"),
      Field("UpdateNextIndex", "int32"), Field("AppState", "int32")>>

\* Slip: Success is written as field 3.
AppendEntriesReplyOutMoved(m) ==
    Out(1, "int32", m.Term) \o Out(3, "bool", m.Success) \o
    Out(3, "int32", m.UpdateNextIndex) \o Out(4, "int32", m.AppState)

AppendEntriesReplyOut(m) ==
    Out(1, "int32", m.Term) \o Out(2, "bool", m.Success) \o
    Out(3, "int32", m.UpdateNextIndex) \o Out(4, "int32", m.AppState)

AppendEntriesReplyIn(bytes) == Parsed(AppendEntriesReplyFields, bytes)

RequestVoteArgsFields ==
    <<Field("Term", "int32"), Field("CandidateId", "int32"),
      Field("LastLogIndex", "int32"), Field("LastLogTerm", "int32")>>

RequestVoteArgsOut(m) ==
    Out(1, "int32", m.Term) \o Out(2, "int32", m.CandidateId) \o
    Out(3, "int32", m.LastLogIndex) \o Out(4, "int32", m.LastLogTerm)

RequestVoteArgsIn(bytes) == Parsed(RequestVoteArgsFields, bytes)

RequestVoteReplyFields ==
    <<Field("Term", "int32"), Field("VoteGranted", "bool"),
      Field("VoteState", "int32")>>

RequestVoteReplyOut(m) ==
    Out(1, "int32", m.Term) \o Out(2, "bool", m.VoteGranted) \o
    Out(3, "int32", m.VoteState)

RequestVoteReplyIn(bytes) == Parsed(RequestVoteReplyFields, bytes)

InstallSnapshotRequestFields ==
    <<Field("LeaderId", "int32"), Field("Term", "int32"),
      Field("Data", "bytes"), Field("LastSnapShotIncludeIndex", "int32"),
      Field("LastSnapShotIncludeTerm", "int32")>>

InstallSnapshotRequestOut(m) ==
    Out(1, "int32", m.LeaderId) \o Out(2, "int32", m.Term) \o
    Out(3, "bytes", m.Data) \o Out(4, "int32", m.LastSnapShotIncludeIndex) \o
    Out(5, "int32", m.LastSnapShotIncludeTerm)

InstallSnapshotRequestIn(bytes) == Parsed(InstallSnapshotRequestFields, bytes)

InstallSnapshotResponseFields == <<Field("Term", "int32")>>

InstallSnapshotResponseOut(m) == Out(1, "int32", m.Term)

InstallSnapshotResponseIn(bytes) == Parsed(InstallSnapshotResponseFields, bytes)

-----------------------------------------------------------------------------
(* kvServerRpc.proto                                                       *)

GetArgsFields ==
    <<Field("key", "bytes"), Field("ClientId", "bytes"),
      Field("RequestId", "int32")>>

GetArgsOut(m) ==
    Out(1, "bytes", m.key) \o Out(2, "bytes", m.ClientId) \o
    Out(3, "int32", m.RequestId)

GetArgsIn(bytes) == Parsed(GetArgsFields, bytes)

GetReplyFields == <<Field("Err", "bytes"), Field("Value", "bytes")>>

GetReplyOut(m) == Out(1, "bytes", m.Err) \o Out(2, "bytes", m.Value)

GetReplyIn(bytes) == Parsed(GetReplyFields, bytes)

PutAppendArgsFields ==
    <<Field("key", "bytes"), Field("Value", "bytes"), Field("Op", "bytes"),
      Field("ClientId", "bytes"), Field("RequestId", "int32")>>

PutAppendArgsOut(m) ==
    Out(1, "bytes", m.key) \o Out(2, "bytes", m.Value) \o Out(3, "bytes", m.Op) \o
    Out(4, "bytes", m.ClientId) \o Out(5, "int32", m.RequestId)

PutAppendArgsIn(bytes) == Parsed(PutAppendArgsFields, bytes)

PutAppendReplyFields == <<Field("Err", "bytes")>>

PutAppendReplyOut(m) == Out(1, "bytes", m.Err)

PutAppendReplyIn(bytes) == Parsed(PutAppendReplyFields, bytes)

=============================================================================
