----------------------------- MODULE RpcProofs -----------------------------
(***************************************************************************)
(* The channel and the provider, for any number of threads, sockets and    *)
(* calls, any arguments and answers, wherever the bytes are cut.           *)
(*                                                                         *)
(* The argument: a request begins with the one unit of its bytes that is   *)
(* no field (RequestShape), and OnMessage finds a request only where such  *)
(* a unit is the first one it took (FoundAtFront).  So a request is with   *)
(* its caller, on one wire, or handled (OnceInv).  While calls do not      *)
(* overlap, the one caller owns the descriptor (SoloInv), and what it has  *)
(* sent is followed from wire to wire (WayInv).                            *)
(*                                                                         *)
(* What a request says: what a message writes is read back from the same   *)
(* units (Carries, ParsedIs), message by message (ArgsRead, ReplyRead),    *)
(* and from a header that was cut no other method is read                  *)
(* (BeginningRead).  Where a request begins on the wire all of it is there *)
(* (StreamInv), so what OnMessage finds is what was sent (FoundIsSent).    *)
(*                                                                         *)
(* Whose answer it is: while calls do not overlap, and as long as no       *)
(* answer came in pieces, what is on the caller's socket is its own        *)
(* request or the answer to it (PairInv).                                  *)
(***************************************************************************)
EXTENDS RpcChannel, TLAPS, FiniteSetTheorems, SequenceTheorems, WellFoundedInduction

-----------------------------------------------------------------------------
(* Sequences whose elements have no type                                   *)

IsSeq(s) == s \in Seq(Range(s))

LEMMA SeqIs ==
    ASSUME NEW S, NEW s \in Seq(S)
    PROVE  IsSeq(s)
<1>1. Len(s) \in Nat /\ s = [j \in 1 .. Len(s) |-> s[j]] /\ DOMAIN s = 1 .. Len(s)
  OBVIOUS
<1>2. \A j \in 1 .. Len(s) : s[j] \in Range(s)
  BY <1>1 DEF Range
<1> QED BY <1>1, <1>2 DEF IsSeq

LEMMA Built ==
    ASSUME NEW n \in Nat, NEW s, s = [j \in 1 .. n |-> s[j]]
    PROVE  IsSeq(s) /\ Len(s) = n
<1>1. DOMAIN s = 1 .. n
  OBVIOUS
<1>2. s \in [1 .. n -> Range(s)]
  BY <1>1 DEF Range
<1>3. s \in Seq(Range(s))
  BY <1>2
<1> QED BY <1>3, <1>1 DEF IsSeq

LEMMA Joined ==
    ASSUME NEW s, NEW t, IsSeq(s), IsSeq(t)
    PROVE  /\ IsSeq(s \o t)
           /\ Len(s) \in Nat /\ Len(t) \in Nat
           /\ Len(s \o t) = Len(s) + Len(t)
           /\ \A j \in 1 .. Len(s) : (s \o t)[j] = s[j]
           /\ \A j \in 1 .. Len(t) : (s \o t)[Len(s) + j] = t[j]
           /\ \A j \in 1 .. Len(s \o t) :
                 (s \o t)[j] = IF j <= Len(s) THEN s[j] ELSE t[j - Len(s)]
<1> DEFINE S == Range(s) \cup Range(t)
<1>1. s \in Seq(S) /\ t \in Seq(S)
  BY DEF IsSeq
<1>2. s \o t \in Seq(S)
  BY <1>1
<1>3. IsSeq(s \o t)
  BY <1>2, SeqIs
<1> HIDE DEF S
<1> QED BY <1>1, <1>3

LEMMA Cut ==
    ASSUME NEW s, IsSeq(s), NEW n \in 1 .. Len(s)
    PROVE  /\ Len(s) \in Nat
           /\ IsSeq(SubSeq(s, 1, n)) /\ IsSeq(SubSeq(s, n + 1, Len(s)))
           /\ Len(SubSeq(s, 1, n)) = n
           /\ Len(SubSeq(s, n + 1, Len(s))) = Len(s) - n
           /\ \A j \in 1 .. n : SubSeq(s, 1, n)[j] = s[j]
           /\ \A j \in 1 .. Len(s) - n : SubSeq(s, n + 1, Len(s))[j] = s[n + j]
<1> DEFINE S == Range(s)
<1>1. s \in Seq(S)
  BY DEF IsSeq
<1> HIDE DEF S
<1>2. SubSeq(s, 1, n) \in Seq(S) /\ SubSeq(s, n + 1, Len(s)) \in Seq(S)
  BY <1>1
<1>3. IsSeq(SubSeq(s, 1, n)) /\ IsSeq(SubSeq(s, n + 1, Len(s)))
  BY <1>2, SeqIs
<1> QED BY <1>1, <1>3

LEMMA Appended ==
    ASSUME NEW s, IsSeq(s), NEW e
    PROVE  /\ Len(s) \in Nat
           /\ IsSeq(Append(s, e)) /\ Len(Append(s, e)) = Len(s) + 1
           /\ Append(s, e)[Len(s) + 1] = e
           /\ \A j \in 1 .. Len(s) : Append(s, e)[j] = s[j]
<1> DEFINE S == Range(s) \cup {e}
<1>1. s \in Seq(S) /\ e \in S
  BY DEF IsSeq
<1> HIDE DEF S
<1>2. Append(s, e) \in Seq(S)
  BY <1>1
<1>3. IsSeq(Append(s, e))
  BY <1>2, SeqIs
<1> QED BY <1>1, <1>3

-----------------------------------------------------------------------------
(* What is on the wire                                                     *)

\* Fields of a message, and no varint of a request's front.
Fields(s) == IsSeq(s) /\ \A j \in 1 .. Len(s) : s[j].num # 0

LEMMA JoinedFields ==
    ASSUME NEW s, NEW t, Fields(s), Fields(t)
    PROVE  Fields(s \o t)
BY Joined DEF Fields

LEMMA OutFields ==
    ASSUME NEW num, num # 0, NEW kind, NEW val, kind = "message" => Len(val) \in Nat
    PROVE  Fields(Out(num, kind, val))
<1>1. Fields(<< >>)
  BY DEF Fields, IsSeq
<1>2. \A u : u.num # 0 => Fields(<<u>>)
  <2> TAKE u
  <2> HAVE u.num # 0
  <2>1. <<u>> \in Seq({u})
    OBVIOUS
  <2>2. IsSeq(<<u>>)
    BY <2>1, SeqIs
  <2> QED BY <2>2 DEF Fields
<1>3. CASE val = Default(kind)
  BY <1>1, <1>3 DEF Out
<1>4. CASE val # Default(kind) /\ kind = "message"
  <2>1. Out(num, kind, val) = [j \in 1 .. Len(val) |-> Unit(num, "len", val[j], 1, 1)]
    BY <1>4 DEF Out
  <2>2. Len(val) \in Nat
    BY <1>4
  <2> DEFINE s == [j \in 1 .. Len(val) |-> Unit(num, "len", val[j], 1, 1)]
  <2>3. IsSeq(s) /\ Len(s) = Len(val)
    <3>1. s = [j \in 1 .. Len(val) |-> s[j]]
      OBVIOUS
    <3> HIDE DEF s
    <3> QED BY <3>1, <2>2, Built
  <2>4. \A j \in 1 .. Len(val) : s[j].num = num
    BY DEF Unit
  <2> QED BY <2>1, <2>3, <2>4 DEF Fields
<1>5. CASE val # Default(kind) /\ kind = "bytes"
  <2> DEFINE n == IF val \in Long THEN 3 ELSE 1
  <2> DEFINE s == [j \in 1 .. n |-> Unit(num, "len", val, j, n)]
  <2>1. Out(num, kind, val) = s
    BY <1>5 DEF Out
  <2>2. n \in Nat
    OBVIOUS
  <2> HIDE DEF n
  <2>3. IsSeq(s) /\ Len(s) = n
    <3>1. s = [j \in 1 .. n |-> s[j]]
      OBVIOUS
    <3> HIDE DEF s
    <3> QED BY <3>1, <2>2, Built
  <2>4. \A j \in 1 .. n : s[j].num = num
    BY DEF Unit
  <2> QED BY <2>1, <2>3, <2>4 DEF Fields
<1>6. CASE val # Default(kind) /\ kind = "bool"
  BY <1>2, <1>6 DEF Out, Unit
<1>7. CASE val # Default(kind) /\ kind \notin {"message", "bytes", "bool"}
  BY <1>2, <1>7 DEF Out, Unit
<1> QED BY <1>3, <1>4, <1>5, <1>6, <1>7

LEMMA ArgsOutFields ==
    ASSUME NEW method \in Method, NEW args \in Args[method]
    PROVE  Fields(ArgsOut(method, args))
<1>1. CASE method = "RequestVote"
  <2>1. ArgsOut(method, args) = RequestVoteArgsOut(args)
    BY <1>1 DEF ArgsOut
  <2> QED BY <2>1, OutFields, JoinedFields DEF RequestVoteArgsOut
<1>2. CASE method = "AppendEntries"
  <2> DEFINE entries == [j \in 1 .. Len(args.Entries) |-> LogEntryOut(args.Entries[j])]
  <2>1. ArgsOut(method, args) =
            Out(1, "int32", args.Term) \o Out(2, "int32", args.LeaderId) \o
            Out(3, "int32", args.PrevLogIndex) \o Out(4, "int32", args.PrevLogTerm) \o
            Out(5, "message", entries) \o Out(6, "int32", args.LeaderCommit)
    BY <1>2, Zenon DEF ArgsOut, AppendEntriesArgsOut
  <2>2. Len(args.Entries) \in Nat
    <3>1. IsMessage(AppendEntriesArgsFields, args)
      BY <1>2, MessagesAssumption DEF ArgsFields
    <3>2. Field("Entries", "message") \in Range(AppendEntriesArgsFields)
      <4>1. AppendEntriesArgsFields[5] = Field("Entries", "message") /\ 5 \in DOMAIN AppendEntriesArgsFields
        BY DEF AppendEntriesArgsFields
      <4> QED BY <4>1 DEF Range
    <3>3. args.Entries \in Seq(Range(args.Entries))
      BY <3>1, <3>2 DEF IsMessage, Field
    <3> QED BY <3>3
  <2>3. Len(entries) \in Nat
    BY <2>2
  <2> HIDE DEF entries
  <2>4. Fields(Out(5, "message", entries))
    BY <2>3, OutFields
  <2> QED BY <2>1, <2>4, OutFields, JoinedFields
<1>3. CASE method = "InstallSnapshot"
  <2>1. ArgsOut(method, args) = InstallSnapshotRequestOut(args)
    BY <1>3 DEF ArgsOut
  <2> QED BY <2>1, OutFields, JoinedFields DEF InstallSnapshotRequestOut
<1>4. CASE method = "Get"
  <2>1. ArgsOut(method, args) = GetArgsOut(args)
    BY <1>4 DEF ArgsOut
  <2> QED BY <2>1, OutFields, JoinedFields DEF GetArgsOut
<1>5. CASE method = "PutAppend"
  <2>1. ArgsOut(method, args) = PutAppendArgsOut(args)
    BY <1>5 DEF ArgsOut
  <2> QED BY <2>1, OutFields, JoinedFields DEF PutAppendArgsOut
<1> QED BY <1>1, <1>2, <1>3, <1>4, <1>5, MethodAssumption

LEMMA ReplyOutFields ==
    ASSUME NEW method \in Method, NEW m
    PROVE  Fields(ReplyOut(method, m))
<1>1. CASE method = "RequestVote"
  <2>1. ReplyOut(method, m) = RequestVoteReplyOut(m)
    BY <1>1 DEF ReplyOut
  <2> QED BY <2>1, OutFields, JoinedFields DEF RequestVoteReplyOut
<1>2. CASE method = "AppendEntries"
  <2>1. ReplyOut(method, m) = AppendEntriesReplyOut(m)
    BY <1>2 DEF ReplyOut
  <2> QED BY <2>1, OutFields, JoinedFields DEF AppendEntriesReplyOut
<1>3. CASE method = "InstallSnapshot"
  <2>1. ReplyOut(method, m) = InstallSnapshotResponseOut(m)
    BY <1>3 DEF ReplyOut
  <2> QED BY <2>1, OutFields, JoinedFields DEF InstallSnapshotResponseOut
<1>4. CASE method = "Get"
  <2>1. ReplyOut(method, m) = GetReplyOut(m)
    BY <1>4 DEF ReplyOut
  <2> QED BY <2>1, OutFields, JoinedFields DEF GetReplyOut
<1>5. CASE method = "PutAppend"
  <2>1. ReplyOut(method, m) = PutAppendReplyOut(m)
    BY <1>5 DEF ReplyOut
  <2> QED BY <2>1, OutFields, JoinedFields DEF PutAppendReplyOut
<1> QED BY <1>1, <1>2, <1>3, <1>4, <1>5, MethodAssumption

\* Only its first unit is the varint in front.
LEMMA RequestShape ==
    ASSUME NEW method \in Method, NEW args \in Args[method]
    PROVE  LET r == Request(method, args)
           IN  /\ IsSeq(r) /\ Len(r) \in Nat \ {0}
               /\ r[1].num = 0
               /\ \A j \in 2 .. Len(r) : r[j].num # 0
<1> DEFINE args_str == ArgsOut(method, args)
           header == RpcHeaderOut([service_name |-> service(method),
                                   method_name |-> method,
                                   args_size |-> Len(args_str)])
           front == <<Size(Len(header))>>
<1>1. Request(method, args) = front \o header \o args_str
  BY DEF Request
<1>2. Fields(args_str)
  BY ArgsOutFields
<1>3. Fields(header)
  BY OutFields, JoinedFields DEF RpcHeaderOut
<1> HIDE DEF args_str, header
<1>4. /\ IsSeq(front) /\ Len(front) = 1 /\ front[1].num = 0
  <2>1. front \in Seq({Size(Len(header))})
    OBVIOUS
  <2>2. IsSeq(front)
    BY <2>1, SeqIs
  <2> QED BY <2>2 DEF Size, Unit
<1> HIDE DEF front
<1> DEFINE s == front \o header
<1>5. /\ IsSeq(s) /\ Len(s) = 1 + Len(header) /\ Len(header) \in Nat
      /\ s[1].num = 0 /\ \A j \in 2 .. Len(s) : s[j].num # 0
  <2>1. /\ IsSeq(s) /\ Len(s) = 1 + Len(header) /\ Len(header) \in Nat
        /\ \A j \in 1 .. Len(s) : s[j] = IF j <= 1 THEN front[j] ELSE header[j - 1]
    <3>1. IsSeq(header)
      BY <1>3 DEF Fields
    <3>2. /\ IsSeq(s) /\ Len(s) = Len(front) + Len(header) /\ Len(header) \in Nat
          /\ \A j \in 1 .. Len(s) :
                s[j] = IF j <= Len(front) THEN front[j] ELSE header[j - Len(front)]
      BY <3>1, <1>4, Joined, Zenon
    <3> QED BY <3>2, <1>4, Zenon
  <2> HIDE DEF s
  <2>2. \A j \in 1 .. Len(header) : header[j].num # 0
    BY <1>3 DEF Fields
  <2>3. ASSUME NEW j \in 2 .. Len(s) PROVE s[j].num # 0
    <3>1. j \in 1 .. Len(s) /\ j - 1 \in 1 .. Len(header) /\ ~(j <= 1)
      BY <2>1
    <3>2. s[j] = header[j - 1]
      BY <2>1, <3>1
    <3> QED BY <2>2, <3>1, <3>2
  <2>4. s[1] = front[1]
    <3>1. 1 \in 1 .. Len(s)
      BY <2>1
    <3> QED BY <2>1, <3>1
  <2> QED BY <2>1, <2>3, <2>4, <1>4
<1> HIDE DEF s
<1> DEFINE r == s \o args_str
<1>6. /\ IsSeq(r) /\ Len(r) = Len(s) + Len(args_str) /\ Len(args_str) \in Nat
      /\ \A j \in 1 .. Len(r) : r[j] = IF j <= Len(s) THEN s[j] ELSE args_str[j - Len(s)]
  <2>1. IsSeq(args_str)
    BY <1>2 DEF Fields
  <2> QED BY <2>1, <1>5, Joined, Zenon
<1> HIDE DEF r
<1>7. /\ IsSeq(r) /\ Len(r) \in Nat \ {0} /\ r[1].num = 0
      /\ \A j \in 2 .. Len(r) : r[j].num # 0
  <2>2. \A j \in 1 .. Len(args_str) : args_str[j].num # 0
    BY <1>2 DEF Fields
  <2>0. Len(s) \in Nat \ {0}
    BY <1>5
  <2>3. ASSUME NEW j \in 2 .. Len(r) PROVE r[j].num # 0
    <3>0. j \in 1 .. Len(r) /\ r[j] = IF j <= Len(s) THEN s[j] ELSE args_str[j - Len(s)]
      BY <1>6
    <3>1. CASE j <= Len(s)
      <4>1. j \in 2 .. Len(s)
        BY <3>1, <2>0
      <4> QED BY <3>0, <3>1, <4>1, <1>5
    <3>2. CASE ~(j <= Len(s))
      <4>1. j - Len(s) \in 1 .. Len(args_str)
        BY <3>2, <3>0, <2>0, <1>6
      <4> QED BY <3>0, <3>2, <4>1, <2>2
    <3> QED BY <3>1, <3>2
  <2>4. r[1] = s[1]
    <3>1. 1 \in 1 .. Len(r) /\ 1 <= Len(s)
      BY <1>6, <2>0
    <3> QED BY <1>6, <3>1
  <2>5. Len(r) \in Nat \ {0}
    BY <1>6, <2>0
  <2> QED BY <1>6, <2>3, <2>4, <2>5, <1>5
<1>8. Request(method, args) = r
  BY <1>1 DEF r, s
<1> QED BY <1>7, <1>8

LEMMA TagShape ==
    ASSUME NEW id, NEW bytes, IsSeq(bytes)
    PROVE  /\ IsSeq(Tag(id, bytes)) /\ Len(Tag(id, bytes)) = Len(bytes)
           /\ Len(bytes) \in Nat
           /\ \A j \in 1 .. Len(bytes) :
                /\ Tag(id, bytes)[j].num = bytes[j].num
                /\ Tag(id, bytes)[j].id = id
<1>1. Len(bytes) \in Nat
  BY DEF IsSeq
<1>2. Tag(id, bytes) = [j \in 1 .. Len(bytes) |-> Tag(id, bytes)[j]]
  BY DEF Tag
<1>3. IsSeq(Tag(id, bytes)) /\ Len(Tag(id, bytes)) = Len(bytes)
  BY <1>1, <1>2, Built
<1> QED BY <1>1, <1>3 DEF Tag, Tagged

\* A request is found only where its varint is the first unit taken.
LEMMA FoundAtFront ==
    ASSUME NEW bytes, Decoded(bytes) # {}
    PROVE  bytes[1].num = 0
<1>1. Header(bytes).service_name # ""
  BY DEF Decoded
<1>2. RpcHeaderIn(<< >>).service_name = ""
  <2>1. RpcHeaderIn(<< >>) = Cleared(RpcHeaderFields)
    BY DEF RpcHeaderIn, Parsed
  <2>2. Range(RpcHeaderFields) = {Field("service_name", "bytes"), Field("method_name", "bytes"),
                                  Field("args_size", "uint32")}
    BY DEF Range, RpcHeaderFields
  <2> DEFINE R == Range(RpcHeaderFields)
             f == CHOOSE g \in R : g.name = "service_name"
  <2>3. Field("service_name", "bytes") \in R /\ Field("service_name", "bytes").name = "service_name"
    BY <2>2 DEF Field
  <2>4. f \in R /\ f.name = "service_name"
    BY <2>3
  <2>5. f.kind = "bytes"
    <3> HIDE DEF f
    <3>1. \A g \in R : g.name = "service_name" => g.kind = "bytes"
      BY <2>2 DEF Field
    <3> QED BY <2>4, <3>1
  <2>6. Cleared(RpcHeaderFields).service_name = Default(f.kind)
    <3>1. "service_name" \in {g.name : g \in R}
      BY <2>3
    <3> QED BY <3>1 DEF Cleared
  <2>7. Default("bytes") = ""
    BY DEF Default
  <2> QED BY <2>1, <2>5, <2>6, <2>7, Zenon
<1> QED BY <1>1, <1>2 DEF Header

LEMMA FoundMethod ==
    ASSUME NEW bytes, NEW r \in Decoded(bytes)
    PROVE  r.method \in Method
<1>1. r \in Decoding(Header(bytes), ArgsStr(bytes))
  BY DEF Decoded
<1> QED BY <1>1 DEF Decoding

-----------------------------------------------------------------------------
(* The invariant                                                           *)

TypeInv ==
    /\ sockfd_ \in Fd \cup {-1}
    /\ conn \in [Fd -> [state : {"free", "new", "open", "closed"},
                        mine : BOOLEAN, cut : BOOLEAN]]
    /\ toServer = [k \in Fd |-> toServer[k]]
    /\ toClient = [k \in Fd |-> toClient[k]]
    /\ \A k \in Fd : IsSeq(toServer[k]) /\ IsSeq(toClient[k])
    /\ IsSeq(handled) /\ IsFiniteSet(asked) /\ shared \in BOOLEAN

IsCall(r) ==
    r = [f \in {"pc", "id", "method", "fd", "then", "ok", "reply"} |-> r[f]]

PcInv ==
    /\ call = [t \in Thread |-> call[t]]
    /\ \A t \in Thread :
         /\ IsCall(call[t])
         /\ call[t].pc \in {"idle", "socket", "connect", "send", "recv", "wait",
                            "close", "unset", "done", "failed"}
         /\ At(t, "wait") => call[t].fd \in Fd
         /\ At(t, "close") \/ At(t, "unset") => call[t].then \in {"socket", "failed"}

\* The calls have numbers of their own.
AskedInv ==
    /\ \A a \in asked : a.id \in 1 .. Cardinality(asked)
    /\ \A a, b \in asked : a.id = b.id => a = b
    /\ \A t \in Thread : ~At(t, "idle") =>
         \E a \in asked : /\ a.id = call[t].id /\ a.method = call[t].method
                          /\ a.method \in Method /\ a.args \in Args[a.method]
    /\ \A t, u \in Thread :
         ~At(t, "idle") /\ ~At(u, "idle") /\ call[t].id = call[u].id => t = u

\* The request of t is to be sent, for the first time or after a send that put
\* nothing on the wire.
Unsent(t) ==
    \/ call[t].pc \in {"socket", "connect", "send"}
    \/ call[t].pc \in {"close", "unset"} /\ call[t].then = "socket"

\* A request begins at unit j of the stream.
Opens(k, j) == j \in 1 .. Len(toServer[k]) /\ toServer[k][j].num = 0

IsHandled(id) == \E i \in 1 .. Len(handled) : handled[i].id = id

\* A request is with its caller, on one wire, or handled.
OnceInv ==
    /\ \A k, l \in Fd : \A i, j \in Nat :
         /\ Opens(k, i) /\ Opens(l, j)
         /\ toServer[k][i].id = toServer[l][j].id
         => k = l /\ i = j
    /\ \A k \in Fd : \A j \in Nat : Opens(k, j) =>
         /\ toServer[k][j].id \in 1 .. Cardinality(asked)
         /\ ~IsHandled(toServer[k][j].id)
    /\ \A t \in Thread : Unsent(t) =>
         /\ ~IsHandled(call[t].id)
         /\ \A k \in Fd : \A j \in Nat : Opens(k, j) => toServer[k][j].id # call[t].id
    /\ \A i \in 1 .. Len(handled) : handled[i].id \in 1 .. Cardinality(asked)
    /\ AtMostOnce

OneCaller == \A t, u \in Thread : ~At(t, "idle") /\ ~At(u, "idle") => t = u

\* Whose descriptor it is while calls do not overlap.
SoloInv ==
    ~shared =>
        /\ OneCaller
        /\ \A t \in Thread : At(t, "socket") => sockfd_ = -1
        /\ \A t \in Thread : At(t, "unset") => \A k \in Fd : ~conn[k].mine
        /\ (\A t \in Thread : ~At(t, "unset")) =>
             \A k \in Fd : conn[k].mine <=> k = sockfd_

OnItsWay(k, id) ==
    \/ conn[k].state = "closed"
    \/ toServer[k] # << >> /\ Last(toServer[k]).id = id
    \/ toClient[k] # << >>
    \/ \E i \in 1 .. Len(handled) :
         handled[i].id = id /\ ReplyOut(handled[i].method, handled[i].reply) = << >>

\* A caller that has sent still has the socket it has sent on.
WayInv ==
    ~shared /\ dropped = {} =>
        \A t \in Thread :
            /\ At(t, "recv") => sockfd_ \in Fd /\ OnItsWay(sockfd_, call[t].id)
            /\ At(t, "wait") => OnItsWay(call[t].fd, call[t].id)

RpcInv == TypeInv /\ PcInv /\ AskedInv /\ OnceInv /\ SoloInv /\ WayInv


-----------------------------------------------------------------------------
(* Steps of a caller                                                       *)

Pc == {"idle", "socket", "connect", "send", "recv", "wait", "close", "unset",
       "done", "failed"}

\* What a step of t does to call.
Steps(t, pc, fd, then) ==
    /\ call'[t].pc = pc /\ call'[t].fd = fd /\ call'[t].then = then
    /\ call'[t].id = call[t].id /\ call'[t].method = call[t].method
    /\ \A u \in Thread \ {t} : call'[u] = call[u]

\* A call stays a record with the fields of NoCall.
LEMMA PcSteps ==
    ASSUME PcInv, NEW t \in Thread, NEW r, call' = [call EXCEPT ![t] = r],
           IsCall(r), r.pc \in Pc, r.pc = "wait" => r.fd \in Fd,
           r.pc \in {"close", "unset"} => r.then \in {"socket", "failed"}
    PROVE  /\ PcInv' /\ call'[t] = r
           /\ \A u \in Thread \ {t} : call'[u] = call[u]
<1>1. call'[t] = r /\ \A u \in Thread \ {t} : call'[u] = call[u]
  BY DEF PcInv
<1>2. call' = [u \in Thread |-> call'[u]]
  BY DEF PcInv
<1>3. ASSUME NEW u \in Thread
      PROVE  IsCall(call'[u])
  <2>1. CASE u = t
    BY <1>1, <2>1
  <2>2. CASE u # t
    <3>1. call'[u] = call[u]
      BY <1>1, <2>2
    <3>2. IsCall(call[u])
      BY DEF PcInv
    <3> QED BY <3>1, <3>2
  <2> QED BY <2>1, <2>2
<1>4. ASSUME NEW u \in Thread
      PROVE  /\ call'[u].pc \in Pc
             /\ call'[u].pc = "wait" => call'[u].fd \in Fd
             /\ call'[u].pc \in {"close", "unset"} => call'[u].then \in {"socket", "failed"}
  <2>1. CASE u = t
    BY <1>1, <2>1
  <2>2. CASE u # t
    <3>1. call'[u] = call[u]
      BY <1>1, <2>2
    <3>2. /\ call[u].pc \in Pc
          /\ call[u].pc = "wait" => call[u].fd \in Fd
          /\ call[u].pc \in {"close", "unset"} => call[u].then \in {"socket", "failed"}
      BY DEF PcInv, At, Pc
    <3> QED BY <3>1, <3>2
  <2> QED BY <2>1, <2>2
<1>5. PcInv'
  <2>1. \A u \in Thread : IsCall(call[u])'
    BY <1>3 DEF IsCall
  <2> QED BY <1>2, <2>1, <1>4 DEF PcInv, Pc, At
<1> QED BY <1>1, <1>5

LEMMA GotoSteps ==
    ASSUME PcInv, NEW t \in Thread, NEW x \in Pc \ {"wait"}, Goto(t, x),
           x \in {"close", "unset"} => call[t].then \in {"socket", "failed"}
    PROVE  PcInv' /\ Steps(t, x, call[t].fd, call[t].then)
<1> DEFINE r == [call[t] EXCEPT !.pc = x]
<1>1. call' = [call EXCEPT ![t] = r]
  BY DEF Goto, PcInv
<1>2. IsCall(call[t])
  BY DEF PcInv
<1>3. /\ IsCall(r) /\ r.pc = x /\ r.id = call[t].id /\ r.method = call[t].method
      /\ r.fd = call[t].fd /\ r.then = call[t].then
  BY <1>2 DEF IsCall
<1> HIDE DEF r
<1>4. PcInv' /\ call'[t] = r /\ \A u \in Thread \ {t} : call'[u] = call[u]
  BY <1>1, <1>3, PcSteps
<1> QED BY <1>3, <1>4 DEF Steps

LEMMA ThenSteps ==
    ASSUME PcInv, NEW t \in Thread, NEW x \in {"close", "unset"}, NEW y \in {"socket", "failed"},
           call' = [call EXCEPT ![t].pc = x, ![t].then = y]
    PROVE  PcInv' /\ Steps(t, x, call[t].fd, y)
<1> DEFINE r == [call[t] EXCEPT !.pc = x, !.then = y]
<1>1. call' = [call EXCEPT ![t] = r]
  BY DEF PcInv
<1>2. IsCall(call[t])
  BY DEF PcInv
<1>3. /\ IsCall(r) /\ r.pc = x /\ r.id = call[t].id /\ r.method = call[t].method
      /\ r.fd = call[t].fd /\ r.then = y
  BY <1>2 DEF IsCall
<1> HIDE DEF r
<1>4. PcInv' /\ call'[t] = r /\ \A u \in Thread \ {t} : call'[u] = call[u]
  BY <1>1, <1>3, PcSteps DEF Pc
<1> QED BY <1>3, <1>4 DEF Steps

LEMMA WaitSteps ==
    ASSUME PcInv, NEW t \in Thread, NEW k \in Fd,
           call' = [call EXCEPT ![t].pc = "wait", ![t].fd = k]
    PROVE  PcInv' /\ Steps(t, "wait", k, call[t].then)
<1> DEFINE r == [call[t] EXCEPT !.pc = "wait", !.fd = k]
<1>1. call' = [call EXCEPT ![t] = r]
  BY DEF PcInv
<1>2. IsCall(call[t])
  BY DEF PcInv
<1>3. /\ IsCall(r) /\ r.pc = "wait" /\ r.id = call[t].id /\ r.method = call[t].method
      /\ r.fd = k /\ r.then = call[t].then
  BY <1>2 DEF IsCall
<1> HIDE DEF r
<1>4. PcInv' /\ call'[t] = r /\ \A u \in Thread \ {t} : call'[u] = call[u]
  BY <1>1, <1>3, PcSteps DEF Pc
<1> QED BY <1>3, <1>4 DEF Steps

LEMMA ReturnedSteps ==
    ASSUME PcInv, NEW t \in Thread, NEW bytes, Returned(t, bytes)
    PROVE  /\ PcInv'
           /\ \/ Steps(t, "done", call[t].fd, call[t].then)
              \/ Steps(t, "failed", call[t].fd, call[t].then)
<1>1. ASSUME NEW x, call' = [call EXCEPT ![t].pc = "done", ![t].ok = TRUE, ![t].reply = x]
      PROVE  PcInv' /\ Steps(t, "done", call[t].fd, call[t].then)
  <2> DEFINE r == [call[t] EXCEPT !.pc = "done", !.ok = TRUE, !.reply = x]
  <2>1. call' = [call EXCEPT ![t] = r]
    BY <1>1 DEF PcInv
  <2>2. IsCall(call[t])
    BY DEF PcInv
  <2>3. /\ IsCall(r) /\ r.pc = "done" /\ r.id = call[t].id /\ r.method = call[t].method
        /\ r.fd = call[t].fd /\ r.then = call[t].then
    BY <2>2 DEF IsCall
  <2> HIDE DEF r
  <2>4. PcInv' /\ call'[t] = r /\ \A u \in Thread \ {t} : call'[u] = call[u]
    BY <2>1, <2>3, PcSteps DEF Pc
  <2> QED BY <2>3, <2>4 DEF Steps
<1>2. ASSUME Goto(t, "failed")
      PROVE  PcInv' /\ Steps(t, "failed", call[t].fd, call[t].then)
  BY <1>2, GotoSteps DEF Pc
<1> QED BY <1>1, <1>2 DEF Returned

LEMMA AskedKept ==
    ASSUME AskedInv, asked' = asked,
           \A u \in Thread : ~At(u, "idle")' =>
               /\ ~At(u, "idle")
               /\ call'[u].id = call[u].id /\ call'[u].method = call[u].method
    PROVE  AskedInv'
BY DEF AskedInv

LEMMA OnceKept ==
    ASSUME OnceInv, UNCHANGED <<toServer, asked, handled>>,
           \A u \in Thread : Unsent(u)' => Unsent(u) /\ call'[u].id = call[u].id
    PROVE  OnceInv'
<1>1. \A k, j : Opens(k, j)' <=> Opens(k, j)
  BY DEF Opens
<1>2. \A id : IsHandled(id)' <=> IsHandled(id)
  BY DEF IsHandled
<1>3. AtMostOnce'
  BY DEF OnceInv, AtMostOnce
<1> HIDE DEF Opens
<1>4. \A u \in Thread : Unsent(u)' =>
         /\ ~IsHandled(call'[u].id)
         /\ \A k \in Fd : \A j \in Nat : Opens(k, j) => toServer[k][j].id # call'[u].id
  BY DEF OnceInv
<1>5. (\A u \in Thread : Unsent(u) =>
         /\ ~IsHandled(call[u].id)
         /\ \A k \in Fd : \A j \in Nat : Opens(k, j) => toServer[k][j].id # call[u].id)'
  BY <1>1, <1>2, <1>4
<1>6. (\A k, l \in Fd : \A i, j \in Nat :
         /\ Opens(k, i) /\ Opens(l, j)
         /\ toServer[k][i].id = toServer[l][j].id
         => k = l /\ i = j)'
  BY <1>1 DEF OnceInv
<1>7. (\A k \in Fd : \A j \in Nat : Opens(k, j) =>
         /\ toServer[k][j].id \in 1 .. Cardinality(asked)
         /\ ~IsHandled(toServer[k][j].id))'
  BY <1>1, <1>2 DEF OnceInv
<1>8. (\A i \in 1 .. Len(handled) : handled[i].id \in 1 .. Cardinality(asked))'
  BY DEF OnceInv
<1> QED BY <1>3, <1>5, <1>6, <1>7, <1>8 DEF OnceInv

\* While calls do not overlap, the other threads are idle.
LEMMA CallerStep ==
    ASSUME RpcInv, NEW t \in Thread, ~At(t, "idle"), NEW pc, NEW fd, NEW then,
           Steps(t, pc, fd, then), UNCHANGED <<toServer, asked, handled, shared>>,
           Unsent(t)' => Unsent(t)
    PROVE  /\ AskedInv' /\ OnceInv'
           /\ At(t, pc)'
           /\ ~shared' => OneCaller' /\ \A u \in Thread \ {t} : At(u, "idle")'
<1>1. \A u \in Thread \ {t} : call'[u] = call[u]
  BY DEF Steps
<1>2. \A u \in Thread : /\ ~At(u, "idle")' => ~At(u, "idle")
                        /\ call'[u].id = call[u].id /\ call'[u].method = call[u].method
                        /\ Unsent(u)' => Unsent(u)
  BY <1>1 DEF Steps, At, Unsent
<1>3. AskedInv'
  BY <1>2, AskedKept DEF RpcInv
<1>4. OnceInv'
  BY <1>2, OnceKept DEF RpcInv
<1>5. ~shared' => OneCaller' /\ \A u \in Thread \ {t} : At(u, "idle")'
  <2> HAVE ~shared'
  <2>1. OneCaller
    BY DEF RpcInv, SoloInv
  <2>2. \A u \in Thread \ {t} : At(u, "idle")
    BY <2>1 DEF OneCaller
  <2>3. \A u \in Thread \ {t} : At(u, "idle")'
    BY <2>2, <1>1 DEF At
  <2> QED BY <2>3 DEF OneCaller
<1> QED BY <1>3, <1>4, <1>5 DEF At, Steps

LEMMA QuietWay ==
    ASSUME NEW t \in Thread, NEW pc, At(t, pc)', pc \notin {"recv", "wait"},
           ~shared' => \A u \in Thread \ {t} : At(u, "idle")'
    PROVE  WayInv'
BY DEF WayInv, At

LEMMA SocketStep ==
    ASSUME RpcInv, NEW t \in Thread, Socket(t)
    PROVE  RpcInv'
<1>1. PcInv' /\ Steps(t, "connect", call[t].fd, call[t].then)
  BY GotoSteps DEF Socket, RpcInv, Pc
<1>2. ~At(t, "idle") /\ (Unsent(t)' => Unsent(t))
  BY DEF Socket, At, Unsent
<1>3. UNCHANGED <<toServer, toClient, asked, handled, shared>>
  BY DEF Socket, histVars
<1>4. /\ AskedInv' /\ OnceInv' /\ At(t, "connect")'
      /\ ~shared' => OneCaller' /\ \A u \in Thread \ {t} : At(u, "idle")'
  BY <1>1, <1>2, <1>3, CallerStep
<1>5. PICK k \in Fd : /\ sockfd_' = k
                      /\ conn' = [conn EXCEPT ![k].state = "new", ![k].mine = TRUE]
  BY DEF Socket
<1>6. TypeInv'
  BY <1>3, <1>5 DEF RpcInv, TypeInv
<1>7. SoloInv'
  <2> SUFFICES ASSUME ~shared' PROVE SoloInv'
    BY DEF SoloInv
  <2>1. sockfd_ = -1
    BY <1>3 DEF RpcInv, SoloInv, Socket
  <2>2. \A u \in Thread : ~At(u, "unset")
    BY <1>3 DEF RpcInv, SoloInv, OneCaller, Socket, At
  <2>3. \A j \in Fd : conn[j].mine <=> j = sockfd_
    BY <1>3, <2>2 DEF RpcInv, SoloInv
  <2>4. \A j \in Fd : ~conn[j].mine
    BY <2>1, <2>3, SocketAssumption DEF Fd
  <2>5. \A j \in Fd : conn'[j].mine <=> j = k
    BY <2>4, <1>5 DEF RpcInv, TypeInv
  <2>6. \A u \in Thread : ~At(u, "unset")' /\ ~At(u, "socket")'
    BY <1>4 DEF At
  <2> QED BY <1>4, <1>5, <2>5, <2>6 DEF SoloInv
<1>8. WayInv'
  BY <1>4, QuietWay
<1> QED BY <1>1, <1>4, <1>6, <1>7, <1>8 DEF RpcInv

LEMMA SocketFailsStep ==
    ASSUME RpcInv, NEW t \in Thread, SocketFails(t)
    PROVE  RpcInv'
<1>1. PcInv' /\ Steps(t, "failed", call[t].fd, call[t].then)
  BY GotoSteps DEF SocketFails, RpcInv, Pc
<1>2. ~At(t, "idle") /\ (Unsent(t)' => Unsent(t))
  BY <1>1 DEF SocketFails, At, Unsent
<1>3. UNCHANGED <<toServer, toClient, asked, handled, shared, conn>> /\ sockfd_' = -1
  BY DEF SocketFails, histVars, netVars
<1>4. /\ AskedInv' /\ OnceInv' /\ At(t, "failed")'
      /\ ~shared' => OneCaller' /\ \A u \in Thread \ {t} : At(u, "idle")'
  BY <1>1, <1>2, <1>3, CallerStep
<1>6. TypeInv'
  BY <1>3 DEF RpcInv, TypeInv
<1>7. SoloInv'
  <2> SUFFICES ASSUME ~shared' PROVE SoloInv'
    BY DEF SoloInv
  <2>1. sockfd_ = -1
    BY <1>3 DEF RpcInv, SoloInv, SocketFails
  <2>2. \A u \in Thread : ~At(u, "unset")
    BY <1>3 DEF RpcInv, SoloInv, OneCaller, SocketFails, At
  <2>3. \A j \in Fd : conn[j].mine <=> j = sockfd_
    BY <1>3, <2>2 DEF RpcInv, SoloInv
  <2>6. \A u \in Thread : ~At(u, "unset")' /\ ~At(u, "socket")'
    BY <1>4 DEF At
  <2> QED BY <1>3, <1>4, <2>1, <2>3, <2>6 DEF SoloInv
<1>8. WayInv'
  BY <1>4, QuietWay
<1> QED BY <1>1, <1>4, <1>6, <1>7, <1>8 DEF RpcInv

\* A step that leaves the descriptor and whose it is.
LEMMA SoloKept ==
    ASSUME SoloInv, NEW t \in Thread, NEW pc, ~At(t, "idle"), ~At(t, "unset"),
           At(t, pc)', pc \notin {"unset", "socket"}, UNCHANGED <<sockfd_, shared>>,
           ~shared' => OneCaller' /\ \A u \in Thread \ {t} : At(u, "idle")',
           \A k \in Fd : conn'[k].mine = conn[k].mine
    PROVE  SoloInv'
<1> SUFFICES ASSUME ~shared' PROVE SoloInv'
  BY DEF SoloInv
<1>1. \A u \in Thread : ~At(u, "unset")
  BY DEF SoloInv, OneCaller, At
<1>2. \A k \in Fd : conn[k].mine <=> k = sockfd_
  BY <1>1 DEF SoloInv
<1>3. \A u \in Thread : ~At(u, "unset")' /\ ~At(u, "socket")'
  BY DEF At
<1> QED BY <1>2, <1>3 DEF SoloInv

LEMMA ConnectStep ==
    ASSUME RpcInv, NEW t \in Thread, Connect(t)
    PROVE  RpcInv'
<1>1. \/ PcInv' /\ Steps(t, "send", call[t].fd, call[t].then)
      \/ PcInv' /\ Steps(t, "close", call[t].fd, "failed")
  BY GotoSteps, ThenSteps DEF Connect, RpcInv, Pc
<1>2. ~At(t, "idle") /\ ~At(t, "unset") /\ (Unsent(t)' => Unsent(t))
  BY DEF Connect, At, Unsent
<1>3. UNCHANGED <<sockfd_, toServer, toClient, asked, handled, shared>>
  BY DEF Connect, histVars
<1>4. /\ AskedInv' /\ OnceInv' /\ (At(t, "send")' \/ At(t, "close")')
      /\ ~shared' => OneCaller' /\ \A u \in Thread \ {t} : At(u, "idle")'
  BY <1>1, <1>2, <1>3, CallerStep
<1>5. conn' = conn \/ conn' = [conn EXCEPT ![sockfd_].state = "open"]
  BY DEF Connect
<1>6. TypeInv'
  BY <1>3, <1>5 DEF RpcInv, TypeInv
<1>7. \A k \in Fd : conn'[k].mine = conn[k].mine
  BY <1>5 DEF RpcInv, TypeInv
<1>8. SoloInv'
  BY <1>2, <1>3, <1>4, <1>7, SoloKept DEF RpcInv
<1>9. WayInv'
  BY <1>4, QuietWay
<1> QED BY <1>1, <1>4, <1>6, <1>8, <1>9 DEF RpcInv

LEMMA SendFailsStep ==
    ASSUME RpcInv, NEW t \in Thread, SendFails(t)
    PROVE  RpcInv'
<1>1. PcInv' /\ Steps(t, "close", call[t].fd, "socket")
  BY ThenSteps DEF SendFails, RpcInv
<1>2. ~At(t, "idle") /\ ~At(t, "unset") /\ (Unsent(t)' => Unsent(t))
  BY DEF SendFails, At, Unsent
<1>3. UNCHANGED <<sockfd_, conn, toServer, toClient, asked, handled, shared>>
  BY DEF SendFails, histVars, netVars
<1>4. /\ AskedInv' /\ OnceInv' /\ At(t, "close")'
      /\ ~shared' => OneCaller' /\ \A u \in Thread \ {t} : At(u, "idle")'
  BY <1>1, <1>2, <1>3, CallerStep
<1>5. TypeInv'
  BY <1>3 DEF RpcInv, TypeInv
<1>6. SoloInv'
  BY <1>2, <1>3, <1>4, SoloKept DEF RpcInv
<1>7. WayInv'
  BY <1>4, QuietWay
<1> QED BY <1>1, <1>4, <1>5, <1>6, <1>7 DEF RpcInv

LEMMA RecvStep ==
    ASSUME RpcInv, NEW t \in Thread, Recv(t)
    PROVE  RpcInv'
<1>1. \/ sockfd_ \in Fd /\ PcInv' /\ Steps(t, "wait", sockfd_, call[t].then)
      \/ PcInv' /\ Steps(t, "close", call[t].fd, "failed")
  <2>1. CASE Usable(sockfd_) /\ conn[sockfd_].state \in {"open", "closed"}
    <3>1. sockfd_ \in Fd
      BY <2>1 DEF Usable, RpcInv, TypeInv
    <3> QED BY <2>1, <3>1, WaitSteps DEF Recv, RpcInv
  <2>2. CASE ~(Usable(sockfd_) /\ conn[sockfd_].state \in {"open", "closed"})
    BY <2>2, ThenSteps DEF Recv, RpcInv
  <2> QED BY <2>1, <2>2
<1>2. ~At(t, "idle") /\ ~At(t, "unset")
  BY DEF Recv, At
<1>3. UNCHANGED <<sockfd_, conn, toServer, toClient, asked, handled, shared, dropped>>
  BY DEF Recv, histVars, netVars
<1>0. Unsent(t)' => Unsent(t)
  BY <1>1 DEF Steps, Unsent
<1>4. /\ AskedInv' /\ OnceInv' /\ (At(t, "wait")' \/ At(t, "close")')
      /\ ~shared' => OneCaller' /\ \A u \in Thread \ {t} : At(u, "idle")'
  BY <1>1, <1>0, <1>2, <1>3, CallerStep
<1>5. TypeInv'
  BY <1>3 DEF RpcInv, TypeInv
<1>6. SoloInv'
  BY <1>2, <1>3, <1>4, SoloKept DEF RpcInv
<1>7. WayInv'
  <2>1. CASE At(t, "close")'
    BY <1>4, <2>1, QuietWay
  <2>2. CASE At(t, "wait")'
    <3> SUFFICES ASSUME ~shared', dropped' = {} PROVE WayInv'
      BY DEF WayInv
    <3>1. At(t, "recv") /\ Steps(t, "wait", sockfd_, call[t].then)
      BY <1>1, <2>2 DEF Recv, Steps, At
    <3>2. OnItsWay(sockfd_, call[t].id)
      BY <3>1, <1>3 DEF RpcInv, WayInv
    <3>3. OnItsWay(call[t].fd, call[t].id)'
      BY <3>1, <3>2, <1>3 DEF Steps, OnItsWay
    <3> QED BY <3>3, <2>2, <1>4 DEF WayInv, At
  <2> QED BY <2>1, <2>2, <1>4
<1> QED BY <1>1, <1>4, <1>5, <1>6, <1>7 DEF RpcInv

LEMMA ReceiveEndStep ==
    ASSUME RpcInv, NEW t \in Thread, ReceiveEnd(t)
    PROVE  RpcInv'
<1>1. \/ PcInv' /\ Steps(t, "done", call[t].fd, call[t].then)
      \/ PcInv' /\ Steps(t, "failed", call[t].fd, call[t].then)
  BY ReturnedSteps DEF ReceiveEnd, RpcInv
<1>2. ~At(t, "idle") /\ ~At(t, "unset")
  BY DEF ReceiveEnd, At
<1>3. UNCHANGED <<sockfd_, conn, toServer, toClient, asked, handled, shared>>
  BY DEF ReceiveEnd, histVars, netVars
<1>0. Unsent(t)' => Unsent(t)
  BY <1>1 DEF Steps, Unsent
<1>4. /\ AskedInv' /\ OnceInv' /\ (At(t, "done")' \/ At(t, "failed")')
      /\ ~shared' => OneCaller' /\ \A u \in Thread \ {t} : At(u, "idle")'
  BY <1>1, <1>0, <1>2, <1>3, CallerStep
<1>5. TypeInv'
  BY <1>3 DEF RpcInv, TypeInv
<1>6. SoloInv'
  BY <1>2, <1>3, <1>4, SoloKept DEF RpcInv
<1>7. WayInv'
  BY <1>4, QuietWay
<1> QED BY <1>1, <1>4, <1>5, <1>6, <1>7 DEF RpcInv

LEMMA ReceiveFailsStep ==
    ASSUME RpcInv, NEW t \in Thread, ReceiveFails(t)
    PROVE  RpcInv'
<1>1. PcInv' /\ Steps(t, "close", call[t].fd, "failed")
  BY ThenSteps DEF ReceiveFails, RpcInv
<1>2. ~At(t, "idle") /\ ~At(t, "unset")
  BY DEF ReceiveFails, At
<1>3. UNCHANGED <<sockfd_, conn, toServer, toClient, asked, handled, shared>>
  BY DEF ReceiveFails, histVars, netVars
<1>0. Unsent(t)' => Unsent(t)
  BY <1>1 DEF Steps, Unsent
<1>4. /\ AskedInv' /\ OnceInv' /\ At(t, "close")'
      /\ ~shared' => OneCaller' /\ \A u \in Thread \ {t} : At(u, "idle")'
  BY <1>1, <1>0, <1>2, <1>3, CallerStep
<1>5. TypeInv'
  BY <1>3 DEF RpcInv, TypeInv
<1>6. SoloInv'
  BY <1>2, <1>3, <1>4, SoloKept DEF RpcInv
<1>7. WayInv'
  BY <1>4, QuietWay
<1> QED BY <1>1, <1>4, <1>5, <1>6, <1>7 DEF RpcInv

LEMMA CloseStep ==
    ASSUME RpcInv, NEW t \in Thread, Close(t)
    PROVE  RpcInv'
<1>0. At(t, "close") /\ call[t].then \in {"socket", "failed"}
  BY DEF Close, RpcInv, PcInv
<1>1. PcInv' /\ Steps(t, "unset", call[t].fd, call[t].then)
  BY <1>0, GotoSteps DEF Close, RpcInv, Pc
<1>2. ~At(t, "idle") /\ ~At(t, "unset") /\ (Unsent(t)' => Unsent(t))
  BY <1>0, <1>1 DEF Steps, At, Unsent
<1>3. UNCHANGED <<sockfd_, toServer, toClient, asked, handled, shared>>
  BY DEF Close, histVars
<1>4. /\ AskedInv' /\ OnceInv' /\ At(t, "unset")'
      /\ ~shared' => OneCaller' /\ \A u \in Thread \ {t} : At(u, "idle")'
  BY <1>1, <1>2, <1>3, CallerStep
<1>5. conn' = IF sockfd_ > 0 THEN [conn EXCEPT ![sockfd_].mine = FALSE] ELSE conn
  BY DEF Close
<1>6. TypeInv'
  BY <1>3, <1>5 DEF RpcInv, TypeInv
<1>7. SoloInv'
  <2> SUFFICES ASSUME ~shared' PROVE SoloInv'
    BY DEF SoloInv
  <2>1. \A u \in Thread : ~At(u, "unset")
    BY <1>0, <1>3 DEF RpcInv, SoloInv, OneCaller, At
  <2>2. \A k \in Fd : conn[k].mine <=> k = sockfd_
    BY <1>3, <2>1 DEF RpcInv, SoloInv
  <2>3. \A k \in Fd : ~conn'[k].mine
    <3> TAKE k \in Fd
    <3>1. k > 0
      BY SocketAssumption DEF Fd
    <3>2. CASE k = sockfd_
      BY <3>1, <3>2, <1>5 DEF RpcInv, TypeInv
    <3>3. CASE k # sockfd_
      BY <3>3, <2>2, <1>5 DEF RpcInv, TypeInv
    <3> QED BY <3>2, <3>3
  <2>4. \A u \in Thread : ~At(u, "socket")'
    BY <1>4 DEF At
  <2> QED BY <1>4, <2>3, <2>4 DEF SoloInv
<1>8. WayInv'
  BY <1>4, QuietWay
<1> QED BY <1>1, <1>4, <1>6, <1>7, <1>8 DEF RpcInv

LEMMA UnsetStep ==
    ASSUME RpcInv, NEW t \in Thread, Unset(t)
    PROVE  RpcInv'
<1>0. At(t, "unset") /\ call[t].then \in {"socket", "failed"}
  BY DEF Unset, RpcInv, PcInv
<1>1. PcInv' /\ Steps(t, call[t].then, call[t].fd, call[t].then)
  BY <1>0, GotoSteps DEF Unset, RpcInv, Pc
<1>2. ~At(t, "idle") /\ (Unsent(t)' => Unsent(t))
  BY <1>0, <1>1 DEF Steps, At, Unsent
<1>3. UNCHANGED <<conn, toServer, toClient, asked, handled, shared>> /\ sockfd_' = -1
  BY DEF Unset, histVars, netVars
<1>4. /\ AskedInv' /\ OnceInv' /\ At(t, call[t].then)'
      /\ ~shared' => OneCaller' /\ \A u \in Thread \ {t} : At(u, "idle")'
  BY <1>1, <1>2, <1>3, CallerStep DEF Steps
<1>5. At(t, "socket")' \/ At(t, "failed")'
  BY <1>0, <1>1 DEF Steps, At
<1>6. TypeInv'
  BY <1>3 DEF RpcInv, TypeInv
<1>7. SoloInv'
  <2> SUFFICES ASSUME ~shared' PROVE SoloInv'
    BY DEF SoloInv
  <2>1. \A k \in Fd : ~conn[k].mine
    BY <1>0, <1>3 DEF RpcInv, SoloInv
  <2>2. \A k \in Fd : k # -1
    BY SocketAssumption DEF Fd
  <2>3. \A u \in Thread : ~At(u, "unset")'
    BY <1>4, <1>5 DEF At
  <2> QED BY <1>3, <1>4, <2>1, <2>2, <2>3 DEF SoloInv
<1>8. WayInv'
  BY <1>4, <1>5, QuietWay
<1> QED BY <1>1, <1>4, <1>6, <1>7, <1>8 DEF RpcInv

LEMMA ReturnStep ==
    ASSUME RpcInv, NEW t \in Thread, Return(t)
    PROVE  RpcInv'
<1>1. PcInv' /\ call'[t] = NoCall /\ \A u \in Thread \ {t} : call'[u] = call[u]
  <2>1. IsCall(NoCall) /\ NoCall.pc = "idle"
    BY DEF IsCall, NoCall
  <2> QED BY <2>1, PcSteps DEF Return, RpcInv, Pc
<1>2. ~At(t, "idle") /\ ~At(t, "unset") /\ At(t, "idle")' /\ ~Unsent(t)'
  <2>0. NoCall.pc = "idle"
    BY DEF NoCall
  <2>1. call'[t].pc = "idle"
    BY <1>1, <2>0, Zenon
  <2>2. call[t].pc \in {"done", "failed"}
    BY DEF Return
  <2> QED BY <2>1, <2>2 DEF At, Unsent
<1>3. UNCHANGED <<sockfd_, conn, toServer, toClient, asked, handled, shared>>
  BY DEF Return, histVars, netVars
<1>4. AskedInv'
  BY <1>1, <1>2, <1>3, AskedKept DEF RpcInv, At
<1>5. OnceInv'
  <2>1. \A u \in Thread : Unsent(u)' => Unsent(u) /\ call'[u].id = call[u].id
    BY <1>1, <1>2 DEF Unsent
  <2> QED BY <2>1, <1>3, OnceKept DEF RpcInv
<1>6. ~shared' => OneCaller' /\ \A u \in Thread \ {t} : At(u, "idle")'
  <2> HAVE ~shared'
  <2>1. \A u \in Thread \ {t} : At(u, "idle")
    BY <1>2, <1>3 DEF RpcInv, SoloInv, OneCaller
  <2>2. \A u \in Thread \ {t} : At(u, "idle")'
    BY <2>1, <1>1 DEF At
  <2> QED BY <2>2 DEF OneCaller
<1>7. TypeInv'
  BY <1>3 DEF RpcInv, TypeInv
<1>8. SoloInv'
  BY <1>2, <1>3, <1>6, SoloKept DEF RpcInv
<1>9. WayInv'
  BY <1>2, <1>6, QuietWay
<1> QED BY <1>1, <1>4, <1>5, <1>7, <1>8, <1>9 DEF RpcInv

LEMMA ReceiveStep ==
    ASSUME RpcInv, NEW t \in Thread, Receive(t)
    PROVE  RpcInv'
<1> DEFINE k == call[t].fd
<1>0. At(t, "wait") /\ k \in Fd
  BY DEF Receive, RpcInv, PcInv
<1>1. PICK n \in 1 .. Len(toClient[k]) :
        /\ Returned(t, SubSeq(toClient[k], 1, n))
        /\ toClient' = [toClient EXCEPT ![k] = SubSeq(@, n + 1, Len(@))]
        /\ conn' = [conn EXCEPT ![k].cut = @ \/ n < Len(toClient[k])]
  BY DEF Receive
<1>2. \/ PcInv' /\ Steps(t, "done", call[t].fd, call[t].then)
      \/ PcInv' /\ Steps(t, "failed", call[t].fd, call[t].then)
  BY <1>1, ReturnedSteps DEF RpcInv
<1>3. ~At(t, "idle") /\ ~At(t, "unset")
  BY <1>0 DEF At
<1>4. UNCHANGED <<sockfd_, toServer, asked, handled, shared>>
  BY DEF Receive
<1>5. Unsent(t)' => Unsent(t)
  BY <1>2 DEF Steps, Unsent
<1>6. /\ AskedInv' /\ OnceInv' /\ (At(t, "done")' \/ At(t, "failed")')
      /\ ~shared' => OneCaller' /\ \A u \in Thread \ {t} : At(u, "idle")'
  BY <1>2, <1>3, <1>4, <1>5, CallerStep
<1> HIDE DEF k
<1>7. TypeInv'
  <2>1. IsSeq(SubSeq(toClient[k], n + 1, Len(toClient[k])))
    BY <1>0, Cut DEF RpcInv, TypeInv
  <2>2. /\ toClient' = [l \in Fd |-> toClient'[l]]
        /\ \A l \in Fd : IsSeq(toClient'[l])
    BY <2>1, <1>1 DEF RpcInv, TypeInv
  <2>3. conn' \in [Fd -> [state : {"free", "new", "open", "closed"},
                          mine : BOOLEAN, cut : BOOLEAN]]
    <3>1. (conn[k].cut \/ n < Len(toClient[k])) \in BOOLEAN
      OBVIOUS
    <3> QED BY <1>0, <1>1, <3>1 DEF RpcInv, TypeInv
  <2>4. \A l \in Fd : IsSeq(toServer[l])' /\ IsSeq(toClient[l])'
    BY <2>2, <1>4 DEF RpcInv, TypeInv, IsSeq
  <2> QED BY <1>4, <2>2, <2>3, <2>4 DEF RpcInv, TypeInv
<1>8. \A l \in Fd : conn'[l].mine = conn[l].mine
  BY <1>1 DEF RpcInv, TypeInv
<1>9. SoloInv'
  BY <1>3, <1>4, <1>6, <1>8, SoloKept DEF RpcInv
<1>10. WayInv'
  BY <1>6, QuietWay
<1> QED BY <1>2, <1>6, <1>7, <1>9, <1>10 DEF RpcInv

\* What a thread asks is recorded once, under its number.
LEMMA OwnArgs ==
    ASSUME RpcInv, NEW t \in Thread, ~At(t, "idle")
    PROVE  /\ call[t].method \in Method /\ ArgsOf(t) \in Args[call[t].method]
           /\ call[t].id \in 1 .. Cardinality(asked)
<1>1. PICK a \in asked : /\ a.id = call[t].id /\ a.method = call[t].method
                         /\ a.method \in Method /\ a.args \in Args[a.method]
  BY DEF RpcInv, AskedInv
<1> DEFINE b == CHOOSE x \in asked : x.id = call[t].id
<1>2. b \in asked /\ b.id = call[t].id
  BY <1>1
<1> HIDE DEF b
<1>3. b = a
  BY <1>1, <1>2 DEF RpcInv, AskedInv
<1>4. ArgsOf(t) = a.args
  BY <1>3 DEF ArgsOf, b
<1> QED BY <1>1, <1>4 DEF RpcInv, AskedInv

\* send() puts the request behind what is on the wire.
LEMMA OnTheWire ==
    ASSUME RpcInv, NEW t \in Thread, At(t, "send"), NEW k \in Fd,
           toServer' = [toServer EXCEPT ![k] =
                           @ \o Tag(call[t].id, Request(call[t].method, ArgsOf(t)))]
    PROVE  /\ toServer' = [l \in Fd |-> toServer'[l]]
           /\ \A l \in Fd : IsSeq(toServer'[l])
           /\ \A l \in Fd : \A j \in Nat : Opens(l, j)' =>
                 \/ Opens(l, j) /\ toServer'[l][j].id = toServer[l][j].id
                 \/ l = k /\ j = Len(toServer[k]) + 1 /\ toServer'[l][j].id = call[t].id
           /\ toServer'[k] # << >> /\ Last(toServer'[k]).id = call[t].id
<1> DEFINE q == Request(call[t].method, ArgsOf(t))
           r == Tag(call[t].id, q)
           s == toServer[k]
<1>1. /\ IsSeq(q) /\ Len(q) \in Nat \ {0} /\ \A j \in 2 .. Len(q) : q[j].num # 0
  BY OwnArgs, RequestShape DEF At
<1> HIDE DEF q
<1>2. /\ IsSeq(r) /\ Len(r) \in Nat \ {0}
      /\ \A j \in 2 .. Len(r) : r[j].num # 0
      /\ \A j \in 1 .. Len(r) : r[j].id = call[t].id
  BY <1>1, TagShape
<1>3. toServer' = [toServer EXCEPT ![k] = s \o r]
  BY DEF q
<1> HIDE DEF r
<1>4. IsSeq(s)
  BY DEF RpcInv, TypeInv
<1>5. /\ toServer' = [l \in Fd |-> toServer'[l]] /\ toServer'[k] = s \o r
      /\ \A l \in Fd \ {k} : toServer'[l] = toServer[l]
  BY <1>3 DEF RpcInv, TypeInv
<1> HIDE DEF s
<1>6. /\ IsSeq(s \o r) /\ Len(s) \in Nat /\ Len(r) \in Nat
      /\ Len(s \o r) = Len(s) + Len(r)
      /\ \A j \in 1 .. Len(s \o r) : (s \o r)[j] = IF j <= Len(s) THEN s[j] ELSE r[j - Len(s)]
  BY <1>2, <1>4, Joined, Zenon
<1>7. \A l \in Fd : IsSeq(toServer'[l])
  BY <1>5, <1>6 DEF RpcInv, TypeInv
<1>8. ASSUME NEW l \in Fd, NEW j \in Nat, Opens(l, j)'
      PROVE  \/ Opens(l, j) /\ toServer'[l][j].id = toServer[l][j].id
             \/ l = k /\ j = Len(toServer[k]) + 1 /\ toServer'[l][j].id = call[t].id
  <2>1. CASE l # k
    BY <1>5, <1>8, <2>1 DEF Opens
  <2>2. CASE l = k
    <3>1. j \in 1 .. Len(s \o r) /\ (s \o r)[j].num = 0 /\ toServer'[l][j] = (s \o r)[j]
      BY <1>5, <1>8, <2>2 DEF Opens
    <3>2. CASE j <= Len(s)
      BY <1>6, <3>1, <3>2, <2>2 DEF Opens, s
    <3>3. CASE ~(j <= Len(s))
      <4>1. (s \o r)[j] = r[j - Len(s)] /\ j - Len(s) \in 1 .. Len(r)
        BY <1>6, <3>1, <3>3
      <4>2. j - Len(s) = 1
        BY <4>1, <3>1, <1>2
      <4>3. j = Len(s) + 1
        BY <4>2, <1>6
      <4>4. r[j - Len(s)].id = call[t].id
        BY <4>1, <1>2
      <4>5. toServer'[l][j].id = call[t].id
        BY <4>1, <4>4, <3>1
      <4> QED BY <4>3, <4>5, <2>2 DEF s
    <3> QED BY <3>2, <3>3
  <2> QED BY <2>1, <2>2
<1>9. s \o r # << >> /\ Last(s \o r).id = call[t].id
  <2>1. Len(s \o r) \in Nat \ {0} /\ Len(s \o r) - Len(s) = Len(r) /\ ~(Len(s \o r) <= Len(s))
    BY <1>6, <1>2
  <2>2. (s \o r)[Len(s \o r)] = r[Len(r)]
    BY <1>6, <2>1
  <2>3. r[Len(r)].id = call[t].id
    BY <1>2
  <2>4. s \o r # << >>
    BY <2>1
  <2> QED BY <2>2, <2>3, <2>4 DEF Last
<1> QED BY <1>5, <1>7, <1>8, <1>9

LEMMA SendStep ==
    ASSUME RpcInv, NEW t \in Thread, Send(t)
    PROVE  RpcInv'
<1> DEFINE k == sockfd_
<1>0. At(t, "send") /\ k \in Fd
  BY DEF Send, Usable, RpcInv, TypeInv
<1>1. PcInv' /\ Steps(t, "recv", call[t].fd, call[t].then)
  BY GotoSteps DEF Send, RpcInv, Pc
<1>2. ~At(t, "idle") /\ ~At(t, "unset") /\ At(t, "recv")' /\ Unsent(t) /\ ~Unsent(t)'
  BY <1>0, <1>1 DEF Steps, At, Unsent
<1>3. UNCHANGED <<sockfd_, conn, toClient, asked, handled, shared, dropped>>
  BY DEF Send, histVars
<1>4. \/ conn[k].state = "closed" /\ toServer' = toServer
      \/ toServer' = [toServer EXCEPT ![k] =
                           @ \o Tag(call[t].id, Request(call[t].method, ArgsOf(t)))]
  BY DEF Send
<1> HIDE DEF k
<1>5. /\ toServer' = [l \in Fd |-> toServer'[l]]
      /\ \A l \in Fd : IsSeq(toServer'[l])
      /\ \A l \in Fd : \A j \in Nat : Opens(l, j)' =>
            \/ Opens(l, j) /\ toServer'[l][j].id = toServer[l][j].id
            \/ l = k /\ j = Len(toServer[k]) + 1 /\ toServer'[l][j].id = call[t].id
      /\ \/ conn[k].state = "closed"
         \/ toServer'[k] # << >> /\ Last(toServer'[k]).id = call[t].id
  <2>1. CASE conn[k].state = "closed" /\ toServer' = toServer
    <3>1. /\ toServer = [l \in Fd |-> toServer[l]]
          /\ \A l \in Fd : IsSeq(toServer[l])
      BY DEF RpcInv, TypeInv
    <3>2. \A l \in Fd : \A j \in Nat : Opens(l, j)' => Opens(l, j)
      BY <2>1 DEF Opens
    <3> QED BY <2>1, <3>1, <3>2
  <2>2. CASE toServer' = [toServer EXCEPT ![k] =
                           @ \o Tag(call[t].id, Request(call[t].method, ArgsOf(t)))]
    BY <2>2, <1>0, OnTheWire, Zenon
  <2> QED BY <2>1, <2>2, <1>4
<1>6. TypeInv'
  <2>1. \A l \in Fd : IsSeq(toServer[l])' /\ IsSeq(toClient[l])'
    BY <1>3, <1>5 DEF RpcInv, TypeInv, IsSeq
  <2> QED BY <1>3, <1>5, <2>1 DEF RpcInv, TypeInv
<1>7. \A u \in Thread \ {t} : call'[u] = call[u]
  BY <1>1 DEF Steps
<1>8. AskedInv'
  <2>1. \A u \in Thread : ~At(u, "idle")' =>
          /\ ~At(u, "idle")
          /\ call'[u].id = call[u].id /\ call'[u].method = call[u].method
    BY <1>1, <1>2, <1>7 DEF Steps, At
  <2> QED BY <2>1, <1>3, AskedKept DEF RpcInv
<1>9. OnceInv'
  <2>0. \A id : IsHandled(id)' <=> IsHandled(id)
    BY <1>3 DEF IsHandled
  <2>1. /\ ~IsHandled(call[t].id)
        /\ \A l \in Fd : \A j \in Nat : Opens(l, j) => toServer[l][j].id # call[t].id
        /\ call[t].id \in 1 .. Cardinality(asked)
    BY <1>2, OwnArgs DEF RpcInv, OnceInv
  <2>2. (\A l, m \in Fd : \A i, j \in Nat :
           /\ Opens(l, i) /\ Opens(m, j)
           /\ toServer[l][i].id = toServer[m][j].id
           => l = m /\ i = j)'
    <3> SUFFICES ASSUME NEW l \in Fd, NEW m \in Fd, NEW i \in Nat, NEW j \in Nat,
                        Opens(l, i)', Opens(m, j)', toServer'[l][i].id = toServer'[m][j].id
                 PROVE  l = m /\ i = j
      OBVIOUS
    <3>1. \/ Opens(l, i) /\ toServer'[l][i].id = toServer[l][i].id
          \/ l = k /\ i = Len(toServer[k]) + 1 /\ toServer'[l][i].id = call[t].id
      BY <1>5
    <3>2. \/ Opens(m, j) /\ toServer'[m][j].id = toServer[m][j].id
          \/ m = k /\ j = Len(toServer[k]) + 1 /\ toServer'[m][j].id = call[t].id
      BY <1>5
    <3> QED BY <3>1, <3>2, <2>1 DEF RpcInv, OnceInv
  <2>3. (\A l \in Fd : \A j \in Nat : Opens(l, j) =>
           /\ toServer[l][j].id \in 1 .. Cardinality(asked)
           /\ ~IsHandled(toServer[l][j].id))'
    BY <2>0, <2>1, <1>3, <1>5 DEF RpcInv, OnceInv
  <2>4. (\A u \in Thread : Unsent(u) =>
           /\ ~IsHandled(call[u].id)
           /\ \A l \in Fd : \A j \in Nat : Opens(l, j) => toServer[l][j].id # call[u].id)'
    <3> SUFFICES ASSUME NEW u \in Thread, Unsent(u)'
                 PROVE  /\ ~IsHandled(call[u].id)'
                        /\ \A l \in Fd : \A j \in Nat :
                              Opens(l, j)' => toServer'[l][j].id # call'[u].id
      OBVIOUS
    <3>1. u # t /\ call'[u] = call[u] /\ Unsent(u) /\ ~At(u, "idle")
      BY <1>2, <1>7 DEF Unsent, At
    <3>2. call[u].id # call[t].id
      BY <3>1, <1>2 DEF RpcInv, AskedInv
    <3>3. /\ ~IsHandled(call[u].id)
          /\ \A l \in Fd : \A j \in Nat : Opens(l, j) => toServer[l][j].id # call[u].id
      BY <3>1 DEF RpcInv, OnceInv
    <3> QED BY <3>1, <3>2, <3>3, <2>0, <1>5
  <2>5. AtMostOnce' /\ (\A i \in 1 .. Len(handled) : handled[i].id \in 1 .. Cardinality(asked))'
    BY <1>3 DEF RpcInv, OnceInv, AtMostOnce
  <2> QED BY <2>2, <2>3, <2>4, <2>5 DEF OnceInv
<1>10. ~shared' => OneCaller' /\ \A u \in Thread \ {t} : At(u, "idle")'
  <2> HAVE ~shared'
  <2>1. \A u \in Thread \ {t} : At(u, "idle")
    BY <1>2, <1>3 DEF RpcInv, SoloInv, OneCaller
  <2>2. \A u \in Thread \ {t} : At(u, "idle")'
    BY <2>1, <1>7 DEF At
  <2> QED BY <2>2 DEF OneCaller
<1>11. SoloInv'
  BY <1>2, <1>3, <1>10, SoloKept DEF RpcInv
<1>12. WayInv'
  <2> SUFFICES ASSUME ~shared' PROVE WayInv'
    BY DEF WayInv
  <2>1. sockfd_' = k /\ call'[t].id = call[t].id
    BY <1>3, <1>1 DEF k, Steps
  <2>2. OnItsWay(k, call[t].id)'
    BY <1>3, <1>5, <2>1 DEF OnItsWay, k
  <2>3. OnItsWay(sockfd_, call[t].id)'
    BY <2>1, <2>2 DEF OnItsWay, k
  <2> QED BY <1>0, <1>2, <1>10, <2>1, <2>3 DEF WayInv, At
<1> QED BY <1>1, <1>6, <1>8, <1>9, <1>11, <1>12 DEF RpcInv

LEMMA CallMethodStep ==
    ASSUME RpcInv, NEW t \in Thread, NEW method \in Method, NEW args \in Args[method],
           CallMethod(t, method, args)
    PROVE  RpcInv'
<1> DEFINE id == Cardinality(asked) + 1
           a == [id |-> id, method |-> method, args |-> args]
           pc == IF sockfd_ < 0 THEN "socket" ELSE "send"
           r == [NoCall EXCEPT !.pc = pc, !.id = id, !.method = method]
<1>1. /\ At(t, "idle") /\ call' = [call EXCEPT ![t] = r] /\ asked' = asked \cup {a}
      /\ shared' = (shared \/ \E u \in Thread : ~At(u, "idle"))
      /\ UNCHANGED <<sockfd_, conn, toServer, toClient, handled, dropped>>
  BY DEF CallMethod, netVars
<1>2. IsCall(r) /\ r.pc = pc /\ r.id = id /\ r.method = method
  BY DEF IsCall, NoCall
<1> HIDE DEF r
<1>3. PcInv' /\ call'[t] = r /\ \A u \in Thread \ {t} : call'[u] = call[u]
  BY <1>1, <1>2, PcSteps DEF Pc, RpcInv
<1>4. Cardinality(asked) \in Nat /\ IsFiniteSet(asked)
  BY FS_CardinalityType DEF RpcInv, TypeInv
<1>5. a.id = id /\ a.method = method /\ a.args = args
  OBVIOUS
<1> HIDE DEF a
<1>6. a \notin asked /\ \A b \in asked : b.id # id /\ b.id \in 1 .. Cardinality(asked)
  BY <1>4, <1>5 DEF RpcInv, AskedInv
<1>7. Cardinality(asked') = id /\ IsFiniteSet(asked')
  BY <1>1, <1>4, <1>6, FS_AddElement
<1>8. id \in 1 .. Cardinality(asked') /\ 1 .. Cardinality(asked) \subseteq 1 .. Cardinality(asked')
  BY <1>4, <1>7
<1>9. \A u \in Thread : ~At(u, "idle") => call[u].id \in 1 .. Cardinality(asked) /\ call[u].id # id
  BY OwnArgs, <1>4
<1> HIDE DEF id
<1>10. TypeInv'
  <2>1. shared' \in BOOLEAN
    BY <1>1
  <2> QED BY <1>1, <1>7, <2>1 DEF RpcInv, TypeInv
<1>11. \A u \in Thread \ {t} : /\ At(u, "idle")' <=> At(u, "idle")
                               /\ Unsent(u)' <=> Unsent(u)
                               /\ call'[u].id = call[u].id /\ call'[u].method = call[u].method
  BY <1>3 DEF At, Unsent
<1>12. /\ call'[t].id = id /\ call'[t].method = method
       /\ call'[t].pc = pc /\ ~At(t, "idle")'
  BY <1>2, <1>3 DEF At
<1>13. AskedInv'
  <2>1. \A b \in asked' : b.id \in 1 .. Cardinality(asked')
    BY <1>1, <1>5, <1>6, <1>8
  <2>2. \A b, c \in asked' : b.id = c.id => b = c
    BY <1>1, <1>5, <1>6 DEF RpcInv, AskedInv
  <2>3. ASSUME NEW u \in Thread, ~At(u, "idle")'
        PROVE  \E b \in asked' : /\ b.id = call'[u].id /\ b.method = call'[u].method
                                 /\ b.method \in Method /\ b.args \in Args[b.method]
    <3>1. CASE u = t
      <4>1. a \in asked'
        BY <1>1
      <4> QED BY <4>1, <1>5, <1>12, <3>1
    <3>2. CASE u # t
      <4>1. PICK b \in asked : /\ b.id = call[u].id /\ b.method = call[u].method
                               /\ b.method \in Method /\ b.args \in Args[b.method]
        BY <2>3, <3>2, <1>11 DEF RpcInv, AskedInv
      <4>2. b \in asked'
        BY <1>1
      <4> QED BY <4>1, <4>2, <3>2, <1>11
    <3> QED BY <3>1, <3>2
  <2>4. ASSUME NEW u \in Thread, NEW v \in Thread, ~At(u, "idle")', ~At(v, "idle")',
               call'[u].id = call'[v].id
        PROVE  u = v
    BY <2>4, <1>9, <1>11, <1>12 DEF RpcInv, AskedInv
  <2> QED BY <2>1, <2>2, <2>3, <2>4 DEF AskedInv
<1>14. OnceInv'
  <2>1. \A k, j : Opens(k, j)' <=> Opens(k, j)
    BY <1>1 DEF Opens
  <2>2. \A x : IsHandled(x)' <=> IsHandled(x)
    BY <1>1 DEF IsHandled
  <2>3. \A x : IsHandled(x) => x \in 1 .. Cardinality(asked)
    BY DEF RpcInv, OnceInv, IsHandled
  <2>4. id \notin 1 .. Cardinality(asked)
    BY <1>4 DEF id
  <2> HIDE DEF id
  <2>5. (\A u \in Thread : Unsent(u) =>
           /\ ~IsHandled(call[u].id)
           /\ \A k \in Fd : \A j \in Nat : Opens(k, j) => toServer[k][j].id # call[u].id)'
    <3> SUFFICES ASSUME NEW u \in Thread, Unsent(u)'
                 PROVE  /\ ~IsHandled(call'[u].id)
                        /\ \A k \in Fd : \A j \in Nat : Opens(k, j) => toServer[k][j].id # call'[u].id
      BY <1>1, <2>1, <2>2
    <3>1. CASE u = t
      BY <3>1, <1>12, <2>3, <2>4 DEF RpcInv, OnceInv
    <3>2. CASE u # t
      BY <3>2, <1>11 DEF RpcInv, OnceInv
    <3> QED BY <3>1, <3>2
  <2>6. (\A k, l \in Fd : \A i, j \in Nat :
           /\ Opens(k, i) /\ Opens(l, j)
           /\ toServer[k][i].id = toServer[l][j].id
           => k = l /\ i = j)'
    BY <1>1, <2>1 DEF RpcInv, OnceInv
  <2>7. (\A k \in Fd : \A j \in Nat : Opens(k, j) =>
           /\ toServer[k][j].id \in 1 .. Cardinality(asked)
           /\ ~IsHandled(toServer[k][j].id))'
    BY <1>1, <1>8, <2>1, <2>2 DEF RpcInv, OnceInv
  <2>8. AtMostOnce' /\ (\A i \in 1 .. Len(handled) : handled[i].id \in 1 .. Cardinality(asked))'
    BY <1>1, <1>8 DEF RpcInv, OnceInv, AtMostOnce
  <2> QED BY <2>5, <2>6, <2>7, <2>8 DEF OnceInv
<1>15. ASSUME ~shared'
       PROVE  ~shared /\ (\A u \in Thread : At(u, "idle")) /\ \A u \in Thread \ {t} : At(u, "idle")'
  BY <1>1, <1>11, <1>15
<1>16. call'[t].pc \in {"socket", "send"} /\ (call'[t].pc = "socket" => sockfd_ = -1)
  <2>1. sockfd_ < 0 => sockfd_ = -1
    BY SocketAssumption DEF RpcInv, TypeInv, Fd
  <2> QED BY <1>12, <2>1
<1>17. SoloInv'
  <2> SUFFICES ASSUME ~shared' PROVE SoloInv'
    BY DEF SoloInv
  <2>1. \A k \in Fd : conn[k].mine <=> k = sockfd_
    BY <1>15 DEF RpcInv, SoloInv, At
  <2>2. \A u \in Thread : ~At(u, "unset")' /\ (At(u, "socket")' => sockfd_ = -1)
    <3>1. \A u \in Thread \ {t} : call'[u].pc = "idle"
      BY <1>15 DEF At
    <3> QED BY <3>1, <1>16 DEF At
  <2>3. OneCaller'
    BY <1>15 DEF OneCaller
  <2> QED BY <1>1, <2>1, <2>2, <2>3 DEF SoloInv
<1>18. WayInv'
  <2>1. At(t, "socket")' \/ At(t, "send")'
    BY <1>16 DEF At
  <2> QED BY <1>15, <2>1, QuietWay
<1> QED BY <1>3, <1>10, <1>13, <1>14, <1>17, <1>18 DEF RpcInv

\* The provider takes n units off the wire.
LEMMA OffTheWire ==
    ASSUME RpcInv, NEW k \in Fd, NEW n \in 1 .. Len(toServer[k]),
           toServer' = [toServer EXCEPT ![k] = SubSeq(@, n + 1, Len(@))]
    PROVE  /\ toServer' = [l \in Fd |-> toServer'[l]]
           /\ \A l \in Fd : IsSeq(toServer'[l])
           /\ \A l \in Fd : \A j \in Nat : Opens(l, j)' =>
                LET i == IF l = k THEN n + j ELSE j
                IN  i \in Nat /\ Opens(l, i) /\ toServer'[l][j] = toServer[l][i]
           /\ n # Len(toServer[k]) =>
                toServer'[k] # << >> /\ Last(toServer'[k]) = Last(toServer[k])
<1> DEFINE s == toServer[k]
           q == SubSeq(s, n + 1, Len(s))
<1>1. IsSeq(s)
  BY DEF RpcInv, TypeInv
<1>2. /\ toServer' = [l \in Fd |-> toServer'[l]] /\ toServer'[k] = q
      /\ \A l \in Fd \ {k} : toServer'[l] = toServer[l]
  BY DEF RpcInv, TypeInv
<1> HIDE DEF s
<1>3. n \in 1 .. Len(s)
  BY DEF s
<1>4. /\ Len(s) \in Nat /\ IsSeq(q) /\ Len(q) = Len(s) - n
      /\ \A j \in 1 .. Len(s) - n : q[j] = s[n + j]
  BY <1>1, <1>3, Cut
<1> HIDE DEF q
<1>5. \A l \in Fd : IsSeq(toServer'[l])
  BY <1>2, <1>4 DEF RpcInv, TypeInv
<1>6. ASSUME NEW l \in Fd, NEW j \in Nat, Opens(l, j)'
      PROVE  LET i == IF l = k THEN n + j ELSE j
             IN  i \in Nat /\ Opens(l, i) /\ toServer'[l][j] = toServer[l][i]
  <2>1. CASE l # k
    BY <1>2, <1>6, <2>1 DEF Opens
  <2>2. CASE l = k
    <3>1. j \in 1 .. Len(q) /\ q[j].num = 0 /\ toServer'[l][j] = q[j]
      BY <1>2, <1>6, <2>2 DEF Opens
    <3>2. j \in 1 .. Len(s) - n /\ n + j \in 1 .. Len(s) /\ n + j \in Nat
      BY <3>1, <1>3, <1>4
    <3>3. q[j] = s[n + j]
      BY <3>2, <1>4
    <3> QED BY <3>1, <3>2, <3>3, <2>2 DEF Opens, s
  <2> QED BY <2>1, <2>2
<1>7. ASSUME n # Len(s)
      PROVE  q # << >> /\ Last(q) = Last(s)
  <2>1. Len(q) \in 1 .. Len(s) - n /\ n + Len(q) = Len(s)
    BY <1>3, <1>4, <1>7
  <2>2. q[Len(q)] = s[Len(s)]
    BY <1>4, <2>1
  <2> QED BY <2>1, <2>2 DEF Last
<1> QED BY <1>2, <1>5, <1>6, <1>7 DEF s

LEMMA OnMessageStep ==
    ASSUME RpcInv, NEW k \in Fd, OnMessage(k)
    PROVE  RpcInv'
<1>0. UNCHANGED <<sockfd_, conn, call, asked, shared>>
  BY DEF OnMessage
<1>1. PICK n \in 1 .. Len(toServer[k]) :
        LET taken == SubSeq(toServer[k], 1, n)
            id == taken[1].id
        IN  /\ toServer' = [toServer EXCEPT ![k] = SubSeq(@, n + 1, Len(@))]
            /\ \/ /\ Decoded(taken) = {}
                  /\ dropped' = dropped \cup Ids(taken)
                  /\ UNCHANGED <<toClient, handled>>
               \/ \E r \in Decoded(taken) : \E reply \in Replies[r.method] :
                    /\ handled' = Append(handled, [id |-> id, method |-> r.method,
                                             args |-> r.args, reply |-> reply])
                    /\ dropped' = dropped \cup (Ids(taken) \ {id})
                    /\ toClient' = [toClient EXCEPT ![k] =
                                      @ \o Tag(id, ReplyOut(r.method, reply))]
  BY DEF OnMessage
<1> DEFINE s == toServer[k]
           taken == SubSeq(s, 1, n)
           id == taken[1].id
<1>2. IsSeq(s)
  BY DEF RpcInv, TypeInv
<1>3. /\ toServer' = [l \in Fd |-> toServer'[l]]
      /\ \A l \in Fd : IsSeq(toServer'[l])
      /\ \A l \in Fd : \A j \in Nat : Opens(l, j)' =>
           LET i == IF l = k THEN n + j ELSE j
           IN  i \in Nat /\ Opens(l, i) /\ toServer'[l][j] = toServer[l][i]
      /\ n # Len(s) => toServer'[k] # << >> /\ Last(toServer'[k]) = Last(s)
  BY <1>1, OffTheWire
<1>4. /\ Len(s) \in Nat /\ IsSeq(taken) /\ Len(taken) = n
      /\ \A j \in 1 .. n : taken[j] = s[j]
  BY <1>2, Cut
<1>5. n \in Nat \ {0} /\ taken[1] = s[1]
  BY <1>4
<1>6. CASE /\ Decoded(taken) = {}
           /\ dropped' = dropped \cup Ids(taken)
           /\ UNCHANGED <<toClient, handled>>
  <2>1. TypeInv'
    <3>1. \A l \in Fd : IsSeq(toServer[l])' /\ IsSeq(toClient[l])'
      BY <1>3, <1>6 DEF RpcInv, TypeInv, IsSeq
    <3> QED BY <1>0, <1>3, <1>6, <3>1 DEF RpcInv, TypeInv
  <2>2. PcInv' /\ AskedInv' /\ SoloInv'
    BY <1>0 DEF RpcInv, PcInv, AskedInv, SoloInv, OneCaller, At, IsCall
  <2>3. OnceInv'
    <3>1. \A x : IsHandled(x)' <=> IsHandled(x)
      BY <1>6 DEF IsHandled
    <3>2. ASSUME NEW l \in Fd, NEW j \in Nat, Opens(l, j)'
          PROVE  /\ toServer'[l][j].id \in 1 .. Cardinality(asked)
                 /\ ~IsHandled(toServer'[l][j].id)
      BY <3>2, <1>3 DEF RpcInv, OnceInv
    <3>3. ASSUME NEW l \in Fd, NEW m \in Fd, NEW i \in Nat, NEW j \in Nat,
                 Opens(l, i)', Opens(m, j)', toServer'[l][i].id = toServer'[m][j].id
          PROVE  l = m /\ i = j
      <4> DEFINE x == IF l = k THEN n + i ELSE i
                 y == IF m = k THEN n + j ELSE j
      <4>1. /\ x \in Nat /\ Opens(l, x) /\ toServer'[l][i] = toServer[l][x]
            /\ y \in Nat /\ Opens(m, y) /\ toServer'[m][j] = toServer[m][y]
        BY <3>3, <1>3
      <4> HIDE DEF x, y
      <4>2. toServer[l][x].id = toServer[m][y].id
        BY <4>1, <3>3
      <4>3. l = m /\ x = y
        BY <4>1, <4>2 DEF RpcInv, OnceInv
      <4> USE DEF x, y
      <4> QED BY <4>3, <1>5
    <3>4. ASSUME NEW u \in Thread, Unsent(u)
          PROVE  /\ ~IsHandled(call[u].id)
                 /\ \A l \in Fd : \A j \in Nat : Opens(l, j)' => toServer'[l][j].id # call[u].id
      BY <3>4, <1>3 DEF RpcInv, OnceInv
    <3>5. \A u \in Thread : Unsent(u)' => Unsent(u)
      BY <1>0 DEF Unsent
    <3>6. (\A u \in Thread : Unsent(u) =>
             /\ ~IsHandled(call[u].id)
             /\ \A l \in Fd : \A j \in Nat : Opens(l, j) => toServer[l][j].id # call[u].id)'
      BY <1>0, <3>1, <3>4, <3>5
    <3>7. AtMostOnce' /\ (\A i \in 1 .. Len(handled) : handled[i].id \in 1 .. Cardinality(asked))'
      BY <1>0, <1>6 DEF RpcInv, OnceInv, AtMostOnce
    <3> QED BY <1>0, <3>1, <3>2, <3>3, <3>6, <3>7 DEF OnceInv
  <2>4. WayInv'
    <3>1. 1 \in 1 .. Len(taken)
      BY <1>4, <1>5
    <3>2. taken[1].id \in dropped'
      BY <1>6, <3>1 DEF Ids
    <3> QED BY <3>2 DEF WayInv
  <2> QED BY <2>1, <2>2, <2>3, <2>4 DEF RpcInv
<1>7. ASSUME NEW r \in Decoded(taken), NEW reply \in Replies[r.method],
             handled' = Append(handled, [id |-> id, method |-> r.method,
                                         args |-> r.args, reply |-> reply]),
             dropped' = dropped \cup (Ids(taken) \ {id}),
             toClient' = [toClient EXCEPT ![k] = @ \o Tag(id, ReplyOut(r.method, reply))]
      PROVE  RpcInv'
  <2> DEFINE e == [id |-> id, method |-> r.method, args |-> r.args, reply |-> reply]
             out == ReplyOut(r.method, reply)
  <2>1. e.id = id /\ e.method = r.method /\ e.reply = reply
    OBVIOUS
  <2>2. /\ IsSeq(handled') /\ Len(handled) \in Nat /\ Len(handled') = Len(handled) + 1
        /\ handled'[Len(handled) + 1] = e
        /\ \A i \in 1 .. Len(handled) : handled'[i] = handled[i]
    <3>1. handled' = Append(handled, e) /\ IsSeq(handled)
      BY <1>7 DEF RpcInv, TypeInv
    <3> HIDE DEF e
    <3> QED BY <3>1, Appended
  <2> HIDE DEF e
  <2>3. id = s[1].id /\ Opens(k, 1) /\ id = toServer[k][1].id
    <3>1. s[1].num = 0
      BY <1>5, <1>7, FoundAtFront
    <3>2. 1 \in 1 .. Len(s)
      BY <1>4, <1>5
    <3> QED BY <3>1, <3>2, <1>5 DEF Opens
  <2>4. /\ IsSeq(out) /\ IsSeq(Tag(id, out)) /\ Len(Tag(id, out)) = Len(out) /\ Len(out) \in Nat
    <3>1. r.method \in Method
      BY FoundMethod
    <3>2. IsSeq(out)
      BY <3>1, ReplyOutFields DEF Fields
    <3> HIDE DEF out, id
    <3> QED BY <3>2, TagShape
  <2> HIDE DEF out
  <2>5. /\ toClient' = [l \in Fd |-> toClient'[l]]
        /\ toClient'[k] = toClient[k] \o Tag(id, out)
        /\ \A l \in Fd \ {k} : toClient'[l] = toClient[l]
    BY <1>7 DEF RpcInv, TypeInv, out
  <2> HIDE DEF id, taken
  <2>6. /\ IsSeq(toClient[k] \o Tag(id, out))
        /\ Len(toClient[k] \o Tag(id, out)) = Len(toClient[k]) + Len(out)
        /\ Len(toClient[k]) \in Nat
    <3>1. IsSeq(toClient[k])
      BY DEF RpcInv, TypeInv
    <3> QED BY <3>1, <2>4, Joined
  <2>7. TypeInv'
    <3>1. \A l \in Fd : IsSeq(toClient'[l])
      BY <2>5, <2>6 DEF RpcInv, TypeInv
    <3>2. \A l \in Fd : IsSeq(toServer[l])' /\ IsSeq(toClient[l])'
      BY <3>1, <1>3 DEF IsSeq
    <3>3. IsSeq(handled)'
      BY <2>2 DEF IsSeq
    <3> QED BY <1>0, <1>3, <2>5, <3>2, <3>3 DEF RpcInv, TypeInv
  <2>8. PcInv' /\ AskedInv' /\ SoloInv'
    BY <1>0 DEF RpcInv, PcInv, AskedInv, SoloInv, OneCaller, At, IsCall
  <2>9. \A x : IsHandled(x)' <=> IsHandled(x) \/ x = id
    <3>1. \A i \in 1 .. Len(handled') : i \in 1 .. Len(handled) \/ i = Len(handled) + 1
      BY <2>2
    <3>2. \A i \in 1 .. Len(handled) : i \in 1 .. Len(handled')
      BY <2>2
    <3>3. Len(handled) + 1 \in 1 .. Len(handled')
      BY <2>2
    <3> QED BY <2>1, <2>2, <3>1, <3>2, <3>3 DEF IsHandled
  <2>10. id \in 1 .. Cardinality(asked) /\ ~IsHandled(id)
    BY <2>3 DEF RpcInv, OnceInv
  <2>11. OnceInv'
    <3>2. ASSUME NEW l \in Fd, NEW j \in Nat, Opens(l, j)'
          PROVE  /\ toServer'[l][j].id \in 1 .. Cardinality(asked)
                 /\ ~IsHandled(toServer'[l][j].id)
                 /\ toServer'[l][j].id # id
      <4> DEFINE x == IF l = k THEN n + j ELSE j
      <4>0. j \in 1 .. Len(toServer'[l])
        BY <3>2 DEF Opens
      <4>1. x \in Nat /\ Opens(l, x) /\ toServer'[l][j] = toServer[l][x]
        BY <3>2, <1>3
      <4>2. ~(l = k /\ x = 1)
        BY <4>0, <1>5
      <4>3. toServer[l][x].id # id
        BY <4>1, <4>2, <2>3 DEF RpcInv, OnceInv
      <4> QED BY <4>1, <4>3 DEF RpcInv, OnceInv
    <3>3. ASSUME NEW l \in Fd, NEW m \in Fd, NEW i \in Nat, NEW j \in Nat,
                 Opens(l, i)', Opens(m, j)', toServer'[l][i].id = toServer'[m][j].id
          PROVE  l = m /\ i = j
      <4> DEFINE x == IF l = k THEN n + i ELSE i
                 y == IF m = k THEN n + j ELSE j
      <4>1. /\ x \in Nat /\ Opens(l, x) /\ toServer'[l][i] = toServer[l][x]
            /\ y \in Nat /\ Opens(m, y) /\ toServer'[m][j] = toServer[m][y]
        BY <3>3, <1>3
      <4> HIDE DEF x, y
      <4>2. toServer[l][x].id = toServer[m][y].id
        BY <4>1, <3>3
      <4>3. l = m /\ x = y
        BY <4>1, <4>2 DEF RpcInv, OnceInv
      <4> USE DEF x, y
      <4> QED BY <4>3, <1>5
    <3>4. ASSUME NEW u \in Thread, Unsent(u)
          PROVE  /\ ~IsHandled(call[u].id) /\ call[u].id # id
                 /\ \A l \in Fd : \A j \in Nat : Opens(l, j)' => toServer'[l][j].id # call[u].id
      BY <3>4, <1>3, <2>3 DEF RpcInv, OnceInv
    <3>5. \A u \in Thread : Unsent(u)' => Unsent(u)
      BY <1>0 DEF Unsent
    <3>6. (\A u \in Thread : Unsent(u) =>
             /\ ~IsHandled(call[u].id)
             /\ \A l \in Fd : \A j \in Nat : Opens(l, j) => toServer[l][j].id # call[u].id)'
      BY <1>0, <2>9, <3>4, <3>5
    <3>7. AtMostOnce'
      <4> SUFFICES ASSUME NEW i \in 1 .. Len(handled'), NEW j \in 1 .. Len(handled'),
                          handled'[i].id = handled'[j].id
                   PROVE  i = j
        BY DEF AtMostOnce
      <4>1. \A x \in 1 .. Len(handled') : x \in 1 .. Len(handled) \/ x = Len(handled) + 1
        BY <2>2
      <4>2. \A x \in 1 .. Len(handled) : handled'[x].id # id
        BY <2>2, <2>10 DEF IsHandled
      <4>3. CASE i \in 1 .. Len(handled) /\ j \in 1 .. Len(handled)
        BY <2>2, <4>3 DEF RpcInv, OnceInv, AtMostOnce
      <4>4. CASE ~(i \in 1 .. Len(handled) /\ j \in 1 .. Len(handled))
        BY <4>1, <4>2, <4>4, <2>1, <2>2
      <4> QED BY <4>3, <4>4
    <3>8. \A i \in 1 .. Len(handled') : handled'[i].id \in 1 .. Cardinality(asked)
      <4>1. \A x \in 1 .. Len(handled') : x \in 1 .. Len(handled) \/ x = Len(handled) + 1
        BY <2>2
      <4> QED BY <4>1, <2>1, <2>2, <2>10 DEF RpcInv, OnceInv
    <3>9. (\A l \in Fd : \A j \in Nat : Opens(l, j) =>
             /\ toServer[l][j].id \in 1 .. Cardinality(asked)
             /\ ~IsHandled(toServer[l][j].id))'
      BY <1>0, <2>9, <3>2
    <3> QED BY <1>0, <3>3, <3>6, <3>7, <3>8, <3>9 DEF OnceInv
  <2>12. WayInv'
    <3> SUFFICES ASSUME ~shared', dropped' = {} PROVE WayInv'
      BY DEF WayInv
    <3>0. ~shared /\ dropped = {} /\ Ids(taken) \subseteq {id}
      BY <1>0, <1>7
    <3>1. ASSUME NEW l \in Fd, NEW x, OnItsWay(l, x)
          PROVE  OnItsWay(l, x)'
      <4>1. CASE conn[l].state = "closed"
        BY <4>1, <1>0 DEF OnItsWay
      <4>2. CASE toClient[l] # << >>
        <5>1. CASE l = k
          <6>1. Len(toClient[k]) # 0
            <7>1. IsSeq(toClient[k])
              BY DEF RpcInv, TypeInv
            <7> QED BY <7>1, <4>2, <5>1 DEF IsSeq
          <6>2. Len(toClient'[k]) # 0
            BY <6>1, <2>4, <2>5, <2>6
          <6>3. toClient'[k] # << >>
            BY <6>2
          <6> QED BY <6>3, <5>1 DEF OnItsWay
        <5>2. CASE l # k
          BY <4>2, <5>2, <2>5 DEF OnItsWay
        <5> QED BY <5>1, <5>2
      <4>3. CASE \E i \in 1 .. Len(handled) :
                   handled[i].id = x /\ ReplyOut(handled[i].method, handled[i].reply) = << >>
        <5>1. \A i \in 1 .. Len(handled) : i \in 1 .. Len(handled')
          BY <2>2
        <5> QED BY <4>3, <5>1, <2>2 DEF OnItsWay
      <4>4. CASE toServer[l] # << >> /\ Last(toServer[l]).id = x
        <5>1. CASE l # k
          <6>1. toServer'[l] = toServer[l]
            BY <1>1, <5>1 DEF RpcInv, TypeInv
          <6> QED BY <6>1, <4>4 DEF OnItsWay
        <5>2. CASE l = k /\ n # Len(s)
          BY <1>3, <4>4, <5>2 DEF OnItsWay
        <5>3. CASE l = k /\ n = Len(s)
          <6>1. n \in 1 .. Len(taken) /\ taken[n] = s[n]
            BY <1>4, <1>5 DEF taken
          <6>2. taken[n].id \in Ids(taken)
            BY <6>1 DEF Ids
          <6>3. x = id
            BY <3>0, <4>4, <5>3, <6>1, <6>2 DEF Last
          <6>4. CASE out = << >>
            <7>1. Len(handled) + 1 \in 1 .. Len(handled')
              BY <2>2
            <7> QED BY <6>3, <6>4, <7>1, <2>1, <2>2 DEF OnItsWay, out
          <6>5. CASE out # << >>
            <7>1. Len(out) # 0
              BY <2>4, <6>5 DEF IsSeq
            <7>2. Len(toClient'[k]) # 0
              BY <7>1, <2>4, <2>5, <2>6
            <7>3. toClient'[k] # << >>
              BY <7>2
            <7> QED BY <7>3, <5>3 DEF OnItsWay
          <6> QED BY <6>4, <6>5
        <5> QED BY <5>1, <5>2, <5>3
      <4> QED BY <3>1, <4>1, <4>2, <4>3, <4>4 DEF OnItsWay
    <3>2. ASSUME NEW t \in Thread
          PROVE  /\ At(t, "recv") => sockfd_ \in Fd /\ OnItsWay(sockfd_, call[t].id)'
                 /\ At(t, "wait") => OnItsWay(call[t].fd, call[t].id)'
      <4>1. /\ At(t, "recv") => sockfd_ \in Fd /\ OnItsWay(sockfd_, call[t].id)
            /\ At(t, "wait") => OnItsWay(call[t].fd, call[t].id) /\ call[t].fd \in Fd
        BY <3>0 DEF RpcInv, WayInv, PcInv
      <4>2. At(t, "recv") => OnItsWay(sockfd_, call[t].id)'
        <5> HAVE At(t, "recv")
        <5> DEFINE l == sockfd_
                   x == call[t].id
        <5>1. l \in Fd /\ OnItsWay(l, x) /\ sockfd_' = l /\ call'[t].id = x
          BY <4>1, <1>0
        <5> HIDE DEF l, x
        <5>2. \/ conn'[l].state = "closed"
              \/ toServer'[l] # << >> /\ Last(toServer'[l]).id = x
              \/ toClient'[l] # << >>
              \/ \E i \in 1 .. Len(handled') :
                   handled'[i].id = x /\ ReplyOut(handled'[i].method, handled'[i].reply) = << >>
          BY <5>1, <3>1 DEF OnItsWay
        <5> QED BY <5>1, <5>2 DEF OnItsWay
      <4>3. At(t, "wait") => OnItsWay(call[t].fd, call[t].id)'
        <5> HAVE At(t, "wait")
        <5> DEFINE l == call[t].fd
                   x == call[t].id
        <5>1. l \in Fd /\ OnItsWay(l, x) /\ call'[t].fd = l /\ call'[t].id = x
          BY <4>1, <1>0
        <5> HIDE DEF l, x
        <5>2. \/ conn'[l].state = "closed"
              \/ toServer'[l] # << >> /\ Last(toServer'[l]).id = x
              \/ toClient'[l] # << >>
              \/ \E i \in 1 .. Len(handled') :
                   handled'[i].id = x /\ ReplyOut(handled'[i].method, handled'[i].reply) = << >>
          BY <5>1, <3>1 DEF OnItsWay
        <5> QED BY <5>1, <5>2 DEF OnItsWay
      <4> QED BY <4>1, <4>2, <4>3
    <3> QED BY <3>2, <1>0 DEF WayInv, At
  <2> QED BY <2>7, <2>8, <2>11, <2>12 DEF RpcInv
<1> QED BY <1>1, <1>6, <1>7

LEMMA BreakStep ==
    ASSUME RpcInv, NEW k \in Fd, Break(k)
    PROVE  RpcInv'
<1>0. UNCHANGED <<sockfd_, call, asked, handled, dropped, shared>>
  BY DEF Break
<1>1. /\ conn' = [conn EXCEPT ![k].state = "closed"]
      /\ toServer' = [toServer EXCEPT ![k] = << >>]
      /\ toClient' = toClient \/ toClient' = [toClient EXCEPT ![k] = << >>]
  BY DEF Break
<1>2. IsSeq(<< >>)
  BY DEF IsSeq
<1>3. TypeInv'
  <2>1. \A l \in Fd : IsSeq(toServer'[l]) /\ IsSeq(toClient'[l])
    BY <1>1, <1>2 DEF RpcInv, TypeInv
  <2>2. \A l \in Fd : IsSeq(toServer[l])' /\ IsSeq(toClient[l])'
    BY <2>1 DEF IsSeq
  <2>3. conn' \in [Fd -> [state : {"free", "new", "open", "closed"},
                          mine : BOOLEAN, cut : BOOLEAN]]
    BY <1>1 DEF RpcInv, TypeInv
  <2>4. toServer' = [l \in Fd |-> toServer'[l]] /\ toClient' = [l \in Fd |-> toClient'[l]]
    BY <1>1 DEF RpcInv, TypeInv
  <2>5. IsSeq(handled)'
    BY <1>0 DEF IsSeq, RpcInv, TypeInv
  <2> QED BY <1>0, <2>2, <2>3, <2>4, <2>5 DEF RpcInv, TypeInv
<1>4. PcInv' /\ AskedInv'
  BY <1>0 DEF RpcInv, PcInv, AskedInv, At, IsCall
<1>5. SoloInv'
  <2>1. \A l \in Fd : conn'[l].mine = conn[l].mine
    BY <1>1 DEF RpcInv, TypeInv
  <2> QED BY <1>0, <2>1 DEF RpcInv, SoloInv, OneCaller, At
<1>6. OnceInv'
  <2>1. \A l \in Fd : \A j \in Nat : Opens(l, j)' =>
          Opens(l, j) /\ toServer'[l][j] = toServer[l][j]
    <3>1. toServer'[k] = << >> /\ \A l \in Fd \ {k} : toServer'[l] = toServer[l]
      BY <1>1 DEF RpcInv, TypeInv
    <3>2. \A j \in Nat : ~Opens(k, j)'
      BY <3>1 DEF Opens
    <3> QED BY <3>1, <3>2 DEF Opens
  <2>2. \A x : IsHandled(x)' <=> IsHandled(x)
    BY <1>0 DEF IsHandled
  <2>3. (\A l, m \in Fd : \A i, j \in Nat :
           /\ Opens(l, i) /\ Opens(m, j)
           /\ toServer[l][i].id = toServer[m][j].id
           => l = m /\ i = j)'
    BY <2>1 DEF RpcInv, OnceInv
  <2>4. (\A l \in Fd : \A j \in Nat : Opens(l, j) =>
           /\ toServer[l][j].id \in 1 .. Cardinality(asked)
           /\ ~IsHandled(toServer[l][j].id))'
    BY <1>0, <2>1, <2>2 DEF RpcInv, OnceInv
  <2>5. (\A u \in Thread : Unsent(u) =>
           /\ ~IsHandled(call[u].id)
           /\ \A l \in Fd : \A j \in Nat : Opens(l, j) => toServer[l][j].id # call[u].id)'
    <3>1. \A u \in Thread : Unsent(u)' => Unsent(u)
      BY <1>0 DEF Unsent
    <3> QED BY <1>0, <2>1, <2>2, <3>1 DEF RpcInv, OnceInv
  <2>6. AtMostOnce' /\ (\A i \in 1 .. Len(handled) : handled[i].id \in 1 .. Cardinality(asked))'
    BY <1>0 DEF RpcInv, OnceInv, AtMostOnce
  <2> QED BY <2>3, <2>4, <2>5, <2>6 DEF OnceInv
<1>7. WayInv'
  <2>1. ASSUME NEW l \in Fd, NEW x, OnItsWay(l, x)
        PROVE  \/ conn'[l].state = "closed"
               \/ toServer'[l] # << >> /\ Last(toServer'[l]).id = x
               \/ toClient'[l] # << >>
               \/ \E i \in 1 .. Len(handled') :
                    handled'[i].id = x /\ ReplyOut(handled'[i].method, handled'[i].reply) = << >>
    <3>1. CASE l = k
      BY <3>1, <1>1 DEF RpcInv, TypeInv
    <3>2. CASE l # k
      <4>1. conn'[l] = conn[l] /\ toServer'[l] = toServer[l] /\ toClient'[l] = toClient[l]
        BY <3>2, <1>1 DEF RpcInv, TypeInv
      <4> QED BY <4>1, <2>1, <1>0 DEF OnItsWay
    <3> QED BY <3>1, <3>2
  <2> SUFFICES ASSUME ~shared', dropped' = {}, NEW t \in Thread
               PROVE  /\ At(t, "recv")' => sockfd_' \in Fd /\ OnItsWay(sockfd_, call[t].id)'
                      /\ At(t, "wait")' => OnItsWay(call[t].fd, call[t].id)'
    BY DEF WayInv
  <2>2. /\ At(t, "recv") => sockfd_ \in Fd /\ OnItsWay(sockfd_, call[t].id)
        /\ At(t, "wait") => OnItsWay(call[t].fd, call[t].id) /\ call[t].fd \in Fd
    BY <1>0 DEF RpcInv, WayInv, PcInv
  <2>3. At(t, "recv")' => sockfd_' \in Fd /\ OnItsWay(sockfd_, call[t].id)'
    <3> HAVE At(t, "recv")'
    <3>1. At(t, "recv") /\ sockfd_' = sockfd_ /\ call' = call
      BY <1>0 DEF At
    <3> QED BY <2>1, <2>2, <3>1 DEF OnItsWay
  <2>4. At(t, "wait")' => OnItsWay(call[t].fd, call[t].id)'
    <3> HAVE At(t, "wait")'
    <3>1. At(t, "wait") /\ call' = call
      BY <1>0 DEF At
    <3> QED BY <2>1, <2>2, <3>1 DEF OnItsWay
  <2> QED BY <2>3, <2>4
<1> QED BY <1>3, <1>4, <1>5, <1>6, <1>7 DEF RpcInv

-----------------------------------------------------------------------------
(* The theorems                                                            *)

LEMMA InitRpcInv == Init => RpcInv
<1> SUFFICES ASSUME Init PROVE RpcInv
  OBVIOUS
<1>1. IsSeq(<< >>) /\ Len(<< >>) = 0
  BY DEF IsSeq
<1>2. TypeInv
  <2>1. sockfd_ \in Fd \cup {-1}
    BY SocketAssumption DEF Init, Fd
  <2>2. conn \in [Fd -> [state : {"free", "new", "open", "closed"},
                         mine : BOOLEAN, cut : BOOLEAN]]
    BY DEF Init
  <2>3. /\ toServer = [k \in Fd |-> toServer[k]]
        /\ toClient = [k \in Fd |-> toClient[k]]
        /\ \A k \in Fd : IsSeq(toServer[k]) /\ IsSeq(toClient[k])
    BY <1>1 DEF Init
  <2> QED BY <1>1, <2>1, <2>2, <2>3, FS_EmptySet DEF Init, TypeInv
<1>3. NoCall.pc = "idle" /\ IsCall(NoCall)
  BY DEF NoCall, IsCall
<1>4. call = [t \in Thread |-> call[t]] /\ \A t \in Thread : call[t] = NoCall
  BY DEF Init
<1>5. \A t \in Thread : call[t].pc = "idle" /\ IsCall(call[t])
  BY <1>3, <1>4
<1>6. PcInv
  BY <1>4, <1>5 DEF PcInv, At
<1>7. AskedInv
  BY <1>5 DEF Init, AskedInv, At
<1>8. OnceInv
  <2>1. \A k \in Fd : \A j \in Nat : ~Opens(k, j)
    BY <1>1 DEF Init, Opens
  <2>2. \A t \in Thread : ~Unsent(t)
    BY <1>5 DEF Unsent
  <2>3. Len(handled) = 0
    BY <1>1 DEF Init
  <2> QED BY <2>1, <2>2, <2>3 DEF OnceInv, AtMostOnce
<1>9. SoloInv
  BY <1>5 DEF Init, SoloInv, OneCaller, At
<1>10. WayInv
  BY <1>5 DEF WayInv, At
<1> QED BY <1>2, <1>6, <1>7, <1>8, <1>9, <1>10 DEF RpcInv

LEMMA StutterRpcInv ==
    ASSUME RpcInv, UNCHANGED vars
    PROVE  RpcInv'
<1>1. UNCHANGED <<sockfd_, conn, toServer, toClient, call, asked, handled, dropped, shared>>
  BY DEF vars
<1>2. TypeInv' /\ PcInv' /\ AskedInv'
  BY <1>1 DEF RpcInv, TypeInv, PcInv, AskedInv, At, IsCall, IsSeq
<1>3. OnceInv'
  <2>1. \A u \in Thread : Unsent(u)' => Unsent(u) /\ call'[u].id = call[u].id
    BY <1>1 DEF Unsent
  <2> QED BY <1>1, <2>1, OnceKept DEF RpcInv
<1>4. SoloInv' /\ WayInv'
  BY <1>1 DEF RpcInv, SoloInv, WayInv, OneCaller, OnItsWay, At
<1> QED BY <1>2, <1>3, <1>4 DEF RpcInv

LEMMA NextRpcInv == RpcInv /\ [Next]_vars => RpcInv'
<1> SUFFICES ASSUME RpcInv, [Next]_vars PROVE RpcInv'
  OBVIOUS
<1>1. ASSUME NEW t \in Thread, NEW method \in Method, NEW args \in Args[method],
             CallMethod(t, method, args)
      PROVE  RpcInv'
  BY <1>1, CallMethodStep
<1>2. ASSUME NEW t \in Thread, ThreadStep(t) PROVE RpcInv'
  <2>1. CASE Socket(t) BY <2>1, SocketStep
  <2>2. CASE SocketFails(t) BY <2>2, SocketFailsStep
  <2>3. CASE Connect(t) BY <2>3, ConnectStep
  <2>4. CASE Send(t) BY <2>4, SendStep
  <2>5. CASE SendFails(t) BY <2>5, SendFailsStep
  <2>6. CASE Recv(t) BY <2>6, RecvStep
  <2>7. CASE Receive(t) BY <2>7, ReceiveStep
  <2>8. CASE ReceiveEnd(t) BY <2>8, ReceiveEndStep
  <2>9. CASE ReceiveFails(t) BY <2>9, ReceiveFailsStep
  <2>10. CASE Close(t) BY <2>10, CloseStep
  <2>11. CASE Unset(t) BY <2>11, UnsetStep
  <2>12. CASE Return(t) BY <2>12, ReturnStep
  <2> QED BY <1>2, <2>1, <2>2, <2>3, <2>4, <2>5, <2>6, <2>7, <2>8, <2>9, <2>10,
             <2>11, <2>12 DEF ThreadStep
<1>3. ASSUME NEW k \in Fd, OnMessage(k) PROVE RpcInv'
  BY <1>3, OnMessageStep
<1>4. ASSUME NEW k \in Fd, Break(k) PROVE RpcInv'
  BY <1>4, BreakStep
<1>5. CASE UNCHANGED vars
  BY <1>5, StutterRpcInv
<1> QED BY <1>1, <1>2, <1>3, <1>4, <1>5 DEF Next

\* The invariant holds of every behaviour of the channel.
LEMMA RpcInvHolds == Spec => []RpcInv
BY InitRpcInv, NextRpcInv, PTL DEF Spec

\* The provider executes a request once at most, although CallMethod sends again
\* over a new connection when send() fails (mprpcchannel.cpp:83-93), and although
\* threads close each other's sockets.
THEOREM ExecutedAtMostOnce == Spec => []AtMostOnce
<1>1. RpcInv => AtMostOnce
  BY DEF RpcInv, OnceInv
<1> QED BY <1>1, RpcInvHolds, PTL

\* As long as its calls do not overlap, a channel never loses a descriptor: the
\* socket newConnect made is closed or in sockfd_ when CallMethod returns
\* (mprpcchannel.cpp:85, 102, 136).
THEOREM OneCallerKeepsItsSocket == Spec => []NoLeak
<1>1. RpcInv => NoLeak
  BY DEF RpcInv, SoloInv, NoLeak, At
<1> QED BY <1>1, RpcInvHolds, PTL

\* recv() without a timeout (mprpcchannel.cpp:100) does not wait for nothing: the
\* request or its answer is on the way, or the connection has ended, unless
\* OnMessage threw bytes away or the answer is an empty message.
THEOREM CallerIsAnswered == Spec => []AnswerOnItsWay
<1>1. RpcInv => AnswerOnItsWay
  <2> SUFFICES ASSUME RpcInv, ~shared, dropped = {}, NEW t \in Thread, At(t, "wait")
               PROVE  \/ conn[call[t].fd].state = "closed"
                      \/ toServer[call[t].fd] # << >>
                      \/ toClient[call[t].fd] # << >>
                      \/ \E i \in 1 .. Len(handled) :
                           /\ handled[i].id = call[t].id
                           /\ ReplyOut(handled[i].method, handled[i].reply) = << >>
    BY DEF AnswerOnItsWay
  <2> QED BY DEF RpcInv, WayInv, OnItsWay
<1> QED BY <1>1, RpcInvHolds, PTL

-----------------------------------------------------------------------------
(* Numbers                                                                 *)

\* A nonempty set of naturals has a least member.
LEMMA LeastOf ==
    ASSUME NEW S \in SUBSET Nat, S # {}
    PROVE  \E n \in S : \A m \in S : n <= m
<1>1. PICK k \in S : TRUE
  OBVIOUS
<1> DEFINE T == {0 .. n : n \in {m \in S : m <= k}}
<1>2. IsWellFoundedOn(StrictSubsetOrdering(0 .. k), FiniteSubsetsOf(0 .. k))
  BY FS_StrictSubsetOrderingWellFounded
<1>3. T \subseteq FiniteSubsetsOf(0 .. k)
  <2> SUFFICES ASSUME NEW n \in S, n <= k
               PROVE  0 .. n \in FiniteSubsetsOf(0 .. k)
    OBVIOUS
  <2>1. IsFiniteSet(0 .. n)
    BY FS_Interval
  <2> QED BY <2>1 DEF FiniteSubsetsOf
<1>4. T # {}
  OBVIOUS
<1>5. PICK x \in T : \A y \in T : ~(<<y, x>> \in StrictSubsetOrdering(0 .. k))
  <2> HIDE DEF T
  <2> QED BY <1>2, <1>3, <1>4, WFMin
<1>6. PICK n \in S : n <= k /\ x = 0 .. n
  BY <1>5
<1>7. ASSUME NEW m \in S, m < n
      PROVE  FALSE
  <2>1. 0 .. m \in T
    BY <1>6, <1>7
  <2>2. 0 .. m \subseteq 0 .. n /\ 0 .. m # 0 .. n
    BY <1>7
  <2>3. <<0 .. m, x>> \in StrictSubsetOrdering(0 .. k)
    BY <1>6, <1>7, <2>2 DEF StrictSubsetOrdering
  <2> QED BY <1>5, <2>1, <2>3
<1> QED BY <1>6, <1>7

\* And a greatest one, if it is bounded.
LEMMA GreatestOf ==
    ASSUME NEW N \in Nat, NEW S \in SUBSET (0 .. N), S # {}
    PROVE  \E n \in S : \A m \in S : m <= n
<1> DEFINE T == {k \in 0 .. N : N - k \in S}
<1>1. \A m \in S : m \in 0 .. N /\ N - m \in T
  <2> SUFFICES ASSUME NEW m \in S
               PROVE  m \in 0 .. N /\ N - m \in T
    OBVIOUS
  <2>1. m \in 0 .. N
    OBVIOUS
  <2>2. N - m \in 0 .. N /\ N - (N - m) = m
    BY <2>1
  <2> QED BY <2>1, <2>2
<1>2. T \in SUBSET Nat /\ T # {}
  <2>1. 0 .. N \subseteq Nat
    OBVIOUS
  <2>2. PICK m \in S : TRUE
    OBVIOUS
  <2> QED BY <1>1, <2>1, <2>2
<1>3. PICK k \in T : \A x \in T : k <= x
  <2> HIDE DEF T
  <2> QED BY <1>2, LeastOf
<1>4. ASSUME NEW m \in S
      PROVE  m <= N - k
  <2>1. k <= N - m /\ m \in 0 .. N /\ k \in 0 .. N
    BY <1>1, <1>3
  <2> QED BY <2>1
<1> QED BY <1>3, <1>4

LEMMA MaxOf ==
    ASSUME NEW N \in Nat, NEW S \in SUBSET (0 .. N), S # {}
    PROVE  Max(S) \in S /\ \A m \in S : m <= Max(S)
<1>1. PICK n \in S : \A m \in S : m <= n
  BY GreatestOf
<1>2. \A y \in S : y \in 0 .. N /\ n \in 0 .. N /\ n >= y
  BY <1>1
<1>3. Max(S) \in S /\ \A y \in S : Max(S) >= y
  BY <1>2 DEF Max
<1>4. \A y \in S : y \in 0 .. N /\ Max(S) \in 0 .. N
  BY <1>3
<1> QED BY <1>3, <1>4

LEMMA MinOfTwo ==
    ASSUME NEW a \in Int, NEW b \in Int
    PROVE  Min({a, b}) = IF a <= b THEN a ELSE b
<1> DEFINE c == IF a <= b THEN a ELSE b
<1>1. c \in {a, b} /\ \A y \in {a, b} : c <= y
  OBVIOUS
<1>2. \A x \in {a, b} : (\A y \in {a, b} : x <= y) => x = c
  OBVIOUS
<1> HIDE DEF c
<1>3. Min({a, b}) \in {a, b} /\ \A y \in {a, b} : Min({a, b}) <= y
  BY <1>1 DEF Min
<1> QED BY <1>2, <1>3 DEF c

\* How many numbers there are from a to b.
LEMMA Between ==
    ASSUME NEW a \in Nat, NEW n \in Nat
    PROVE  Cardinality(a + 1 .. a + n) = n
<1> DEFINE lo == a + 1
           hi == a + n
<1>1. lo \in Int /\ hi \in Int
  OBVIOUS
<1> HIDE DEF lo, hi
<1>2. Cardinality(lo .. hi) = IF lo > hi THEN 0 ELSE hi - lo + 1
  BY <1>1, FS_Interval
<1>3. (IF lo > hi THEN 0 ELSE hi - lo + 1) = n
  BY DEF lo, hi
<1> QED BY <1>2, <1>3 DEF lo, hi

-----------------------------------------------------------------------------
(* What is written is read                                                 *)

\* The field num of the bytes s is val.
Reads(num, kind, val, s) ==
    IF kind = "message"
    THEN \E base \in Nat :
            /\ Places(num, kind, s) = base + 1 .. base + Len(val)
            /\ \A n \in 1 .. Len(val) : s[base + n].val = val[n]
    ELSE IF val = Default(kind) THEN Places(num, kind, s) = {}
    ELSE /\ Places(num, kind, s) # {}
         /\ \A j \in Places(num, kind, s) : s[j].val = IF kind = "bool" THEN 1 ELSE val

IsKind(kind, val) ==
    /\ kind = "bool" => val \in BOOLEAN
    /\ kind = "message" => IsSeq(val)

LEMMA ReadsIn ==
    ASSUME NEW num, NEW kind, NEW val, NEW s, IsSeq(s), IsKind(kind, val),
           Reads(num, kind, val, s)
    PROVE  In(num, kind, s) = val
<1> DEFINE P == Places(num, kind, s)
<1>1. Len(s) \in Nat /\ P \subseteq 1 .. Len(s)
  BY DEF IsSeq, Places
<1>2. CASE kind = "message"
  <2>1. IsSeq(val) /\ Len(val) \in Nat
    BY <1>2 DEF IsKind, IsSeq
  <2>2. PICK base \in Nat : /\ P = base + 1 .. base + Len(val)
                            /\ \A n \in 1 .. Len(val) : s[base + n].val = val[n]
    BY <1>2 DEF Reads
  <2> DEFINE len == Len(val)
  <2> HIDE DEF P, len
  <2>3. Cardinality(P) = len
    BY <2>1, <2>2, Between DEF len
  <2>4. ASSUME NEW n \in 1 .. len PROVE Nth(n, P) = base + n
    <3>0. len \in Nat
      BY <2>1 DEF len
    <3>1. ASSUME NEW m \in 1 .. len
          PROVE  Cardinality({i \in P : i <= base + m}) = m
      <4>0. P = base + 1 .. base + len
        BY <2>2 DEF len
      <4>1. {i \in P : i <= base + m} = base + 1 .. base + m
        BY <3>0, <4>0
      <4>2. m \in Nat
        BY <3>0
      <4> QED BY <4>1, <4>2, Between
    <3>2. base + n \in P
      BY <2>2, <3>0 DEF len
    <3>3. ASSUME NEW j \in P, Cardinality({i \in P : i <= j}) = n
          PROVE  j = base + n
      <4>0. P = base + 1 .. base + len
        BY <2>2 DEF len
      <4>1. j - base \in 1 .. len /\ j = base + (j - base)
        BY <3>0, <4>0
      <4>2. PICK m \in 1 .. len : j = base + m
        BY <4>1
      <4>3. m = n
        BY <3>1, <3>3, <4>2
      <4> QED BY <4>2, <4>3
    <3>4. Cardinality({i \in P : i <= base + n}) = n
      BY <3>1
    <3> QED BY <3>2, <3>3, <3>4 DEF Nth
  <2>5. In(num, kind, s) = [n \in 1 .. len |-> s[Nth(n, P)].val]
    BY <1>2, <2>3 DEF In, P
  <2>6. [n \in 1 .. len |-> s[Nth(n, P)].val] = [n \in 1 .. len |-> val[n]]
    BY <2>2, <2>4 DEF len
  <2>7. val = [n \in 1 .. len |-> val[n]]
    BY <2>1 DEF IsSeq, len
  <2> QED BY <2>5, <2>6, <2>7
<1>3. CASE kind # "message" /\ val = Default(kind)
  BY <1>3 DEF Reads, In
<1>4. CASE kind # "message" /\ val # Default(kind)
  <2>1. P # {} /\ \A j \in P : s[j].val = IF kind = "bool" THEN 1 ELSE val
    BY <1>4 DEF Reads
  <2>2. Max(P) \in P
    <3> HIDE DEF P
    <3>1. P \in SUBSET (0 .. Len(s))
      BY <1>1
    <3> QED BY <1>1, <2>1, <3>1, MaxOf
  <2>3. s[Max(P)].val = IF kind = "bool" THEN 1 ELSE val
    BY <2>1, <2>2
  <2>4. In(num, kind, s) = IF kind = "bool" THEN s[Max(P)].val # 0 ELSE s[Max(P)].val
    BY <1>4, <2>1 DEF In
  <2>5. CASE kind = "bool"
    <3>1. val = TRUE
      BY <1>4, <2>5 DEF IsKind, Default
    <3>2. s[Max(P)].val # 0
      BY <2>3, <2>5
    <3>3. In(num, kind, s) = (s[Max(P)].val # 0)
      BY <2>4, <2>5
    <3> DEFINE v == s[Max(P)].val
    <3> HIDE DEF v
    <3>4. v # 0
      BY <3>2 DEF v
    <3>5. (v # 0) = TRUE
      BY <3>4
    <3>6. In(num, kind, s) = (v # 0)
      BY <3>3 DEF v
    <3> QED BY <3>1, <3>5, <3>6, Zenon
  <2>6. CASE kind # "bool"
    BY <2>3, <2>4, <2>6
  <2> QED BY <2>5, <2>6
<1> QED BY <1>2, <1>3, <1>4

LEMMA ReadsLike ==
    ASSUME NEW num, NEW kind, NEW val, NEW s, NEW u, Reads(num, kind, val, s), Len(val) \in Nat \/ kind # "message",
           Places(num, kind, u) = Places(num, kind, s),
           \A j \in Places(num, kind, s) : u[j].val = s[j].val
    PROVE  Reads(num, kind, val, u)
<1>1. CASE kind = "message"
  <2>1. PICK base \in Nat : /\ Places(num, kind, s) = base + 1 .. base + Len(val)
                            /\ \A n \in 1 .. Len(val) : s[base + n].val = val[n]
    BY <1>1 DEF Reads
  <2>2. \A n \in 1 .. Len(val) : base + n \in base + 1 .. base + Len(val)
    BY <1>1
  <2>3. \A n \in 1 .. Len(val) : u[base + n].val = val[n]
    BY <2>1, <2>2
  <2> QED BY <1>1, <2>1, <2>3 DEF Reads
<1>2. CASE kind # "message"
  BY <1>2 DEF Reads
<1> QED BY <1>1, <1>2

\* The same behind d other units.
LEMMA ReadsBehind ==
    ASSUME NEW num, NEW kind, NEW val, NEW s, NEW u, NEW d \in Nat,
           Reads(num, kind, val, s), IsKind(kind, val),
           Places(num, kind, s) \subseteq Nat,
           Places(num, kind, u) = {d + j : j \in Places(num, kind, s)},
           \A j \in Places(num, kind, s) : u[d + j].val = s[j].val
    PROVE  Reads(num, kind, val, u)
<1> DEFINE P == Places(num, kind, s)
<1>1. CASE kind = "message"
  <2>1. PICK base \in Nat : /\ P = base + 1 .. base + Len(val)
                            /\ \A n \in 1 .. Len(val) : s[base + n].val = val[n]
    BY <1>1 DEF Reads
  <2>2. Len(val) \in Nat
    BY <1>1 DEF IsKind, IsSeq
  <2> DEFINE len == Len(val)
             up == base + d
  <2>3. up \in Nat /\ len \in Nat
    BY <2>2
  <2>4. {d + j : j \in base + 1 .. base + len} = up + 1 .. up + len
    <3>1. ASSUME NEW j \in base + 1 .. base + len
          PROVE  d + j \in up + 1 .. up + len
      BY <2>2
    <3>2. ASSUME NEW i \in up + 1 .. up + len
          PROVE  i - d \in base + 1 .. base + len /\ i = d + (i - d)
      BY <2>2
    <3> QED BY <3>1, <3>2
  <2>5. ASSUME NEW n \in 1 .. len
        PROVE  u[up + n].val = val[n]
    <3>1. base + n \in base + 1 .. base + len /\ d + (base + n) = up + n
      BY <2>2
    <3>2. u[d + (base + n)].val = s[base + n].val
      BY <2>1, <3>1
    <3> QED BY <2>1, <3>1, <3>2
  <2>6. Places(num, kind, u) = up + 1 .. up + len
    BY <2>1, <2>4
  <2> HIDE DEF up
  <2> QED BY <1>1, <2>3, <2>5, <2>6 DEF Reads
<1>2. CASE kind # "message" /\ val = Default(kind)
  BY <1>2 DEF Reads
<1>3. CASE kind # "message" /\ val # Default(kind)
  <2>1. P # {} /\ \A j \in P : s[j].val = IF kind = "bool" THEN 1 ELSE val
    BY <1>3 DEF Reads
  <2> HIDE DEF P
  <2>2. Places(num, kind, u) = {d + j : j \in P} /\ \A j \in P : u[d + j].val = s[j].val
    BY DEF P
  <2>3. Places(num, kind, u) # {}
    BY <2>1, <2>2
  <2>4. ASSUME NEW i \in Places(num, kind, u)
        PROVE  u[i].val = IF kind = "bool" THEN 1 ELSE val
    <3>1. PICK j \in P : i = d + j
      BY <2>2
    <3>2. u[d + j].val = s[j].val
      BY <2>2
    <3> QED BY <2>1, <3>1, <3>2
  <2> QED BY <1>3, <2>3, <2>4 DEF Reads
<1> QED BY <1>1, <1>2, <1>3

\* One field as the only one.
Alone(num, kind, val, s) ==
    /\ IsSeq(s)
    /\ \A j \in 1 .. Len(s) : s[j].num = num
    /\ Len(s) > 0 => s[1].part = 1
    /\ Reads(num, kind, val, s)

LEMMA OutReads ==
    ASSUME NEW num, NEW kind, NEW val, IsKind(kind, val)
    PROVE  Alone(num, kind, val, Out(num, kind, val))
<1>0. Default("message") = << >>
  BY DEF Default
<1>1. CASE val = Default(kind)
  <2>1. Out(num, kind, val) = << >>
    BY <1>1 DEF Out
  <2>2. IsSeq(<< >>) /\ Len(<< >>) = 0
    BY DEF IsSeq
  <2>3. Places(num, kind, << >>) = {}
    BY DEF Places
  <2>4. CASE kind = "message"
    <3>1. Len(val) = 0
      BY <1>0, <1>1, <2>4
    <3>2. 0 + 1 .. 0 + Len(val) = {} /\ 1 .. Len(val) = {}
      BY <3>1
    <3>3. Reads(num, kind, val, << >>)
      BY <2>3, <2>4, <3>2 DEF Reads
    <3> QED BY <2>1, <2>2, <3>3 DEF Alone
  <2>5. CASE kind # "message"
    BY <1>1, <2>1, <2>2, <2>3, <2>5 DEF Alone, Reads
  <2> QED BY <2>4, <2>5
<1>2. CASE val # Default(kind) /\ kind = "message"
  <2> DEFINE s == [j \in 1 .. Len(val) |-> Unit(num, "len", val[j], 1, 1)]
             len == Len(val)
  <2>1. Out(num, kind, val) = s
    BY <1>2 DEF Out
  <2>2. len \in Nat
    BY <1>2 DEF IsKind, IsSeq
  <2>3. IsSeq(s) /\ Len(s) = len
    <3>1. s = [j \in 1 .. len |-> s[j]]
      OBVIOUS
    <3> HIDE DEF s, len
    <3> QED BY <3>1, <2>2, Built
  <2>4. \A j \in 1 .. len : s[j].num = num /\ s[j].wt = "len" /\ s[j].val = val[j]
                            /\ s[j].part = 1
    BY DEF Unit
  <2> HIDE DEF s, len
  <2>5. Places(num, kind, s) = 1 .. len
    BY <1>2, <2>3, <2>4 DEF Places, WireType
  <2>6. 1 .. len = 0 + 1 .. 0 + len /\ \A n \in 1 .. len : s[0 + n].val = val[n]
    BY <2>2, <2>4
  <2>7. Reads(num, kind, val, s)
    BY <1>2, <2>5, <2>6 DEF Reads, len
  <2>8. len > 0 => 1 \in 1 .. len
    BY <2>2
  <2> QED BY <2>1, <2>3, <2>4, <2>7, <2>8 DEF Alone
<1>3. CASE val # Default(kind) /\ kind = "bytes"
  <2> DEFINE n == IF val \in Long THEN 3 ELSE 1
             s == [j \in 1 .. n |-> Unit(num, "len", val, j, n)]
  <2>1. Out(num, kind, val) = s
    BY <1>3 DEF Out
  <2>2. n \in Nat /\ n > 0
    OBVIOUS
  <2> HIDE DEF n
  <2>3. IsSeq(s) /\ Len(s) = n
    <3>1. s = [j \in 1 .. n |-> s[j]]
      OBVIOUS
    <3> HIDE DEF s
    <3> QED BY <3>1, <2>2, Built
  <2>4. \A j \in 1 .. n : s[j].num = num /\ s[j].wt = "len" /\ s[j].val = val
                          /\ s[j].part = j
    BY DEF Unit
  <2> HIDE DEF s
  <2>5. Places(num, kind, s) = 1 .. n /\ 1 \in 1 .. n
    BY <1>3, <2>2, <2>3, <2>4 DEF Places, WireType
  <2>6. Reads(num, kind, val, s)
    BY <1>3, <2>4, <2>5 DEF Reads
  <2> QED BY <2>1, <2>3, <2>4, <2>5, <2>6 DEF Alone
<1>4. CASE val # Default(kind) /\ kind \notin {"message", "bytes"}
  <2> DEFINE x == IF kind = "bool" THEN 1 ELSE val
             s == <<Unit(num, "varint", x, 1, 1)>>
  <2>1. Out(num, kind, val) = s
    BY <1>4 DEF Out
  <2>2. IsSeq(s) /\ Len(s) = 1 /\ s[1] = Unit(num, "varint", x, 1, 1)
    <3> HIDE DEF x
    <3>1. s \in Seq({Unit(num, "varint", x, 1, 1)})
      OBVIOUS
    <3> QED BY <3>1, SeqIs
  <2>3. s[1].num = num /\ s[1].wt = "varint" /\ s[1].val = x /\ s[1].part = 1
    BY <2>2 DEF Unit
  <2> HIDE DEF s
  <2>4. 1 .. Len(s) = {1}
    BY <2>2
  <2>5. Places(num, kind, s) = {1}
    BY <1>4, <2>3, <2>4 DEF Places, WireType
  <2>6. Reads(num, kind, val, s)
    BY <1>4, <2>3, <2>5 DEF Reads
  <2> QED BY <2>1, <2>2, <2>3, <2>4, <2>6 DEF Alone
<1> QED BY <1>1, <1>2, <1>3, <1>4

\* The bytes s hold the first n fields of the message m and nothing else.
Carries(fields, m, n, s) ==
    /\ IsSeq(s)
    /\ \A j \in 1 .. Len(s) : s[j].num \in 1 .. n
    /\ Len(s) > 0 => s[1].part = 1
    /\ \A i \in 1 .. n : Reads(i, fields[i].kind, m[fields[i].name], s)

\* A list of fields as the modules have it.
IsList(fields) ==
    /\ Len(fields) \in Nat /\ DOMAIN fields = 1 .. Len(fields)
    /\ \A i, j \in DOMAIN fields : fields[i].name = fields[j].name => i = j

LEMMA KindOf ==
    ASSUME NEW fields, IsList(fields), NEW m, IsMessage(fields, m), NEW i \in 1 .. Len(fields)
    PROVE  IsKind(fields[i].kind, m[fields[i].name])
<1>1. fields[i] \in Range(fields)
  BY DEF IsList, Range
<1> QED BY <1>1 DEF IsMessage, IsKind, IsSeq

LEMMA CarriesFirst ==
    ASSUME NEW fields, IsList(fields), NEW m, IsMessage(fields, m), 1 \in 1 .. Len(fields)
    PROVE  Carries(fields, m, 1, Out(1, fields[1].kind, m[fields[1].name]))
<1> DEFINE s == Out(1, fields[1].kind, m[fields[1].name])
<1>1. Alone(1, fields[1].kind, m[fields[1].name], s)
  BY KindOf, OutReads
<1> HIDE DEF s
<1>2. 1 .. 1 = {1}
  OBVIOUS
<1>3. Carries(fields, m, 1, s)
  BY <1>1, <1>2 DEF Alone, Carries
<1> QED BY <1>3 DEF s

LEMMA CarriesNext ==
    ASSUME NEW fields, IsList(fields), NEW m, IsMessage(fields, m),
           NEW n \in Nat, n + 1 \in 1 .. Len(fields), NEW s, Carries(fields, m, n, s)
    PROVE  Carries(fields, m, n + 1,
                   s \o Out(n + 1, fields[n + 1].kind, m[fields[n + 1].name]))
<1> DEFINE num == n + 1
           kind == fields[num].kind
           val == m[fields[num].name]
           t == Out(num, kind, val)
           u == s \o t
           d == Len(s)
<1>1. Alone(num, kind, val, t) /\ IsKind(kind, val)
  BY KindOf, OutReads
<1> HIDE DEF t, kind, val
<1>2. /\ IsSeq(u) /\ d \in Nat /\ Len(t) \in Nat /\ Len(u) = d + Len(t)
      /\ \A j \in 1 .. d : u[j] = s[j]
      /\ \A j \in 1 .. Len(t) : u[d + j] = t[j]
      /\ \A j \in 1 .. Len(u) : u[j] = IF j <= d THEN s[j] ELSE t[j - d]
  BY <1>1, Joined DEF Alone, Carries
<1> HIDE DEF u, d, num
<1>3. /\ \A j \in 1 .. d : s[j].num \in 1 .. n
      /\ \A j \in 1 .. Len(t) : t[j].num = num
      /\ num \in Nat /\ num \notin 1 .. n /\ 1 .. num = 1 .. n \cup {num}
  BY <1>1 DEF Alone, Carries, d, num
<1>4. ASSUME NEW j \in 1 .. Len(u)
      PROVE  \/ j \in 1 .. d /\ u[j] = s[j]
             \/ j - d \in 1 .. Len(t) /\ u[j] = t[j - d] /\ j = d + (j - d)
  BY <1>2
<1>5. \A j \in 1 .. Len(u) : u[j].num \in 1 .. num
  BY <1>3, <1>4
<1>6. Len(u) > 0 => u[1].part = 1
  <2>1. CASE d > 0
    <3>1. 1 \in 1 .. d
      BY <1>2, <2>1
    <3> QED BY <1>2, <2>1, <3>1 DEF Carries, d
  <2>2. CASE ~(d > 0)
    <3>1. d = 0
      BY <1>2, <2>2
    <3>2. Len(u) > 0 => 1 \in 1 .. Len(t) /\ d + 1 = 1
      BY <1>2, <3>1
    <3>3. Len(t) > 0 => t[1].part = 1
      BY <1>1 DEF Alone
    <3> QED BY <1>2, <3>2, <3>3
  <2> QED BY <2>1, <2>2
<1>7. ASSUME NEW i \in 1 .. n
      PROVE  Reads(i, fields[i].kind, m[fields[i].name], u)
  <2> DEFINE k == fields[i].kind
             v == m[fields[i].name]
  <2>1. Reads(i, k, v, s)
    BY DEF Carries
  <2>2. i \in 1 .. Len(fields)
    BY DEF num, IsList
  <2>3. Len(v) \in Nat \/ k # "message"
    BY <2>2, KindOf DEF IsKind, IsSeq
  <2> HIDE DEF k, v
  <2>4. Places(i, k, u) = Places(i, k, s)
    <3>1. ASSUME NEW j \in Places(i, k, u)
          PROVE  j \in Places(i, k, s)
      <4>1. j \in 1 .. Len(u) /\ u[j].num = i /\ u[j].wt = WireType(k)
        BY DEF Places
      <4>2. j \in 1 .. d /\ u[j] = s[j]
        BY <4>1, <1>3, <1>4
      <4> QED BY <4>1, <4>2 DEF Places, d
    <3>2. ASSUME NEW j \in Places(i, k, s)
          PROVE  j \in Places(i, k, u)
      <4>1. j \in 1 .. d /\ s[j].num = i /\ s[j].wt = WireType(k)
        BY DEF Places, d
      <4>2. u[j] = s[j] /\ j \in 1 .. Len(u)
        BY <4>1, <1>2
      <4> QED BY <4>1, <4>2 DEF Places
    <3> QED BY <3>1, <3>2
  <2>5. \A j \in Places(i, k, s) : u[j].val = s[j].val
    BY <1>2 DEF Places, d
  <2>6. Reads(i, k, v, u)
    BY <2>1, <2>3, <2>4, <2>5, ReadsLike
  <2> QED BY <2>6 DEF k, v
<1>8. Reads(num, kind, val, u)
  <2>1. Places(num, kind, t) \subseteq Nat
    BY <1>2 DEF Places
  <2>2. Places(num, kind, u) = {d + j : j \in Places(num, kind, t)}
    <3>1. ASSUME NEW i \in Places(num, kind, u)
          PROVE  i - d \in Places(num, kind, t) /\ i = d + (i - d)
      <4>1. i \in 1 .. Len(u) /\ u[i].num = num /\ u[i].wt = WireType(kind)
        BY DEF Places
      <4>2. i - d \in 1 .. Len(t) /\ u[i] = t[i - d] /\ i = d + (i - d)
        BY <4>1, <1>3, <1>4
      <4> QED BY <4>1, <4>2 DEF Places
    <3>2. ASSUME NEW j \in Places(num, kind, t)
          PROVE  d + j \in Places(num, kind, u)
      <4>1. j \in 1 .. Len(t) /\ t[j].num = num /\ t[j].wt = WireType(kind)
        BY DEF Places
      <4>2. u[d + j] = t[j] /\ d + j \in 1 .. Len(u)
        BY <4>1, <1>2
      <4> QED BY <4>1, <4>2 DEF Places
    <3> QED BY <3>1, <3>2
  <2>3. \A j \in Places(num, kind, t) : u[d + j].val = t[j].val
    BY <1>2 DEF Places
  <2>4. Reads(num, kind, val, t)
    BY <1>1 DEF Alone
  <2> QED BY <1>1, <1>2, <2>1, <2>2, <2>3, <2>4, ReadsBehind
<1>9. \A i \in 1 .. num : Reads(i, fields[i].kind, m[fields[i].name], u)
  BY <1>3, <1>7, <1>8 DEF kind, val
<1>10. Carries(fields, m, num, u)
  BY <1>2, <1>5, <1>6, <1>9 DEF Carries
<1> QED BY <1>10 DEF num, u, t, kind, val

\* The number of a call on the units changes nothing.
LEMMA CarriesTagged ==
    ASSUME NEW fields, IsList(fields), NEW m, IsMessage(fields, m),
           NEW s, Carries(fields, m, Len(fields), s), NEW id
    PROVE  Carries(fields, m, Len(fields), Tag(id, s))
<1> DEFINE u == Tag(id, s)
<1>1. IsSeq(s) /\ Len(s) \in Nat
  BY DEF Carries, IsSeq
<1>2. IsSeq(u) /\ Len(u) = Len(s)
  BY <1>1, TagShape
<1>3. \A j \in 1 .. Len(s) : /\ u[j].num = s[j].num /\ u[j].wt = s[j].wt
                             /\ u[j].val = s[j].val /\ u[j].part = s[j].part
  BY DEF Tag, Tagged
<1> HIDE DEF u
<1>4. ASSUME NEW i \in 1 .. Len(fields)
      PROVE  Reads(i, fields[i].kind, m[fields[i].name], u)
  <2> DEFINE k == fields[i].kind
             v == m[fields[i].name]
  <2>1. Reads(i, k, v, s)
    BY DEF Carries
  <2>2. Len(v) \in Nat \/ k # "message"
    BY KindOf DEF IsKind, IsSeq
  <2> HIDE DEF k, v
  <2>3. Places(i, k, u) = Places(i, k, s)
    BY <1>2, <1>3 DEF Places
  <2>4. \A j \in Places(i, k, s) : u[j].val = s[j].val
    BY <1>3 DEF Places
  <2>5. Reads(i, k, v, u)
    BY <2>1, <2>2, <2>3, <2>4, ReadsLike
  <2> QED BY <2>5 DEF k, v
<1>5. Len(s) > 0 => u[1].part = 1
  <2>1. Len(s) > 0 => 1 \in 1 .. Len(s)
    BY <1>1
  <2> QED BY <1>3, <2>1 DEF Carries
<1>6. \A j \in 1 .. Len(u) : u[j].num \in 1 .. Len(fields)
  BY <1>2, <1>3 DEF Carries
<1>7. Carries(fields, m, Len(fields), u)
  BY <1>2, <1>4, <1>5, <1>6 DEF Carries
<1> QED BY <1>7 DEF u

\* No bytes are the message of the default values (Clear), others what they carry.
LEMMA ParsedIs ==
    ASSUME NEW fields, IsList(fields), NEW m, IsMessage(fields, m),
           NEW s, Carries(fields, m, Len(fields), s)
    PROVE  Parsed(fields, s) = m
<1> DEFINE names == {f.name : f \in Range(fields)}
           numOf(name) == CHOOSE k \in DOMAIN fields : fields[k].name = name
<1>1. ASSUME NEW name \in names
      PROVE  /\ numOf(name) \in 1 .. Len(fields)
             /\ fields[numOf(name)].name = name
  <2>1. \E k \in DOMAIN fields : fields[k].name = name
    BY DEF Range
  <2>2. numOf(name) \in DOMAIN fields /\ fields[numOf(name)].name = name
    BY <2>1
  <2> QED BY <2>2 DEF IsList
<1>2. ASSUME NEW i \in 1 .. Len(fields)
      PROVE  In(i, fields[i].kind, s) = m[fields[i].name]
  <2>1. IsKind(fields[i].kind, m[fields[i].name]) /\ IsSeq(s)
    BY KindOf DEF Carries
  <2>2. Reads(i, fields[i].kind, m[fields[i].name], s)
    BY DEF Carries
  <2> QED BY <2>1, <2>2, ReadsIn
<1>3. m = [name \in names |-> m[name]]
  BY DEF IsMessage
<1>4. CASE s # << >>
  <2>1. Parsed(fields, s) =
          [name \in names |-> In(numOf(name), fields[numOf(name)].kind, s)]
    BY <1>4 DEF Parsed
  <2> HIDE DEF names, numOf
  <2>2. \A name \in names : In(numOf(name), fields[numOf(name)].kind, s) = m[name]
    BY <1>1, <1>2
  <2> QED BY <1>3, <2>1, <2>2
<1>5. CASE s = << >>
  <2> DEFINE fieldOf(name) == CHOOSE f \in Range(fields) : f.name = name
  <2>1. Parsed(fields, s) = [name \in names |-> Default(fieldOf(name).kind)]
    BY <1>5 DEF Parsed, Cleared
  <2>2. ASSUME NEW name \in names
        PROVE  Default(fieldOf(name).kind) = m[name]
    <3>1. fieldOf(name) \in Range(fields) /\ fieldOf(name).name = name
      OBVIOUS
    <3>2. PICK i \in 1 .. Len(fields) : fieldOf(name) = fields[i]
      BY <3>1 DEF Range, IsList
    <3> DEFINE kind == fields[i].kind
    <3>3. In(i, kind, s) = m[name]
      BY <1>2, <3>1, <3>2
    <3>4. Places(i, kind, s) = {}
      BY <1>5 DEF Places
    <3>5. In(i, kind, s) = Default(kind)
      <4>1. CASE kind = "message"
        <5>1. Cardinality({}) = 0
          BY FS_EmptySet
        <5>2. In(i, kind, s) = [n \in 1 .. 0 |-> s[Nth(n, {})].val]
          BY <3>4, <4>1, <5>1 DEF In
        <5>3. In(i, kind, s) = << >>
          BY <5>2
        <5> QED BY <4>1, <5>3 DEF Default
      <4>2. CASE kind # "message"
        BY <3>4, <4>2 DEF In
      <4> QED BY <4>1, <4>2
    <3> QED BY <3>2, <3>3, <3>5
  <2> HIDE DEF names, fieldOf
  <2> QED BY <1>3, <2>1, <2>2
<1> QED BY <1>4, <1>5

-----------------------------------------------------------------------------
(* What a message writes is what is read from it                           *)

\* One field as it is written.
Written(fields, m, i) == Out(i, fields[i].kind, m[fields[i].name])

LEMMA CarriesThree ==
    ASSUME NEW F, IsList(F), NEW m, IsMessage(F, m)
    PROVE  LET w(i) == Written(F, m, i)
           IN  /\ Len(F) >= 1 => Carries(F, m, 1, w(1))
               /\ Len(F) >= 2 => Carries(F, m, 2, w(1) \o w(2))
               /\ Len(F) >= 3 => Carries(F, m, 3, w(1) \o w(2) \o w(3))
<1> DEFINE w(i) == Written(F, m, i)
<1>0. Len(F) \in Nat
  BY DEF IsList
<1>1. ASSUME NEW n \in Nat, n + 1 <= Len(F), NEW s, Carries(F, m, n, s)
      PROVE  Carries(F, m, n + 1, s \o w(n + 1))
  <2>1. n + 1 \in 1 .. Len(F)
    BY <1>0, <1>1
  <2> QED BY <1>1, <2>1, CarriesNext DEF Written
<1>2. Len(F) >= 1 => Carries(F, m, 1, w(1))
  <2>1. Len(F) >= 1 => 1 \in 1 .. Len(F)
    BY <1>0
  <2> QED BY <2>1, CarriesFirst DEF Written
<1> HIDE DEF w
<1>3. Len(F) >= 2 => Carries(F, m, 2, w(1) \o w(2))
  <2>1. Len(F) >= 2 => 1 \in Nat /\ 1 + 1 <= Len(F) /\ 1 + 1 = 2 /\ Len(F) >= 1
    BY <1>0
  <2> QED BY <2>1, <1>1, <1>2
<1>4. Len(F) >= 3 => Carries(F, m, 3, w(1) \o w(2) \o w(3))
  <2>1. Len(F) >= 3 => 2 \in Nat /\ 2 + 1 <= Len(F) /\ 2 + 1 = 3 /\ Len(F) >= 2
    BY <1>0
  <2> QED BY <2>1, <1>1, <1>3
<1> QED BY <1>2, <1>3, <1>4 DEF w

LEMMA CarriesSix ==
    ASSUME NEW F, IsList(F), NEW m, IsMessage(F, m)
    PROVE  LET w(i) == Written(F, m, i)
           IN  /\ Len(F) >= 4 => Carries(F, m, 4, w(1) \o w(2) \o w(3) \o w(4))
               /\ Len(F) >= 5 => Carries(F, m, 5, w(1) \o w(2) \o w(3) \o w(4) \o w(5))
               /\ Len(F) >= 6 =>
                    Carries(F, m, 6, w(1) \o w(2) \o w(3) \o w(4) \o w(5) \o w(6))
<1> DEFINE w(i) == Written(F, m, i)
<1>0. Len(F) \in Nat
  BY DEF IsList
<1>1. ASSUME NEW n \in Nat, n + 1 <= Len(F), NEW s, Carries(F, m, n, s)
      PROVE  Carries(F, m, n + 1, s \o w(n + 1))
  <2>1. n + 1 \in 1 .. Len(F)
    BY <1>0, <1>1
  <2> QED BY <1>1, <2>1, CarriesNext DEF Written
<1>2. Len(F) >= 3 => Carries(F, m, 3, w(1) \o w(2) \o w(3))
  BY CarriesThree
<1> HIDE DEF w
<1>3. Len(F) >= 4 => Carries(F, m, 4, w(1) \o w(2) \o w(3) \o w(4))
  <2>1. Len(F) >= 4 => 3 \in Nat /\ 3 + 1 <= Len(F) /\ 3 + 1 = 4 /\ Len(F) >= 3
    BY <1>0
  <2> QED BY <2>1, <1>1, <1>2
<1>4. Len(F) >= 5 => Carries(F, m, 5, w(1) \o w(2) \o w(3) \o w(4) \o w(5))
  <2>1. Len(F) >= 5 => 4 \in Nat /\ 4 + 1 <= Len(F) /\ 4 + 1 = 5 /\ Len(F) >= 4
    BY <1>0
  <2> QED BY <2>1, <1>1, <1>3
<1>5. Len(F) >= 6 => Carries(F, m, 6, w(1) \o w(2) \o w(3) \o w(4) \o w(5) \o w(6))
  <2>1. Len(F) >= 6 => 5 \in Nat /\ 5 + 1 <= Len(F) /\ 5 + 1 = 6 /\ Len(F) >= 5
    BY <1>0
  <2> QED BY <2>1, <1>1, <1>4
<1> QED BY <1>3, <1>4, <1>5 DEF w

LEMMA RpcHeaderCarries ==
    ASSUME NEW m, IsMessage(RpcHeaderFields, m)
    PROVE  IsList(RpcHeaderFields) /\ Carries(RpcHeaderFields, m, Len(RpcHeaderFields), RpcHeaderOut(m))
<1> DEFINE F == RpcHeaderFields
<1>1. IsList(F) /\ Len(F) = 3
  BY DEF RpcHeaderFields, Field, IsList
<1>2. /\ F[1] = Field("service_name", "bytes") /\ F[2] = Field("method_name", "bytes")
      /\ F[3] = Field("args_size", "uint32")
  BY DEF RpcHeaderFields
<1> HIDE DEF F
<1>3. RpcHeaderOut(m) = Written(F, m, 1) \o Written(F, m, 2) \o Written(F, m, 3)
  BY <1>2 DEF RpcHeaderOut, Written, Field
<1>4. IsMessage(F, m)
  BY DEF F
<1>5. Carries(F, m, Len(F), RpcHeaderOut(m))
  <2>1. Len(F) >= 3 => Carries(F, m, 3, Written(F, m, 1) \o Written(F, m, 2) \o Written(F, m, 3))
    BY <1>1, <1>4, CarriesThree
  <2> QED BY <1>1, <1>3, <2>1
<1> QED BY <1>1, <1>5 DEF F

LEMMA LogEntryCarries ==
    ASSUME NEW m, IsMessage(LogEntryFields, m)
    PROVE  /\ IsList(LogEntryFields)
           /\ Carries(LogEntryFields, m, Len(LogEntryFields), LogEntryOut(m))
<1> DEFINE F == LogEntryFields
<1>1. IsList(F) /\ Len(F) = 3
  BY DEF LogEntryFields, Field, IsList
<1>2. /\ F[1] = Field("Command", "bytes")
      /\ F[2] = Field("LogTerm", "int32")
      /\ F[3] = Field("LogIndex", "int32")
  BY DEF LogEntryFields
<1> HIDE DEF F
<1>3. LogEntryOut(m) = Written(F, m, 1) \o Written(F, m, 2) \o Written(F, m, 3)
  BY <1>2 DEF LogEntryOut, Written, Field
<1>4. IsMessage(F, m)
  BY DEF F
<1>5. Carries(F, m, Len(F), LogEntryOut(m))
  <2>1. Len(F) >= 3 => Carries(F, m, 3, Written(F, m, 1) \o Written(F, m, 2) \o Written(F, m, 3))
    BY <1>1, <1>4, CarriesThree
  <2> QED BY <1>1, <1>3, <2>1
<1> QED BY <1>1, <1>5 DEF F

LEMMA AppendEntriesReplyCarries ==
    ASSUME NEW m, IsMessage(AppendEntriesReplyFields, m)
    PROVE  /\ IsList(AppendEntriesReplyFields)
           /\ Carries(AppendEntriesReplyFields, m, Len(AppendEntriesReplyFields), AppendEntriesReplyOut(m))
<1> DEFINE F == AppendEntriesReplyFields
<1>1. IsList(F) /\ Len(F) = 4
  BY DEF AppendEntriesReplyFields, Field, IsList
<1>2. /\ F[1] = Field("Term", "int32")
      /\ F[2] = Field("Success", "bool")
      /\ F[3] = Field("UpdateNextIndex", "int32")
      /\ F[4] = Field("AppState", "int32")
  BY DEF AppendEntriesReplyFields
<1> HIDE DEF F
<1>3. AppendEntriesReplyOut(m) = Written(F, m, 1) \o Written(F, m, 2) \o Written(F, m, 3) \o
        Written(F, m, 4)
  BY <1>2 DEF AppendEntriesReplyOut, Written, Field
<1>4. IsMessage(F, m)
  BY DEF F
<1>5. Carries(F, m, Len(F), AppendEntriesReplyOut(m))
  <2>1. Len(F) >= 4 => Carries(F, m, 4, Written(F, m, 1) \o Written(F, m, 2) \o Written(F, m, 3) \o
        Written(F, m, 4))
    BY <1>1, <1>4, CarriesSix
  <2> QED BY <1>1, <1>3, <2>1
<1> QED BY <1>1, <1>5 DEF F

LEMMA RequestVoteArgsCarries ==
    ASSUME NEW m, IsMessage(RequestVoteArgsFields, m)
    PROVE  /\ IsList(RequestVoteArgsFields)
           /\ Carries(RequestVoteArgsFields, m, Len(RequestVoteArgsFields), RequestVoteArgsOut(m))
<1> DEFINE F == RequestVoteArgsFields
<1>1. IsList(F) /\ Len(F) = 4
  BY DEF RequestVoteArgsFields, Field, IsList
<1>2. /\ F[1] = Field("Term", "int32")
      /\ F[2] = Field("CandidateId", "int32")
      /\ F[3] = Field("LastLogIndex", "int32")
      /\ F[4] = Field("LastLogTerm", "int32")
  BY DEF RequestVoteArgsFields
<1> HIDE DEF F
<1>3. RequestVoteArgsOut(m) = Written(F, m, 1) \o Written(F, m, 2) \o Written(F, m, 3) \o
        Written(F, m, 4)
  BY <1>2 DEF RequestVoteArgsOut, Written, Field
<1>4. IsMessage(F, m)
  BY DEF F
<1>5. Carries(F, m, Len(F), RequestVoteArgsOut(m))
  <2>1. Len(F) >= 4 => Carries(F, m, 4, Written(F, m, 1) \o Written(F, m, 2) \o Written(F, m, 3) \o
        Written(F, m, 4))
    BY <1>1, <1>4, CarriesSix
  <2> QED BY <1>1, <1>3, <2>1
<1> QED BY <1>1, <1>5 DEF F

LEMMA RequestVoteReplyCarries ==
    ASSUME NEW m, IsMessage(RequestVoteReplyFields, m)
    PROVE  /\ IsList(RequestVoteReplyFields)
           /\ Carries(RequestVoteReplyFields, m, Len(RequestVoteReplyFields), RequestVoteReplyOut(m))
<1> DEFINE F == RequestVoteReplyFields
<1>1. IsList(F) /\ Len(F) = 3
  BY DEF RequestVoteReplyFields, Field, IsList
<1>2. /\ F[1] = Field("Term", "int32")
      /\ F[2] = Field("VoteGranted", "bool")
      /\ F[3] = Field("VoteState", "int32")
  BY DEF RequestVoteReplyFields
<1> HIDE DEF F
<1>3. RequestVoteReplyOut(m) = Written(F, m, 1) \o Written(F, m, 2) \o Written(F, m, 3)
  BY <1>2 DEF RequestVoteReplyOut, Written, Field
<1>4. IsMessage(F, m)
  BY DEF F
<1>5. Carries(F, m, Len(F), RequestVoteReplyOut(m))
  <2>1. Len(F) >= 3 => Carries(F, m, 3, Written(F, m, 1) \o Written(F, m, 2) \o Written(F, m, 3))
    BY <1>1, <1>4, CarriesThree
  <2> QED BY <1>1, <1>3, <2>1
<1> QED BY <1>1, <1>5 DEF F

LEMMA InstallSnapshotRequestCarries ==
    ASSUME NEW m, IsMessage(InstallSnapshotRequestFields, m)
    PROVE  /\ IsList(InstallSnapshotRequestFields)
           /\ Carries(InstallSnapshotRequestFields, m, Len(InstallSnapshotRequestFields), InstallSnapshotRequestOut(m))
<1> DEFINE F == InstallSnapshotRequestFields
<1>1. IsList(F) /\ Len(F) = 5
  BY DEF InstallSnapshotRequestFields, Field, IsList
<1>2. /\ F[1] = Field("LeaderId", "int32")
      /\ F[2] = Field("Term", "int32")
      /\ F[3] = Field("Data", "bytes")
      /\ F[4] = Field("LastSnapShotIncludeIndex", "int32")
      /\ F[5] = Field("LastSnapShotIncludeTerm", "int32")
  BY DEF InstallSnapshotRequestFields
<1> HIDE DEF F
<1>3. InstallSnapshotRequestOut(m) = Written(F, m, 1) \o Written(F, m, 2) \o Written(F, m, 3) \o
        Written(F, m, 4) \o Written(F, m, 5)
  BY <1>2 DEF InstallSnapshotRequestOut, Written, Field
<1>4. IsMessage(F, m)
  BY DEF F
<1>5. Carries(F, m, Len(F), InstallSnapshotRequestOut(m))
  <2>1. Len(F) >= 5 => Carries(F, m, 5, Written(F, m, 1) \o Written(F, m, 2) \o Written(F, m, 3) \o
        Written(F, m, 4) \o Written(F, m, 5))
    BY <1>1, <1>4, CarriesSix
  <2> QED BY <1>1, <1>3, <2>1
<1> QED BY <1>1, <1>5 DEF F

LEMMA InstallSnapshotResponseCarries ==
    ASSUME NEW m, IsMessage(InstallSnapshotResponseFields, m)
    PROVE  /\ IsList(InstallSnapshotResponseFields)
           /\ Carries(InstallSnapshotResponseFields, m, Len(InstallSnapshotResponseFields), InstallSnapshotResponseOut(m))
<1> DEFINE F == InstallSnapshotResponseFields
<1>1. IsList(F) /\ Len(F) = 1
  BY DEF InstallSnapshotResponseFields, Field, IsList
<1>2. /\ F[1] = Field("Term", "int32")
  BY DEF InstallSnapshotResponseFields
<1> HIDE DEF F
<1>3. InstallSnapshotResponseOut(m) = Written(F, m, 1)
  BY <1>2 DEF InstallSnapshotResponseOut, Written, Field
<1>4. IsMessage(F, m)
  BY DEF F
<1>5. Carries(F, m, Len(F), InstallSnapshotResponseOut(m))
  <2>1. Len(F) >= 1 => Carries(F, m, 1, Written(F, m, 1))
    BY <1>1, <1>4, CarriesThree
  <2> QED BY <1>1, <1>3, <2>1
<1> QED BY <1>1, <1>5 DEF F

LEMMA GetArgsCarries ==
    ASSUME NEW m, IsMessage(GetArgsFields, m)
    PROVE  /\ IsList(GetArgsFields)
           /\ Carries(GetArgsFields, m, Len(GetArgsFields), GetArgsOut(m))
<1> DEFINE F == GetArgsFields
<1>1. IsList(F) /\ Len(F) = 3
  BY DEF GetArgsFields, Field, IsList
<1>2. /\ F[1] = Field("key", "bytes")
      /\ F[2] = Field("ClientId", "bytes")
      /\ F[3] = Field("RequestId", "int32")
  BY DEF GetArgsFields
<1> HIDE DEF F
<1>3. GetArgsOut(m) = Written(F, m, 1) \o Written(F, m, 2) \o Written(F, m, 3)
  BY <1>2 DEF GetArgsOut, Written, Field
<1>4. IsMessage(F, m)
  BY DEF F
<1>5. Carries(F, m, Len(F), GetArgsOut(m))
  <2>1. Len(F) >= 3 => Carries(F, m, 3, Written(F, m, 1) \o Written(F, m, 2) \o Written(F, m, 3))
    BY <1>1, <1>4, CarriesThree
  <2> QED BY <1>1, <1>3, <2>1
<1> QED BY <1>1, <1>5 DEF F

LEMMA GetReplyCarries ==
    ASSUME NEW m, IsMessage(GetReplyFields, m)
    PROVE  /\ IsList(GetReplyFields)
           /\ Carries(GetReplyFields, m, Len(GetReplyFields), GetReplyOut(m))
<1> DEFINE F == GetReplyFields
<1>1. IsList(F) /\ Len(F) = 2
  BY DEF GetReplyFields, Field, IsList
<1>2. /\ F[1] = Field("Err", "bytes")
      /\ F[2] = Field("Value", "bytes")
  BY DEF GetReplyFields
<1> HIDE DEF F
<1>3. GetReplyOut(m) = Written(F, m, 1) \o Written(F, m, 2)
  BY <1>2 DEF GetReplyOut, Written, Field
<1>4. IsMessage(F, m)
  BY DEF F
<1>5. Carries(F, m, Len(F), GetReplyOut(m))
  <2>1. Len(F) >= 2 => Carries(F, m, 2, Written(F, m, 1) \o Written(F, m, 2))
    BY <1>1, <1>4, CarriesThree
  <2> QED BY <1>1, <1>3, <2>1
<1> QED BY <1>1, <1>5 DEF F

LEMMA PutAppendArgsCarries ==
    ASSUME NEW m, IsMessage(PutAppendArgsFields, m)
    PROVE  /\ IsList(PutAppendArgsFields)
           /\ Carries(PutAppendArgsFields, m, Len(PutAppendArgsFields), PutAppendArgsOut(m))
<1> DEFINE F == PutAppendArgsFields
<1>1. IsList(F) /\ Len(F) = 5
  BY DEF PutAppendArgsFields, Field, IsList
<1>2. /\ F[1] = Field("key", "bytes")
      /\ F[2] = Field("Value", "bytes")
      /\ F[3] = Field("Op", "bytes")
      /\ F[4] = Field("ClientId", "bytes")
      /\ F[5] = Field("RequestId", "int32")
  BY DEF PutAppendArgsFields
<1> HIDE DEF F
<1>3. PutAppendArgsOut(m) = Written(F, m, 1) \o Written(F, m, 2) \o Written(F, m, 3) \o
        Written(F, m, 4) \o Written(F, m, 5)
  BY <1>2 DEF PutAppendArgsOut, Written, Field
<1>4. IsMessage(F, m)
  BY DEF F
<1>5. Carries(F, m, Len(F), PutAppendArgsOut(m))
  <2>1. Len(F) >= 5 => Carries(F, m, 5, Written(F, m, 1) \o Written(F, m, 2) \o Written(F, m, 3) \o
        Written(F, m, 4) \o Written(F, m, 5))
    BY <1>1, <1>4, CarriesSix
  <2> QED BY <1>1, <1>3, <2>1
<1> QED BY <1>1, <1>5 DEF F

LEMMA PutAppendReplyCarries ==
    ASSUME NEW m, IsMessage(PutAppendReplyFields, m)
    PROVE  /\ IsList(PutAppendReplyFields)
           /\ Carries(PutAppendReplyFields, m, Len(PutAppendReplyFields), PutAppendReplyOut(m))
<1> DEFINE F == PutAppendReplyFields
<1>1. IsList(F) /\ Len(F) = 1
  BY DEF PutAppendReplyFields, Field, IsList
<1>2. /\ F[1] = Field("Err", "bytes")
  BY DEF PutAppendReplyFields
<1> HIDE DEF F
<1>3. PutAppendReplyOut(m) = Written(F, m, 1)
  BY <1>2 DEF PutAppendReplyOut, Written, Field
<1>4. IsMessage(F, m)
  BY DEF F
<1>5. Carries(F, m, Len(F), PutAppendReplyOut(m))
  <2>1. Len(F) >= 1 => Carries(F, m, 1, Written(F, m, 1))
    BY <1>1, <1>4, CarriesThree
  <2> QED BY <1>1, <1>3, <2>1
<1> QED BY <1>1, <1>5 DEF F

\* The arguments of AppendEntries with the bytes of the entries in their place.
PlainOut(m) ==
    Out(1, "int32", m.Term) \o Out(2, "int32", m.LeaderId) \o
    Out(3, "int32", m.PrevLogIndex) \o Out(4, "int32", m.PrevLogTerm) \o
    Out(5, "message", m.Entries) \o Out(6, "int32", m.LeaderCommit)

LEMMA AppendEntriesArgsCarries ==
    ASSUME NEW m, IsMessage(AppendEntriesArgsFields, m)
    PROVE  /\ IsList(AppendEntriesArgsFields)
           /\ Carries(AppendEntriesArgsFields, m, Len(AppendEntriesArgsFields), PlainOut(m))
<1> DEFINE F == AppendEntriesArgsFields
<1>1. IsList(F) /\ Len(F) = 6
  BY DEF AppendEntriesArgsFields, Field, IsList
<1>2. /\ F[1] = Field("Term", "int32")
      /\ F[2] = Field("LeaderId", "int32")
      /\ F[3] = Field("PrevLogIndex", "int32")
      /\ F[4] = Field("PrevLogTerm", "int32")
      /\ F[5] = Field("Entries", "message")
      /\ F[6] = Field("LeaderCommit", "int32")
  BY DEF AppendEntriesArgsFields
<1> HIDE DEF F
<1>3. PlainOut(m) = Written(F, m, 1) \o Written(F, m, 2) \o Written(F, m, 3) \o
        Written(F, m, 4) \o Written(F, m, 5) \o Written(F, m, 6)
  BY <1>2 DEF PlainOut, Written, Field
<1>4. IsMessage(F, m)
  BY DEF F
<1>5. Carries(F, m, Len(F), PlainOut(m))
  <2>1. Len(F) >= 6 => Carries(F, m, 6, Written(F, m, 1) \o Written(F, m, 2) \o Written(F, m, 3) \o
        Written(F, m, 4) \o Written(F, m, 5) \o Written(F, m, 6))
    BY <1>1, <1>4, CarriesSix
  <2> QED BY <1>1, <1>3, <2>1
<1> QED BY <1>1, <1>5 DEF F

LEMMA EntriesRead ==
    ASSUME NEW args, IsMessage(AppendEntriesArgsFields, args),
           \A e \in Range(args.Entries) : IsMessage(LogEntryFields, e), NEW id
    PROVE  AppendEntriesArgsIn(Tag(id, AppendEntriesArgsOut(args))) = args
<1> DEFINE F == AppendEntriesArgsFields
           names == {f.name : f \in Range(F)}
           entries == args.Entries
           bytes == [j \in 1 .. Len(entries) |-> LogEntryOut(entries[j])]
           plain == [args EXCEPT !.Entries = bytes]
<1>1. /\ F[1] = Field("Term", "int32") /\ F[2] = Field("LeaderId", "int32")
      /\ F[3] = Field("PrevLogIndex", "int32") /\ F[4] = Field("PrevLogTerm", "int32")
      /\ F[5] = Field("Entries", "message") /\ F[6] = Field("LeaderCommit", "int32")
      /\ DOMAIN F = 1 .. 6
  BY DEF AppendEntriesArgsFields
<1>2. Range(F) = {F[1], F[2], F[3], F[4], F[5], F[6]}
  <2>1. 1 .. 6 = {1, 2, 3, 4, 5, 6}
    OBVIOUS
  <2> HIDE DEF F
  <2>2. DOMAIN F = {1, 2, 3, 4, 5, 6}
    BY <1>1, <2>1
  <2> QED BY <2>2 DEF Range
<1>3. F[5] \in Range(F) /\ F[5].name = "Entries" /\ F[5].kind = "message"
  BY <1>1, <1>2 DEF Field
<1>4. IsSeq(entries) /\ Len(entries) \in Nat
  BY <1>3 DEF IsMessage, IsSeq
<1>5. args = [name \in names |-> args[name]] /\ "Entries" \in names
  BY <1>3 DEF IsMessage
<1>6. IsSeq(bytes) /\ Len(bytes) = Len(entries)
  <2> HIDE DEF entries
  <2>1. bytes = [j \in 1 .. Len(entries) |-> bytes[j]]
    OBVIOUS
  <2> HIDE DEF bytes
  <2> QED BY <1>4, <2>1, Built
<1> HIDE DEF bytes
<1>7. /\ plain = [name \in names |-> plain[name]]
      /\ plain.Entries = bytes
      /\ \A name \in names : name # "Entries" => plain[name] = args[name]
  <2> HIDE DEF names, entries
  <2> QED BY <1>5
<1>8. IsMessage(F, plain)
  <2>1. \A f \in Range(F) : f.kind # "bool" /\ (f.kind = "message" => f.name = "Entries")
    <3> HIDE DEF F
    <3> QED BY <1>1, <1>2 DEF Field
  <2> HIDE DEF plain, F
  <2>2. bytes \in Seq(Range(bytes))
    BY <1>6 DEF IsSeq
  <2>3. \A f \in Range(F) : f.kind = "message" => plain[f.name] \in Seq(Range(plain[f.name]))
    BY <1>7, <2>1, <2>2
  <2> QED BY <1>7, <2>1, <2>3 DEF IsMessage
<1>9. PlainOut(plain) = AppendEntriesArgsOut(args)
  <2>1. {"Term", "LeaderId", "PrevLogIndex", "PrevLogTerm", "LeaderCommit"} \subseteq names
    <3> HIDE DEF F
    <3> QED BY <1>1, <1>2 DEF Field
  <2>2. /\ plain.Term = args.Term /\ plain.LeaderId = args.LeaderId
        /\ plain.PrevLogIndex = args.PrevLogIndex /\ plain.PrevLogTerm = args.PrevLogTerm
        /\ plain.LeaderCommit = args.LeaderCommit
    <3> HIDE DEF plain, names
    <3> QED BY <1>7, <2>1
  <2>3. AppendEntriesArgsOut(args) =
          Out(1, "int32", args.Term) \o Out(2, "int32", args.LeaderId) \o
          Out(3, "int32", args.PrevLogIndex) \o Out(4, "int32", args.PrevLogTerm) \o
          Out(5, "message", bytes) \o Out(6, "int32", args.LeaderCommit)
    BY Zenon DEF AppendEntriesArgsOut, bytes
  <2> HIDE DEF plain
  <2> QED BY <1>7, <2>2, <2>3 DEF PlainOut
<1>10. Parsed(F, Tag(id, PlainOut(plain))) = plain
  <2> HIDE DEF F, plain
  <2>1. IsList(F) /\ Carries(F, plain, Len(F), PlainOut(plain))
    BY <1>8, AppendEntriesArgsCarries DEF F
  <2>2. Carries(F, plain, Len(F), Tag(id, PlainOut(plain)))
    BY <1>8, <2>1, CarriesTagged
  <2> QED BY <1>8, <2>1, <2>2, ParsedIs
<1>11. AppendEntriesArgsIn(Tag(id, PlainOut(plain))) =
         [plain EXCEPT !.Entries =
            [j \in 1 .. Len(plain.Entries) |-> LogEntryIn(plain.Entries[j])]]
  <2> HIDE DEF plain
  <2>1. AppendEntriesArgsIn(Tag(id, PlainOut(plain))) =
          [Parsed(F, Tag(id, PlainOut(plain))) EXCEPT !.Entries =
             [j \in 1 .. Len(Parsed(F, Tag(id, PlainOut(plain))).Entries) |->
                LogEntryIn(Parsed(F, Tag(id, PlainOut(plain))).Entries[j])]]
    BY Zenon DEF AppendEntriesArgsIn
  <2> HIDE DEF F
  <2> QED BY <1>10, <2>1
<1>12. ASSUME NEW j \in 1 .. Len(entries)
       PROVE  LogEntryIn(bytes[j]) = entries[j]
  <2>1. entries[j] \in Range(entries)
    BY <1>4 DEF IsSeq
  <2>2. IsMessage(LogEntryFields, entries[j])
    BY <2>1
  <2>3. bytes[j] = LogEntryOut(entries[j])
    BY DEF bytes
  <2> HIDE DEF entries
  <2>4. Parsed(LogEntryFields, LogEntryOut(entries[j])) = entries[j]
    BY <2>2, LogEntryCarries, ParsedIs
  <2> QED BY <2>3, <2>4 DEF LogEntryIn
<1>13. [j \in 1 .. Len(bytes) |-> LogEntryIn(bytes[j])] = entries
  <2> HIDE DEF entries
  <2>1. entries = [j \in 1 .. Len(entries) |-> entries[j]]
    BY <1>4 DEF IsSeq
  <2>2. [j \in 1 .. Len(entries) |-> LogEntryIn(bytes[j])] = [j \in 1 .. Len(entries) |-> entries[j]]
    BY <1>12
  <2> QED BY <1>6, <2>1, <2>2
<1>14. [plain EXCEPT !.Entries = entries] = args
  <2> HIDE DEF names
  <2>1. args.Entries = entries /\ DOMAIN args = names /\ DOMAIN plain = names
    BY <1>5, <1>7
  <2> HIDE DEF plain, entries
  <2>2. \A name \in names : [plain EXCEPT !.Entries = entries][name] = args[name]
    BY <1>7, <2>1
  <2>3. [plain EXCEPT !.Entries = entries] =
          [name \in names |-> [plain EXCEPT !.Entries = entries][name]]
    BY <2>1
  <2>4. [name \in names |-> [plain EXCEPT !.Entries = entries][name]] =
          [name \in names |-> args[name]]
    BY <2>2
  <2> QED BY <1>5, <2>3, <2>4
<1>15. AppendEntriesArgsIn(Tag(id, PlainOut(plain))) = [plain EXCEPT !.Entries = entries]
  <2> HIDE DEF plain, entries
  <2> QED BY <1>7, <1>11, <1>13
<1> HIDE DEF plain, entries
<1> QED BY <1>9, <1>14, <1>15

\* ParseFromString gives back what SerializeToString wrote.
LEMMA ArgsRead ==
    ASSUME NEW method \in Method, NEW args \in Args[method], NEW id
    PROVE  ArgsIn(method, Tag(id, ArgsOut(method, args))) = args
<1>0. /\ IsMessage(ArgsFields(method), args)
      /\ method = "AppendEntries" =>
           \A e \in Range(args.Entries) : IsMessage(LogEntryFields, e)
  BY MessagesAssumption
<1>a. ASSUME NEW F, IsMessage(F, args), NEW s, IsList(F), Carries(F, args, Len(F), s)
      PROVE  Parsed(F, Tag(id, s)) = args
  BY <1>a, CarriesTagged, ParsedIs
<1>1. CASE method = "RequestVote"
  <2>1. IsMessage(RequestVoteArgsFields, args)
    BY <1>0, <1>1 DEF ArgsFields
  <2>2. Parsed(RequestVoteArgsFields, Tag(id, RequestVoteArgsOut(args))) = args
    BY <2>1, <1>a, RequestVoteArgsCarries
  <2> QED BY <1>1, <2>2 DEF ArgsOut, ArgsIn, RequestVoteArgsIn
<1>2. CASE method = "AppendEntries"
  <2>1. IsMessage(AppendEntriesArgsFields, args)
    BY <1>0, <1>2 DEF ArgsFields
  <2>2. AppendEntriesArgsIn(Tag(id, AppendEntriesArgsOut(args))) = args
    BY <1>0, <1>2, <2>1, EntriesRead
  <2> QED BY <1>2, <2>2 DEF ArgsOut, ArgsIn
<1>3. CASE method = "InstallSnapshot"
  <2>1. IsMessage(InstallSnapshotRequestFields, args)
    BY <1>0, <1>3 DEF ArgsFields
  <2>2. Parsed(InstallSnapshotRequestFields, Tag(id, InstallSnapshotRequestOut(args))) = args
    BY <2>1, <1>a, InstallSnapshotRequestCarries
  <2> QED BY <1>3, <2>2 DEF ArgsOut, ArgsIn, InstallSnapshotRequestIn
<1>4. CASE method = "Get"
  <2>1. IsMessage(GetArgsFields, args)
    BY <1>0, <1>4 DEF ArgsFields
  <2>2. Parsed(GetArgsFields, Tag(id, GetArgsOut(args))) = args
    BY <2>1, <1>a, GetArgsCarries
  <2> QED BY <1>4, <2>2 DEF ArgsOut, ArgsIn, GetArgsIn
<1>5. CASE method = "PutAppend"
  <2>1. IsMessage(PutAppendArgsFields, args)
    BY <1>0, <1>5 DEF ArgsFields
  <2>2. Parsed(PutAppendArgsFields, Tag(id, PutAppendArgsOut(args))) = args
    BY <2>1, <1>a, PutAppendArgsCarries
  <2> QED BY <1>5, <2>2 DEF ArgsOut, ArgsIn, PutAppendArgsIn
<1> QED BY <1>1, <1>2, <1>3, <1>4, <1>5, MethodAssumption

\* The answer of a handler, whole: its first unit is the beginning of a field, and
\* ParseFromArray gives the answer back.
LEMMA ReplyRead ==
    ASSUME NEW method \in Method, NEW reply \in Replies[method], NEW id
    PROVE  LET s == Tag(id, ReplyOut(method, reply))
           IN  ReplyIn(method, s) = reply /\ (s # << >> => Head(s).part = 1)
<1> DEFINE s == Tag(id, ReplyOut(method, reply))
<1>0. IsMessage(ReplyFields(method), reply)
  BY MessagesAssumption
<1>a. ASSUME NEW F, IsMessage(F, reply), NEW u, IsList(F), Carries(F, reply, Len(F), u)
      PROVE  /\ Parsed(F, Tag(id, u)) = reply
             /\ Tag(id, u) # << >> => Head(Tag(id, u)).part = 1
  <2> DEFINE v == Tag(id, u)
  <2>1. Carries(F, reply, Len(F), v)
    BY <1>a, CarriesTagged
  <2>2. Parsed(F, v) = reply
    BY <1>a, <2>1, ParsedIs
  <2> HIDE DEF v
  <2>3. IsSeq(v) /\ (Len(v) > 0 => v[1].part = 1)
    BY <2>1 DEF Carries
  <2>4. v # << >> => Len(v) > 0 /\ Head(v) = v[1]
    BY <2>3 DEF IsSeq
  <2>5. v # << >> => Head(v).part = 1
    BY <2>3, <2>4
  <2> QED BY <2>2, <2>5 DEF v
<1>1. CASE method = "RequestVote"
  <2>1. IsMessage(RequestVoteReplyFields, reply)
    BY <1>0, <1>1 DEF ReplyFields
  <2>2. s = Tag(id, RequestVoteReplyOut(reply)) /\ ReplyIn(method, s) = Parsed(RequestVoteReplyFields, s)
    BY <1>1 DEF ReplyOut, ReplyIn, RequestVoteReplyIn
  <2> QED BY <2>1, <2>2, <1>a, RequestVoteReplyCarries
<1>2. CASE method = "AppendEntries"
  <2>1. IsMessage(AppendEntriesReplyFields, reply)
    BY <1>0, <1>2 DEF ReplyFields
  <2>2. s = Tag(id, AppendEntriesReplyOut(reply)) /\ ReplyIn(method, s) = Parsed(AppendEntriesReplyFields, s)
    BY <1>2 DEF ReplyOut, ReplyIn, AppendEntriesReplyIn
  <2> QED BY <2>1, <2>2, <1>a, AppendEntriesReplyCarries
<1>3. CASE method = "InstallSnapshot"
  <2>1. IsMessage(InstallSnapshotResponseFields, reply)
    BY <1>0, <1>3 DEF ReplyFields
  <2>2. /\ s = Tag(id, InstallSnapshotResponseOut(reply))
        /\ ReplyIn(method, s) = Parsed(InstallSnapshotResponseFields, s)
    BY <1>3 DEF ReplyOut, ReplyIn, InstallSnapshotResponseIn
  <2> QED BY <2>1, <2>2, <1>a, InstallSnapshotResponseCarries
<1>4. CASE method = "Get"
  <2>1. IsMessage(GetReplyFields, reply)
    BY <1>0, <1>4 DEF ReplyFields
  <2>2. s = Tag(id, GetReplyOut(reply)) /\ ReplyIn(method, s) = Parsed(GetReplyFields, s)
    BY <1>4 DEF ReplyOut, ReplyIn, GetReplyIn
  <2> QED BY <2>1, <2>2, <1>a, GetReplyCarries
<1>5. CASE method = "PutAppend"
  <2>1. IsMessage(PutAppendReplyFields, reply)
    BY <1>0, <1>5 DEF ReplyFields
  <2>2. s = Tag(id, PutAppendReplyOut(reply)) /\ ReplyIn(method, s) = Parsed(PutAppendReplyFields, s)
    BY <1>5 DEF ReplyOut, ReplyIn, PutAppendReplyIn
  <2> QED BY <2>1, <2>2, <1>a, PutAppendReplyCarries
<1> QED BY <1>1, <1>2, <1>3, <1>4, <1>5, MethodAssumption

-----------------------------------------------------------------------------
(* What OnMessage finds is what was sent                                   *)

RequestHeader(method, args) ==
    [service_name |-> service(method), method_name |-> method,
     args_size |-> Len(ArgsOut(method, args))]

LEMMA HeaderCarries ==
    ASSUME NEW method, NEW args
    PROVE  LET F == RpcHeaderFields
               m == RequestHeader(method, args)
           IN  /\ IsList(F) /\ IsMessage(F, m)
               /\ Carries(F, m, Len(F), RpcHeaderOut(m))
<1> DEFINE F == RpcHeaderFields
           m == RequestHeader(method, args)
<1>1. /\ Range(F) = {Field("service_name", "bytes"), Field("method_name", "bytes"),
                     Field("args_size", "uint32")}
  BY DEF Range, RpcHeaderFields
<1>2. {f.name : f \in Range(F)} = {"service_name", "method_name", "args_size"}
  <2> HIDE DEF F
  <2> QED BY <1>1 DEF Field
<1>3. m = [name \in {"service_name", "method_name", "args_size"} |-> m[name]]
  BY DEF RequestHeader
<1>4. \A f \in Range(F) : f.kind # "bool" /\ f.kind # "message"
  <2> HIDE DEF F
  <2> QED BY <1>1 DEF Field
<1>5. IsMessage(F, m)
  <2> HIDE DEF F, m
  <2> QED BY <1>2, <1>3, <1>4 DEF IsMessage
<1> QED BY <1>5, RpcHeaderCarries

\* Where the parts of a request are.
LEMMA RequestParts ==
    ASSUME NEW method \in Method, NEW args \in Args[method]
    PROVE  LET header == RpcHeaderOut(RequestHeader(method, args))
               args_str == ArgsOut(method, args)
               h == Len(header)
               n == Len(args_str)
               r == Request(method, args)
           IN  /\ h \in Nat /\ n \in Nat /\ IsSeq(header) /\ IsSeq(args_str)
               /\ Len(r) = 1 + h + n /\ r[1] = Size(h)
               /\ \A j \in 1 .. h : r[1 + j] = header[j]
               /\ \A j \in 1 .. n : r[1 + h + j] = args_str[j]
<1> DEFINE args_str == ArgsOut(method, args)
           header == RpcHeaderOut(RequestHeader(method, args))
           h == Len(header)
           n == Len(args_str)
           front == <<Size(h)>>
           s == front \o header
           r == s \o args_str
<1>1. Request(method, args) = r
  BY DEF Request, RequestHeader
<1>2. IsSeq(args_str) /\ n \in Nat
  BY ArgsOutFields DEF Fields, IsSeq
<1>3. IsSeq(header) /\ h \in Nat
  BY HeaderCarries DEF Carries, IsSeq
<1> HIDE DEF header, args_str
<1>4. IsSeq(front) /\ Len(front) = 1 /\ front[1] = Size(h)
  <2>1. front \in Seq({Size(h)})
    OBVIOUS
  <2>2. IsSeq(front)
    BY <2>1, SeqIs
  <2> QED BY <2>2
<1> HIDE DEF front
<1>5. /\ IsSeq(s) /\ Len(s) = Len(front) + Len(header)
      /\ \A j \in 1 .. Len(front) : s[j] = front[j]
      /\ \A j \in 1 .. Len(header) : s[Len(front) + j] = header[j]
  <2>1. IsSeq(front) /\ IsSeq(header)
    BY <1>3, <1>4
  <2>2. IsSeq(s) /\ Len(s) = Len(front) + Len(header)
    BY <2>1, Joined, Zenon
  <2>3. \A j \in 1 .. Len(front) : s[j] = front[j]
    BY <2>1, Joined, Zenon
  <2>4. ASSUME NEW j \in 1 .. Len(header) PROVE s[Len(front) + j] = header[j]
    BY <2>1, Joined
  <2> QED BY <2>2, <2>3, <2>4, Zenon
<1>6. Len(s) = 1 + h /\ s[1] = Size(h) /\ \A j \in 1 .. h : s[1 + j] = header[j]
  <2> HIDE DEF s
  <2> QED BY <1>3, <1>4, <1>5
<1> HIDE DEF s
<1>7. /\ Len(r) = Len(s) + Len(args_str)
      /\ \A j \in 1 .. Len(s) : r[j] = s[j]
      /\ \A j \in 1 .. Len(args_str) : r[Len(s) + j] = args_str[j]
  <2>1. IsSeq(s) /\ IsSeq(args_str)
    BY <1>2, <1>5
  <2>2. Len(r) = Len(s) + Len(args_str)
    BY <2>1, Joined, Zenon
  <2>3. \A j \in 1 .. Len(s) : r[j] = s[j]
    BY <2>1, Joined, Zenon
  <2>4. ASSUME NEW j \in 1 .. Len(args_str) PROVE r[Len(s) + j] = args_str[j]
    BY <2>1, Joined
  <2> QED BY <2>2, <2>3, <2>4, Zenon
<1> HIDE DEF r
<1>8. /\ Len(r) = 1 + h + n /\ r[1] = Size(h)
      /\ \A j \in 1 .. h : r[1 + j] = header[j]
      /\ \A j \in 1 .. n : r[1 + h + j] = args_str[j]
  <2>1. 1 \in 1 .. 1 + h /\ \A j \in 1 .. h : 1 + j \in 1 .. 1 + h
    BY <1>3
  <2> HIDE DEF h, n
  <2>2. Len(r) = 1 + h + n /\ r[1] = Size(h)
    BY <1>6, <1>7, <2>1 DEF n
  <2>3. ASSUME NEW j \in 1 .. h PROVE r[1 + j] = header[j]
    BY <1>6, <1>7, <2>1
  <2>4. ASSUME NEW j \in 1 .. n PROVE r[1 + h + j] = args_str[j]
    BY <1>6, <1>7 DEF n
  <2> QED BY <2>2, <2>3, <2>4
<1> QED BY <1>1, <1>2, <1>3, <1>8 DEF h, n, header, args_str

\* p is what is there of the size units of s from first on.
IsPiece(p, s, first, size) ==
    /\ IsSeq(p) /\ Len(p) \in Nat /\ Len(p) <= size
    /\ \A j \in 1 .. Len(p) : first + j - 1 \in 1 .. Len(s) /\ p[j] = s[first + j - 1]
    /\ size = 0 => p = << >>

\* ReadString stops at the end of the bytes.
LEMMA StringRead ==
    ASSUME NEW s, IsSeq(s), NEW first \in Nat \ {0}, NEW size \in Nat
    PROVE  IsPiece(ReadString(s, first, size), s, first, size)
<1> DEFINE S == Range(s)
           a == first + size - 1
           b == Min({a, Len(s)})
           p == SubSeq(s, first, b)
<1>1. s \in Seq(S) /\ Len(s) \in Nat
  BY DEF IsSeq
<1>2. a \in Int
  OBVIOUS
<1>3. b = IF a <= Len(s) THEN a ELSE Len(s)
  <2> HIDE DEF a
  <2> QED BY <1>1, <1>2, MinOfTwo
<1>4. ReadString(s, first, size) = p
  BY DEF ReadString
<1> HIDE DEF S, b
<1>5. b \in Int /\ b <= Len(s) /\ b <= a /\ (b = a \/ b = Len(s))
  <2> HIDE DEF a
  <2> QED BY <1>1, <1>2, <1>3
<1>6. /\ p \in Seq(S) /\ Len(p) = (IF first <= b THEN b - first + 1 ELSE 0)
      /\ \A j \in 1 .. Len(p) : p[j] = s[first + j - 1]
  <2>1. CASE first <= b
    <3> HIDE DEF a
    <3> QED BY <1>1, <1>5, <2>1
  <2>2. CASE ~(first <= b)
    <3>1. p = << >>
      BY <1>1, <1>5, <2>2
    <3> QED BY <3>1, <2>2
  <2> QED BY <2>1, <2>2
<1>7. IsSeq(p)
  BY <1>6, SeqIs
<1> HIDE DEF p
<1>8. Len(p) \in Nat /\ Len(p) <= size
  BY <1>5, <1>6
<1>9. \A j \in 1 .. Len(p) : first + j - 1 \in 1 .. Len(s)
  BY <1>1, <1>5, <1>6
<1>10. size = 0 => p = << >>
  <2>1. size = 0 => Len(p) = 0
    BY <1>8
  <2> QED BY <2>1, <1>6
<1>11. IsPiece(p, s, first, size)
  BY <1>6, <1>7, <1>8, <1>9, <1>10 DEF IsPiece
<1> QED BY <1>4, <1>11 DEF p

\* p is a beginning of the bytes s of the call id.
Begins(p, id, s) ==
    /\ IsSeq(p) /\ Len(p) <= Len(s)
    /\ \A j \in 1 .. Len(p) : p[j] = Tagged(id, s[j])

\* What is read of a field from the beginning of the bytes.
LEMMA BeginningRead ==
    ASSUME NEW F, IsList(F), NEW m, IsMessage(F, m), NEW s, Carries(F, m, Len(F), s),
           NEW id, NEW p, Begins(p, id, s),
           NEW i \in 1 .. Len(F), F[i].kind \notin {"bool", "message"}
    PROVE  In(i, F[i].kind, p) \in {Default(F[i].kind), m[F[i].name]}
<1> DEFINE kind == F[i].kind
           val == m[F[i].name]
           P == Places(i, kind, p)
<1>1. Reads(i, kind, val, s)
  BY DEF Carries
<1>2. Len(p) \in Nat /\ Len(s) \in Nat /\ Len(p) <= Len(s)
  BY DEF IsSeq, Carries, Begins
<1>3. ASSUME NEW j \in P
      PROVE  j \in Places(i, kind, s) /\ p[j].val = s[j].val
  <2>1. j \in 1 .. Len(p) /\ p[j].num = i /\ p[j].wt = WireType(kind)
    BY DEF Places
  <2>2. p[j] = Tagged(id, s[j]) /\ j \in 1 .. Len(s)
    BY <1>2, <2>1 DEF Begins
  <2>3. s[j].num = p[j].num /\ s[j].wt = p[j].wt /\ s[j].val = p[j].val
    BY <2>2 DEF Tagged
  <2> QED BY <2>1, <2>2, <2>3 DEF Places
<1>4. P \subseteq 1 .. Len(p)
  BY DEF Places
<1> HIDE DEF P, kind, val
<1>5. kind \notin {"bool", "message"}
  BY DEF kind
<1>6. CASE P = {}
  <2>1. In(i, kind, p) = Default(kind)
    BY <1>5, <1>6 DEF In, P
  <2> QED BY <2>1 DEF kind, val
<1>7. CASE P # {}
  <2>1. P \in SUBSET (0 .. Len(p))
    BY <1>2, <1>4
  <2>2. Max(P) \in P
    BY <1>2, <1>7, <2>1, MaxOf
  <2>3. In(i, kind, p) = p[Max(P)].val
    BY <1>5, <1>7 DEF In, P
  <2>4. Max(P) \in Places(i, kind, s) /\ p[Max(P)].val = s[Max(P)].val
    BY <1>3, <2>2
  <2>5. s[Max(P)].val = val
    BY <1>1, <1>5, <2>4 DEF Reads
  <2> QED BY <2>3, <2>4, <2>5 DEF kind, val
<1> QED BY <1>6, <1>7

LEMMA HeaderRead ==
    ASSUME NEW p, p # << >>
    PROVE  /\ RpcHeaderIn(p).method_name = In(2, "bytes", p)
           /\ RpcHeaderIn(p).args_size = In(3, "uint32", p)
<1> DEFINE F == RpcHeaderFields
           names == {f.name : f \in Range(F)}
           numOf(name) == CHOOSE k \in DOMAIN F : F[k].name = name
<1>1. /\ F[1] = Field("service_name", "bytes") /\ F[2] = Field("method_name", "bytes")
      /\ F[3] = Field("args_size", "uint32") /\ DOMAIN F = {1, 2, 3}
  BY DEF RpcHeaderFields
<1>2. Parsed(F, p) = [name \in names |-> In(numOf(name), F[numOf(name)].kind, p)]
  BY DEF Parsed
<1> HIDE DEF F
<1>3. F[2] \in Range(F) /\ F[3] \in Range(F)
  BY <1>1 DEF Range
<1>4. F[2].name \in names /\ F[3].name \in names
  BY <1>3
<1>5. /\ F[1].name = "service_name" /\ F[2].name = "method_name" /\ F[2].kind = "bytes"
      /\ F[3].name = "args_size" /\ F[3].kind = "uint32"
  BY <1>1 DEF Field
<1>6. numOf("method_name") = 2
  <2>1. \A k \in DOMAIN F : F[k].name = "method_name" => k = 2
    BY <1>1, <1>5
  <2>2. 2 \in DOMAIN F
    BY <1>1
  <2> QED BY <2>1, <2>2, <1>5
<1>7. numOf("args_size") = 3
  <2>1. \A k \in DOMAIN F : F[k].name = "args_size" => k = 3
    BY <1>1, <1>5
  <2>2. 3 \in DOMAIN F
    BY <1>1
  <2> QED BY <2>1, <2>2, <1>5
<1> HIDE DEF names, numOf
<1>8. /\ Parsed(F, p).method_name = In(2, "bytes", p)
      /\ Parsed(F, p).args_size = In(3, "uint32", p)
  BY <1>2, <1>4, <1>5, <1>6, <1>7
<1> QED BY <1>8 DEF F, RpcHeaderIn

LEMMA EmptyHeader == RpcHeaderIn(<< >>).service_name = ""
<1>1. RpcHeaderIn(<< >>) = Cleared(RpcHeaderFields)
  BY DEF RpcHeaderIn, Parsed
<1>2. Range(RpcHeaderFields) = {Field("service_name", "bytes"), Field("method_name", "bytes"),
                                Field("args_size", "uint32")}
  BY DEF Range, RpcHeaderFields
<1> DEFINE R == Range(RpcHeaderFields)
           f == CHOOSE g \in R : g.name = "service_name"
<1>3. Field("service_name", "bytes") \in R /\ Field("service_name", "bytes").name = "service_name"
  BY <1>2 DEF Field
<1>4. f \in R /\ f.name = "service_name"
  BY <1>3
<1>5. f.kind = "bytes"
  <2> HIDE DEF f
  <2>1. \A g \in R : g.name = "service_name" => g.kind = "bytes"
    BY <1>2 DEF Field
  <2> QED BY <1>4, <2>1
<1>6. Cleared(RpcHeaderFields).service_name = Default(f.kind)
  <2>1. "service_name" \in {g.name : g \in R}
    BY <1>3
  <2> QED BY <2>1 DEF Cleared
<1>7. Default("bytes") = ""
  BY DEF Default
<1> QED BY <1>1, <1>5, <1>6, <1>7, Zenon

\* The bytes s begin as the request of the call id, or are a beginning of it.
Starts(s, id, request) ==
    /\ IsSeq(s) /\ Len(s) > 0
    /\ \A j \in 1 .. Len(s) : j <= Len(request) => s[j] = Tagged(id, request[j])

\* However many of a request's units OnMessage takes, with or without others
\* behind them: what it finds is the request, or the request without arguments.
LEMMA FoundIsSent ==
    ASSUME NEW method \in Method, NEW args \in Args[method], NEW id,
           NEW s, Starts(s, id, Request(method, args)),
           NEW r \in Decoded(s)
    PROVE  r.method = method /\ r.args \in {args, ArgsIn(method, << >>)}
<1> DEFINE F == RpcHeaderFields
           m == RequestHeader(method, args)
           header == RpcHeaderOut(m)
           args_str == ArgsOut(method, args)
           h == Len(header)
           n == Len(args_str)
           R == Request(method, args)
           found == Header(s)
           p == ReadString(s, 2, h)
           q == ReadString(s, 2 + h, found.args_size)
<1>1. /\ h \in Nat /\ n \in Nat /\ IsSeq(header) /\ IsSeq(args_str)
      /\ Len(R) = 1 + h + n /\ R[1] = Size(h)
      /\ \A j \in 1 .. h : R[1 + j] = header[j]
      /\ \A j \in 1 .. n : R[1 + h + j] = args_str[j]
  BY RequestParts
<1>2. /\ IsList(F) /\ IsMessage(F, m) /\ Carries(F, m, Len(F), header)
  BY HeaderCarries
<1>3. m.method_name = method /\ m.args_size = n
  BY DEF RequestHeader
<1>4. /\ Len(F) = 3 /\ F[2].name = "method_name" /\ F[2].kind = "bytes"
      /\ F[3].name = "args_size" /\ F[3].kind = "uint32"
  BY DEF RpcHeaderFields, Field
<1>5. Len(s) \in Nat /\ Len(s) > 0 /\ IsSeq(s)
  BY DEF IsSeq, Starts
<1> HIDE DEF header, args_str, R, m, F
<1>6. \A j \in 1 .. Len(s) : j <= Len(R) => s[j] = Tagged(id, R[j])
  BY DEF R, Starts
<1>7. s[1].num = 0 /\ s[1].val = h
  <2>1. s[1] = Tagged(id, Size(h))
    <3>1. 1 \in 1 .. Len(s) /\ 1 <= Len(R)
      BY <1>1, <1>5
    <3> QED BY <1>1, <1>6, <3>1
  <2> QED BY <2>1 DEF Tagged, Size, Unit
<1>8. /\ IsSeq(p) /\ Len(p) \in Nat /\ Len(p) <= h
      /\ \A j \in 1 .. Len(p) : 2 + j - 1 \in 1 .. Len(s) /\ p[j] = s[2 + j - 1]
  <2>1. IsPiece(p, s, 2, h)
    <3> HIDE DEF h
    <3> QED BY <1>1, <1>5, StringRead
  <2> HIDE DEF p, h
  <2> QED BY <2>1 DEF IsPiece
<1>9. \A j \in 1 .. Len(p) : p[j] = Tagged(id, header[j])
  <2> SUFFICES ASSUME NEW j \in 1 .. Len(p)
               PROVE  p[j] = Tagged(id, header[j])
    OBVIOUS
  <2> HIDE DEF p, h
  <2>1. 1 + j \in 1 .. Len(s) /\ p[j] = s[1 + j] /\ j \in 1 .. h /\ 1 + j <= Len(R)
    BY <1>1, <1>8
  <2>2. s[1 + j] = Tagged(id, R[1 + j])
    BY <1>6, <2>1
  <2> QED BY <1>1, <2>1, <2>2
<1>10. /\ found.service_name # ""
       /\ ~(Len(ArgsStr(s)) < found.args_size)
       /\ r \in Decoding(found, ArgsStr(s))
  BY DEF Decoded
<1>11. ArgsStr(s) = q
  BY <1>7 DEF ArgsStr
<1>12. found = RpcHeaderIn(p) /\ p # << >>
  <2>1. found = IF s[1].num = 0 /\ WholeFields(ReadString(s, 2, s[1].val))
                THEN RpcHeaderIn(ReadString(s, 2, s[1].val)) ELSE RpcHeaderIn(<< >>)
    BY DEF Header
  <2> HIDE DEF p, found
  <2>2. found = RpcHeaderIn(p) \/ found = RpcHeaderIn(<< >>)
    BY <1>7, <2>1 DEF p
  <2> QED BY <1>10, <2>2, EmptyHeader
<1>13. found.method_name = In(2, "bytes", p) /\ found.args_size = In(3, "uint32", p)
  <2> HIDE DEF p, found
  <2> QED BY <1>12, HeaderRead
<1>14. found.method_name \in {"", method} /\ found.args_size \in {0, n}
  <2> HIDE DEF p, found, n, h
  <2>1. Begins(p, id, header)
    BY <1>8, <1>9 DEF Begins, h
  <2>2. ASSUME NEW i \in 1 .. 3, F[i].kind \notin {"bool", "message"}
        PROVE  In(i, F[i].kind, p) \in {Default(F[i].kind), m[F[i].name]}
    <3>1. i \in 1 .. Len(F)
      BY <1>4
    <3> QED BY <1>2, <2>1, <2>2, <3>1, BeginningRead
  <2>3. In(2, "bytes", p) \in {Default("bytes"), m.method_name}
    BY <1>4, <2>2
  <2>4. In(3, "uint32", p) \in {Default("uint32"), m.args_size}
    BY <1>4, <2>2
  <2> QED BY <1>3, <1>13, <2>3, <2>4 DEF Default
<1> HIDE DEF p, found, n, h
<1>15. found.method_name \in Method /\ r.method = found.method_name
       /\ r.args = ArgsIn(found.method_name, q)
  <2>1. r \in Decoding(found, q)
    BY <1>10, <1>11
  <2> HIDE DEF q
  <2>2. found.method_name \in Method
    BY <2>1, Zenon DEF Decoding
  <2>3. r \in {[method |-> found.method_name, service |-> found.service_name,
                args |-> ArgsIn(found.method_name, q)]}
    BY <2>1, <2>2, Zenon DEF Decoding
  <2> QED BY <2>2, <2>3
<1>16. found.method_name = method
  BY <1>14, <1>15, MethodAssumption
<1>17. CASE found.args_size = 0
  <2>1. 2 + h \in Nat \ {0} /\ 0 \in Nat
    BY <1>1
  <2>2. ReadString(s, 2 + h, 0) = << >>
    <3>1. IsPiece(ReadString(s, 2 + h, 0), s, 2 + h, 0)
      BY <1>5, <2>1, StringRead
    <3> QED BY <3>1 DEF IsPiece
  <2> QED BY <1>15, <1>16, <1>17, <2>2
<1>18. CASE found.args_size = n
  <2> DEFINE a == 2 + h
  <2>1. a \in Nat \ {0}
    BY <1>1
  <2>2. q = ReadString(s, a, n)
    BY <1>18
  <2> HIDE DEF a, q
  <2>3. /\ IsSeq(q) /\ Len(q) \in Nat /\ Len(q) <= n
        /\ \A j \in 1 .. Len(q) : a + j - 1 \in 1 .. Len(s) /\ q[j] = s[a + j - 1]
    <3>1. IsPiece(q, s, a, n)
      BY <1>1, <1>5, <2>1, <2>2, StringRead
    <3> QED BY <3>1 DEF IsPiece
  <2>4. Len(q) = n
    <3>1. ~(Len(q) < n)
      BY <1>10, <1>11, <1>18 DEF q
    <3> QED BY <1>1, <2>3, <3>1
  <2>5. ASSUME NEW j \in 1 .. n PROVE q[j] = Tagged(id, args_str[j])
    <3>1. 1 + h + j \in 1 .. Len(s) /\ q[j] = s[1 + h + j] /\ 1 + h + j <= Len(R)
      <4>1. a + j - 1 = 1 + h + j
        BY <1>1 DEF a
      <4>2. 1 + h + j <= Len(R)
        BY <1>1
      <4> QED BY <2>3, <2>4, <4>1, <4>2
    <3>2. s[1 + h + j] = Tagged(id, R[1 + h + j])
      BY <1>6, <3>1
    <3> QED BY <1>1, <3>1, <3>2
  <2>6. q = Tag(id, args_str)
    <3>1. q = [j \in 1 .. n |-> q[j]]
      BY <2>3, <2>4 DEF IsSeq
    <3>2. Tag(id, args_str) = [j \in 1 .. n |-> Tagged(id, args_str[j])]
      BY DEF Tag, n
    <3> QED BY <2>5, <3>1, <3>2
  <2>7. ArgsIn(method, q) = args
    BY <2>6, ArgsRead DEF args_str
  <2> QED BY <1>15, <1>16, <2>7
<1> QED BY <1>14, <1>15, <1>16, <1>17, <1>18

-----------------------------------------------------------------------------
(* What is on the wire is what was asked for                               *)

\* From unit j on the stream has the whole request of the call a.
Spans(stream, j, a) ==
    LET request == Request(a.method, a.args)
    IN  /\ a.id = stream[j].id
        /\ a.method \in Method /\ a.args \in Args[a.method]
        /\ j - 1 + Len(request) <= Len(stream)
        /\ \A i \in 1 .. Len(request) : stream[j - 1 + i] = Tagged(a.id, request[i])

\* Where a request begins, all of it is there.
StreamInv ==
    \A k \in Fd : \A j \in Nat : Opens(k, j) =>
        \E a \in asked : Spans(toServer[k], j, a)

SentInv == StreamInv /\ HandledAsAsked

LEMMA SpansBefore ==
    ASSUME NEW s, NEW r, IsSeq(s), IsSeq(r), NEW j \in 1 .. Len(s), NEW a, Spans(s, j, a)
    PROVE  Spans(s \o r, j, a)
<1> DEFINE request == Request(a.method, a.args)
           u == s \o r
<1>1. /\ a.id = s[j].id /\ a.method \in Method /\ a.args \in Args[a.method]
      /\ j - 1 + Len(request) <= Len(s)
      /\ \A i \in 1 .. Len(request) : s[j - 1 + i] = Tagged(a.id, request[i])
  BY DEF Spans
<1>2. IsSeq(request) /\ Len(request) \in Nat
  BY <1>1, RequestShape
<1>3. /\ Len(s) \in Nat /\ Len(r) \in Nat /\ Len(u) = Len(s) + Len(r)
      /\ \A i \in 1 .. Len(s) : u[i] = s[i]
  BY Joined
<1> HIDE DEF request, u
<1>4. u[j] = s[j] /\ j - 1 + Len(request) <= Len(u)
  BY <1>1, <1>2, <1>3
<1>5. ASSUME NEW i \in 1 .. Len(request)
      PROVE  u[j - 1 + i] = Tagged(a.id, request[i])
  <2>1. j - 1 + i \in 1 .. Len(s)
    BY <1>1, <1>2, <1>3
  <2> QED BY <1>1, <1>3, <2>1
<1> QED BY <1>1, <1>4, <1>5 DEF Spans, request, u

LEMMA SpansAfter ==
    ASSUME NEW s, IsSeq(s), NEW a, a.method \in Method, a.args \in Args[a.method]
    PROVE  Spans(s \o Tag(a.id, Request(a.method, a.args)), Len(s) + 1, a)
<1> DEFINE request == Request(a.method, a.args)
           r == Tag(a.id, request)
           u == s \o r
<1>1. IsSeq(request) /\ Len(request) \in Nat \ {0}
  BY RequestShape
<1> HIDE DEF request
<1>2. /\ IsSeq(r) /\ Len(r) = Len(request)
      /\ \A i \in 1 .. Len(request) : r[i].id = a.id
  BY <1>1, TagShape
<1>3. \A i \in 1 .. Len(request) : r[i] = Tagged(a.id, request[i])
  BY DEF Tag
<1> HIDE DEF r
<1>4. /\ Len(s) \in Nat /\ Len(u) = Len(s) + Len(r)
      /\ \A i \in 1 .. Len(r) : u[Len(s) + i] = r[i]
  BY <1>2, Joined
<1> HIDE DEF u
<1> DEFINE at == Len(s) + 1
<1>5. a.id = u[at].id /\ at - 1 + Len(request) <= Len(u)
  <2>1. 1 \in 1 .. Len(request)
    BY <1>1
  <2>2. u[Len(s) + 1] = r[1] /\ r[1].id = a.id
    BY <1>2, <1>4, <2>1
  <2>3. at - 1 + Len(request) <= Len(u)
    BY <1>1, <1>2, <1>4
  <2> QED BY <2>2, <2>3
<1>6. ASSUME NEW i \in 1 .. Len(request)
      PROVE  u[at - 1 + i] = Tagged(a.id, request[i])
  <2>1. at - 1 + i = Len(s) + i
    BY <1>1, <1>4
  <2>2. u[Len(s) + i] = r[i] /\ r[i] = Tagged(a.id, request[i])
    BY <1>2, <1>3, <1>4
  <2> HIDE DEF at
  <2> QED BY <2>1, <2>2
<1> HIDE DEF at
<1>7. Spans(u, at, a)
  BY <1>5, <1>6 DEF Spans, request
<1> QED BY <1>7 DEF at, u, r, request

LEMMA SpansRest ==
    ASSUME NEW s, IsSeq(s), NEW n \in 1 .. Len(s), NEW j \in 1 .. Len(s) - n,
           NEW a, Spans(s, n + j, a)
    PROVE  Spans(SubSeq(s, n + 1, Len(s)), j, a)
<1> DEFINE request == Request(a.method, a.args)
           u == SubSeq(s, n + 1, Len(s))
<1>1. /\ a.id = s[n + j].id /\ a.method \in Method /\ a.args \in Args[a.method]
      /\ n + j - 1 + Len(request) <= Len(s)
      /\ \A i \in 1 .. Len(request) : s[n + j - 1 + i] = Tagged(a.id, request[i])
  BY DEF Spans
<1>2. IsSeq(request) /\ Len(request) \in Nat
  BY <1>1, RequestShape
<1>3. /\ Len(s) \in Nat /\ Len(u) = Len(s) - n
      /\ \A i \in 1 .. Len(s) - n : u[i] = s[n + i]
  BY Cut
<1> HIDE DEF request, u
<1>4. u[j] = s[n + j] /\ j - 1 + Len(request) <= Len(u)
  BY <1>1, <1>2, <1>3
<1>5. ASSUME NEW i \in 1 .. Len(request)
      PROVE  u[j - 1 + i] = Tagged(a.id, request[i])
  <2>1. j - 1 + i \in 1 .. Len(s) - n /\ n + (j - 1 + i) = n + j - 1 + i
    BY <1>1, <1>2, <1>3
  <2> QED BY <1>1, <1>3, <2>1
<1> QED BY <1>1, <1>4, <1>5 DEF Spans, request, u

\* A step that neither sends nor handles.
LEMMA SentKept ==
    ASSUME SentInv, UNCHANGED <<toServer, handled>>, asked \subseteq asked'
    PROVE  SentInv'
<1>1. \A k, j : Opens(k, j)' <=> Opens(k, j)
  BY DEF Opens
<1>2. StreamInv'
  BY <1>1 DEF SentInv, StreamInv
<1>3. HandledAsAsked'
  BY DEF SentInv, HandledAsAsked
<1> QED BY <1>2, <1>3 DEF SentInv

LEMMA SendSent ==
    ASSUME RpcInv, SentInv, NEW t \in Thread, Send(t)
    PROVE  SentInv'
<1> DEFINE k == sockfd_
<1>0. At(t, "send") /\ k \in Fd /\ UNCHANGED <<asked, handled>>
  BY DEF Send, Usable, RpcInv, TypeInv, histVars
<1>1. \/ toServer' = toServer
      \/ toServer' = [toServer EXCEPT ![k] =
                           @ \o Tag(call[t].id, Request(call[t].method, ArgsOf(t)))]
  BY DEF Send
<1> HIDE DEF k
<1>2. CASE toServer' = toServer
  BY <1>0, <1>2, SentKept
<1>3. CASE toServer' = [toServer EXCEPT ![k] =
                           @ \o Tag(call[t].id, Request(call[t].method, ArgsOf(t)))]
  <2> DEFINE s == toServer[k]
             b == CHOOSE x \in asked : x.id = call[t].id
  <2>1. PICK a \in asked : /\ a.id = call[t].id /\ a.method = call[t].method
                           /\ a.method \in Method /\ a.args \in Args[a.method]
    BY <1>0 DEF RpcInv, AskedInv, At
  <2>2. ArgsOf(t) = a.args
    <3>1. b \in asked /\ b.id = call[t].id
      BY <2>1
    <3> HIDE DEF b
    <3>2. b = a
      BY <2>1, <3>1 DEF RpcInv, AskedInv
    <3> QED BY <3>2 DEF ArgsOf, b
  <2> DEFINE r == Tag(a.id, Request(a.method, a.args))
  <2>3. IsSeq(s) /\ IsSeq(r) /\ Len(s) \in Nat
    <3>1. IsSeq(Request(a.method, a.args))
      BY <2>1, RequestShape
    <3>2. IsSeq(s)
      BY <1>0 DEF RpcInv, TypeInv
    <3> QED BY <3>1, <3>2, TagShape DEF IsSeq
  <2>4. toServer'[k] = s \o r /\ \A l \in Fd \ {k} : toServer'[l] = toServer[l]
    BY <1>0, <1>3, <2>1, <2>2 DEF RpcInv, TypeInv
  <2>5. \A l \in Fd : \A j \in Nat : Opens(l, j)' =>
            \/ Opens(l, j)
            \/ l = k /\ j = Len(toServer[k]) + 1
    BY <1>0, <1>3, OnTheWire, Zenon
  <2> HIDE DEF r
  <2>6. ASSUME NEW l \in Fd, NEW j \in Nat, Opens(l, j)'
        PROVE  \E c \in asked : Spans(toServer'[l], j, c)
    <3>1. CASE Opens(l, j) /\ l # k
      BY <2>4, <3>1 DEF SentInv, StreamInv
    <3>2. CASE Opens(l, j) /\ l = k
      <4>1. PICK c \in asked : Spans(s, j, c)
        BY <3>2 DEF SentInv, StreamInv
      <4>2. j \in 1 .. Len(s)
        BY <3>2 DEF Opens
      <4> HIDE DEF s
      <4>3. Spans(s \o r, j, c)
        BY <2>3, <4>1, <4>2, SpansBefore
      <4> QED BY <2>4, <3>2, <4>3
    <3>3. CASE l = k /\ j = Len(s) + 1
      <4>1. Spans(s \o r, Len(s) + 1, a)
        BY <2>1, <2>3, SpansAfter DEF r
      <4> QED BY <2>1, <2>4, <3>3, <4>1
    <3> QED BY <2>5, <2>6, <3>1, <3>2, <3>3
  <2>7. StreamInv'
    <3>1. \A l \in Fd : \A j \in Nat : Opens(l, j)' =>
             \E c \in asked' : Spans(toServer'[l], j, c)
      BY <1>0, <2>6
    <3> QED BY <3>1 DEF StreamInv
  <2>8. HandledAsAsked'
    BY <1>0 DEF SentInv, HandledAsAsked
  <2> QED BY <2>7, <2>8 DEF SentInv
<1> QED BY <1>1, <1>2, <1>3

\* A request that OnMessage finds is the one that begins there.
LEMMA FoundIsAsked ==
    ASSUME RpcInv, SentInv, NEW k \in Fd, NEW n \in 1 .. Len(toServer[k]),
           NEW r \in Decoded(SubSeq(toServer[k], 1, n))
    PROVE  /\ Opens(k, 1) /\ SubSeq(toServer[k], 1, n)[1] = toServer[k][1]
           /\ \E a \in asked : /\ a.id = toServer[k][1].id /\ a.method = r.method
                               /\ r.args \in {a.args, ArgsIn(a.method, << >>)}
<1> DEFINE s == toServer[k]
           taken == SubSeq(s, 1, n)
<1>1. IsSeq(s)
  BY DEF RpcInv, TypeInv
<1>2. /\ Len(s) \in Nat /\ IsSeq(taken) /\ Len(taken) = n
      /\ \A j \in 1 .. n : taken[j] = s[j]
  BY <1>1, Cut
<1>3. r \in Decoded(taken)
  OBVIOUS
<1>4. n \in 1 .. Len(s)
  OBVIOUS
<1> HIDE DEF taken
<1>5. taken[1] = s[1] /\ Len(taken) > 0 /\ 1 \in 1 .. Len(s)
  BY <1>2, <1>4
<1>6. Opens(k, 1)
  BY <1>3, <1>5, FoundAtFront DEF Opens
<1>7. PICK a \in asked : Spans(s, 1, a)
  BY <1>6 DEF SentInv, StreamInv
<1> HIDE DEF s
<1> DEFINE request == Request(a.method, a.args)
<1>8. /\ a.id = s[1].id /\ a.method \in Method /\ a.args \in Args[a.method]
      /\ \A i \in 1 .. Len(request) : s[1 - 1 + i] = Tagged(a.id, request[i])
  BY <1>7 DEF Spans
<1>9. Len(request) \in Nat
  BY <1>8, RequestShape
<1>10. \A j \in 1 .. Len(taken) : j <= Len(request) => taken[j] = Tagged(a.id, request[j])
  <2> HIDE DEF request
  <2> SUFFICES ASSUME NEW j \in 1 .. Len(taken), j <= Len(request)
               PROVE  taken[j] = Tagged(a.id, request[j])
    OBVIOUS
  <2>1. j \in 1 .. Len(request) /\ 1 - 1 + j = j /\ j \in 1 .. n
    BY <1>2, <1>9
  <2> QED BY <1>2, <1>8, <2>1
<1>11. r.method = a.method /\ r.args \in {a.args, ArgsIn(a.method, << >>)}
  <2>1. Starts(taken, a.id, Request(a.method, a.args))
    BY <1>2, <1>5, <1>10 DEF Starts
  <2> QED BY <1>3, <1>8, <2>1, FoundIsSent
<1> QED BY <1>5, <1>6, <1>8, <1>11 DEF s, taken

LEMMA OnMessageSent ==
    ASSUME RpcInv, SentInv, NEW k \in Fd, OnMessage(k)
    PROVE  SentInv'
<1>1. PICK n \in 1 .. Len(toServer[k]) :
        LET taken == SubSeq(toServer[k], 1, n)
        IN  /\ toServer' = [toServer EXCEPT ![k] = SubSeq(@, n + 1, Len(@))]
            /\ \/ UNCHANGED handled
               \/ \E r \in Decoded(taken) : \E reply \in Replies[r.method] :
                    handled' = Append(handled, [id |-> taken[1].id, method |-> r.method,
                                                args |-> r.args, reply |-> reply])
  BY DEF OnMessage
<1>2. asked' = asked
  BY DEF OnMessage
<1> DEFINE s == toServer[k]
           u == SubSeq(s, n + 1, Len(s))
<1>3. IsSeq(s) /\ IsSeq(handled)
  BY DEF RpcInv, TypeInv
<1>4. \A l \in Fd : \A j \in Nat : Opens(l, j)' =>
         LET i == IF l = k THEN n + j ELSE j
         IN  i \in Nat /\ Opens(l, i) /\ toServer'[l][j] = toServer[l][i]
  BY <1>1, OffTheWire
<1>5. toServer'[k] = u /\ \A l \in Fd \ {k} : toServer'[l] = toServer[l]
  BY <1>1 DEF RpcInv, TypeInv
<1>6. n \in 1 .. Len(s) /\ Len(s) \in Nat /\ Len(u) = Len(s) - n
  BY <1>3, Cut
<1>7. ASSUME NEW l \in Fd, NEW j \in Nat, Opens(l, j)'
      PROVE  \E c \in asked : Spans(toServer'[l], j, c)
  <2>1. CASE l # k
    <3>1. Opens(l, j) /\ toServer'[l] = toServer[l]
      BY <1>4, <1>5, <1>7, <2>1
    <3> QED BY <3>1 DEF SentInv, StreamInv
  <2>2. CASE l = k
    <3>1. n + j \in Nat /\ Opens(k, n + j)
      BY <1>4, <1>7, <2>2
    <3>2. PICK c \in asked : Spans(s, n + j, c)
      BY <3>1 DEF SentInv, StreamInv
    <3>3. j \in 1 .. Len(u)
      BY <1>5, <1>7, <2>2 DEF Opens
    <3> HIDE DEF s
    <3>4. j \in 1 .. Len(s) - n
      BY <1>6, <3>3
    <3>5. Spans(u, j, c)
      BY <1>3, <1>6, <3>2, <3>4, SpansRest
    <3> QED BY <1>5, <2>2, <3>5
  <2> QED BY <2>1, <2>2
<1>8. StreamInv'
  <2>1. \A l \in Fd : \A j \in Nat : Opens(l, j)' =>
           \E c \in asked' : Spans(toServer'[l], j, c)
    BY <1>2, <1>7
  <2> QED BY <2>1 DEF StreamInv
<1>9. HandledAsAsked'
  <2>1. CASE UNCHANGED handled
    BY <1>2, <2>1 DEF SentInv, HandledAsAsked
  <2>2. ASSUME NEW r \in Decoded(SubSeq(toServer[k], 1, n)), NEW reply \in Replies[r.method],
               handled' = Append(handled, [id |-> SubSeq(toServer[k], 1, n)[1].id,
                                           method |-> r.method,
                                           args |-> r.args, reply |-> reply])
        PROVE  HandledAsAsked'
    <3> DEFINE x == SubSeq(toServer[k], 1, n)[1].id
               e == [id |-> x, method |-> r.method, args |-> r.args, reply |-> reply]
    <3>1. e.id = x /\ e.method = r.method /\ e.args = r.args
      OBVIOUS
    <3>2. handled' = Append(handled, e)
      BY <2>2
    <3>3. \E a \in asked : /\ a.id = x /\ a.method = r.method
                           /\ r.args \in {a.args, ArgsIn(a.method, << >>)}
      BY FoundIsAsked
    <3> HIDE DEF e, x
    <3>4. /\ Len(handled) \in Nat /\ Len(handled') = Len(handled) + 1
          /\ handled'[Len(handled) + 1] = e
          /\ \A i \in 1 .. Len(handled) : handled'[i] = handled[i]
      BY <1>3, <3>2, Appended
    <3>5. ASSUME NEW i \in 1 .. Len(handled')
          PROVE  \E a \in asked : /\ a.id = handled'[i].id /\ a.method = handled'[i].method
                                  /\ handled'[i].args \in {a.args, ArgsIn(a.method, << >>)}
      <4>1. i \in 1 .. Len(handled) \/ i = Len(handled) + 1
        BY <3>4
      <4>2. CASE i \in 1 .. Len(handled)
        BY <3>4, <4>2 DEF SentInv, HandledAsAsked
      <4>3. CASE i = Len(handled) + 1
        BY <3>1, <3>3, <3>4, <4>3
      <4> QED BY <4>1, <4>2, <4>3
    <3> QED BY <1>2, <3>5 DEF HandledAsAsked
  <2> QED BY <1>1, <2>1, <2>2
<1> QED BY <1>8, <1>9 DEF SentInv

LEMMA BreakSent ==
    ASSUME RpcInv, SentInv, NEW k \in Fd, Break(k)
    PROVE  SentInv'
<1>1. UNCHANGED <<asked, handled>> /\ toServer' = [toServer EXCEPT ![k] = << >>]
  BY DEF Break
<1>2. toServer'[k] = << >> /\ \A l \in Fd \ {k} : toServer'[l] = toServer[l]
  BY <1>1 DEF RpcInv, TypeInv
<1>3. ASSUME NEW l \in Fd, NEW j \in Nat, Opens(l, j)'
      PROVE  l # k /\ Opens(l, j)
  <2>1. ~Opens(k, j)'
    BY <1>2 DEF Opens
  <2> QED BY <1>2, <1>3, <2>1 DEF Opens
<1>4. StreamInv'
  <2>1. \A l \in Fd : \A j \in Nat : Opens(l, j)' =>
           \E c \in asked' : Spans(toServer'[l], j, c)
    BY <1>1, <1>2, <1>3 DEF SentInv, StreamInv
  <2> QED BY <2>1 DEF StreamInv
<1>5. HandledAsAsked'
  BY <1>1 DEF SentInv, HandledAsAsked
<1> QED BY <1>4, <1>5 DEF SentInv

LEMMA InitSent == Init => SentInv
<1> SUFFICES ASSUME Init PROVE SentInv
  OBVIOUS
<1>1. Len(handled) = 0 /\ \A k \in Fd : \A j \in Nat : ~Opens(k, j)
  BY DEF Init, Opens
<1> QED BY <1>1 DEF SentInv, StreamInv, HandledAsAsked

LEMMA NextSent == RpcInv /\ SentInv /\ [Next]_vars => SentInv'
<1> SUFFICES ASSUME RpcInv, SentInv, [Next]_vars PROVE SentInv'
  OBVIOUS
<1>1. ASSUME NEW t \in Thread, NEW method \in Method, NEW args \in Args[method],
             CallMethod(t, method, args)
      PROVE  SentInv'
  <2>1. UNCHANGED <<toServer, handled>> /\ asked \subseteq asked'
    BY <1>1 DEF CallMethod, netVars
  <2> QED BY <2>1, SentKept
<1>2. ASSUME NEW t \in Thread, ThreadStep(t) PROVE SentInv'
  <2>1. CASE Send(t) BY <2>1, SendSent
  <2>2. CASE ~Send(t)
    <3>1. UNCHANGED <<toServer, handled, asked>>
      BY <1>2, <2>2 DEF ThreadStep, Socket, SocketFails, Connect, SendFails, Recv, Receive,
           ReceiveEnd, ReceiveFails, Close, Unset, Return, histVars, netVars
    <3> QED BY <3>1, SentKept
  <2> QED BY <2>1, <2>2
<1>3. ASSUME NEW k \in Fd, OnMessage(k) PROVE SentInv'
  BY <1>3, OnMessageSent
<1>4. ASSUME NEW k \in Fd, Break(k) PROVE SentInv'
  BY <1>4, BreakSent
<1>5. CASE UNCHANGED vars
  BY <1>5, SentKept DEF vars
<1> QED BY <1>1, <1>2, <1>3, <1>4, <1>5 DEF Next

\* What the provider executes is what was asked for, method and arguments, wherever
\* the bytes were cut and whatever was in front of them
\* (rpcprovider.cpp:110-164); a header cut right before args_size gets through
\* without arguments.
THEOREM ExecutedAsAsked == Spec => []HandledAsAsked
<1>1. RpcInv /\ SentInv /\ [Next]_vars => (RpcInv /\ SentInv)'
  BY NextRpcInv, NextSent
<1>2. Init => RpcInv /\ SentInv
  BY InitRpcInv, InitSent
<1>3. RpcInv /\ SentInv => HandledAsAsked
  BY DEF SentInv
<1> QED BY <1>1, <1>2, <1>3, PTL DEF Spec

-----------------------------------------------------------------------------
(* Whose answer it is                                                      *)

\* A socket that is not connected yet carries nothing, and nothing more comes to
\* the provider over one that has ended.
EmptyInv ==
    \A k \in Fd :
        /\ conn[k].state # "open" => toServer[k] = << >>
        /\ conn[k].state \in {"free", "new"} => toClient[k] = << >>

\* t has sent its request and has no answer yet.
Waits(t) ==
    \/ call[t].pc \in {"recv", "wait"}
    \/ call[t].pc = "close" /\ call[t].then = "failed"

\* What comes over k is the answer to t, all of it.
Holds(k, t) ==
    \E i \in 1 .. Len(handled) :
        /\ handled[i].id = call[t].id /\ handled[i].method = call[t].method
        /\ call[t].method \in Method /\ handled[i].reply \in Replies[call[t].method]
        /\ toClient[k] = Tag(call[t].id, ReplyOut(call[t].method, handled[i].reply))

\* What is on the wire belongs to a thread that waits.
Awaited(k) ==
    /\ \A j \in Nat : Opens(k, j) =>
         \E t \in Thread : Waits(t) /\ toServer[k][j].id = call[t].id
    /\ toClient[k] # << >> => \E t \in Thread : Waits(t) /\ Holds(k, t)

\* While calls do not overlap, nothing of an earlier one is on the socket, unless
\* an answer came in pieces.
PairInv ==
    ~shared =>
        /\ \A t \in Thread : At(t, "wait") => call[t].fd = sockfd_
        /\ \A k \in Fd : conn[k].mine /\ ~conn[k].cut => Awaited(k)
        /\ \A t \in Thread : HasOwnReply(t) \/ conn[call[t].fd].cut

LEMMA InitEmpty == Init => EmptyInv
BY DEF Init, EmptyInv

LEMMA NextEmpty == RpcInv /\ EmptyInv /\ [Next]_vars => EmptyInv'
<1> SUFFICES ASSUME RpcInv, EmptyInv, [Next]_vars PROVE EmptyInv'
  OBVIOUS
<1>1. ASSUME UNCHANGED <<toServer, toClient>>,
             \A k \in Fd : conn'[k].state = conn[k].state \/ conn'[k].state = "open"
                           \/ (conn[k].state = "free" /\ conn'[k].state = "new")
      PROVE  EmptyInv'
  BY <1>1 DEF EmptyInv
<1>2. ASSUME NEW t \in Thread, NEW method \in Method, NEW args \in Args[method],
             CallMethod(t, method, args)
      PROVE  EmptyInv'
  BY <1>1, <1>2 DEF CallMethod, netVars
<1>3. ASSUME NEW t \in Thread, ThreadStep(t) PROVE EmptyInv'
  <2>1. CASE Socket(t)
    <3>1. PICK k \in Fd : /\ conn[k].state = "free"
                          /\ conn' = [conn EXCEPT ![k].state = "new", ![k].mine = TRUE]
      BY <2>1 DEF Socket
    <3>2. UNCHANGED <<toServer, toClient>>
      BY <2>1 DEF Socket
    <3>3. \A l \in Fd : conn'[l].state = conn[l].state
                        \/ (conn[l].state = "free" /\ conn'[l].state = "new")
      BY <3>1 DEF RpcInv, TypeInv
    <3> QED BY <1>1, <3>2, <3>3
  <2>2. CASE Connect(t)
    <3>1. UNCHANGED <<toServer, toClient>>
      BY <2>2 DEF Connect
    <3>2. \A l \in Fd : conn'[l].state = conn[l].state \/ conn'[l].state = "open"
      BY <2>2 DEF Connect, RpcInv, TypeInv
    <3> QED BY <1>1, <3>1, <3>2
  <2>3. CASE Send(t)
    <3>1. UNCHANGED <<conn, toClient>>
      BY <2>3 DEF Send
    <3>2. \A l \in Fd : conn[l].state # "open" => toServer'[l] = toServer[l]
      <4>1. conn[sockfd_].state \in {"open", "closed"}
        BY <2>3 DEF Send
      <4>2. \/ toServer' = toServer
            \/ conn[sockfd_].state = "open" /\ \A l \in Fd \ {sockfd_} : toServer'[l] = toServer[l]
        BY <2>3, <4>1 DEF Send, RpcInv, TypeInv
      <4> QED BY <4>2
    <3> QED BY <3>1, <3>2 DEF EmptyInv
  <2>4. CASE Receive(t)
    <3> DEFINE k == call[t].fd
    <3>1. UNCHANGED toServer
      BY <2>4 DEF Receive
    <3>2. PICK n \in 1 .. Len(toClient[k]) :
            /\ toClient' = [toClient EXCEPT ![k] = SubSeq(@, n + 1, Len(@))]
            /\ conn' = [conn EXCEPT ![k].cut = @ \/ n < Len(toClient[k])]
      BY <2>4 DEF Receive
    <3>3. k \in Fd
      BY <2>4 DEF Receive, RpcInv, PcInv
    <3>4. \A l \in Fd : conn'[l].state = conn[l].state
      BY <3>2 DEF RpcInv, TypeInv
    <3>5. toClient[k] # << >>
      BY <3>2
    <3>6. \A l \in Fd \ {k} : toClient'[l] = toClient[l]
      BY <3>2 DEF RpcInv, TypeInv
    <3> HIDE DEF k
    <3> QED BY <3>1, <3>3, <3>4, <3>5, <3>6 DEF EmptyInv
  <2>5. CASE Close(t)
    <3>1. UNCHANGED <<toServer, toClient>>
      BY <2>5 DEF Close
    <3>2. \A l \in Fd : conn'[l].state = conn[l].state
      BY <2>5 DEF Close, RpcInv, TypeInv
    <3> QED BY <1>1, <3>1, <3>2
  <2>6. CASE SocketFails(t) \/ SendFails(t) \/ Recv(t) \/ ReceiveEnd(t)
             \/ ReceiveFails(t) \/ Unset(t) \/ Return(t)
    <3>1. UNCHANGED <<conn, toServer, toClient>>
      BY <2>6 DEF SocketFails, SendFails, Recv, ReceiveEnd, ReceiveFails, Unset, Return, netVars
    <3> QED BY <1>1, <3>1
  <2> QED BY <1>3, <2>1, <2>2, <2>3, <2>4, <2>5, <2>6 DEF ThreadStep
<1>4. ASSUME NEW k \in Fd, OnMessage(k) PROVE EmptyInv'
  <2>1. conn' = conn /\ conn[k].state = "open"
    BY <1>4 DEF OnMessage
  <2>2. \A l \in Fd \ {k} : toServer'[l] = toServer[l]
    BY <1>4 DEF OnMessage, RpcInv, TypeInv
  <2>3. \A l \in Fd \ {k} : toClient'[l] = toClient[l]
    <3>1. \/ UNCHANGED toClient
          \/ \E x : toClient' = [toClient EXCEPT ![k] = x]
      BY <1>4 DEF OnMessage
    <3> QED BY <3>1 DEF RpcInv, TypeInv
  <2> QED BY <2>1, <2>2, <2>3 DEF EmptyInv
<1>5. ASSUME NEW k \in Fd, Break(k) PROVE EmptyInv'
  <2>1. /\ conn' = [conn EXCEPT ![k].state = "closed"]
        /\ toServer' = [toServer EXCEPT ![k] = << >>]
        /\ toClient' = toClient \/ toClient' = [toClient EXCEPT ![k] = << >>]
    BY <1>5 DEF Break
  <2>2. /\ conn'[k].state = "closed" /\ toServer'[k] = << >>
        /\ \A l \in Fd \ {k} : conn'[l] = conn[l] /\ toServer'[l] = toServer[l]
                               /\ toClient'[l] = toClient[l]
    BY <2>1 DEF RpcInv, TypeInv
  <2> QED BY <2>2 DEF EmptyInv
<1>6. CASE UNCHANGED vars
  BY <1>1, <1>6 DEF vars
<1> QED BY <1>2, <1>3, <1>4, <1>5, <1>6 DEF Next

\* While calls do not overlap, the others are idle, before and after.
OthersIdle(t) == \A u \in Thread \ {t} : At(u, "idle")

LEMMA AloneBefore ==
    ASSUME RpcInv, NEW t \in Thread, ~At(t, "idle"), ~shared
    PROVE  OthersIdle(t)
BY DEF RpcInv, SoloInv, OneCaller, OthersIdle

LEMMA AloneAfter ==
    ASSUME RpcInv, NEW t \in Thread, ~At(t, "idle"), ~shared,
           \A u \in Thread \ {t} : call'[u] = call[u]
    PROVE  OthersIdle(t)'
<1>1. \A u \in Thread \ {t} : At(u, "idle")
  BY AloneBefore DEF OthersIdle
<1>2. \A u \in Thread \ {t} : At(u, "idle")'
  BY <1>1 DEF At
<1> QED BY <1>2 DEF OthersIdle

\* Nobody is receiving.
LEMMA QuietPair ==
    ASSUME NEW t \in Thread, call'[t].pc \notin {"wait", "done"},
           ~shared' => OthersIdle(t)' /\ \A k \in Fd : conn'[k].mine /\ ~conn'[k].cut => Awaited(k)'
    PROVE  PairInv'
<1> SUFFICES ASSUME ~shared' PROVE PairInv'
  BY DEF PairInv
<1>1. \A u \in Thread : call'[u].pc \notin {"wait", "done"}
  BY DEF OthersIdle, At
<1>2. \A u \in Thread : (HasOwnReply(u) \/ conn[call[u].fd].cut)'
  BY <1>1 DEF HasOwnReply, At
<1>3. \A u \in Thread : At(u, "wait")' => call'[u].fd = sockfd_'
  BY <1>1 DEF At
<1>4. \A k \in Fd : (conn[k].mine /\ ~conn[k].cut => Awaited(k))'
  OBVIOUS
<1> QED BY <1>2, <1>3, <1>4 DEF PairInv

\* The wire is as it was, and nobody waited.
LEMMA UnawaitedKept ==
    ASSUME PairInv, ~shared, \A u \in Thread : ~Waits(u), UNCHANGED <<toServer, toClient>>,
           \A k \in Fd : conn'[k].mine /\ ~conn'[k].cut => conn[k].mine /\ ~conn[k].cut
    PROVE  \A k \in Fd : conn'[k].mine /\ ~conn'[k].cut => Awaited(k)'
<1> SUFFICES ASSUME NEW k \in Fd, conn'[k].mine, ~conn'[k].cut
             PROVE  Awaited(k)'
  OBVIOUS
<1>1. Awaited(k)
  BY DEF PairInv
<1>2. toClient[k] = << >> /\ \A j \in Nat : ~Opens(k, j)
  BY <1>1 DEF Awaited
<1>3. toClient'[k] = << >> /\ \A j \in Nat : ~Opens(k, j)'
  BY <1>2 DEF Opens
<1> QED BY <1>3 DEF Awaited

\* The wire is as it was, and whoever waited waits.
LEMMA AwaitedKept ==
    ASSUME PairInv, ~shared, UNCHANGED <<toServer, toClient, handled>>,
           \A u \in Thread : Waits(u) =>
               Waits(u)' /\ call'[u].id = call[u].id /\ call'[u].method = call[u].method,
           \A k \in Fd : conn'[k].mine /\ ~conn'[k].cut => conn[k].mine /\ ~conn[k].cut
    PROVE  \A k \in Fd : conn'[k].mine /\ ~conn'[k].cut => Awaited(k)'
<1> SUFFICES ASSUME NEW k \in Fd, conn'[k].mine, ~conn'[k].cut
             PROVE  Awaited(k)'
  OBVIOUS
<1>1. Awaited(k)
  BY DEF PairInv
<1>2. \A u \in Thread : Waits(u) /\ Holds(k, u) => Holds(k, u)'
  BY DEF Holds
<1>3. \A j \in Nat : Opens(k, j)' =>
         \E u \in Thread : Waits(u)' /\ toServer'[k][j].id = call'[u].id
  BY <1>1 DEF Awaited, Opens
<1>4. toClient'[k] # << >> => \E u \in Thread : Waits(u)' /\ Holds(k, u)'
  BY <1>1, <1>2 DEF Awaited
<1> QED BY <1>3, <1>4 DEF Awaited

LEMMA SocketPair ==
    ASSUME RpcInv, EmptyInv, PairInv, NEW t \in Thread, Socket(t)
    PROVE  PairInv'
<1>1. Steps(t, "connect", call[t].fd, call[t].then)
  BY GotoSteps DEF Socket, RpcInv, Pc
<1>2. ~At(t, "idle") /\ At(t, "socket") /\ UNCHANGED <<toServer, toClient, shared>>
  BY DEF Socket, At, histVars
<1>3. PICK k \in Fd : /\ conn[k].state = "free"
                      /\ conn' = [conn EXCEPT ![k].state = "new", ![k].mine = TRUE]
  BY DEF Socket
<1>4. ASSUME ~shared', NEW l \in Fd, conn'[l].mine
      PROVE  Awaited(l)'
  <2>1. sockfd_ = -1 /\ \A u \in Thread : ~At(u, "unset")
    BY <1>2, <1>4 DEF RpcInv, SoloInv, OneCaller, At
  <2>2. \A j \in Fd : ~conn[j].mine
    BY <1>2, <1>4, <2>1, SocketAssumption DEF RpcInv, SoloInv, Fd
  <2>3. l = k
    BY <1>3, <1>4, <2>2 DEF RpcInv, TypeInv
  <2>4. toServer'[l] = << >> /\ toClient'[l] = << >>
    BY <1>2, <1>3, <2>3 DEF EmptyInv
  <2>5. \A j \in Nat : ~Opens(l, j)'
    BY <2>4 DEF Opens
  <2> QED BY <2>4, <2>5 DEF Awaited
<1>5. ~shared' => OthersIdle(t)'
  BY <1>1, <1>2, AloneAfter DEF Steps
<1>6. call'[t].pc \notin {"wait", "done"}
  BY <1>1 DEF Steps
<1> QED BY <1>4, <1>5, <1>6, QuietPair

\* A step of a thread that has not sent its request, or has its answer.
LEMMA UnawaitedPair ==
    ASSUME RpcInv, PairInv, NEW t \in Thread, ~At(t, "idle"), ~Waits(t),
           NEW pc, NEW fd, NEW then, Steps(t, pc, fd, then), pc \notin {"wait", "done"},
           UNCHANGED <<toServer, toClient, shared>>,
           \A k \in Fd : conn'[k].mine /\ ~conn'[k].cut => conn[k].mine /\ ~conn[k].cut
    PROVE  PairInv'
<1>1. ~shared => OthersIdle(t) /\ OthersIdle(t)'
  BY AloneBefore, AloneAfter DEF Steps
<1>2. ~shared => \A u \in Thread : ~Waits(u)
  BY <1>1 DEF OthersIdle, At, Waits
<1>3. ~shared => \A k \in Fd : conn'[k].mine /\ ~conn'[k].cut => Awaited(k)'
  BY <1>2, UnawaitedKept
<1>4. call'[t].pc \notin {"wait", "done"}
  BY DEF Steps
<1> QED BY <1>1, <1>3, <1>4, QuietPair

LEMMA SocketFailsPair ==
    ASSUME RpcInv, PairInv, NEW t \in Thread, SocketFails(t)
    PROVE  PairInv'
<1>1. Steps(t, "failed", call[t].fd, call[t].then)
  BY GotoSteps DEF SocketFails, RpcInv, Pc
<1>2. ~At(t, "idle") /\ ~Waits(t) /\ UNCHANGED <<conn, toServer, toClient, shared>>
  BY DEF SocketFails, At, Waits, histVars, netVars
<1> QED BY <1>1, <1>2, UnawaitedPair

LEMMA ConnectPair ==
    ASSUME RpcInv, PairInv, NEW t \in Thread, Connect(t)
    PROVE  PairInv'
<1>1. \/ Steps(t, "send", call[t].fd, call[t].then)
      \/ Steps(t, "close", call[t].fd, "failed")
  BY GotoSteps, ThenSteps DEF Connect, RpcInv, Pc
<1>2. ~At(t, "idle") /\ ~Waits(t) /\ UNCHANGED <<toServer, toClient, shared>>
  BY DEF Connect, At, Waits, histVars
<1>3. \A k \in Fd : conn'[k].mine = conn[k].mine /\ conn'[k].cut = conn[k].cut
  BY DEF Connect, RpcInv, TypeInv
<1> QED BY <1>1, <1>2, <1>3, UnawaitedPair

LEMMA SendFailsPair ==
    ASSUME RpcInv, PairInv, NEW t \in Thread, SendFails(t)
    PROVE  PairInv'
<1>1. Steps(t, "close", call[t].fd, "socket")
  BY ThenSteps DEF SendFails, RpcInv
<1>2. ~At(t, "idle") /\ ~Waits(t) /\ UNCHANGED <<conn, toServer, toClient, shared>>
  BY DEF SendFails, At, Waits, histVars, netVars
<1> QED BY <1>1, <1>2, UnawaitedPair

LEMMA UnsetPair ==
    ASSUME RpcInv, PairInv, NEW t \in Thread, Unset(t)
    PROVE  PairInv'
<1>0. call[t].then \in {"socket", "failed"} /\ At(t, "unset")
  BY DEF Unset, RpcInv, PcInv
<1>1. Steps(t, call[t].then, call[t].fd, call[t].then)
  BY <1>0, GotoSteps DEF Unset, RpcInv, Pc
<1>2. ~At(t, "idle") /\ ~Waits(t) /\ UNCHANGED <<conn, toServer, toClient, shared>>
  BY DEF Unset, At, Waits, histVars, netVars
<1> QED BY <1>0, <1>1, <1>2, UnawaitedPair

LEMMA ReturnPair ==
    ASSUME RpcInv, PairInv, NEW t \in Thread, Return(t)
    PROVE  PairInv'
<1>1. call' = [call EXCEPT ![t] = NoCall] /\ call[t].pc \in {"done", "failed"}
  BY DEF Return
<1>2. call'[t].pc = "idle" /\ \A u \in Thread \ {t} : call'[u] = call[u]
  BY <1>1 DEF RpcInv, PcInv, NoCall
<1>3. ~At(t, "idle") /\ ~Waits(t) /\ UNCHANGED <<conn, toServer, toClient, shared>>
  BY <1>1 DEF Return, At, Waits, histVars, netVars
<1>4. ~shared => OthersIdle(t) /\ OthersIdle(t)'
  BY <1>2, <1>3, AloneBefore, AloneAfter
<1>5. ~shared => \A u \in Thread : ~Waits(u)
  BY <1>3, <1>4 DEF OthersIdle, At, Waits
<1>6. ~shared => \A k \in Fd : conn'[k].mine /\ ~conn'[k].cut => Awaited(k)'
  BY <1>3, <1>5, UnawaitedKept
<1> QED BY <1>2, <1>3, <1>4, <1>6, QuietPair

LEMMA CallMethodPair ==
    ASSUME RpcInv, PairInv, NEW t \in Thread, NEW method \in Method, NEW args \in Args[method],
           CallMethod(t, method, args)
    PROVE  PairInv'
<1> DEFINE pc == IF sockfd_ < 0 THEN "socket" ELSE "send"
           r == [NoCall EXCEPT !.pc = pc, !.id = Cardinality(asked) + 1, !.method = method]
<1>1. /\ call' = [call EXCEPT ![t] = r]
      /\ shared' = (shared \/ \E u \in Thread : ~At(u, "idle"))
      /\ UNCHANGED <<conn, toServer, toClient>>
  BY DEF CallMethod, netVars
<1>2. r.pc = pc /\ pc \in {"socket", "send"}
  BY DEF NoCall
<1> HIDE DEF r, pc
<1>3. call'[t].pc = pc /\ \A u \in Thread \ {t} : call'[u] = call[u]
  BY <1>1, <1>2 DEF RpcInv, PcInv
<1>4. ASSUME ~shared' PROVE ~shared /\ \A u \in Thread : At(u, "idle")
  BY <1>1, <1>4
<1>5. ~shared' => OthersIdle(t)'
  <2> HAVE ~shared'
  <2>1. \A u \in Thread \ {t} : At(u, "idle")'
    BY <1>3, <1>4 DEF At
  <2> QED BY <2>1 DEF OthersIdle
<1>6. ~shared' => \A k \in Fd : conn'[k].mine /\ ~conn'[k].cut => Awaited(k)'
  <2> HAVE ~shared'
  <2>1. ~shared /\ \A u \in Thread : ~Waits(u)
    BY <1>4 DEF Waits, At
  <2> QED BY <1>1, <2>1, UnawaitedKept
<1> QED BY <1>2, <1>3, <1>5, <1>6, QuietPair

LEMMA ClosePair ==
    ASSUME RpcInv, PairInv, NEW t \in Thread, Close(t)
    PROVE  PairInv'
<1>1. Steps(t, "unset", call[t].fd, call[t].then)
  BY GotoSteps DEF Close, RpcInv, Pc, PcInv
<1>2. ~At(t, "idle") /\ At(t, "close") /\ UNCHANGED <<sockfd_, toServer, toClient, shared>>
  BY DEF Close, At, histVars
<1>3. ~shared => \A k \in Fd : ~conn'[k].mine
  <2> HAVE ~shared
  <2>1. \A u \in Thread : ~At(u, "unset")
    BY <1>2 DEF RpcInv, SoloInv, OneCaller, At
  <2>2. \A k \in Fd : conn[k].mine <=> k = sockfd_
    BY <2>1 DEF RpcInv, SoloInv
  <2>3. CASE sockfd_ > 0
    BY <2>2, <2>3 DEF Close, RpcInv, TypeInv
  <2>4. CASE ~(sockfd_ > 0)
    <3>1. conn' = conn /\ sockfd_ \notin Fd
      BY <2>4 DEF Close, Fd
    <3> QED BY <2>2, <3>1
  <2> QED BY <2>3, <2>4
<1>4. ~shared' => OthersIdle(t)'
  BY <1>1, <1>2, AloneAfter DEF Steps
<1>5. call'[t].pc \notin {"wait", "done"}
  BY <1>1 DEF Steps
<1> QED BY <1>2, <1>3, <1>4, <1>5, QuietPair

LEMMA ReceiveFailsPair ==
    ASSUME RpcInv, PairInv, NEW t \in Thread, ReceiveFails(t)
    PROVE  PairInv'
<1>1. Steps(t, "close", call[t].fd, "failed")
  BY ThenSteps DEF ReceiveFails, RpcInv
<1>2. ~At(t, "idle") /\ UNCHANGED <<conn, toServer, toClient, handled, shared>>
  BY DEF ReceiveFails, At, histVars, netVars
<1>3. \A u \in Thread : Waits(u) =>
         Waits(u)' /\ call'[u].id = call[u].id /\ call'[u].method = call[u].method
  BY <1>1 DEF Steps, Waits
<1>4. ~shared => \A k \in Fd : conn'[k].mine /\ ~conn'[k].cut => Awaited(k)'
  BY <1>2, <1>3, AwaitedKept
<1>5. ~shared' => OthersIdle(t)'
  BY <1>1, <1>2, AloneAfter DEF Steps
<1>6. call'[t].pc \notin {"wait", "done"}
  BY <1>1 DEF Steps
<1> QED BY <1>2, <1>4, <1>5, <1>6, QuietPair

LEMMA RecvPair ==
    ASSUME RpcInv, PairInv, NEW t \in Thread, Recv(t)
    PROVE  PairInv'
<1>0. At(t, "recv") /\ UNCHANGED <<sockfd_, conn, toServer, toClient, handled, shared>>
  BY DEF Recv, histVars, netVars
<1>1. \/ sockfd_ \in Fd /\ Steps(t, "wait", sockfd_, call[t].then)
      \/ Steps(t, "close", call[t].fd, "failed")
  <2>1. CASE Usable(sockfd_) /\ conn[sockfd_].state \in {"open", "closed"}
    <3>1. sockfd_ \in Fd
      BY <2>1 DEF Usable, RpcInv, TypeInv
    <3>2. call' = [call EXCEPT ![t].pc = "wait", ![t].fd = sockfd_]
      BY <2>1 DEF Recv
    <3> QED BY <3>1, <3>2, WaitSteps DEF RpcInv
  <2>2. CASE ~(Usable(sockfd_) /\ conn[sockfd_].state \in {"open", "closed"})
    <3>1. call' = [call EXCEPT ![t].pc = "close", ![t].then = "failed"]
      BY <2>2 DEF Recv
    <3> QED BY <3>1, ThenSteps DEF RpcInv
  <2> QED BY <2>1, <2>2
<1>2. ~At(t, "idle")
  BY <1>0 DEF At
<1>3. \A u \in Thread : Waits(u) =>
         Waits(u)' /\ call'[u].id = call[u].id /\ call'[u].method = call[u].method
  BY <1>1 DEF Steps, Waits
<1>4. ~shared => \A k \in Fd : conn'[k].mine /\ ~conn'[k].cut => Awaited(k)'
  BY <1>0, <1>3, AwaitedKept
<1>5. ~shared' => OthersIdle(t)'
  BY <1>0, <1>1, <1>2, AloneAfter DEF Steps
<1>6. ASSUME ~shared' PROVE PairInv'
  <2>1. \A u \in Thread \ {t} : call'[u].pc = "idle"
    BY <1>5, <1>6 DEF OthersIdle, At
  <2>2. call'[t].pc # "done" /\ (call'[t].pc = "wait" => call'[t].fd = sockfd_)
    BY <1>1 DEF Steps
  <2>3. \A u \in Thread : (At(u, "wait") => call[u].fd = sockfd_)'
    BY <1>0, <2>1, <2>2 DEF At
  <2>4. \A u \in Thread : (HasOwnReply(u) \/ conn[call[u].fd].cut)'
    BY <2>1, <2>2 DEF HasOwnReply, At
  <2>5. \A k \in Fd : (conn[k].mine /\ ~conn[k].cut => Awaited(k))'
    BY <1>0, <1>4, <1>6
  <2> QED BY <2>3, <2>4, <2>5 DEF PairInv
<1> QED BY <1>6 DEF PairInv

LEMMA SendPair ==
    ASSUME RpcInv, PairInv, NEW t \in Thread, Send(t)
    PROVE  PairInv'
<1> DEFINE k == sockfd_
<1>0. At(t, "send") /\ k \in Fd /\ UNCHANGED <<conn, toClient, shared>>
  BY DEF Send, Usable, RpcInv, TypeInv, histVars
<1>1. Steps(t, "recv", call[t].fd, call[t].then)
  BY GotoSteps DEF Send, RpcInv, Pc
<1>2. ~At(t, "idle") /\ ~Waits(t) /\ Waits(t)' /\ call'[t].id = call[t].id
  BY <1>0, <1>1 DEF At, Waits, Steps
<1>3. \/ toServer' = toServer
      \/ toServer' = [toServer EXCEPT ![k] =
                           @ \o Tag(call[t].id, Request(call[t].method, ArgsOf(t)))]
  BY DEF Send
<1> HIDE DEF k
<1>4. \A l \in Fd : \A j \in Nat : Opens(l, j)' =>
         Opens(l, j) \/ toServer'[l][j].id = call[t].id
  <2>1. CASE toServer' = toServer
    BY <2>1 DEF Opens
  <2>2. CASE toServer' = [toServer EXCEPT ![k] =
                           @ \o Tag(call[t].id, Request(call[t].method, ArgsOf(t)))]
    <3>1. \A l \in Fd : \A j \in Nat : Opens(l, j)' =>
            \/ Opens(l, j) /\ toServer'[l][j].id = toServer[l][j].id
            \/ l = k /\ j = Len(toServer[k]) + 1 /\ toServer'[l][j].id = call[t].id
      BY <1>0, <2>2, OnTheWire
    <3> QED BY <3>1
  <2> QED BY <1>3, <2>1, <2>2
<1>5. ~shared => OthersIdle(t) /\ OthersIdle(t)'
  BY <1>1, <1>2, AloneBefore, AloneAfter DEF Steps
<1>6. ASSUME ~shared', NEW l \in Fd, conn'[l].mine, ~conn'[l].cut
      PROVE  Awaited(l)'
  <2>1. \A u \in Thread : ~Waits(u)
    BY <1>0, <1>2, <1>5, <1>6 DEF OthersIdle, At, Waits
  <2>2. Awaited(l)
    BY <1>0, <1>6 DEF PairInv
  <2>3. toClient[l] = << >> /\ \A j \in Nat : ~Opens(l, j)
    BY <2>1, <2>2 DEF Awaited
  <2>4. \A j \in Nat : Opens(l, j)' => toServer'[l][j].id = call'[t].id
    BY <1>2, <1>4, <2>3
  <2>5. toClient'[l] = << >>
    BY <1>0, <2>3
  <2> QED BY <1>2, <2>4, <2>5 DEF Awaited
<1>7. call'[t].pc \notin {"wait", "done"}
  BY <1>1 DEF Steps
<1> QED BY <1>0, <1>5, <1>6, <1>7, QuietPair

LEMMA ReturnedReply ==
    ASSUME PcInv, NEW t \in Thread, NEW bytes, Returned(t, bytes)
    PROVE  \/ call'[t].pc = "done" /\ call'[t].reply = ReplyIn(call[t].method, bytes)
           \/ call'[t].pc = "failed"
           \/ bytes # << >> /\ Head(bytes).part > 1
<1>1. IsCall(call[t]) /\ call = [u \in Thread |-> call[u]]
  BY DEF PcInv
<1>2. ASSUME NEW x, call' = [call EXCEPT ![t].pc = "done", ![t].ok = TRUE, ![t].reply = x]
      PROVE  call'[t].pc = "done" /\ call'[t].reply = x
  <2> DEFINE r == [call[t] EXCEPT !.pc = "done", !.ok = TRUE, !.reply = x]
  <2>1. call'[t] = r
    BY <1>1, <1>2
  <2>2. r.pc = "done" /\ r.reply = x
    BY <1>1 DEF IsCall
  <2> HIDE DEF r
  <2> QED BY <2>1, <2>2
<1>3. ASSUME Goto(t, "failed")
      PROVE  call'[t].pc = "failed"
  BY <1>1, <1>3 DEF Goto, IsCall
<1> QED BY <1>2, <1>3 DEF Returned

\* The caller has its answer, or has given up.
LEMMA AnsweredPair ==
    ASSUME RpcInv, PairInv, NEW t \in Thread, At(t, "wait"), UNCHANGED shared,
           Steps(t, "done", call[t].fd, call[t].then) \/ Steps(t, "failed", call[t].fd, call[t].then),
           ~shared => \A k \in Fd : conn'[k].mine /\ ~conn'[k].cut => Awaited(k)',
           ~shared => HasOwnReply(t)' \/ conn'[call[t].fd].cut
    PROVE  PairInv'
<1> SUFFICES ASSUME ~shared' PROVE PairInv'
  BY DEF PairInv
<1>1. ~At(t, "idle")
  BY DEF At
<1>2. OthersIdle(t)'
  BY <1>1, AloneAfter DEF Steps
<1>3. \A u \in Thread \ {t} : call'[u].pc = "idle"
  BY <1>2 DEF OthersIdle, At
<1>4. call'[t].pc \in {"done", "failed"} /\ call'[t].fd = call[t].fd
  BY DEF Steps
<1>5. \A u \in Thread : (At(u, "wait") => call[u].fd = sockfd_)'
  BY <1>3, <1>4 DEF At
<1>6. \A u \in Thread : (HasOwnReply(u) \/ conn[call[u].fd].cut)'
  <2>1. \A u \in Thread \ {t} : HasOwnReply(u)'
    BY <1>3 DEF HasOwnReply, At
  <2>2. (HasOwnReply(t) \/ conn[call[t].fd].cut)'
    BY <1>4
  <2> QED BY <2>1, <2>2
<1>7. \A k \in Fd : (conn[k].mine /\ ~conn[k].cut => Awaited(k))'
  OBVIOUS
<1> QED BY <1>5, <1>6, <1>7 DEF PairInv

LEMMA ReceivePair ==
    ASSUME RpcInv, PairInv, NEW t \in Thread, Receive(t)
    PROVE  PairInv'
<1> DEFINE k == call[t].fd
           s == toClient[k]
<1>0. At(t, "wait") /\ k \in Fd /\ ~At(t, "idle") /\ ~At(t, "unset")
  BY DEF Receive, RpcInv, PcInv, At
<1>1. PICK n \in 1 .. Len(s) :
        /\ Returned(t, SubSeq(s, 1, n))
        /\ toClient' = [toClient EXCEPT ![k] = SubSeq(@, n + 1, Len(@))]
        /\ conn' = [conn EXCEPT ![k].cut = @ \/ n < Len(toClient[k])]
  BY DEF Receive
<1>2. UNCHANGED <<toServer, handled, shared, sockfd_>>
  BY DEF Receive
<1>3. \/ Steps(t, "done", call[t].fd, call[t].then)
      \/ Steps(t, "failed", call[t].fd, call[t].then)
  BY <1>1, ReturnedSteps DEF RpcInv
<1>4. \A u \in Thread \ {t} : call'[u] = call[u]
  BY <1>3 DEF Steps
<1>5. call'[t].id = call[t].id /\ call'[t].method = call[t].method
  BY <1>3 DEF Steps
<1>6. IsSeq(s) /\ Len(s) \in Nat
  BY <1>0 DEF RpcInv, TypeInv, IsSeq
<1> HIDE DEF k
<1>7. /\ \A l \in Fd : conn'[l].mine = conn[l].mine
      /\ conn'[k].cut = (conn[k].cut \/ n < Len(s))
  BY <1>0, <1>1 DEF RpcInv, TypeInv
<1>8. ASSUME ~shared
      PROVE  k = sockfd_ /\ conn[k].mine /\ \A l \in Fd : conn[l].mine => l = k
  <2>1. k = sockfd_
    BY <1>0, <1>8 DEF PairInv, k
  <2>2. \A u \in Thread : ~At(u, "unset")
    BY <1>0, <1>8 DEF RpcInv, SoloInv, OneCaller, At
  <2> QED BY <1>0, <1>8, <2>1, <2>2 DEF RpcInv, SoloInv
\* The whole answer was there.
<1>9. ASSUME ~shared, ~conn'[k].cut
      PROVE  n = Len(s) /\ Holds(k, t) /\ \A j \in Nat : ~Opens(k, j)
  <2>1. ~conn[k].cut /\ ~(n < Len(s))
    BY <1>7, <1>9
  <2>2. n = Len(s) /\ s # << >>
    BY <1>6, <2>1
  <2>3. Awaited(k)
    BY <1>0, <1>8, <1>9, <2>1 DEF PairInv
  <2>4. \A u \in Thread : Waits(u) => u = t
    BY <1>0, <1>9, AloneBefore DEF OthersIdle, Waits, At
  <2>5. Holds(k, t)
    BY <2>2, <2>3, <2>4 DEF Awaited
  <2>6. IsHandled(call[t].id)
    BY <2>5 DEF Holds, IsHandled
  <2>7. ASSUME NEW j \in Nat, Opens(k, j) PROVE FALSE
    <3>1. toServer[k][j].id = call[t].id
      BY <2>3, <2>4, <2>7 DEF Awaited
    <3>2. ~IsHandled(toServer[k][j].id)
      BY <1>0, <2>7 DEF RpcInv, OnceInv
    <3> QED BY <2>6, <3>1, <3>2
  <2> QED BY <2>2, <2>5, <2>7
<1>10. ASSUME ~shared, NEW l \in Fd, conn'[l].mine, ~conn'[l].cut
       PROVE  Awaited(l)'
  <2>1. l = k
    BY <1>7, <1>8, <1>10
  <2>2. n = Len(s) /\ \A j \in Nat : ~Opens(k, j)
    BY <1>9, <1>10, <2>1
  <2>3. \A j \in Nat : ~Opens(l, j)'
    BY <1>2, <2>1, <2>2 DEF Opens
  <2>4. toClient'[l] = << >>
    <3>1. toClient'[l] = SubSeq(s, n + 1, Len(s))
      BY <1>0, <1>1, <2>1 DEF RpcInv, TypeInv
    <3> HIDE DEF s
    <3>2. n \in 1 .. Len(s) /\ n = Len(s)
      BY <2>2
    <3>4. IsSeq(SubSeq(s, n + 1, Len(s))) /\ Len(SubSeq(s, n + 1, Len(s))) = Len(s) - n
      BY <1>6, <3>2, Cut
    <3>5. Len(SubSeq(s, n + 1, Len(s))) = 0
      BY <1>6, <3>2, <3>4
    <3>3. SubSeq(s, n + 1, Len(s)) = << >>
      BY <3>4, <3>5 DEF IsSeq
    <3> QED BY <3>1, <3>3
  <2> QED BY <2>1, <2>3, <2>4 DEF Awaited
<1>11. ASSUME ~shared PROVE HasOwnReply(t)' \/ conn'[k].cut
  <2> SUFFICES ASSUME ~conn'[k].cut PROVE HasOwnReply(t)'
    OBVIOUS
  <2>1. n = Len(s) /\ Holds(k, t)
    BY <1>9, <1>11
  <2>2. PICK i \in 1 .. Len(handled) :
          /\ handled[i].id = call[t].id /\ handled[i].method = call[t].method
          /\ call[t].method \in Method /\ handled[i].reply \in Replies[call[t].method]
          /\ s = Tag(call[t].id, ReplyOut(call[t].method, handled[i].reply))
    BY <2>1 DEF Holds
  <2>3. SubSeq(s, 1, n) = s
    <3> HIDE DEF s
    <3>1. s \in Seq(Range(s))
      BY <1>6 DEF IsSeq
    <3> QED BY <3>1, <2>1
  <2>4. ReplyIn(call[t].method, s) = handled[i].reply /\ (s # << >> => Head(s).part = 1)
    BY <2>2, ReplyRead
  <2> HIDE DEF s
  <2>5. \/ call'[t].pc = "done" /\ call'[t].reply = ReplyIn(call[t].method, s)
        \/ call'[t].pc = "failed"
        \/ s # << >> /\ Head(s).part > 1
    BY <1>1, <2>3, ReturnedReply DEF RpcInv
  <2>6. \/ call'[t].pc = "done" /\ call'[t].reply = handled[i].reply
        \/ call'[t].pc = "failed"
    BY <2>4, <2>5
  <2>7. handled'[i].id = call'[t].id /\ i \in 1 .. Len(handled') /\ handled'[i] = handled[i]
    BY <1>2, <1>5, <2>2
  <2> QED BY <2>6, <2>7 DEF HasOwnReply, At
<1> QED BY <1>0, <1>2, <1>3, <1>10, <1>11, AnsweredPair DEF k

LEMMA ReceiveEndPair ==
    ASSUME RpcInv, EmptyInv, PairInv, NEW t \in Thread, ReceiveEnd(t)
    PROVE  PairInv'
<1> DEFINE k == call[t].fd
<1>0. /\ At(t, "wait") /\ k \in Fd /\ conn[k].state = "closed" /\ toClient[k] = << >>
      /\ Returned(t, << >>)
      /\ UNCHANGED <<sockfd_, conn, toServer, toClient, handled, shared>>
  BY DEF ReceiveEnd, RpcInv, PcInv, histVars, netVars
<1>1. \/ Steps(t, "done", call[t].fd, call[t].then)
      \/ Steps(t, "failed", call[t].fd, call[t].then)
  BY <1>0, ReturnedSteps DEF RpcInv
<1>2. call'[t].method = call[t].method
  BY <1>1 DEF Steps
<1>3. HasOwnReply(t)'
  <2>1. \/ call'[t].pc = "done" /\ call'[t].reply = ReplyIn(call[t].method, << >>)
        \/ call'[t].pc = "failed"
    BY <1>0, ReturnedReply DEF RpcInv
  <2> QED BY <1>2, <2>1 DEF HasOwnReply, At, EmptyReply
<1> HIDE DEF k
<1>4. ASSUME ~shared, NEW l \in Fd, conn'[l].mine, ~conn'[l].cut
      PROVE  Awaited(l)'
  <2>1. k = sockfd_
    BY <1>0, <1>4 DEF PairInv, k
  <2>2. \A u \in Thread : ~At(u, "unset")
    BY <1>0, <1>4 DEF RpcInv, SoloInv, OneCaller, At
  <2>3. l = k
    BY <1>0, <1>4, <2>1, <2>2 DEF RpcInv, SoloInv
  <2>4. toServer'[l] = << >> /\ toClient'[l] = << >>
    BY <1>0, <2>3 DEF EmptyInv
  <2>5. \A j \in Nat : ~Opens(l, j)'
    BY <2>4 DEF Opens
  <2> QED BY <2>4, <2>5 DEF Awaited
<1> QED BY <1>0, <1>1, <1>3, <1>4, AnsweredPair DEF k

LEMMA OnMessagePair ==
    ASSUME RpcInv, SentInv, PairInv, NEW k \in Fd, OnMessage(k)
    PROVE  PairInv'
<1>0. UNCHANGED <<sockfd_, conn, call, asked, shared>>
  BY DEF OnMessage
<1> SUFFICES ASSUME ~shared PROVE PairInv'
  BY <1>0 DEF PairInv
<1>1. PICK n \in 1 .. Len(toServer[k]) :
        LET taken == SubSeq(toServer[k], 1, n)
            id == taken[1].id
        IN  /\ toServer' = [toServer EXCEPT ![k] = SubSeq(@, n + 1, Len(@))]
            /\ \/ UNCHANGED <<toClient, handled>>
               \/ \E r \in Decoded(taken) : \E reply \in Replies[r.method] :
                    /\ handled' = Append(handled, [id |-> id, method |-> r.method,
                                             args |-> r.args, reply |-> reply])
                    /\ toClient' = [toClient EXCEPT ![k] =
                                      @ \o Tag(id, ReplyOut(r.method, reply))]
  BY DEF OnMessage
<1>2. \A l \in Fd : \A j \in Nat : Opens(l, j)' =>
         LET i == IF l = k THEN n + j ELSE j
         IN  i \in Nat /\ Opens(l, i) /\ toServer'[l][j] = toServer[l][i]
  BY <1>1, OffTheWire
\* What is still on the wire to the provider is awaited as before.
<1>3. ASSUME NEW l \in Fd, conn[l].mine, ~conn[l].cut, NEW j \in Nat, Opens(l, j)'
      PROVE  \E t \in Thread : Waits(t)' /\ toServer'[l][j].id = call'[t].id
  <2>1. PICK i \in Nat : Opens(l, i) /\ toServer'[l][j] = toServer[l][i]
    BY <1>2, <1>3
  <2>2. Awaited(l)
    BY <1>3 DEF PairInv
  <2>3. PICK t \in Thread : Waits(t) /\ toServer[l][i].id = call[t].id
    BY <2>1, <2>2 DEF Awaited
  <2> QED BY <1>0, <2>1, <2>3 DEF Waits
\* What is known of an answer stays so.
<1>4. ASSUME \A i \in 1 .. Len(handled) : i \in 1 .. Len(handled') /\ handled'[i] = handled[i],
             \A l \in Fd : conn[l].mine /\ ~conn[l].cut /\ toClient'[l] # << >> =>
                 \/ toClient'[l] = toClient[l]
                 \/ \E t \in Thread : Waits(t)' /\ Holds(l, t)'
      PROVE  PairInv'
  <2>1. \A u \in Thread : HasOwnReply(u) => HasOwnReply(u)'
    BY <1>0, <1>4 DEF HasOwnReply, At
  <2>2. \A u \in Thread : (HasOwnReply(u) \/ conn[call[u].fd].cut)'
    BY <1>0, <2>1 DEF PairInv
  <2>3. \A u \in Thread : (At(u, "wait") => call[u].fd = sockfd_)'
    BY <1>0 DEF PairInv, At
  <2>4. ASSUME NEW l \in Fd, conn[l].mine, ~conn[l].cut, toClient'[l] # << >>
        PROVE  \E t \in Thread : Waits(t)' /\ Holds(l, t)'
    <3>1. CASE toClient'[l] = toClient[l]
      <4>1. PICK t \in Thread : Waits(t) /\ Holds(l, t)
        BY <2>4, <3>1 DEF PairInv, Awaited
      <4>2. PICK i \in 1 .. Len(handled) :
              /\ handled[i].id = call[t].id /\ handled[i].method = call[t].method
              /\ call[t].method \in Method /\ handled[i].reply \in Replies[call[t].method]
              /\ toClient[l] = Tag(call[t].id, ReplyOut(call[t].method, handled[i].reply))
        BY <4>1 DEF Holds
      <4>3. i \in 1 .. Len(handled') /\ handled'[i] = handled[i]
        BY <1>4
      <4>4. Holds(l, t)'
        BY <1>0, <3>1, <4>2, <4>3 DEF Holds
      <4> QED BY <1>0, <4>1, <4>4 DEF Waits
    <3> QED BY <1>4, <2>4, <3>1
  <2>5. \A l \in Fd : (conn[l].mine /\ ~conn[l].cut => Awaited(l))'
    <3> SUFFICES ASSUME NEW l \in Fd, conn[l].mine, ~conn[l].cut
                 PROVE  Awaited(l)'
      BY <1>0
    <3> QED BY <1>3, <2>4 DEF Awaited
  <2> QED BY <2>2, <2>3, <2>5 DEF PairInv
<1>5. CASE UNCHANGED <<toClient, handled>>
  BY <1>4, <1>5
<1>6. ASSUME NEW r \in Decoded(SubSeq(toServer[k], 1, n)), NEW reply \in Replies[r.method],
             handled' = Append(handled, [id |-> SubSeq(toServer[k], 1, n)[1].id,
                                         method |-> r.method, args |-> r.args,
                                         reply |-> reply]),
             toClient' = [toClient EXCEPT ![k] =
                            @ \o Tag(SubSeq(toServer[k], 1, n)[1].id, ReplyOut(r.method, reply))]
      PROVE  PairInv'
  <2> DEFINE id == toServer[k][1].id
             out == Tag(id, ReplyOut(r.method, reply))
             e == [id |-> id, method |-> r.method, args |-> r.args, reply |-> reply]
  <2>1. Opens(k, 1) /\ SubSeq(toServer[k], 1, n)[1].id = id
    BY FoundIsAsked
  <2>2. PICK a \in asked : a.id = id /\ a.method = r.method
    BY FoundIsAsked
  <2>3. e.id = id /\ e.method = r.method /\ e.reply = reply
    OBVIOUS
  <2>4. handled' = Append(handled, e)
    BY <1>6, <2>1
  <2> HIDE DEF e
  <2>5. /\ Len(handled) \in Nat /\ Len(handled') = Len(handled) + 1
        /\ handled'[Len(handled) + 1] = e
        /\ \A i \in 1 .. Len(handled) : handled'[i] = handled[i]
    <3>1. IsSeq(handled)
      BY DEF RpcInv, TypeInv
    <3> QED BY <2>4, <3>1, Appended
  <2>6. /\ toClient'[k] = toClient[k] \o out
        /\ \A l \in Fd \ {k} : toClient'[l] = toClient[l]
    BY <1>6, <2>1 DEF RpcInv, TypeInv
  <2>7. IsSeq(out) /\ r.method \in Method
    <3>1. r.method \in Method
      BY FoundMethod
    <3>2. IsSeq(ReplyOut(r.method, reply))
      BY <3>1, ReplyOutFields DEF Fields
    <3> HIDE DEF id
    <3> QED BY <3>1, <3>2, TagShape
  <2>8. ASSUME conn[k].mine, ~conn[k].cut
        PROVE  \E t \in Thread : Waits(t)' /\ Holds(k, t)'
    <3>1. Awaited(k)
      BY <2>8 DEF PairInv
    <3>2. PICK t \in Thread : Waits(t) /\ id = call[t].id
      BY <2>1, <3>1 DEF Awaited
    <3>3. ~At(t, "idle")
      BY <3>2 DEF Waits, At
    <3>4. PICK b \in asked : b.id = call[t].id /\ b.method = call[t].method
      BY <3>3 DEF RpcInv, AskedInv
    <3>5. call[t].method = r.method
      BY <2>2, <3>2, <3>4 DEF RpcInv, AskedInv
    <3>6. ~IsHandled(id)
      BY <2>1 DEF RpcInv, OnceInv
    <3>7. toClient[k] = << >>
      <4> SUFFICES ASSUME toClient[k] # << >> PROVE FALSE
        OBVIOUS
      <4>1. PICK u \in Thread : Waits(u) /\ Holds(k, u)
        BY <3>1 DEF Awaited
      <4>2. u = t
        BY <3>3, <4>1, AloneBefore DEF OthersIdle, Waits, At
      <4>3. IsHandled(id)
        BY <3>2, <4>1, <4>2 DEF Holds, IsHandled
      <4> QED BY <3>6, <4>3
    <3>8. toClient'[k] = out
      <4> HIDE DEF out
      <4>1. out \in Seq(Range(out))
        BY <2>7 DEF IsSeq
      <4> QED BY <2>6, <3>7, <4>1
    <3>9. Holds(k, t)'
      <4>1. Len(handled) + 1 \in 1 .. Len(handled')
        BY <2>5
      <4> DEFINE i == Len(handled) + 1
      <4>2. /\ i \in 1 .. Len(handled') /\ handled'[i].id = call[t].id
            /\ handled'[i].method = call[t].method /\ handled'[i].reply = reply
        BY <2>3, <2>5, <3>2, <3>5, <4>1
      <4>3. toClient'[k] = Tag(call[t].id, ReplyOut(call[t].method, reply))
        BY <3>2, <3>5, <3>8
      <4>4. reply \in Replies[call[t].method] /\ call[t].method \in Method
        BY <2>7, <3>5
      <4> HIDE DEF i
      <4>5. \E x \in 1 .. Len(handled') :
              /\ handled'[x].id = call[t].id /\ handled'[x].method = call[t].method
              /\ call[t].method \in Method /\ handled'[x].reply \in Replies[call[t].method]
              /\ toClient'[k] = Tag(call[t].id, ReplyOut(call[t].method, handled'[x].reply))
        BY <4>2, <4>3, <4>4
      <4> QED BY <1>0, <4>5 DEF Holds
    <3> QED BY <1>0, <3>2, <3>9 DEF Waits
  <2>9. \A i \in 1 .. Len(handled) : i \in 1 .. Len(handled') /\ handled'[i] = handled[i]
    BY <2>5
  <2> HIDE DEF out
  <2> QED BY <1>4, <2>6, <2>8, <2>9
<1> QED BY <1>1, <1>5, <1>6

LEMMA BreakPair ==
    ASSUME RpcInv, PairInv, NEW k \in Fd, Break(k)
    PROVE  PairInv'
<1>0. UNCHANGED <<sockfd_, call, handled, shared>>
  BY DEF Break
<1>1. /\ conn' = [conn EXCEPT ![k].state = "closed"]
      /\ toServer' = [toServer EXCEPT ![k] = << >>]
      /\ toClient' = toClient \/ toClient' = [toClient EXCEPT ![k] = << >>]
  BY DEF Break
<1>2. /\ toServer'[k] = << >> /\ \A l \in Fd \ {k} : toServer'[l] = toServer[l]
      /\ \A l \in Fd : toClient'[l] = toClient[l] \/ toClient'[l] = << >>
  BY <1>1 DEF RpcInv, TypeInv
<1>3. \A l : conn'[l].mine = conn[l].mine /\ conn'[l].cut = conn[l].cut
  BY <1>1 DEF RpcInv, TypeInv
<1> SUFFICES ASSUME ~shared PROVE PairInv'
  BY <1>0 DEF PairInv
<1>4. ASSUME NEW l \in Fd, conn[l].mine, ~conn[l].cut
      PROVE  Awaited(l)'
  <2>1. Awaited(l)
    BY <1>4 DEF PairInv
  <2>2. \A j \in Nat : Opens(l, j)' => Opens(l, j) /\ toServer'[l] = toServer[l]
    BY <1>2 DEF Opens
  <2>3. \A j \in Nat : Opens(l, j)' =>
           \E t \in Thread : Waits(t)' /\ toServer'[l][j].id = call'[t].id
    BY <1>0, <2>1, <2>2 DEF Awaited, Waits
  <2>4. toClient'[l] # << >> => \E t \in Thread : Waits(t)' /\ Holds(l, t)'
    BY <1>0, <1>2, <2>1 DEF Awaited, Waits, Holds
  <2> QED BY <2>3, <2>4 DEF Awaited
<1>5. \A u \in Thread : (HasOwnReply(u) \/ conn[call[u].fd].cut)'
  <2>1. \A u \in Thread : HasOwnReply(u) => HasOwnReply(u)'
    BY <1>0 DEF HasOwnReply, At
  <2> QED BY <1>0, <1>3, <2>1 DEF PairInv
<1>6. \A u \in Thread : (At(u, "wait") => call[u].fd = sockfd_)'
  BY <1>0 DEF PairInv, At
<1>7. \A l \in Fd : (conn[l].mine /\ ~conn[l].cut => Awaited(l))'
  BY <1>3, <1>4
<1> QED BY <1>5, <1>6, <1>7 DEF PairInv

LEMMA InitPair == Init => PairInv
<1> SUFFICES ASSUME Init PROVE PairInv
  OBVIOUS
<1>1. \A t \in Thread : call[t].pc = "idle"
  BY DEF Init, NoCall
<1>2. \A k \in Fd : Awaited(k)
  BY DEF Init, Awaited, Opens
<1> QED BY <1>1, <1>2 DEF PairInv, HasOwnReply, At

LEMMA NextPair == RpcInv /\ SentInv /\ EmptyInv /\ PairInv /\ [Next]_vars => PairInv'
<1> SUFFICES ASSUME RpcInv, SentInv, EmptyInv, PairInv, [Next]_vars PROVE PairInv'
  OBVIOUS
<1>1. ASSUME NEW t \in Thread, NEW method \in Method, NEW args \in Args[method],
             CallMethod(t, method, args)
      PROVE  PairInv'
  BY <1>1, CallMethodPair
<1>2. ASSUME NEW t \in Thread, ThreadStep(t) PROVE PairInv'
  <2>1. CASE Socket(t) BY <2>1, SocketPair
  <2>2. CASE SocketFails(t) BY <2>2, SocketFailsPair
  <2>3. CASE Connect(t) BY <2>3, ConnectPair
  <2>4. CASE Send(t) BY <2>4, SendPair
  <2>5. CASE SendFails(t) BY <2>5, SendFailsPair
  <2>6. CASE Recv(t) BY <2>6, RecvPair
  <2>7. CASE Receive(t) BY <2>7, ReceivePair
  <2>8. CASE ReceiveEnd(t) BY <2>8, ReceiveEndPair
  <2>9. CASE ReceiveFails(t) BY <2>9, ReceiveFailsPair
  <2>10. CASE Close(t) BY <2>10, ClosePair
  <2>11. CASE Unset(t) BY <2>11, UnsetPair
  <2>12. CASE Return(t) BY <2>12, ReturnPair
  <2> QED BY <1>2, <2>1, <2>2, <2>3, <2>4, <2>5, <2>6, <2>7, <2>8, <2>9, <2>10,
             <2>11, <2>12 DEF ThreadStep
<1>3. ASSUME NEW k \in Fd, OnMessage(k) PROVE PairInv'
  BY <1>3, OnMessagePair
<1>4. ASSUME NEW k \in Fd, Break(k) PROVE PairInv'
  BY <1>4, BreakPair
<1>5. CASE UNCHANGED vars
  BY <1>5 DEF vars, PairInv, HasOwnReply, At, Awaited, Opens, Waits, Holds
<1> QED BY <1>1, <1>2, <1>3, <1>4, <1>5 DEF Next

\* A call gets the answer to its own request, or the empty message of a connection
\* that has ended, as long as the calls over the channel do not overlap and no
\* answer came in pieces: a failed call leaves nothing behind that a later one
\* could take for its own (mprpcchannel.cpp:98-116).
THEOREM OneCallerGetsItsReply == Spec => []OwnReplyOneByOne
<1> DEFINE Inv == RpcInv /\ SentInv /\ EmptyInv /\ PairInv
<1>1. Init => Inv
  BY InitRpcInv, InitSent, InitEmpty, InitPair
<1>2. Inv /\ [Next]_vars => Inv'
  BY NextRpcInv, NextSent, NextEmpty, NextPair
<1>3. Inv => OwnReplyOneByOne
  BY DEF PairInv, OwnReplyOneByOne
<1> QED BY <1>1, <1>2, <1>3, PTL DEF Spec

=============================================================================
