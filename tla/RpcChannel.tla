----------------------------- MODULE RpcChannel -----------------------------
(***************************************************************************)
(* One MprpcChannel (src/rpc/mprpcchannel.cpp), shared without a lock by   *)
(* the threads that call one peer, the TCP connections it opens, and the   *)
(* RpcProvider (src/rpc/rpcprovider.cpp) at the other end.                 *)
(*                                                                         *)
(* A connection is two byte streams of units (Wire.tla).  Every unit       *)
(* carries the number of the call it belongs to; only the histories look   *)
(* at it.  A descriptor is never used for two sockets.                     *)
(***************************************************************************)
EXTENDS Wire, FiniteSetsExt

CONSTANTS
    Thread,         \* the threads that call the peer
    Args,           \* for every method called, the arguments it is called with
    Replies,        \* for every method called, what its handler may answer
    RecvMax,        \* size of recv_buf, in units
    MaxCall,        \* bound on the calls
    MaxConn,        \* bound on the sockets
    MaxSplit,       \* bound on the times that bytes arrive in pieces
    MaxBreak        \* bound on the connections the peer breaks

Method == DOMAIN Args
Fd == 1 .. MaxConn

\* The generated services have these methods (raftRPC.proto, kvServerRpc.proto).
ASSUME MethodAssumption ==
    Method \subseteq {"RequestVote", "AppendEntries", "InstallSnapshot",
                      "Get", "PutAppend"}

\* There is a socket to be had.
ASSUME SocketAssumption == MaxConn \in Nat \ {0}

VARIABLES
    sockfd_,
    conn,           \* the sockets, by descriptor
    toServer, toClient,
    call,           \* for every thread, where it is in CallMethod
    asked,          \* history: every call that was made
    handled,        \* history: every request the provider executed, in order
    dropped,        \* history: the calls OnMessage has thrown bytes of away
    shared,         \* history: two calls were under way at the same time
    splits, breaks

netVars == <<conn, toServer, toClient>>
histVars == <<asked, handled, dropped, shared, splits, breaks>>
vars == <<sockfd_, conn, toServer, toClient, call, asked, handled, dropped,
          shared, splits, breaks>>

-----------------------------------------------------------------------------
(* The generated services: which messages a method takes and answers.      *)

service(method) ==
    IF method \in {"Get", "PutAppend"} THEN "kvServerRpc" ELSE "raftRpc"

ArgsFields(method) ==
    CASE method = "RequestVote" -> RequestVoteArgsFields
      [] method = "AppendEntries" -> AppendEntriesArgsFields
      [] method = "InstallSnapshot" -> InstallSnapshotRequestFields
      [] method = "Get" -> GetArgsFields
      [] method = "PutAppend" -> PutAppendArgsFields

ReplyFields(method) ==
    CASE method = "RequestVote" -> RequestVoteReplyFields
      [] method = "AppendEntries" -> AppendEntriesReplyFields
      [] method = "InstallSnapshot" -> InstallSnapshotResponseFields
      [] method = "Get" -> GetReplyFields
      [] method = "PutAppend" -> PutAppendReplyFields

\* What is passed to a method and what its handler fills in are its messages.
ASSUME MessagesAssumption ==
    \A method \in Method :
        /\ \A m \in Args[method] :
             /\ IsMessage(ArgsFields(method), m)
             /\ method = "AppendEntries" =>
                  \A e \in Range(m.Entries) : IsMessage(LogEntryFields, e)
        /\ \A m \in Replies[method] : IsMessage(ReplyFields(method), m)

ArgsOut(method, m) ==
    CASE method = "RequestVote" -> RequestVoteArgsOut(m)
      [] method = "AppendEntries" -> AppendEntriesArgsOut(m)
      [] method = "InstallSnapshot" -> InstallSnapshotRequestOut(m)
      [] method = "Get" -> GetArgsOut(m)
      [] method = "PutAppend" -> PutAppendArgsOut(m)

\* GetRequestPrototype and ParseFromString.
ArgsIn(method, bytes) ==
    CASE method = "RequestVote" -> RequestVoteArgsIn(bytes)
      [] method = "AppendEntries" -> AppendEntriesArgsIn(bytes)
      [] method = "InstallSnapshot" -> InstallSnapshotRequestIn(bytes)
      [] method = "Get" -> GetArgsIn(bytes)
      [] method = "PutAppend" -> PutAppendArgsIn(bytes)

ReplyOut(method, m) ==
    CASE method = "RequestVote" -> RequestVoteReplyOut(m)
      [] method = "AppendEntries" -> AppendEntriesReplyOut(m)
      [] method = "InstallSnapshot" -> InstallSnapshotResponseOut(m)
      [] method = "Get" -> GetReplyOut(m)
      [] method = "PutAppend" -> PutAppendReplyOut(m)

ReplyIn(method, bytes) ==
    CASE method = "RequestVote" -> RequestVoteReplyIn(bytes)
      [] method = "AppendEntries" -> AppendEntriesReplyIn(bytes)
      [] method = "InstallSnapshot" -> InstallSnapshotResponseIn(bytes)
      [] method = "Get" -> GetReplyIn(bytes)
      [] method = "PutAppend" -> PutAppendReplyIn(bytes)

-----------------------------------------------------------------------------
(* Bytes of a call.                                                        *)

Tagged(id, u) ==
    [num |-> u.num, wt |-> u.wt, val |-> u.val, part |-> u.part, of |-> u.of,
     id |-> id]
Tag(id, bytes) == [j \in 1 .. Len(bytes) |-> Tagged(id, bytes[j])]
Ids(stream) == {stream[j].id : j \in 1 .. Len(stream)}

\* The varint in front of a request, as a unit of its own.
Size(n) == Unit(0, "varint", n, 1, 1)

\* send_rpc_str: header size, header, arguments.
Request(method, args) ==
    LET args_str == ArgsOut(method, args)
        rpc_header_str == RpcHeaderOut([service_name |-> service(method),
                                        method_name |-> method,
                                        args_size |-> Len(args_str)])
    IN  <<Size(Len(rpc_header_str))>> \o rpc_header_str \o args_str

\* ReadString, which stops at the end of the bytes.
ReadString(bytes, first, size) ==
    SubSeq(bytes, first, Min({first + size - 1, Len(bytes)}))

\* The header OnMessage reads.  ReadVarint32 and ReadString are not asked whether
\* they could read it all: a header that ends early is parsed as far as it came,
\* and args_size is then 0.
Header(bytes) ==
    LET header_str == ReadString(bytes, 2, bytes[1].val)
    IN  IF bytes[1].num = 0 /\ WholeFields(header_str) THEN RpcHeaderIn(header_str)
        ELSE RpcHeaderIn(<< >>)

ArgsStr(bytes) == ReadString(bytes, 2 + bytes[1].val, Header(bytes).args_size)

Decoding(header, args_str) ==
    IF header.method_name \notin Method \/ ~WholeFields(args_str) THEN {}
    ELSE {[method |-> header.method_name, service |-> header.service_name,
           args |-> ArgsIn(header.method_name, args_str)]}

\* Slip: the result of the second ReadString is not looked at either.
DecodedShort(bytes) ==
    LET header == Header(bytes)
    IN  IF header.service_name = "" THEN {} ELSE Decoding(header, ArgsStr(bytes))

\* The one request OnMessage finds in the bytes it took, or none.
Decoded(bytes) ==
    LET header == Header(bytes)
    IN  IF header.service_name = "" \/ Len(ArgsStr(bytes)) < header.args_size THEN {}
        ELSE Decoding(header, ArgsStr(bytes))

-----------------------------------------------------------------------------
(* CallMethod and newConnect, one action for each use of sockfd_.          *)

NoCall == [pc |-> "idle", id |-> 0, method |-> "", fd |-> -1, then |-> "",
           ok |-> FALSE, reply |-> << >>]

\* The constructor connects, or does not try, or gives up.
Init ==
    /\ sockfd_ \in {-1, 1}
    /\ conn = [k \in Fd |-> [state |-> IF k = sockfd_ THEN "open" ELSE "free",
                             mine |-> k = sockfd_, cut |-> FALSE]]
    /\ toServer = [k \in Fd |-> << >>]
    /\ toClient = [k \in Fd |-> << >>]
    /\ call = [t \in Thread |-> NoCall]
    /\ asked = {} /\ handled = << >> /\ dropped = {}
    /\ shared = FALSE /\ splits = 0 /\ breaks = 0

At(t, pc) == call[t].pc = pc
Goto(t, pc) == call' = [call EXCEPT ![t].pc = pc]

CallMethod(t, method, args) ==
    LET id == Cardinality(asked) + 1
    IN  /\ At(t, "idle")
        /\ id <= MaxCall
        /\ call' = [call EXCEPT ![t] =
                      [NoCall EXCEPT !.pc = IF sockfd_ < 0 THEN "socket" ELSE "send",
                                     !.id = id, !.method = method]]
        /\ asked' = asked \cup {[id |-> id, method |-> method, args |-> args]}
        /\ shared' = (shared \/ \E u \in Thread : ~At(u, "idle"))
        /\ UNCHANGED <<sockfd_, netVars, handled, dropped, splits, breaks>>

ArgsOf(t) == (CHOOSE a \in asked : a.id = call[t].id).args

\* newConnect: sockfd_ is the new socket before it is connected.
Socket(t) ==
    /\ At(t, "socket")
    /\ \E k \in Fd :
         /\ conn[k].state = "free"
         /\ \A j \in 1 .. k - 1 : conn[j].state # "free"
         /\ sockfd_' = k
         /\ conn' = [conn EXCEPT ![k].state = "new", ![k].mine = TRUE]
    /\ Goto(t, "connect")
    /\ UNCHANGED <<toServer, toClient, histVars>>

\* socket() may fail; here it does when the sockets are used up.
SocketFails(t) ==
    /\ At(t, "socket")
    /\ \A k \in Fd : conn[k].state # "free"
    /\ sockfd_' = -1
    /\ Goto(t, "failed")
    /\ UNCHANGED <<netVars, histVars>>

Usable(k) == k > 0 /\ conn[k].mine

\* Slip: a socket that cannot be connected is forgotten.
ConnectForgets(t) ==
    /\ At(t, "connect")
    /\ \/ /\ Usable(sockfd_) /\ conn[sockfd_].state = "new"
          /\ conn' = [conn EXCEPT ![sockfd_].state = "open"]
          /\ Goto(t, "send")
       \/ /\ call' = [call EXCEPT ![t].pc = "unset", ![t].then = "failed"]
          /\ UNCHANGED conn
    /\ UNCHANGED <<sockfd_, toServer, toClient, histVars>>

\* connect() works on a socket that is not connected yet, if the peer listens.
Connect(t) ==
    /\ At(t, "connect")
    /\ \/ /\ Usable(sockfd_) /\ conn[sockfd_].state = "new"
          /\ conn' = [conn EXCEPT ![sockfd_].state = "open"]
          /\ Goto(t, "send")
       \/ /\ call' = [call EXCEPT ![t].pc = "close", ![t].then = "failed"]
          /\ UNCHANGED conn
    /\ UNCHANGED <<sockfd_, toServer, toClient, histVars>>

\* send() to a connection the peer has left may still report success.
Send(t) ==
    /\ At(t, "send")
    /\ Usable(sockfd_) /\ conn[sockfd_].state \in {"open", "closed"}
    /\ toServer' = IF conn[sockfd_].state = "closed" THEN toServer
                   ELSE [toServer EXCEPT ![sockfd_] =
                           @ \o Tag(call[t].id, Request(call[t].method, ArgsOf(t)))]
    /\ Goto(t, "recv")
    /\ UNCHANGED <<sockfd_, conn, toClient, histVars>>

\* The loop around send: close, and try again with a new connection.
SendFails(t) ==
    /\ At(t, "send")
    /\ Usable(sockfd_) => conn[sockfd_].state # "open"
    /\ call' = [call EXCEPT ![t].pc = "close", ![t].then = "socket"]
    /\ UNCHANGED <<sockfd_, netVars, histVars>>

\* recv() is entered with the descriptor of that moment.
Recv(t) ==
    /\ At(t, "recv")
    /\ call' = IF Usable(sockfd_) /\ conn[sockfd_].state \in {"open", "closed"}
               THEN [call EXCEPT ![t].pc = "wait", ![t].fd = sockfd_]
               ELSE [call EXCEPT ![t].pc = "close", ![t].then = "failed"]
    /\ UNCHANGED <<sockfd_, netVars, histVars>>

\* ParseFromArray of what was received.  Bytes that begin inside a value are that
\* value's bytes: they parse as fields of no meaning or not at all.
Returned(t, bytes) ==
    \/ /\ WholeFields(bytes)
       /\ call' = [call EXCEPT ![t].pc = "done", ![t].ok = TRUE,
                               ![t].reply = ReplyIn(call[t].method, bytes)]
    \/ /\ ~WholeFields(bytes)
       /\ Goto(t, "failed")
    \/ /\ bytes # << >> /\ Head(bytes).part > 1
       /\ call' = [call EXCEPT ![t].pc = "done", ![t].ok = TRUE,
                     ![t].reply = ReplyIn(call[t].method, Tail(bytes))]

\* Bytes arrive all at once, or in pieces.
Arrives(n, stream) ==
    /\ n < Len(stream) => splits < MaxSplit
    /\ splits' = IF n < Len(stream) THEN splits + 1 ELSE splits

\* recv() returns up to RecvMax of the bytes that are there: some of a reply, one
\* reply, or several.
Receive(t) ==
    LET k == call[t].fd
        got(n) == SubSeq(toClient[k], 1, n)
    IN  /\ At(t, "wait")
        /\ \E n \in 1 .. Len(toClient[k]) :
             /\ \/ n = RecvMax /\ n < Len(toClient[k]) /\ UNCHANGED splits
                \/ n <= RecvMax /\ Arrives(n, toClient[k])
             /\ Returned(t, got(n))
             /\ toClient' = [toClient EXCEPT ![k] = SubSeq(@, n + 1, Len(@))]
             /\ conn' = [conn EXCEPT ![k].cut = @ \/ n < Len(toClient[k])]
        /\ UNCHANGED <<sockfd_, toServer, asked, handled, dropped, shared, breaks>>

\* The peer is gone: recv() returns 0, and no bytes are an empty message.
ReceiveEnd(t) ==
    LET k == call[t].fd
    IN  /\ At(t, "wait")
        /\ conn[k].state = "closed" /\ toClient[k] = << >>
        /\ Returned(t, << >>)
        /\ UNCHANGED <<sockfd_, netVars, histVars>>

\* Slip: a request without an answer is sent again.
ReceiveFailsResend(t) ==
    /\ At(t, "wait")
    /\ conn[call[t].fd].state = "closed"
    /\ call' = [call EXCEPT ![t].pc = "close", ![t].then = "socket"]
    /\ UNCHANGED <<sockfd_, netVars, histVars>>

\* Or the connection was reset.
ReceiveFails(t) ==
    /\ At(t, "wait")
    /\ conn[call[t].fd].state = "closed"
    /\ call' = [call EXCEPT ![t].pc = "close", ![t].then = "failed"]
    /\ UNCHANGED <<sockfd_, netVars, histVars>>

\* close(sockfd_), whichever socket that is by now, and then sockfd_ = -1.
Close(t) ==
    /\ At(t, "close")
    /\ conn' = IF sockfd_ > 0 THEN [conn EXCEPT ![sockfd_].mine = FALSE] ELSE conn
    /\ Goto(t, "unset")
    /\ UNCHANGED <<sockfd_, toServer, toClient, histVars>>

Unset(t) ==
    /\ At(t, "unset")
    /\ sockfd_' = -1
    /\ Goto(t, call[t].then)
    /\ UNCHANGED <<netVars, histVars>>

\* The caller takes the reply, or learns that the controller has failed.
Return(t) ==
    /\ call[t].pc \in {"done", "failed"}
    /\ call' = [call EXCEPT ![t] = NoCall]
    /\ UNCHANGED <<sockfd_, netVars, histVars>>

-----------------------------------------------------------------------------
(* The provider and the network.                                           *)

\* Slip: a handler that fails does not run done.
OnMessageNoDone(k) ==
    /\ conn[k].state = "open"
    /\ \E n \in 1 .. Len(toServer[k]) :
         LET taken == SubSeq(toServer[k], 1, n)
             id == taken[1].id
         IN  /\ Arrives(n, toServer[k])
             /\ toServer' = [toServer EXCEPT ![k] = SubSeq(@, n + 1, Len(@))]
             /\ \/ /\ Decoded(taken) = {}
                   /\ dropped' = dropped \cup Ids(taken)
                   /\ UNCHANGED <<toClient, handled>>
                \/ \E r \in Decoded(taken) : \E reply \in Replies[r.method] :
                     /\ r.service = service(r.method)
                     /\ handled' = Append(handled, [id |-> id, method |-> r.method,
                                              args |-> r.args, reply |-> reply])
                     /\ dropped' = dropped \cup (Ids(taken) \ {id})
                     /\ toClient' = IF "Err" \in DOMAIN reply /\ reply.Err # "OK"
                                    THEN toClient
                                    ELSE [toClient EXCEPT ![k] =
                                       @ \o Tag(id, ReplyOut(r.method, reply))]
    /\ UNCHANGED <<sockfd_, conn, call, asked, shared, breaks>>

\* OnMessage: takes what has arrived, executes the request at its beginning and
\* sends the reply; the rest of the bytes it took is gone.
OnMessage(k) ==
    /\ conn[k].state = "open"
    /\ \E n \in 1 .. Len(toServer[k]) :
         LET taken == SubSeq(toServer[k], 1, n)
             id == taken[1].id
         IN  /\ Arrives(n, toServer[k])
             /\ toServer' = [toServer EXCEPT ![k] = SubSeq(@, n + 1, Len(@))]
             /\ \/ /\ Decoded(taken) = {}
                   /\ dropped' = dropped \cup Ids(taken)
                   /\ UNCHANGED <<toClient, handled>>
                \/ \E r \in Decoded(taken) : \E reply \in Replies[r.method] :
                     /\ r.service = service(r.method)
                     /\ handled' = Append(handled, [id |-> id, method |-> r.method,
                                              args |-> r.args, reply |-> reply])
                     /\ dropped' = dropped \cup (Ids(taken) \ {id})
                     /\ toClient' = [toClient EXCEPT ![k] =
                                       @ \o Tag(id, ReplyOut(r.method, reply))]
    /\ UNCHANGED <<sockfd_, conn, call, asked, shared, breaks>>

\* The peer goes away, or OnConnection sees that the caller has: what was not
\* received yet is lost or, in the caller's direction, may still arrive.
Break(k) ==
    /\ conn[k].state = "open"
    /\ conn[k].mine => breaks < MaxBreak
    /\ breaks' = IF conn[k].mine THEN breaks + 1 ELSE breaks
    /\ conn' = [conn EXCEPT ![k].state = "closed"]
    /\ toServer' = [toServer EXCEPT ![k] = << >>]
    /\ toClient' \in {toClient, [toClient EXCEPT ![k] = << >>]}
    /\ UNCHANGED <<sockfd_, call, asked, handled, dropped, shared, splits>>

ThreadStep(t) ==
    \/ Socket(t) \/ SocketFails(t) \/ Connect(t) \/ Send(t) \/ SendFails(t)
    \/ Recv(t) \/ Receive(t) \/ ReceiveEnd(t) \/ ReceiveFails(t)
    \/ Close(t) \/ Unset(t) \/ Return(t)

Next ==
    \/ \E t \in Thread :
         \/ \E method \in Method : \E args \in Args[method] :
              CallMethod(t, method, args)
         \/ ThreadStep(t)
    \/ \E k \in Fd : OnMessage(k) \/ Break(k)

Spec == Init /\ [][Next]_vars

-----------------------------------------------------------------------------
(* Properties.                                                             *)

\* A request is executed once at most, although a call that cannot send opens a
\* new connection and sends again (mprpcchannel.cpp:83-93), and although threads
\* close each other's sockets: only a send that put nothing on the wire is
\* repeated.
AtMostOnce ==
    \A i, j \in 1 .. Len(handled) : handled[i].id = handled[j].id => i = j

\* What the provider executes is what was asked for, method and arguments,
\* wherever the bytes were cut and whatever was in front of them
\* (rpcprovider.cpp:110-164).  Only a header that is cut right before args_size
\* gets through, with no arguments at all.
HandledAsAsked ==
    \A i \in 1 .. Len(handled) : \E a \in asked :
        /\ a.id = handled[i].id /\ a.method = handled[i].method
        /\ handled[i].args \in {a.args, ArgsIn(a.method, << >>)}

EmptyReply(method) == ReplyIn(method, << >>)

\* t has a reply: the one to its own request, or the empty message of a closed
\* connection.
HasOwnReply(t) ==
    At(t, "done") =>
        \/ call[t].reply = EmptyReply(call[t].method)
        \/ \E i \in 1 .. Len(handled) :
             handled[i].id = call[t].id /\ call[t].reply = handled[i].reply

\* What "the response information is returned" (mprpcchannel.cpp:95) says of every
\* call.
OwnReply == \A t \in Thread : HasOwnReply(t)

\* It is so as long as the calls over the channel do not overlap and no reply on
\* the connection was received in pieces: a failed call leaves nothing behind that
\* a later one could take for its own (mprpcchannel.cpp:98-116).
OwnReplyOneByOne ==
    ~shared => \A t \in Thread : HasOwnReply(t) \/ conn[call[t].fd].cut

\* One caller at a time never loses a descriptor: whatever failed, the socket it
\* made is closed or still in sockfd_ (mprpcchannel.cpp:85, 102 and 136).
NoLeak ==
    ~shared /\ (\A t \in Thread : At(t, "idle")) =>
        \A k \in Fd : conn[k].mine <=> k = sockfd_

\* A call does not wait for nothing (recv has no timeout, mprpcchannel.cpp:100):
\* as long as the calls do not overlap and OnMessage threw nothing away, its request
\* or its answer is on the way, unless the answer is an empty message, of which
\* SendRpcResponse puts nothing on the wire (rpcprovider.cpp:187-190).
AnswerOnItsWay ==
    ~shared /\ dropped = {} =>
        \A t \in Thread : At(t, "wait") =>
            \/ conn[call[t].fd].state = "closed"
            \/ toServer[call[t].fd] # << >>
            \/ toClient[call[t].fd] # << >>
            \/ \E i \in 1 .. Len(handled) :
                 /\ handled[i].id = call[t].id
                 /\ ReplyOut(handled[i].method, handled[i].reply) = << >>

=============================================================================
