------------------------------ MODULE KvProofs ------------------------------
(***************************************************************************)
(* What TLAPS proves about the key-value servers of KvServer.tla, for any  *)
(* number of servers, clients and keys and any bounds.                     *)
(***************************************************************************)
EXTENDS KvServer, FiniteSetTheorems, WellFoundedInduction, TLAPS

-----------------------------------------------------------------------------
(* The inductive invariant *)

\* A handler is past start() and has not answered.
Working == {"started", "waiting", "reading"}

Write(op) == op.op # "Get"

InLog(op) == \E n \in DOMAIN committed : committed[n] = op

\* Every request that is on its way, in a log, or committed.
Ops == {call.op : call \in calls} \cup {p.op : p \in proposed} \cup
       {committed[n] : n \in DOMAIN committed}

\* The types, every variable a function of the servers or the clients.
RaftTypes ==
    /\ committed \in Seq(Op)
    /\ proposed \subseteq [index : Nat, op : Op]
    /\ lastIndex \in [Server -> Nat]
    /\ lastApplied \in [Server -> Nat]
    /\ snapshotIndex \in [Server -> Nat]
    /\ snapshotFile \in [Server -> Snapshot]
    /\ batch \in [Server -> Seq(Nat)]
    /\ pushers \in [Server -> SUBSET Message]

StateTypes ==
    /\ applyChan \in [Server -> Seq(Message)]
    /\ kv \in [Server -> [Key -> Value]]
    /\ lastRequestIdMap \in [Server -> [Client -> Nat]]
    /\ lastSnapShotRaftLogIndex \in [Server -> Nat]
    /\ kvIndex \in [Server -> Nat]

ChannelTypes ==
    /\ waitApplyCh = [i \in Server |-> [n \in Registered(i) |-> waitApplyCh[i][n]]]
    /\ \A i \in Server :
         /\ Registered(i) \subseteq Nat
         /\ \A n \in Registered(i) : waitApplyCh[i][n] \in Seq(Op)

CallTypes == calls \subseteq Call

ClerkTypes ==
    /\ requestId \in [Client -> Nat] /\ recentLeaderId \in [Client -> Server]
    /\ done \in Nat /\ floor \in [Client -> Nat]

BoundTypes ==
    /\ timeouts \in Nat /\ fails \in Nat
    /\ installs \in Nat /\ restarts \in Nat
    /\ torn \subseteq Server

Types ==
    RaftTypes /\ StateTypes /\ ChannelTypes /\ CallTypes /\ ClerkTypes /\ BoundTypes

\* What is waiting, kept or answered lies within the committed log.
WithinLog ==
    /\ \A i \in Server :
         /\ kvIndex[i] <= Len(committed)
         /\ snapshotIndex[i] <= Len(committed)
         /\ lastApplied[i] <= Len(committed)
         /\ \A k \in DOMAIN batch[i] : batch[i][k] \in DOMAIN committed
         /\ \A k \in DOMAIN applyChan[i] : applyChan[i][k].index \in DOMAIN committed
         /\ \A msg \in pushers[i] : msg.index \in DOMAIN committed
         /\ \A n \in Registered(i) : \A k \in DOMAIN waitApplyCh[i][n] :
              n \in DOMAIN committed /\ waitApplyCh[i][n][k] = committed[n]
    /\ \A call \in calls : call.upto <= Len(committed)
    /\ done <= Len(committed)
    /\ \A c \in Client : floor[c] <= done

\* Who waits where.
Waiting ==
    /\ \A call \in calls :
         call.phase \in Working => call.index \in 1 .. lastIndex[call.server]
    /\ \A c, d \in calls :
         c.phase \in Working /\ d.phase \in Working /\ c.server = d.server
           /\ c.index = d.index => c = d
    /\ \A call \in calls :
         call.phase \in {"waiting", "reading"} =>
             call.index \in Registered(call.server)
    /\ \A call \in calls :
         /\ call.phase = "sent" => call.index = 0
         /\ call.phase = "reading" => ~Write(call.op)

\* A client numbers its requests, has one at a time, and leaves a write only
\* when it is committed.
Numbered ==
    /\ \A o \in Ops : o.id \in 1 .. requestId[o.client]
    /\ \A o, p \in Ops : o.client = p.client /\ o.id = p.id => o = p
    /\ \A call \in calls : call.live => call.op.id = requestId[call.op.client]
    /\ \A c, d \in calls :
         c.live /\ d.live /\ c.op.client = d.op.client => c = d
    /\ \A o \in Ops :
         Write(o) => InLog(o) \/ \E call \in calls : call.live /\ call.op = o
    /\ \A call \in calls :
         call.phase = "reply" /\ Write(call.op) =>
             /\ call.err = "OK" => InLog(call.op)
             /\ call.err # "ErrNoKey"

\* A request table knows no write that is not committed.
Honest(last) ==
    /\ \A c \in Client : last[c] <= requestId[c]
    /\ \A o \in Ops : Write(o) /\ o.id <= last[o.client] => InLog(o)

Tables ==
    \A i \in Server :
        /\ Honest(lastRequestIdMap[i])
        /\ Honest(restored(snapshotFile[i]).last)
        /\ \A k \in DOMAIN applyChan[i] : Honest(restored(applyChan[i][k].data).last)
        /\ \A msg \in pushers[i] : Honest(restored(msg.data).last)

\* Before a snapshot is installed, the queues hold the log from where the data
\* ends, and a table that knows the last request of a client comes with data
\* that the client may be shown.
Queue(i) ==
    /\ pushers[i] = {} /\ lastSnapShotRaftLogIndex[i] = 0
    /\ \A k \in DOMAIN applyChan[i] :
         applyChan[i][k].kind = "command" /\ applyChan[i][k].index = kvIndex[i] + k
    /\ \A k \in DOMAIN batch[i] : batch[i][k] = kvIndex[i] + Len(applyChan[i]) + k
    /\ lastApplied[i] = kvIndex[i] + Len(applyChan[i]) + Len(batch[i])

Queues == installs = 0 => \A i \in Server : Queue(i)

Recent(last, n) ==
    \A c \in Client : last[c] = requestId[c] => floor[c] <= n

\* A request that a client is still at stands after what the client has seen.
LastStands == \A n \in DOMAIN committed :
    committed[n].id = requestId[committed[n].client] => floor[committed[n].client] < n

TablesRecent == \A i \in Server :
    /\ Recent(lastRequestIdMap[i], kvIndex[i])
    /\ Recent(restored(snapshotFile[i]).last, snapshotIndex[i])

\* A command is in the data before its handler is told.
ToldApplied == \A i \in Server : \A n \in Registered(i) :
    waitApplyCh[i][n] # << >> => n <= kvIndex[i]

ReadsRecent == \A call \in calls :
    call.phase = "reading" /\ call.op.id = requestId[call.op.client]
        => floor[call.op.client] <= kvIndex[call.server]

Reads == installs = 0 => TablesRecent /\ ToldApplied /\ ReadsRecent

\* The first n commands of the log are those a table knows of.
Knows(last, n) ==
    /\ \A m \in 1 .. n :
         Write(committed[m]) => committed[m].id <= last[committed[m].client]
    /\ \A m \in DOMAIN committed :
         Write(committed[m]) /\ committed[m].id <= last[committed[m].client]
             => \E q \in 1 .. n : committed[q] = committed[m]

\* With no clerk that gives up, a client's next request comes after its last.
AllLive == \A call \in calls : call.live

Seen(o, n) == \E q \in 1 .. n : committed[q] = o

EarlierSeen == \A o \in Ops :
    Write(o) /\ o.id < requestId[o.client] => Seen(o, floor[o.client])

LastSeen == \A o \in Ops : Write(o) /\ Idle(o.client) => Seen(o, done)

ClientOrder == \A m, n \in DOMAIN committed :
    Write(committed[m]) /\ committed[m].client = committed[n].client
      /\ committed[m].id < committed[n].id => Seen(committed[m], n - 1)

InTurn == fails = 0 => AllLive /\ EarlierSeen /\ LastSeen /\ ClientOrder

IsReplay(data, last, n) == Knows(last, n) /\ data = Replay[n]

FileReplays(i) ==
    IsReplay(restored(snapshotFile[i]).kv, restored(snapshotFile[i]).last,
             snapshotIndex[i])

Replayed ==
    fails = 0 /\ installs = 0 => \A i \in Server \ torn :
        /\ IsReplay(kv[i], lastRequestIdMap[i], kvIndex[i])
        /\ FileReplays(i)

\* A server dies: between two critical sections or inside Persister::Save.
Crash(i) ==
    \/ Restart(i) \/ CrashInSnapshot(i)
    \/ \E j \in Server \ {i} : CrashInInstallSnapshot(i, j)

\* The index in the state file is the one that was there or, if the server dies
\* inside Save, a greater one.
CutAt(i, cut) ==
    \/ cut = snapshotIndex[i]
    \/ /\ i \in torn'
       /\ cut > snapshotIndex[i]
       /\ \/ applyChan[i] # << >> /\ cut = Head(applyChan[i]).index
          \/ \E j \in Server : cut = snapshotIndex[j]

\* The log is as it was, or made to reach the index.
LogAfter(i, cut) ==
    \/ lastIndex' = lastIndex
    \/ lastIndex' = [lastIndex EXCEPT ![i] = larger(@, cut)]

\* What all of them do.
Dies(i, cut) ==
    /\ DiesWith(i, cut)
    /\ LogAfter(i, cut)
    /\ torn' = torn \/ torn' = torn \cup {i}
    /\ installs' = installs \/ installs' = installs + 1
    /\ CutAt(i, cut)

-----------------------------------------------------------------------------
(* The operators *)

LEMMA EmptyType == EmptyStore \in Store
BY DEF EmptyStore, Store, Value

LEMMA Crashes ==
    ASSUME NEW i \in Server, Crash(i)
    PROVE  \E cut : Dies(i, cut)
<1>1. CASE Restart(i)
  BY <1>1 DEF Restart, Dies, CutAt, LogAfter
<1>2. CASE CrashInSnapshot(i)
  BY <1>2 DEF CrashInSnapshot, Dies, CutAt, LogAfter
<1>3. CASE \E j \in Server \ {i} : CrashInInstallSnapshot(i, j)
  BY <1>3 DEF CrashInInstallSnapshot, Dies, CutAt, LogAfter
<1> QED BY <1>1, <1>2, <1>3 DEF Crash

\* An index that was written is one, and no log gets shorter.
LEMMA CutIndex ==
    ASSUME Types, NEW i \in Server, NEW cut, Dies(i, cut)
    PROVE  /\ cut \in Nat /\ snapshotIndex[i] <= cut
           /\ lastIndex' \in [Server -> Nat]
           /\ \A j \in Server : lastIndex[j] <= lastIndex'[j]
<1>1. /\ snapshotIndex \in [Server -> Nat] /\ lastIndex \in [Server -> Nat]
      /\ applyChan[i] \in Seq(Message)
  BY DEF Types, RaftTypes, StateTypes
<1>2. applyChan[i] # << >> => Head(applyChan[i]).index \in Nat
  <2>1. applyChan[i] # << >> => Head(applyChan[i]) \in Message
    BY <1>1
  <2> QED BY <2>1 DEF Message
<1>3. cut \in Nat /\ snapshotIndex[i] <= cut
  BY <1>1, <1>2 DEF Dies, CutAt
<1>4. LogAfter(i, cut)
  BY DEF Dies
<1>5. larger(lastIndex[i], cut) \in Nat /\ lastIndex[i] <= larger(lastIndex[i], cut)
  BY <1>1, <1>3 DEF larger
<1>6. CASE lastIndex' = lastIndex
  BY <1>1, <1>3, <1>6
<1>7. CASE lastIndex' = [lastIndex EXCEPT ![i] = larger(@, cut)]
  <2>1. lastIndex' \in [Server -> Nat]
    BY <1>1, <1>5, <1>7
  <2>2. \A j \in Server : lastIndex[j] <= lastIndex'[j]
    BY <1>1, <1>5, <1>7
  <2> QED BY <1>3, <2>1, <2>2
<1> QED BY <1>4, <1>6, <1>7 DEF LogAfter

\* It is within the log.
LEMMA CutWithinLog ==
    ASSUME Types, WithinLog, NEW i \in Server, NEW cut, Dies(i, cut)
    PROVE  cut <= Len(committed)
<1>1. /\ snapshotIndex \in [Server -> Nat] /\ committed \in Seq(Op)
      /\ applyChan[i] \in Seq(Message)
  BY DEF Types, RaftTypes, StateTypes
<1>2. \A j \in Server : snapshotIndex[j] <= Len(committed)
  BY DEF WithinLog
<1>3. applyChan[i] # << >> => Head(applyChan[i]).index \in DOMAIN committed
  <2>1. applyChan[i] # << >> =>
          1 \in DOMAIN applyChan[i] /\ Head(applyChan[i]) = applyChan[i][1]
    BY <1>1
  <2> QED BY <2>1 DEF WithinLog
<1>4. applyChan[i] # << >> => Head(applyChan[i]).index <= Len(committed)
  BY <1>1, <1>3
<1> QED BY <1>2, <1>4 DEF Dies, CutAt

\* What a file holds is a store.
LEMMA RestoredType ==
    ASSUME NEW file \in Snapshot
    PROVE  restored(file) \in Store
BY EmptyType DEF restored, Snapshot

LEMMA RestoredLast ==
    ASSUME NEW file \in Snapshot
    PROVE  restored(file).last \in [Client -> Nat]
BY RestoredType DEF Store

\* A nonempty set of naturals has a least member: the length of a log prefix
\* with a given property, the place where a request stands first.
LEMMA LeastOf ==
    ASSUME NEW S \in SUBSET Nat, S # {}
    PROVE  \E n \in S : \A m \in S : n <= m
<1>1. PICK k \in S : TRUE
  OBVIOUS
<1> DEFINE T == {0 .. n : n \in {m \in S : m <= k}}
<1>2. IsWellFoundedOn(StrictSubsetOrdering(0 .. k), FiniteSubsetsOf(0 .. k))
  BY FS_StrictSubsetOrderingWellFounded
<1>3. T \subseteq FiniteSubsetsOf(0 .. k)
  <2> SUFFICES ASSUME NEW n \in S, n <= k
               PROVE  0 .. n \in FiniteSubsetsOf(0 .. k)
    OBVIOUS
  <2>1. IsFiniteSet(0 .. n)
    BY FS_Interval
  <2> QED BY <2>1 DEF FiniteSubsetsOf
<1>4. T # {}
  OBVIOUS
<1>5. PICK x \in T : \A y \in T : ~(<<y, x>> \in StrictSubsetOrdering(0 .. k))
  <2> HIDE DEF T
  <2> QED BY <1>2, <1>3, <1>4, WFMin
<1>6. PICK n \in S : n <= k /\ x = 0 .. n
  BY <1>5
<1>7. ASSUME NEW m \in S, m < n
      PROVE  FALSE
  <2>1. 0 .. m \in T
    BY <1>6, <1>7
  <2>2. 0 .. m \subseteq 0 .. n /\ 0 .. m # 0 .. n
    BY <1>7
  <2>3. <<0 .. m, x>> \in StrictSubsetOrdering(0 .. k)
    BY <1>6, <1>7, <2>2 DEF StrictSubsetOrdering
  <2> QED BY <1>5, <2>1, <2>3
<1> QED BY <1>6, <1>7

\* A request that is in the log has a position there, and it is the first.
LEMMA PositionOf ==
    ASSUME Types, NEW op, InLog(op)
    PROVE  /\ positionOf(op) \in DOMAIN committed
           /\ committed[positionOf(op)] = op
           /\ positionOf(op) > 0
<1> DEFINE S == {n \in DOMAIN committed : committed[n] = op}
<1>0. committed \in Seq(Op)
  BY DEF Types, RaftTypes
<1>1. S \subseteq Nat /\ S # {}
  BY <1>0 DEF InLog
<1>2. PICK n \in S : \A m \in S : n <= m
  <2> HIDE DEF S
  <2> QED BY <1>1, LeastOf
<1>3. \A m \in 1 .. n - 1 : committed[m] # op
  BY <1>0, <1>2
<1>4. \E p \in DOMAIN committed :
         committed[p] = op /\ \A m \in 1 .. p - 1 : committed[m] # op
  BY <1>2, <1>3
<1>5. positionOf(op) = CHOOSE p \in DOMAIN committed :
         committed[p] = op /\ \A m \in 1 .. p - 1 : committed[m] # op
  BY <1>4 DEF positionOf
<1> QED BY <1>0, <1>4, <1>5

LEMMA StoreTypes ==
    ASSUME NEW store \in Store, NEW op \in Op
    PROVE  applied(store, op) \in Store
<1>1. PICK d \in [Key -> Value], l \in [Client -> Nat] :
         store = [kv |-> d, last |-> l]
  BY DEF Store
<1>2. op.id \in Nat /\ op.key \in Key /\ op.client \in Client
  BY DEF Op
<1>3. \A v \in Value : written(op, v) \in Value
  <2>1. <<op.client, op.id>> \in Client \X Nat
    BY <1>2
  <2>2. PICK x \in Client \X Nat : x = <<op.client, op.id>>
    BY <2>1
  <2>3. \A v \in Seq(Client \X Nat) : Append(v, x) \in Seq(Client \X Nat)
    OBVIOUS
  <2>4. <<x>> \in Seq(Client \X Nat)
    OBVIOUS
  <2> QED BY <2>2, <2>3, <2>4 DEF written, Value
<1>4. [d EXCEPT ![op.key] = written(op, d[op.key])] \in [Key -> Value]
  <2>1. written(op, d[op.key]) \in Value
    BY <1>2, <1>3
  <2> QED BY <2>1
<1>5. [l EXCEPT ![op.client] = op.id] \in [Client -> Nat]
  BY <1>2
<1> QED BY <1>1, <1>4, <1>5 DEF applied, Store

LEMMA RequestType ==
    ASSUME NEW op \in Op, NEW i \in Server
    PROVE  request(op, i) \in Call
BY DEF request, Call

LEMMA NextServerType ==
    ASSUME NEW i \in Server
    PROVE  nextServer(i) \in Server
BY NServerAssumption DEF nextServer, Server

LEMMA LogLengthsType ==
    ASSUME Types, NEW i \in Server, NEW n \in LogLengths(i)
    PROVE  n \in Nat /\ n >= lastIndex[i]
BY DEF Types, RaftTypes, LogLengths

LEMMA CommandType ==
    ASSUME NEW n \in Nat \ {0}
    PROVE  command(n) \in Message
BY EmptyType DEF command, Message, Snapshot

-----------------------------------------------------------------------------
(* Who changes what *)

RaftFrame ==
    \/ UNCHANGED raftVars
    \/ \E call \in calls : StartAccepted(call)
    \/ \E p \in proposed : Commit(p)
    \/ \E i \in Server :
         \/ getApplyLogs(i) \/ applierPush(i)
         \/ \E j \in Server \ {i} : installSnapshot(i, j)
         \/ \E msg \in pushers[i] : pushMsgToKvServer(i, msg)
         \/ getCommandFromRaft(i) \/ Crash(i)

StateFrame ==
    \/ UNCHANGED <<applyChan, stateVars>>
    \/ \E call \in calls : ExecGet(call)
    \/ \E i \in Server :
         \/ applierPush(i)
         \/ \E msg \in pushers[i] : pushMsgToKvServer(i, msg)
         \/ getCommandCovered(i) \/ getCommandFromRaft(i) \/ getSnapshotFromRaft(i)
         \/ Crash(i)

ChannelFrame ==
    \/ UNCHANGED waitApplyCh
    \/ \E call \in calls : RegisterChannel(call) \/ DropChannel(call)
    \/ \E i \in Server : getCommandFromRaft(i) \/ Crash(i)

CallFrame ==
    \/ UNCHANGED calls
    \/ ClerkNext \/ HandlerNext
    \/ \E i \in Server : Crash(i)

\* Every step is one of those named for the variables it changes.
LEMMA Frames ==
    ASSUME [Next]_vars
    PROVE  RaftFrame /\ StateFrame /\ ChannelFrame /\ CallFrame
<1>1. CASE ClerkNext
  <2>1. UNCHANGED <<raftVars, applyChan, stateVars, waitApplyCh>>
    BY <1>1 DEF ClerkNext, Invoke, Return, Retry, RetryClosed, RpcFails
  <2> QED BY <1>1, <2>1 DEF RaftFrame, StateFrame, ChannelFrame, CallFrame
<1>2. CASE HandlerNext
  <2>1. PICK call \in calls :
          \/ StartRefused(call) \/ StartAccepted(call) \/ RegisterChannel(call)
          \/ NotifiedOther(call) \/ NotifiedWrite(call) \/ NotifiedGet(call)
          \/ TimedOutWrite(call) \/ TimedOutGetKnown(call) \/ TimedOutGet(call)
          \/ ExecGet(call)
    BY <1>2 DEF HandlerNext
  <2>2. UNCHANGED raftVars \/ StartAccepted(call)
    BY <2>1 DEF StartRefused, RegisterChannel, NotifiedOther, NotifiedWrite,
                NotifiedGet, TimedOutWrite, TimedOutGetKnown, TimedOutGet,
                TimesOut, ExecGet
  <2>3. UNCHANGED <<applyChan, stateVars>> \/ ExecGet(call)
    BY <2>1 DEF StartRefused, StartAccepted, RegisterChannel, NotifiedOther,
                NotifiedWrite, NotifiedGet, TimedOutWrite, TimedOutGetKnown,
                TimedOutGet, TimesOut
  <2>4. UNCHANGED waitApplyCh \/ RegisterChannel(call) \/ DropChannel(call)
    BY <2>1 DEF StartRefused, StartAccepted, NotifiedOther, NotifiedWrite,
                NotifiedGet, TimedOutWrite, TimedOutGetKnown, TimedOutGet, ExecGet
  <2> QED BY <1>2, <2>2, <2>3, <2>4 DEF RaftFrame, StateFrame, ChannelFrame, CallFrame
<1>3. CASE \E p \in proposed : Commit(p)
  <2>1. UNCHANGED <<applyChan, stateVars, waitApplyCh, calls>>
    BY <1>3 DEF Commit
  <2> QED BY <1>3, <2>1 DEF RaftFrame, StateFrame, ChannelFrame, CallFrame
<1>4. ASSUME NEW i \in Server,
             \/ getApplyLogs(i) \/ applierPush(i)
             \/ \E j \in Server \ {i} : installSnapshot(i, j)
             \/ \E msg \in pushers[i] : pushMsgToKvServer(i, msg)
      PROVE  RaftFrame /\ StateFrame /\ ChannelFrame /\ CallFrame
  <2>1. UNCHANGED <<waitApplyCh, calls>>
    BY <1>4 DEF getApplyLogs, applierPush, installSnapshot, pushMsgToKvServer
  <2>2. \/ UNCHANGED <<applyChan, stateVars>> \/ applierPush(i)
        \/ \E msg \in pushers[i] : pushMsgToKvServer(i, msg)
    BY <1>4 DEF getApplyLogs, installSnapshot
  <2> QED BY <1>4, <2>1, <2>2 DEF RaftFrame, StateFrame, ChannelFrame, CallFrame
<1>5. ASSUME NEW i \in Server,
             \/ getCommandCovered(i) \/ getCommandFromRaft(i)
             \/ getSnapshotFromRaft(i) \/ Crash(i)
      PROVE  RaftFrame /\ StateFrame /\ ChannelFrame /\ CallFrame
  <2>1. UNCHANGED raftVars \/ getCommandFromRaft(i) \/ Crash(i)
    BY <1>5 DEF getCommandCovered, getSnapshotFromRaft
  <2>2. UNCHANGED waitApplyCh \/ getCommandFromRaft(i) \/ Crash(i)
    BY <1>5 DEF getCommandCovered, getSnapshotFromRaft
  <2>3. UNCHANGED calls \/ Crash(i)
    BY <1>5 DEF getCommandCovered, getCommandFromRaft, getSnapshotFromRaft
  <2> QED BY <1>5, <2>1, <2>2, <2>3 DEF RaftFrame, StateFrame, ChannelFrame, CallFrame
<1>6. CASE UNCHANGED vars
  <2>1. /\ UNCHANGED raftVars /\ UNCHANGED <<applyChan, stateVars>>
        /\ UNCHANGED waitApplyCh /\ UNCHANGED calls
    BY <1>6 DEF vars
  <2> QED BY <2>1 DEF RaftFrame, StateFrame, ChannelFrame, CallFrame
<1> QED BY <1>1, <1>2, <1>3, <1>4, <1>5, <1>6 DEF Next, RaftNext, ServerNext, Crash

-----------------------------------------------------------------------------
(* The types *)

LEMMA InitTypes == Init => Types
<1> SUFFICES ASSUME Init PROVE Types
  OBVIOUS
<1>1. RaftTypes
  BY DEF Init, RaftTypes, Snapshot
<1>2. StateTypes
  BY EmptyType DEF Init, StateTypes, EmptyStore, Value
<1>3. ChannelTypes
  BY DEF Init, ChannelTypes, Registered
<1>4. CallTypes
  BY DEF Init, CallTypes
<1>5. ClerkTypes
  BY NServerAssumption DEF Init, ClerkTypes, Server
<1>6. BoundTypes
  BY DEF Init, BoundTypes
<1> QED BY <1>1, <1>2, <1>3, <1>4, <1>5, <1>6 DEF Types

\* What a server holds is a store, and so is what a command makes of it.
LEMMA CurrentType ==
    ASSUME Types, NEW i \in Server
    PROVE  /\ current(i) \in Store
           /\ \A n \in DOMAIN committed : applied(current(i), committed[n]) \in Store
<1>1. current(i) \in Store
  BY DEF Types, StateTypes, current, Store
<1>2. \A n \in DOMAIN committed : committed[n] \in Op
  BY DEF Types, RaftTypes
<1> QED BY <1>1, <1>2, StoreTypes

\* The first message of a queue is a message, within the log.
LEMMA HeadOfQueue ==
    ASSUME Types, WithinLog, NEW i \in Server, applyChan[i] # << >>
    PROVE  /\ Head(applyChan[i]) \in Message
           /\ Head(applyChan[i]) = applyChan[i][1] /\ 1 \in DOMAIN applyChan[i]
           /\ Head(applyChan[i]).index \in DOMAIN committed
           /\ Tail(applyChan[i]) \in Seq(Message)
           /\ Len(Tail(applyChan[i])) = Len(applyChan[i]) - 1
           /\ \A k \in DOMAIN Tail(applyChan[i]) :
                k + 1 \in DOMAIN applyChan[i] /\ Tail(applyChan[i])[k] = applyChan[i][k + 1]
<1>1. applyChan[i] \in Seq(Message)
  BY DEF Types, StateTypes
<1>2. 1 \in DOMAIN applyChan[i] /\ Head(applyChan[i]) = applyChan[i][1]
  BY <1>1
<1>3. Head(applyChan[i]).index \in DOMAIN committed
  BY <1>2 DEF WithinLog
<1> QED BY <1>1, <1>2, <1>3

LEMMA RaftTypesStep ==
    ASSUME Types, WithinLog, RaftFrame
    PROVE  RaftTypes'
<1> USE DEF RaftTypes
<1>0. RaftTypes
  BY DEF Types
<1>1. CASE UNCHANGED raftVars
  BY <1>0, <1>1 DEF raftVars
<1>2. ASSUME NEW call \in calls, StartAccepted(call)
      PROVE  RaftTypes'
  <2>1. call.server \in Server /\ call.op \in Op
    BY DEF Types, CallTypes, Call
  <2>2. PICK last \in LogLengths(call.server) :
          LET n == getNewCommandIndex(last) IN
          /\ lastIndex' = [lastIndex EXCEPT ![call.server] = n]
          /\ proposed' = proposed \cup
               {p \in {[index |-> n, op |-> call.op]} : n > Len(committed)}
    BY <1>2 DEF StartAccepted
  <2>3. getNewCommandIndex(last) \in Nat
    BY <2>1, LogLengthsType DEF getNewCommandIndex
  <2>4. UNCHANGED <<committed, lastApplied, snapshotIndex, snapshotFile, batch,
                    pushers>>
    BY <1>2 DEF StartAccepted
  <2> QED BY <1>0, <2>1, <2>2, <2>3, <2>4
<1>3. ASSUME NEW p \in proposed, Commit(p)
      PROVE  RaftTypes'
  BY <1>0, <1>3 DEF Commit
<1>4. ASSUME NEW i \in Server, getApplyLogs(i)
      PROVE  RaftTypes'
  <2>1. PICK n \in lastApplied[i] + 1 .. Len(committed) :
         /\ batch' = [batch EXCEPT
              ![i] = [k \in 1 .. n - lastApplied[i] |-> lastApplied[i] + k]]
         /\ lastApplied' = [lastApplied EXCEPT ![i] = n]
         /\ lastIndex' = [lastIndex EXCEPT ![i] = larger(@, n)]
    BY <1>4 DEF getApplyLogs
  <2>2. lastApplied[i] \in Nat /\ n \in Nat /\ n >= lastApplied[i]
    BY <1>0
  <2>3. [k \in 1 .. n - lastApplied[i] |-> lastApplied[i] + k] \in Seq(Nat)
    <3>1. PICK m \in Nat : m = n - lastApplied[i]
      BY <2>2
    <3>2. [k \in 1 .. m |-> lastApplied[i] + k] \in [1 .. m -> Nat]
      BY <2>2
    <3> QED BY <3>1, <3>2
  <2>4. UNCHANGED <<committed, proposed, snapshotIndex, snapshotFile, pushers>>
    BY <1>4 DEF getApplyLogs
  <2> QED BY <1>0, <2>1, <2>2, <2>3, <2>4 DEF larger
<1>5. ASSUME NEW i \in Server, applierPush(i)
      PROVE  RaftTypes'
  <2>1. batch[i] \in Seq(Nat) /\ batch[i] # << >>
    BY <1>0, <1>5 DEF applierPush
  <2> QED BY <1>0, <1>5, <2>1 DEF applierPush
<1>6. ASSUME NEW i \in Server, NEW j \in Server, installSnapshot(i, j)
      PROVE  RaftTypes'
  <2>1. snapshotFile[j] \in Snapshot /\ snapshotIndex[j] \in Nat \ {0}
    BY <1>0, <1>6 DEF installSnapshot
  <2>2. [kind |-> "snapshot", index |-> snapshotIndex[j], data |-> snapshotFile[j]]
          \in Message
    BY <2>1 DEF Message
  <2>3. pushers' \in [Server -> SUBSET Message]
    BY <1>0, <1>6, <2>2 DEF installSnapshot
  <2> QED BY <1>0, <1>6, <2>1, <2>3 DEF installSnapshot, larger
<1>7. ASSUME NEW i \in Server, NEW msg \in pushers[i], pushMsgToKvServer(i, msg)
      PROVE  RaftTypes'
  BY <1>0, <1>7 DEF pushMsgToKvServer
<1>8. ASSUME NEW i \in Server, getCommandFromRaft(i)
      PROVE  RaftTypes'
  <2> DEFINE n == Head(applyChan[i]).index
  <2>1. n \in Nat /\ applied(current(i), committed[n]) \in Store
    BY <1>0, <1>8, HeadOfQueue, CurrentType DEF getCommandFromRaft, Received
  <2>2. \/ UNCHANGED <<snapshotIndex, snapshotFile>>
        \/ TakeSnapshot(i, n, applied(current(i), committed[n]))
    BY <1>8 DEF getCommandFromRaft
  <2> HIDE DEF n
  <2>3. /\ snapshotIndex' \in [Server -> Nat]
        /\ snapshotFile' \in [Server -> Snapshot]
    BY <1>0, <2>1, <2>2 DEF TakeSnapshot, getSnapshotData, Snapshot
  <2>4. UNCHANGED <<committed, proposed, lastIndex, lastApplied, batch, pushers>>
    BY <1>8 DEF getCommandFromRaft
  <2> QED BY <1>0, <2>3, <2>4
<1>9. ASSUME NEW i \in Server, Crash(i)
      PROVE  RaftTypes'
  <2>0. PICK cut : Dies(i, cut)
    BY <1>9, Crashes
  <2>1. /\ lastApplied' = [lastApplied EXCEPT ![i] = cut]
        /\ snapshotIndex' = [snapshotIndex EXCEPT ![i] = cut]
        /\ batch' = [batch EXCEPT ![i] = << >>]
        /\ pushers' = [pushers EXCEPT ![i] = {}]
        /\ committed' = committed /\ proposed' = proposed
        /\ snapshotFile' = snapshotFile
    BY <2>0 DEF Dies, DiesWith
  <2>2. cut \in Nat
    BY <2>0, CutIndex
  <2>3. lastIndex' \in [Server -> Nat]
    BY <2>0, CutIndex
  <2>4. lastApplied' \in [Server -> Nat] /\ snapshotIndex' \in [Server -> Nat]
    BY <1>0, <2>1, <2>2
  <2>5. batch' \in [Server -> Seq(Nat)]
    BY <1>0, <2>1
  <2>6. pushers' \in [Server -> SUBSET Message]
    BY <1>0, <2>1
  <2> QED BY <1>0, <2>1, <2>3, <2>4, <2>5, <2>6
<1> QED BY <1>1, <1>2, <1>3, <1>4, <1>5, <1>6, <1>7, <1>8, <1>9 DEF RaftFrame

LEMMA StateTypesStep ==
    ASSUME Types, WithinLog, StateFrame
    PROVE  StateTypes'
<1> USE DEF StateTypes
<1>0. StateTypes
  BY DEF Types
<1>1. CASE UNCHANGED <<applyChan, stateVars>>
  BY <1>0, <1>1 DEF stateVars
<1>2. ASSUME NEW call \in calls, ExecGet(call)
      PROVE  StateTypes'
  <2>1. call.server \in Server /\ call.op.id \in Nat
    BY DEF Types, CallTypes, Call, Op
  <2> QED BY <1>0, <1>2, <2>1 DEF ExecGet
<1>3. ASSUME NEW i \in Server, applierPush(i)
      PROVE  StateTypes'
  <2>1. batch[i] \in Seq(Nat) /\ batch[i] # << >> /\ batch[i][1] \in DOMAIN committed
    BY <1>3 DEF applierPush, WithinLog, Types, RaftTypes
  <2>2. Head(batch[i]) \in Nat \ {0}
    BY <2>1 DEF Types, RaftTypes
  <2>3. command(Head(batch[i])) \in Message
    BY <2>2, CommandType
  <2> QED BY <1>0, <1>3, <2>3 DEF applierPush, stateVars
<1>4. ASSUME NEW i \in Server, NEW msg \in pushers[i], pushMsgToKvServer(i, msg)
      PROVE  StateTypes'
  <2>1. msg \in Message
    BY DEF Types, RaftTypes
  <2> QED BY <1>0, <1>4, <2>1 DEF pushMsgToKvServer, stateVars
<1>5. ASSUME NEW i \in Server, getCommandCovered(i)
      PROVE  StateTypes'
  <2>1. Tail(applyChan[i]) \in Seq(Message)
    BY <1>5, HeadOfQueue DEF getCommandCovered, Received
  <2> QED BY <1>0, <1>5, <2>1 DEF getCommandCovered, Received, stateVars
<1>6. ASSUME NEW i \in Server, getCommandFromRaft(i)
      PROVE  StateTypes'
  <2> DEFINE n == Head(applyChan[i]).index
             store == applied(current(i), committed[n])
  <2>0. applyChan[i] # << >>
    BY <1>6 DEF getCommandFromRaft, Received
  <2>1. n \in Nat /\ store \in Store /\ Tail(applyChan[i]) \in Seq(Message)
    BY <2>0, HeadOfQueue, CurrentType DEF Message
  <2>2. store.kv \in [Key -> Value] /\ store.last \in [Client -> Nat]
    BY <2>1 DEF Store
  <2>3. /\ applyChan' = [applyChan EXCEPT ![i] = Tail(applyChan[i])]
        /\ kv' = [kv EXCEPT ![i] = store.kv]
        /\ lastRequestIdMap' = [lastRequestIdMap EXCEPT ![i] = store.last]
        /\ kvIndex' = [kvIndex EXCEPT ![i] = n]
        /\ UNCHANGED lastSnapShotRaftLogIndex
    BY <1>6 DEF getCommandFromRaft, Received
  <2> HIDE DEF n, store
  <2> QED BY <1>0, <2>1, <2>2, <2>3
<1>7. ASSUME NEW i \in Server, getSnapshotFromRaft(i)
      PROVE  StateTypes'
  <2> DEFINE msg == Head(applyChan[i])
             store == loaded(i, msg.data)
  <2>1. msg \in Message /\ Tail(applyChan[i]) \in Seq(Message)
    BY <1>7, HeadOfQueue DEF getSnapshotFromRaft, Received
  <2>2. msg.data \in Snapshot /\ msg.index \in Nat
    BY <2>1 DEF Message
  <2>3. store.kv \in [Key -> Value] /\ store.last \in [Client -> Nat]
    <3>1. CASE msg.data = NoSnapshot
      BY <1>0, <3>1 DEF loaded, current
    <3>2. CASE msg.data # NoSnapshot
      <4>1. msg.data.kv \in [Key -> Value] /\ msg.data.last \in [Client -> Nat]
        BY <2>2, <3>2 DEF Snapshot, Store
      <4> QED BY <1>0, <3>2, <4>1 DEF loaded
    <3> QED BY <3>1, <3>2
  <2>4. /\ applyChan' = [applyChan EXCEPT ![i] = Tail(applyChan[i])]
        /\ kv' = [kv EXCEPT ![i] = store.kv]
        /\ lastRequestIdMap' = [lastRequestIdMap EXCEPT ![i] = store.last]
        /\ kvIndex' = [kvIndex EXCEPT ![i] = msg.index]
        /\ lastSnapShotRaftLogIndex' =
             [lastSnapShotRaftLogIndex EXCEPT ![i] = msg.index]
    BY <1>7 DEF getSnapshotFromRaft, Received
  <2> HIDE DEF msg, store
  <2> QED BY <1>0, <2>1, <2>2, <2>3, <2>4
<1>8. ASSUME NEW i \in Server, Crash(i)
      PROVE  StateTypes'
  <2> DEFINE store == restored(snapshotFile[i])
  <2>0. PICK cut : Dies(i, cut)
    BY <1>8, Crashes
  <2>1. /\ store.kv \in [Key -> Value] /\ store.last \in [Client -> Nat]
        /\ cut \in Nat
    <3>1. snapshotFile[i] \in Snapshot
      BY DEF Types, RaftTypes
    <3>2. store \in Store
      BY <3>1, RestoredType
    <3> QED BY <2>0, <3>2, CutIndex DEF Store
  <2>2. /\ applyChan' = [applyChan EXCEPT ![i] = << >>]
        /\ kv' = [kv EXCEPT ![i] = store.kv]
        /\ lastRequestIdMap' = [lastRequestIdMap EXCEPT ![i] = store.last]
        /\ lastSnapShotRaftLogIndex' = [lastSnapShotRaftLogIndex EXCEPT ![i] = 0]
        /\ kvIndex' = [kvIndex EXCEPT ![i] = cut]
    BY <2>0 DEF Dies, DiesWith
  <2> HIDE DEF store
  <2>3. << >> \in Seq(Message)
    OBVIOUS
  <2> QED BY <1>0, <2>1, <2>2, <2>3
<1> QED BY <1>1, <1>2, <1>3, <1>4, <1>5, <1>6, <1>7, <1>8 DEF StateFrame

\* The channels of one server are replaced.
LEMMA ChannelUpdate ==
    ASSUME ChannelTypes, NEW i \in Server, NEW D \in SUBSET Nat, NEW G \in [D -> Seq(Op)],
           waitApplyCh' = [waitApplyCh EXCEPT ![i] = G]
    PROVE  /\ ChannelTypes'
           /\ waitApplyCh'[i] = G
           /\ \A j \in Server \ {i} : waitApplyCh'[j] = waitApplyCh[j]
<1>1. waitApplyCh'[i] = G /\ \A j \in Server \ {i} : waitApplyCh'[j] = waitApplyCh[j]
  BY DEF ChannelTypes
<1>2. \A j \in Server : waitApplyCh[j] = [n \in Registered(j) |-> waitApplyCh[j][n]]
  BY DEF ChannelTypes
<1>3. G = [n \in D |-> G[n]]
  OBVIOUS
<1>4. \A j \in Server : waitApplyCh'[j] = [n \in Registered(j)' |-> waitApplyCh'[j][n]]
  <2>1. ASSUME NEW j \in Server \ {i}
        PROVE  waitApplyCh'[j] = [n \in DOMAIN waitApplyCh'[j] |-> waitApplyCh'[j][n]]
    <3>1. PICK f : f = waitApplyCh[j]
      OBVIOUS
    <3>2. f = [n \in DOMAIN f |-> f[n]]
      BY <1>2, <3>1 DEF Registered
    <3> QED BY <1>1, <3>1, <3>2
  <2>2. waitApplyCh'[i] = [n \in DOMAIN waitApplyCh'[i] |-> waitApplyCh'[i][n]]
    BY <1>1
  <2> QED BY <2>1, <2>2 DEF Registered
<1>5. DOMAIN waitApplyCh = Server /\ DOMAIN waitApplyCh' = DOMAIN waitApplyCh
  <2>1. DOMAIN waitApplyCh = Server
    <3> DEFINE H(j) == [n \in Registered(j) |-> waitApplyCh[j][n]]
    <3>1. waitApplyCh = [j \in Server |-> H(j)]
      BY DEF ChannelTypes
    <3> HIDE DEF H
    <3> QED BY <3>1
  <2> QED BY <2>1
<1>6. waitApplyCh' =
        [j \in Server |-> [n \in Registered(j)' |-> waitApplyCh'[j][n]]]
  <2>1. waitApplyCh' = [j \in Server |-> waitApplyCh'[j]]
    BY <1>5
  <2> QED BY <2>1, <1>4
<1>7. \A j \in Server : /\ Registered(j)' \subseteq Nat
                        /\ \A n \in Registered(j)' : waitApplyCh'[j][n] \in Seq(Op)
  BY <1>1 DEF ChannelTypes, Registered
<1> QED BY <1>1, <1>6, <1>7 DEF ChannelTypes

LEMMA Dropped ==
    ASSUME Types, NEW call \in calls, DropChannel(call)
    PROVE  /\ ChannelTypes'
           /\ waitApplyCh'[call.server] =
                [n \in Registered(call.server) \ {call.index} |->
                   waitApplyCh[call.server][n]]
           /\ \A j \in Server \ {call.server} : waitApplyCh'[j] = waitApplyCh[j]
<1> DEFINE i == call.server
           D == Registered(i) \ {call.index}
           G == [n \in D |-> waitApplyCh[i][n]]
<1>1. i \in Server /\ ChannelTypes
  BY DEF Types, CallTypes, Call
<1>2. D \in SUBSET Nat /\ G \in [D -> Seq(Op)]
  BY <1>1 DEF ChannelTypes
<1>3. waitApplyCh' = [waitApplyCh EXCEPT ![i] = G]
  BY DEF DropChannel, Registered
<1> HIDE DEF i, D, G
<1>4. /\ ChannelTypes' /\ waitApplyCh'[i] = G
      /\ \A j \in Server \ {i} : waitApplyCh'[j] = waitApplyCh[j]
  BY <1>1, <1>2, <1>3, ChannelUpdate
<1> QED BY <1>4 DEF i, D, G

LEMMA RegisteredChannel ==
    ASSUME Types, NEW call \in calls, RegisterChannel(call)
    PROVE  /\ ChannelTypes'
           /\ waitApplyCh'[call.server] =
                [n \in Registered(call.server) \cup {call.index} |->
                   IF n \in Registered(call.server)
                   THEN waitApplyCh[call.server][n] ELSE << >>]
           /\ \A j \in Server \ {call.server} : waitApplyCh'[j] = waitApplyCh[j]
<1> DEFINE i == call.server
           D == Registered(i) \cup {call.index}
           G == [n \in D |-> IF n \in Registered(i) THEN waitApplyCh[i][n] ELSE << >>]
<1>1. i \in Server /\ ChannelTypes /\ call.index \in Nat
  BY DEF Types, CallTypes, Call
<1>2. D \in SUBSET Nat /\ G \in [D -> Seq(Op)]
  <2>1. << >> \in Seq(Op)
    OBVIOUS
  <2> QED BY <1>1, <2>1 DEF ChannelTypes
<1>3. waitApplyCh' = [waitApplyCh EXCEPT ![i] = G]
  BY DEF RegisterChannel
<1> HIDE DEF i, D, G
<1>4. /\ ChannelTypes' /\ waitApplyCh'[i] = G
      /\ \A j \in Server \ {i} : waitApplyCh'[j] = waitApplyCh[j]
  BY <1>1, <1>2, <1>3, ChannelUpdate
<1> QED BY <1>4 DEF i, D, G

LEMMA Notified ==
    ASSUME Types, NEW i \in Server, NEW n \in Nat, NEW op \in Op, Notify(i, n, op)
    PROVE  /\ ChannelTypes'
           /\ waitApplyCh'[i] =
                [m \in Registered(i) |-> IF m = n THEN Append(waitApplyCh[i][m], op)
                                                 ELSE waitApplyCh[i][m]]
           /\ \A j \in Server \ {i} : waitApplyCh'[j] = waitApplyCh[j]
<1> DEFINE D == Registered(i)
           G == [m \in D |-> IF m = n THEN Append(waitApplyCh[i][m], op)
                                      ELSE waitApplyCh[i][m]]
<1>1. ChannelTypes
  BY DEF Types
<1>2. D \in SUBSET Nat /\ G \in [D -> Seq(Op)]
  BY <1>1 DEF ChannelTypes
<1>3. waitApplyCh' = [waitApplyCh EXCEPT ![i] = G]
  BY DEF Notify, Registered
<1> HIDE DEF D, G
<1>4. /\ ChannelTypes' /\ waitApplyCh'[i] = G
      /\ \A j \in Server \ {i} : waitApplyCh'[j] = waitApplyCh[j]
  BY <1>1, <1>2, <1>3, ChannelUpdate
<1> QED BY <1>4 DEF D, G

LEMMA Emptied ==
    ASSUME Types, NEW i \in Server, waitApplyCh' = [waitApplyCh EXCEPT ![i] = << >>]
    PROVE  /\ ChannelTypes'
           /\ waitApplyCh'[i] = << >>
           /\ \A j \in Server \ {i} : waitApplyCh'[j] = waitApplyCh[j]
<1>1. << >> \in [{} -> Seq(Op)] /\ {} \in SUBSET Nat /\ ChannelTypes
  BY DEF Types
<1> QED BY <1>1, ChannelUpdate

LEMMA ChannelTypesStep ==
    ASSUME Types, WithinLog, ChannelFrame
    PROVE  ChannelTypes'
<1>1. CASE UNCHANGED waitApplyCh
  BY <1>1 DEF Types, ChannelTypes, Registered
<1>2. CASE \E call \in calls : RegisterChannel(call) \/ DropChannel(call)
  BY <1>2, RegisteredChannel, Dropped
<1>3. ASSUME NEW i \in Server, getCommandFromRaft(i)
      PROVE  ChannelTypes'
  <2>1. applyChan[i] # << >>
    BY <1>3 DEF getCommandFromRaft, Received
  <2>2. PICK n \in DOMAIN committed : n = Head(applyChan[i]).index
    BY <2>1, HeadOfQueue
  <2>3. n \in Nat /\ committed[n] \in Op
    BY DEF Types, RaftTypes
  <2>4. Notify(i, n, committed[n])
    BY <1>3, <2>2 DEF getCommandFromRaft
  <2> QED BY <2>3, <2>4, Notified
<1>4. ASSUME NEW i \in Server, Crash(i)
      PROVE  ChannelTypes'
  <2>1. waitApplyCh' = [waitApplyCh EXCEPT ![i] = << >>]
    BY <1>4, Crashes DEF Dies, DiesWith
  <2> QED BY <2>1, Emptied
<1> QED BY <1>1, <1>2, <1>3, <1>4 DEF ChannelFrame

LEMMA MovedPhase ==
    ASSUME NEW call \in Call, NEW ph \in {"waiting", "reading"}, NEW next,
           next = [call EXCEPT !.phase = ph]
    PROVE  /\ next \in Call
           /\ next.op = call.op /\ next.server = call.server
           /\ next.live = call.live /\ next.phase = ph /\ next.index = call.index
           /\ next.err = call.err /\ next.upto = call.upto
BY ZenonT(60) DEF Call

LEMMA Abandoned ==
    ASSUME NEW call \in Call, NEW next, next = [call EXCEPT !.live = FALSE]
    PROVE  /\ next \in Call
           /\ next.op = call.op /\ next.server = call.server
           /\ next.live = FALSE /\ next.phase = call.phase
           /\ next.index = call.index
           /\ next.err = call.err /\ next.upto = call.upto
BY ZenonT(60) DEF Call

\* A handler's step replaces its call by what the call becomes: the same
\* request, at the same server, of the same clerk.
Handled(call, next) ==
    /\ Becomes(call, next)
    /\ call.phase # "reply"
    /\ next \in Call
    /\ next.op = call.op /\ next.server = call.server /\ next.live = call.live

\* The ways a handler moves on.
Refuses(call, next) ==
    /\ next.phase = "reply" /\ next.err = "ErrWrongLeader" /\ next.upto = 0
    /\ UNCHANGED waitApplyCh \/ (call.phase = "waiting" /\ DropChannel(call))
    /\ UNCHANGED <<raftVars, applyChan, stateVars>>

Starts(call, next) ==
    /\ call.phase = "sent"
    /\ StartAccepted(call)
    /\ next.phase = "started" /\ next.upto = call.upto
    /\ next.index = lastIndex'[call.server] /\ next.index > lastIndex[call.server]

Registers(call, next) ==
    /\ call.phase = "started"
    /\ RegisterChannel(call)
    /\ next.phase = "waiting" /\ next.index = call.index /\ next.upto = call.upto

Proceeds(call, next) ==
    /\ call.phase = "waiting" /\ ~Write(call.op)
    /\ \/ Channel(call) # << >> /\ IsOwn(call.op, Head(Channel(call)))
       \/ Known(call)
    /\ next.phase = "reading" /\ next.index = call.index /\ next.upto = call.upto
    /\ UNCHANGED <<raftVars, applyChan, stateVars, waitApplyCh>>

Acknowledges(call, next) ==
    /\ call.phase = "waiting" /\ Write(call.op)
    /\ \/ Channel(call) # << >> /\ IsOwn(call.op, Head(Channel(call)))
       \/ Known(call)
    /\ next.phase = "reply" /\ next.err = "OK" /\ next.upto = 0
    /\ DropChannel(call)
    /\ UNCHANGED <<raftVars, applyChan, stateVars>>

ReadsAndAnswers(call, next) ==
    /\ call.phase = "reading"
    /\ ExecGet(call)
    /\ next.phase = "reply" /\ next.err \in {"OK", "ErrNoKey"}
    /\ next.upto = kvIndex[call.server]

Outcome(call, next) ==
    \/ Refuses(call, next) \/ Starts(call, next) \/ Registers(call, next)
    \/ Proceeds(call, next) \/ Acknowledges(call, next) \/ ReadsAndAnswers(call, next)

LEMMA Outcomes ==
    ASSUME Types, HandlerNext
    PROVE  \E call \in calls : \E next : Handled(call, next) /\ Outcome(call, next)
<1>1. PICK call \in calls :
        \/ StartRefused(call) \/ StartAccepted(call) \/ RegisterChannel(call)
        \/ NotifiedOther(call) \/ NotifiedWrite(call) \/ NotifiedGet(call)
        \/ TimedOutWrite(call) \/ TimedOutGetKnown(call) \/ TimedOutGet(call)
        \/ ExecGet(call)
  BY DEF HandlerNext
<1>2. call \in Call /\ call.server \in Server /\ call.index \in Nat
  BY DEF Types, CallTypes, Call
<1> DEFINE Goal == \E next : Handled(call, next) /\ Outcome(call, next)
<1>4. ASSUME call.phase # "reply",
             Becomes(call, replied(call, "ErrWrongLeader", 0)),
             UNCHANGED waitApplyCh \/ (call.phase = "waiting" /\ DropChannel(call)),
             UNCHANGED <<raftVars, applyChan, stateVars>>
      PROVE  Goal
  <2>1. PICK next : next = replied(call, "ErrWrongLeader", 0)
    OBVIOUS
  <2>2. /\ next \in Call
        /\ next.op = call.op /\ next.server = call.server
        /\ next.live = call.live
        /\ next.phase = "reply" /\ next.err = "ErrWrongLeader" /\ next.upto = 0
    BY <1>2, <2>1, ZenonT(60) DEF replied, Call
  <2>3. Handled(call, next)
    BY <1>4, <2>1, <2>2, Zenon DEF Handled
  <2>4. Refuses(call, next)
    BY <1>4, <2>2, Zenon DEF Refuses
  <2> QED BY <2>3, <2>4 DEF Outcome
<1>5. ASSUME call.phase = "waiting", Write(call.op),
             Becomes(call, replied(call, "OK", 0)),
             \/ Channel(call) # << >> /\ IsOwn(call.op, Head(Channel(call)))
             \/ Known(call),
             DropChannel(call),
             UNCHANGED <<raftVars, applyChan, stateVars>>
      PROVE  Goal
  <2>1. PICK next : next = replied(call, "OK", 0)
    OBVIOUS
  <2>2. /\ next \in Call
        /\ next.op = call.op /\ next.server = call.server
        /\ next.live = call.live
        /\ next.phase = "reply" /\ next.err = "OK" /\ next.upto = 0
    BY <1>2, <2>1, ZenonT(60) DEF replied, Call
  <2>3. Handled(call, next)
    BY <1>5, <2>1, <2>2, Zenon DEF Handled
  <2>4. Acknowledges(call, next)
    BY <1>5, <2>2, Zenon DEF Acknowledges
  <2> QED BY <2>3, <2>4 DEF Outcome
<1>6. ASSUME call.phase = "waiting", ~Write(call.op),
             Becomes(call, [call EXCEPT !.phase = "reading"]),
             \/ Channel(call) # << >> /\ IsOwn(call.op, Head(Channel(call)))
             \/ Known(call),
             UNCHANGED <<raftVars, applyChan, stateVars, waitApplyCh>>
      PROVE  Goal
  <2>0. PICK next : next = [call EXCEPT !.phase = "reading"]
    OBVIOUS
  <2>1. /\ next \in Call
        /\ next.op = call.op /\ next.server = call.server /\ next.live = call.live
        /\ next.phase = "reading" /\ next.index = call.index /\ next.upto = call.upto
    BY <1>2, <2>0, MovedPhase
  <2>2. Becomes(call, next)
    BY <1>6, <2>0, Zenon
  <2>3. Handled(call, next)
    BY <1>6, <2>1, <2>2 DEF Handled
  <2>4. Proceeds(call, next)
    BY <1>6, <2>1 DEF Proceeds
  <2> QED BY <2>3, <2>4 DEF Outcome
<1> HIDE DEF Goal
<1>7. ASSUME StartRefused(call) PROVE Goal
  BY <1>4, <1>7 DEF StartRefused
<1>8. ASSUME StartAccepted(call) PROVE Goal
  <2> USE DEF Goal
  <2>1. PICK last \in LogLengths(call.server) :
          LET n == getNewCommandIndex(last) IN
          /\ lastIndex' = [lastIndex EXCEPT ![call.server] = n]
          /\ Becomes(call, [call EXCEPT !.phase = "started", !.index = n])
    BY <1>8 DEF StartAccepted
  <2>0. PICK n : n = getNewCommandIndex(last)
    OBVIOUS
  <2>9. PICK next : next = [call EXCEPT !.phase = "started", !.index = n]
    OBVIOUS
  <2>2. n \in Nat /\ n > lastIndex[call.server]
    BY <1>2, <2>0, <2>1, LogLengthsType DEF getNewCommandIndex, Types, RaftTypes
  <2>3. lastIndex'[call.server] = n
    BY <1>2, <2>0, <2>1 DEF Types, RaftTypes
  <2>8. Becomes(call, next)
    BY <2>0, <2>1, <2>9, Zenon
  <2>4. /\ next \in Call
        /\ next.op = call.op /\ next.server = call.server /\ next.live = call.live
        /\ next.phase = "started" /\ next.index = n /\ next.upto = call.upto
    BY <1>2, <2>2, <2>9, ZenonT(60) DEF Call
  <2>5. call.phase = "sent"
    BY <1>8 DEF StartAccepted
  <2>6. Handled(call, next)
    BY <2>8, <2>4, <2>5, Zenon DEF Handled
  <2>7. Starts(call, next)
    BY <1>8, <2>2, <2>3, <2>4, <2>5 DEF Starts
  <2> QED BY <2>6, <2>7 DEF Outcome
<1>9. ASSUME RegisterChannel(call) PROVE Goal
  <2> USE DEF Goal
  <2>0. PICK next : next = [call EXCEPT !.phase = "waiting"]
    OBVIOUS
  <2>1. /\ next \in Call
        /\ next.op = call.op /\ next.server = call.server /\ next.live = call.live
        /\ next.phase = "waiting" /\ next.index = call.index /\ next.upto = call.upto
    BY <1>2, <2>0, MovedPhase
  <2>2. call.phase = "started" /\ Becomes(call, next)
    BY <1>9, <2>0, Zenon DEF RegisterChannel
  <2>3. Handled(call, next)
    BY <2>1, <2>2 DEF Handled
  <2>4. Registers(call, next)
    BY <1>9, <2>1, <2>2 DEF Registers
  <2> QED BY <2>3, <2>4 DEF Outcome
<1>10. ASSUME NotifiedOther(call) PROVE Goal
  BY <1>4, <1>10 DEF NotifiedOther
<1>11. ASSUME NotifiedWrite(call) PROVE Goal
  BY <1>5, <1>11 DEF NotifiedWrite, Write
<1>12. ASSUME NotifiedGet(call) PROVE Goal
  BY <1>6, <1>12 DEF NotifiedGet, Write
<1>13. ASSUME TimedOutWrite(call) PROVE Goal
  BY <1>4, <1>5, <1>13 DEF TimedOutWrite, TimesOut, Write
<1>14. ASSUME TimedOutGetKnown(call) PROVE Goal
  BY <1>6, <1>14 DEF TimedOutGetKnown, TimesOut, Write
<1>15. ASSUME TimedOutGet(call) PROVE Goal
  BY <1>4, <1>15 DEF TimedOutGet, TimesOut
<1>16. ASSUME ExecGet(call) PROVE Goal
  <2> USE DEF Goal
  <2>1. PICK err \in {"OK", "ErrNoKey"} :
          Becomes(call, replied(call, err, kvIndex[call.server]))
    BY <1>16 DEF ExecGet
  <2>2. kvIndex[call.server] \in Nat
    BY <1>2 DEF Types, StateTypes
  <2>3. call.phase = "reading"
    BY <1>16 DEF ExecGet
  <2>4. PICK next : next = replied(call, err, kvIndex[call.server])
    OBVIOUS
  <2>5. /\ next \in Call
        /\ next.op = call.op /\ next.server = call.server
        /\ next.live = call.live
        /\ next.phase = "reply" /\ next.err = err /\ next.upto = kvIndex[call.server]
    BY <1>2, <2>2, <2>4, ZenonT(60) DEF replied, Call
  <2>6. Handled(call, next)
    BY <2>1, <2>3, <2>4, <2>5, Zenon DEF Handled
  <2>7. ReadsAndAnswers(call, next)
    BY <1>16, <2>3, <2>5, Zenon DEF ReadsAndAnswers
  <2> QED BY <2>6, <2>7 DEF Outcome
<1>17. Goal
  BY <1>1, <1>7, <1>8, <1>9, <1>10, <1>11, <1>12, <1>13, <1>14, <1>15, <1>16
<1> QED BY <1>17 DEF Goal

\* The clerk's RPC of call ends without a result, and it sends the request again.
Resends(call, next) ==
    /\ call.live
    /\ next \in Call /\ next.op = call.op /\ next.live = TRUE
    /\ next.phase = "sent" /\ next.index = 0 /\ next.err = "" /\ next.upto = 0
    /\ \/ calls' = (calls \ {call}) \cup {next}
       \/ fails' # 0 /\ \E left \in Call :
            /\ left.op = call.op /\ left.server = call.server /\ left.live = FALSE
            /\ left.phase = call.phase /\ left.phase # "reply"
            /\ left.index = call.index /\ left.err = call.err /\ left.upto = call.upto
            /\ calls' = (calls \ {call}) \cup {next, left}
    /\ UNCHANGED <<raftVars, applyChan, stateVars, waitApplyCh, clerkVars, installs>>

LEMMA Resending ==
    ASSUME Types, NEW call \in calls,
           Retry(call) \/ RetryClosed(call) \/ RpcFails(call)
    PROVE  \E next : Resends(call, next)
<1>1. call \in Call /\ call.op \in Op /\ call.server \in Server
  BY DEF Types, CallTypes, Call
<1>2. nextServer(call.server) \in Server
  BY <1>1, NextServerType
<1>3. CASE Retry(call) \/ RetryClosed(call)
  <2>1. PICK i \in Server : calls' = (calls \ {call}) \cup {request(call.op, i)}
    BY <1>1, <1>2, <1>3 DEF Retry, RetryClosed
  <2>2. PICK next : next = request(call.op, i)
    OBVIOUS
  <2>3. /\ next \in Call /\ next.op = call.op /\ next.live = TRUE
        /\ next.phase = "sent" /\ next.index = 0 /\ next.err = "" /\ next.upto = 0
    BY <1>1, <2>2, ZenonT(60) DEF request, Call
  <2>4. /\ call.live
        /\ UNCHANGED <<raftVars, applyChan, stateVars, waitApplyCh, clerkVars, installs>>
    BY <1>3 DEF Retry, RetryClosed, Answer, boundVars
  <2>5. calls' = (calls \ {call}) \cup {next}
    BY <2>1, <2>2
  <2> QED BY <2>3, <2>4, <2>5, Zenon DEF Resends
<1>4. CASE RpcFails(call)
  <2>1. PICK i \in Server :
          calls' = (calls \ {call}) \cup {request(call.op, i)} \cup
                    {[a EXCEPT !.live = FALSE] :
                       a \in {call} \cap {b \in calls : b.phase # "reply"}}
    BY <1>1, <1>2, <1>4 DEF RpcFails
  <2>2. PICK next : next = request(call.op, i)
    OBVIOUS
  <2>3. /\ next \in Call /\ next.op = call.op /\ next.live = TRUE
        /\ next.phase = "sent" /\ next.index = 0 /\ next.err = "" /\ next.upto = 0
    BY <1>1, <2>2, ZenonT(60) DEF request, Call
  <2>4. /\ call.live /\ fails' = fails + 1
        /\ UNCHANGED <<raftVars, applyChan, stateVars, waitApplyCh, clerkVars, installs>>
    BY <1>4 DEF RpcFails
  <2>5. fails' # 0
    BY <2>4 DEF Types, BoundTypes
  <2>6. CASE call.phase = "reply"
    <3>1. calls' = (calls \ {call}) \cup {next}
      BY <2>1, <2>2, <2>6
    <3> QED BY <2>3, <2>4, <3>1, Zenon DEF Resends
  <2>7. CASE call.phase # "reply"
    <3>1. PICK left : left = [call EXCEPT !.live = FALSE]
      OBVIOUS
    <3>2. /\ left \in Call
          /\ left.op = call.op /\ left.server = call.server /\ left.live = FALSE
          /\ left.phase = call.phase
          /\ left.index = call.index /\ left.err = call.err /\ left.upto = call.upto
      BY <1>1, <3>1, Abandoned
    <3>3. {[a EXCEPT !.live = FALSE] :
             a \in {call} \cap {b \in calls : b.phase # "reply"}} = {left}
      <4>1. {call} \cap {b \in calls : b.phase # "reply"} = {call}
        BY <2>7
      <4> QED BY <3>1, <4>1
    <3>4. calls' = (calls \ {call}) \cup {next, left}
      BY <2>1, <2>2, <3>3
    <3> QED BY <2>3, <2>4, <2>5, <2>7, <3>2, <3>4, Zenon DEF Resends
  <2> QED BY <2>6, <2>7
<1> QED BY <1>3, <1>4

\* A crash ends the handlers of a server; the clerks are told so.
LEMMA Crashed ==
    ASSUME Types, NEW i \in Server, Crash(i), NEW call \in calls'
    PROVE  /\ call \in Call
           /\ \/ call \in calls /\ (call.server # i \/ call.phase = "reply")
              \/ \E c \in calls : /\ call = replied(c, "", 0)
                                  /\ c.live /\ c.phase # "reply" /\ c.server = i
                                  /\ call.op = c.op /\ call.server = c.server
                                  /\ call.live = c.live
                                  /\ call.phase = "reply" /\ call.err = ""
                                  /\ call.upto = 0
<1>1. calls' = {c \in calls : c.server # i \/ c.phase = "reply"} \cup
               {replied(c, "", 0) :
                  c \in {d \in calls : d.server = i /\ d.live /\ d.phase # "reply"}}
  BY Crashes DEF Dies, DiesWith
<1>2. CASE call \in {c \in calls : c.server # i \/ c.phase = "reply"}
  BY <1>2 DEF Types, CallTypes
<1>3. ASSUME NEW c \in {d \in calls : d.server = i /\ d.live /\ d.phase # "reply"},
             call = replied(c, "", 0)
      PROVE  /\ call \in Call
             /\ c.live /\ c.phase # "reply" /\ c.server = i
             /\ call.op = c.op /\ call.server = c.server /\ call.live = c.live
             /\ call.phase = "reply" /\ call.err = "" /\ call.upto = 0
  <2>1. c \in Call /\ c.live /\ c.phase # "reply" /\ c.server = i
    BY DEF Types, CallTypes
  <2> QED BY <1>3, <2>1, ZenonT(60) DEF replied, Call
<1>4. CASE call \in {replied(c, "", 0) :
                  c \in {d \in calls : d.server = i /\ d.live /\ d.phase # "reply"}}
  <2>1. PICK c \in {d \in calls : d.server = i /\ d.live /\ d.phase # "reply"} :
               call = replied(c, "", 0)
    BY <1>4
  <2>2. c \in calls
    OBVIOUS
  <2> QED BY <1>3, <2>1, <2>2, Zenon
<1> QED BY <1>1, <1>2, <1>4

LEMMA CallTypesStep ==
    ASSUME Types, CallFrame
    PROVE  CallTypes'
<1> USE DEF CallTypes
<1>0. calls \subseteq Call
  BY DEF Types
<1>1. CASE UNCHANGED calls
  BY <1>0, <1>1
<1>2. ASSUME NEW c \in Client, NEW kind \in {"Put", "Append", "Get"}, NEW key \in Key,
             Invoke(c, kind, key)
      PROVE  CallTypes'
  <2> DEFINE op == [op |-> kind, key |-> key, client |-> c, id |-> requestId[c] + 1]
  <2>1. op \in Op /\ recentLeaderId[c] \in Server
    BY DEF Types, ClerkTypes, Op
  <2>2. request(op, recentLeaderId[c]) \in Call
    BY <2>1, RequestType
  <2> QED BY <1>0, <1>2, <2>2 DEF Invoke
<1>3. ASSUME NEW call \in calls, Return(call)
      PROVE  CallTypes'
  <2>1. calls' = calls \ {call}
    BY <1>3 DEF Return
  <2> QED BY <1>0, <2>1
<1>4. ASSUME NEW call \in calls,
             Retry(call) \/ RetryClosed(call) \/ RpcFails(call)
      PROVE  CallTypes'
  <2>1. PICK next : Resends(call, next)
    BY <1>4, Resending
  <2>2. next \in Call /\ \E left \in Call : calls' \subseteq calls \cup {next, left}
    BY <1>0, <2>1 DEF Resends
  <2> QED BY <1>0, <2>2
<1>5. CASE HandlerNext
  <2>1. PICK call \in calls : \E n : Handled(call, n) /\ Outcome(call, n)
    BY <1>5, Outcomes
  <2>2. PICK next : Handled(call, next)
    BY <2>1
  <2>3. next \in Call /\ calls' \subseteq calls \cup {next}
    BY <2>2 DEF Handled, Becomes
  <2> QED BY <1>0, <2>3
<1>6. CASE \E i \in Server : Crash(i)
  BY <1>6, Crashed
<1> QED BY <1>1, <1>2, <1>3, <1>4, <1>5, <1>6 DEF CallFrame, ClerkNext

ClerkFrame ==
    \/ UNCHANGED clerkVars
    \/ \E c \in Client, kind \in {"Put", "Append", "Get"}, key \in Key : Invoke(c, kind, key)
    \/ \E call \in calls : Return(call)

BoundFrame ==
    /\ timeouts' = timeouts \/ timeouts' = timeouts + 1
    /\ fails' = fails \/ fails' = fails + 1
    /\ installs' = installs \/ installs' = installs + 1
    /\ restarts' = restarts \/ restarts' = restarts + 1
    /\ torn' = torn \/ \E i \in Server : torn' = torn \cup {i}

LEMMA MoreFrames ==
    ASSUME [Next]_vars
    PROVE  ClerkFrame /\ BoundFrame
<1>1. CASE ClerkNext
  <2>1. ASSUME NEW c \in Client, NEW kind \in {"Put", "Append", "Get"}, NEW key \in Key,
               Invoke(c, kind, key)
        PROVE  ClerkFrame /\ BoundFrame
    <3>1. UNCHANGED boundVars
      BY <2>1 DEF Invoke
    <3> QED BY <2>1, <3>1 DEF boundVars, ClerkFrame, BoundFrame
  <2>2. ASSUME NEW call \in calls, Return(call)
        PROVE  ClerkFrame /\ BoundFrame
    <3>1. UNCHANGED boundVars
      BY <2>2 DEF Return
    <3> QED BY <2>2, <3>1 DEF boundVars, ClerkFrame, BoundFrame
  <2>3. ASSUME NEW call \in calls, Retry(call) \/ RetryClosed(call)
        PROVE  ClerkFrame /\ BoundFrame
    BY <2>3 DEF Retry, RetryClosed, boundVars, ClerkFrame, BoundFrame
  <2>4. ASSUME NEW call \in calls, RpcFails(call)
        PROVE  ClerkFrame /\ BoundFrame
    <3>1. UNCHANGED <<clerkVars, timeouts, installs, restarts, torn>> /\ fails' = fails + 1
      BY <2>4 DEF RpcFails
    <3> QED BY <3>1 DEF ClerkFrame, BoundFrame
  <2> QED BY <1>1, <2>1, <2>2, <2>3, <2>4 DEF ClerkNext
<1>2. CASE HandlerNext
  <2>1. PICK call \in calls :
          \/ StartRefused(call) \/ StartAccepted(call) \/ RegisterChannel(call)
          \/ NotifiedOther(call) \/ NotifiedWrite(call) \/ NotifiedGet(call)
          \/ TimedOutWrite(call) \/ TimedOutGetKnown(call) \/ TimedOutGet(call)
          \/ ExecGet(call)
    BY <1>2 DEF HandlerNext
  <2>2. /\ UNCHANGED clerkVars
        /\ UNCHANGED boundVars \/ TimesOut(call)
    BY <2>1 DEF StartRefused, StartAccepted, RegisterChannel, NotifiedOther,
                NotifiedWrite, NotifiedGet, TimedOutWrite, TimedOutGetKnown,
                TimedOutGet, TimesOut, ExecGet
  <2> QED BY <2>2 DEF ClerkFrame, BoundFrame, boundVars, TimesOut
<1>3. CASE RaftNext
  <2>1. /\ UNCHANGED clerkVars
        /\ UNCHANGED boundVars
           \/ (installs' = installs + 1 /\ UNCHANGED <<timeouts, fails, restarts, torn>>)
    BY <1>3 DEF RaftNext, Commit, getApplyLogs, applierPush, installSnapshot,
                pushMsgToKvServer
  <2> QED BY <2>1 DEF ClerkFrame, BoundFrame, boundVars
<1>4. CASE ServerNext
  <2>1. PICK i \in Server :
          \/ getCommandCovered(i) \/ getCommandFromRaft(i) \/ getSnapshotFromRaft(i)
          \/ Crash(i)
    BY <1>4 DEF ServerNext, Crash
  <2>2. CASE Crash(i)
    <3>1. PICK cut : Dies(i, cut)
      BY <2>2, Crashes
    <3>2. UNCHANGED <<clerkVars, timeouts, fails>> /\ restarts' = restarts + 1
      BY <3>1 DEF Dies, DiesWith
    <3> QED BY <3>1, <3>2 DEF Dies, ClerkFrame, BoundFrame
  <2>3. CASE ~Crash(i)
    <3>1. UNCHANGED clerkVars /\ UNCHANGED boundVars
      BY <2>1, <2>3 DEF getCommandCovered, getCommandFromRaft, getSnapshotFromRaft
    <3> QED BY <3>1 DEF ClerkFrame, BoundFrame, boundVars
  <2> QED BY <2>2, <2>3
<1>5. CASE UNCHANGED vars
  BY <1>5 DEF vars, boundVars, ClerkFrame, BoundFrame
<1> QED BY <1>1, <1>2, <1>3, <1>4, <1>5 DEF Next

LEMMA TypesStep ==
    ASSUME Types, WithinLog, [Next]_vars
    PROVE  Types'
<1>1. RaftFrame /\ StateFrame /\ ChannelFrame /\ CallFrame /\ ClerkFrame /\ BoundFrame
  BY Frames, MoreFrames
<1>2. RaftTypes' /\ StateTypes' /\ ChannelTypes' /\ CallTypes'
  BY <1>1, RaftTypesStep, StateTypesStep, ChannelTypesStep, CallTypesStep
<1>3. BoundTypes'
  BY <1>1 DEF BoundFrame, BoundTypes, Types
<1>4. ClerkTypes'
  <2>0. ClerkTypes
    BY DEF Types
  <2>1. CASE UNCHANGED clerkVars
    BY <2>0, <2>1 DEF ClerkTypes, clerkVars
  <2>2. ASSUME NEW c \in Client, NEW kind, NEW key, Invoke(c, kind, key)
        PROVE  ClerkTypes'
    BY <2>0, <2>2 DEF Invoke, ClerkTypes
  <2>3. ASSUME NEW call \in calls, Return(call)
        PROVE  ClerkTypes'
    <3>1. call.op.client \in Client /\ call.server \in Server /\ call.upto \in Nat
      BY DEF Types, CallTypes, Call, Op
    <3>2. positionOf(call.op) \in Nat
      <4>1. CASE InLog(call.op)
        BY <4>1, PositionOf DEF Types, RaftTypes
      <4>2. CASE ~InLog(call.op)
        BY <4>2 DEF positionOf, InLog
      <4> QED BY <4>1, <4>2
    <3>3. done' \in Nat
      BY <2>0, <2>3, <3>1, <3>2 DEF Return, larger, ClerkTypes
    <3>4. /\ recentLeaderId' = [recentLeaderId EXCEPT
              ![call.op.client] = IF call.err = "OK" THEN call.server ELSE @]
          /\ UNCHANGED <<requestId, floor>>
      BY <2>3 DEF Return
    <3>5. recentLeaderId' \in [Client -> Server]
      BY <2>0, <3>1, <3>4 DEF ClerkTypes
    <3> QED BY <2>0, <3>3, <3>4, <3>5 DEF ClerkTypes
  <2> QED BY <1>1, <2>1, <2>2, <2>3 DEF ClerkFrame
<1> QED BY <1>2, <1>3, <1>4 DEF Types

-----------------------------------------------------------------------------
(* The committed log only grows, and everything refers to it *)

LEMMA LogGrows ==
    ASSUME Types, RaftFrame
    PROVE  /\ UNCHANGED committed
              \/ (\E p \in proposed : Commit(p) /\ committed' = Append(committed, p.op))
           /\ Len(committed) \in Nat /\ Len(committed') \in Nat
           /\ DOMAIN committed = 1 .. Len(committed)
           /\ DOMAIN committed' = 1 .. Len(committed')
           /\ Len(committed) <= Len(committed')
           /\ \A n \in DOMAIN committed : n \in DOMAIN committed' /\ committed'[n] = committed[n]
<1>1. committed \in Seq(Op) /\ proposed \subseteq [index : Nat, op : Op]
  BY DEF Types, RaftTypes
<1>2. \/ UNCHANGED committed
      \/ \E p \in proposed : Commit(p) /\ committed' = Append(committed, p.op)
  BY DEF RaftFrame, raftVars, StartAccepted, Commit, getApplyLogs, applierPush,
         installSnapshot, pushMsgToKvServer, getCommandFromRaft, Crash, Restart,
         CrashInSnapshot, CrashInInstallSnapshot, DiesWith
<1> QED BY <1>1, <1>2

LEMMA InitWithinLog == Init => WithinLog
BY DEF Init, WithinLog, Registered

LEMMA WithinLogStep ==
    ASSUME Types, WithinLog, [Next]_vars
    PROVE  WithinLog'
<1>0. /\ RaftFrame /\ StateFrame /\ ChannelFrame /\ CallFrame /\ ClerkFrame /\ BoundFrame
      /\ Types'
  BY Frames, MoreFrames, TypesStep
<1> DEFINE len == Len(committed)
<1>1. /\ len \in Nat /\ len' \in Nat /\ len <= len'
      /\ DOMAIN committed = 1 .. len /\ DOMAIN committed' = 1 .. len'
      /\ \A n \in DOMAIN committed : n \in DOMAIN committed' /\ committed'[n] = committed[n]
  BY <1>0, LogGrows
<1> HIDE DEF len
<1>2. /\ lastApplied \in [Server -> Nat] /\ snapshotIndex \in [Server -> Nat]
      /\ kvIndex \in [Server -> Nat] /\ batch \in [Server -> Seq(Nat)]
      /\ pushers \in [Server -> SUBSET Message]
      /\ applyChan \in [Server -> Seq(Message)]
  BY DEF Types, RaftTypes, StateTypes
<1>3. \A i \in Server :
        /\ kvIndex[i] <= len /\ snapshotIndex[i] <= len /\ lastApplied[i] <= len
        /\ \A k \in DOMAIN batch[i] : batch[i][k] \in DOMAIN committed
        /\ \A k \in DOMAIN applyChan[i] : applyChan[i][k].index \in DOMAIN committed
        /\ \A msg \in pushers[i] : msg.index \in DOMAIN committed
  BY DEF WithinLog, len
<1>4. ASSUME NEW i \in Server
      PROVE  snapshotIndex'[i] <= len'
  <2>1. CASE UNCHANGED snapshotIndex
    BY <1>1, <1>2, <1>3, <2>1
  <2>2. ASSUME NEW a \in Server, NEW b \in Server, installSnapshot(a, b)
        PROVE  snapshotIndex'[i] <= len'
    BY <1>1, <1>2, <1>3, <2>2 DEF installSnapshot
  <2>3. ASSUME NEW a \in Server, getCommandFromRaft(a)
        PROVE  snapshotIndex'[i] <= len'
    <3>1. applyChan[a] # << >>
      BY <2>3 DEF getCommandFromRaft, Received
    <3>2. PICK n \in DOMAIN committed : n = Head(applyChan[a]).index
      BY <3>1, HeadOfQueue
    <3>3. \/ UNCHANGED snapshotIndex
          \/ snapshotIndex' = [snapshotIndex EXCEPT ![a] = n]
      BY <2>3, <3>2 DEF getCommandFromRaft, TakeSnapshot
    <3>4. n <= len
      BY <1>1
    <3>5. snapshotIndex'[i] \in {snapshotIndex[i], n}
      BY <1>2, <3>3
    <3> QED BY <1>1, <1>2, <1>3, <3>4, <3>5
  <2>4. ASSUME NEW a \in Server, Crash(a)
        PROVE  snapshotIndex'[i] <= len'
    <3>1. PICK cut : Dies(a, cut)
      BY <2>4, Crashes
    <3>2. snapshotIndex' = [snapshotIndex EXCEPT ![a] = cut]
      BY <3>1 DEF Dies, DiesWith
    <3>3. cut \in Nat /\ cut <= len
      BY <3>1, CutIndex, CutWithinLog DEF len
    <3> QED BY <1>1, <1>2, <1>3, <3>2, <3>3
  <2> QED BY <1>0, <2>1, <2>2, <2>3, <2>4
          DEF RaftFrame, raftVars, StartAccepted, Commit, getApplyLogs, applierPush,
              pushMsgToKvServer
<1>5. ASSUME NEW i \in Server
      PROVE  lastApplied'[i] <= len'
  <2>1. CASE UNCHANGED lastApplied
    BY <1>1, <1>2, <1>3, <2>1
  <2>2. ASSUME NEW a \in Server, NEW b \in Server, installSnapshot(a, b)
        PROVE  lastApplied'[i] <= len'
    BY <1>1, <1>2, <1>3, <2>2 DEF installSnapshot, larger
  <2>3. ASSUME NEW a \in Server, getApplyLogs(a)
        PROVE  lastApplied'[i] <= len'
    BY <1>1, <1>2, <1>3, <2>3 DEF getApplyLogs, len
  <2>4. ASSUME NEW a \in Server, Crash(a)
        PROVE  lastApplied'[i] <= len'
    <3>1. PICK cut : Dies(a, cut)
      BY <2>4, Crashes
    <3>2. lastApplied' = [lastApplied EXCEPT ![a] = cut]
      BY <3>1 DEF Dies, DiesWith
    <3>3. cut \in Nat /\ cut <= len
      BY <3>1, CutIndex, CutWithinLog DEF len
    <3> QED BY <1>1, <1>2, <1>3, <3>2, <3>3
  <2> QED BY <1>0, <2>1, <2>2, <2>3, <2>4
          DEF RaftFrame, raftVars, StartAccepted, Commit, applierPush,
              pushMsgToKvServer, getCommandFromRaft
<1>6. ASSUME NEW i \in Server
      PROVE  kvIndex'[i] <= len'
  <2>1. CASE UNCHANGED kvIndex
    BY <1>1, <1>2, <1>3, <2>1
  <2>2. ASSUME NEW a \in Server, getCommandFromRaft(a) \/ getSnapshotFromRaft(a)
        PROVE  kvIndex'[i] <= len'
    <3>1. applyChan[a] # << >>
      BY <2>2 DEF getCommandFromRaft, getSnapshotFromRaft, Received
    <3>2. PICK n \in DOMAIN committed : n = Head(applyChan[a]).index
      BY <3>1, HeadOfQueue
    <3>3. kvIndex' = [kvIndex EXCEPT ![a] = n]
      BY <2>2, <3>2 DEF getCommandFromRaft, getSnapshotFromRaft
    <3> QED BY <1>1, <1>2, <1>3, <3>2, <3>3
  <2>4. ASSUME NEW a \in Server, Crash(a)
        PROVE  kvIndex'[i] <= len'
    <3>1. PICK cut : Dies(a, cut)
      BY <2>4, Crashes
    <3>2. kvIndex' = [kvIndex EXCEPT ![a] = cut]
      BY <3>1 DEF Dies, DiesWith
    <3>3. cut \in Nat /\ cut <= len
      BY <3>1, CutIndex, CutWithinLog DEF len
    <3> QED BY <1>1, <1>2, <1>3, <3>2, <3>3
  <2> QED BY <1>0, <2>1, <2>2, <2>4
          DEF StateFrame, stateVars, ExecGet, applierPush, pushMsgToKvServer,
              getCommandCovered
<1>7. ASSUME NEW i \in Server
      PROVE  \A k \in DOMAIN batch'[i] : batch'[i][k] \in DOMAIN committed'
  <2>1. CASE UNCHANGED batch
    BY <1>1, <1>3, <2>1
  <2>2. ASSUME NEW a \in Server, getApplyLogs(a)
        PROVE  \A k \in DOMAIN batch'[i] : batch'[i][k] \in DOMAIN committed'
    <3>1. PICK n \in lastApplied[a] + 1 .. len :
            batch' = [batch EXCEPT
              ![a] = [k \in 1 .. n - lastApplied[a] |-> lastApplied[a] + k]]
      BY <2>2 DEF getApplyLogs, len
    <3>2. lastApplied[a] \in Nat
      BY <1>2
    <3>3. CASE i = a
      <4>1. batch'[i] = [k \in 1 .. n - lastApplied[a] |-> lastApplied[a] + k]
        BY <1>2, <3>1, <3>3
      <4> QED BY <1>1, <3>2, <4>1
    <3>4. CASE i # a
      <4>1. batch'[i] = batch[i]
        BY <1>2, <3>1, <3>4
      <4> QED BY <1>1, <1>3, <4>1
    <3> QED BY <3>3, <3>4
  <2>3. ASSUME NEW a \in Server, applierPush(a)
        PROVE  \A k \in DOMAIN batch'[i] : batch'[i][k] \in DOMAIN committed'
    <3>1. batch' = [batch EXCEPT ![a] = Tail(batch[a])] /\ batch[a] # << >>
      BY <2>3 DEF applierPush
    <3>2. CASE i = a
      <4>1. batch'[i] = Tail(batch[i]) /\ batch[i] \in Seq(Nat) /\ batch[i] # << >>
        BY <1>2, <3>1, <3>2
      <4>2. \A k \in DOMAIN batch'[i] : batch'[i][k] = batch[i][k + 1] /\ k + 1 \in DOMAIN batch[i]
        BY <4>1
      <4> QED BY <1>1, <1>3, <4>2
    <3>3. CASE i # a
      <4>1. batch'[i] = batch[i]
        BY <1>2, <3>1, <3>3
      <4> QED BY <1>1, <1>3, <4>1
    <3> QED BY <3>2, <3>3
  <2>4. ASSUME NEW a \in Server, Crash(a)
        PROVE  \A k \in DOMAIN batch'[i] : batch'[i][k] \in DOMAIN committed'
    <3>1. batch' = [batch EXCEPT ![a] = << >>]
      BY <2>4, Crashes DEF Dies, DiesWith
    <3>2. batch'[i] = batch[i] \/ batch'[i] = << >>
      BY <1>2, <3>1
    <3> QED BY <1>1, <1>3, <3>2
  <2> QED BY <1>0, <2>1, <2>2, <2>3, <2>4
          DEF RaftFrame, raftVars, StartAccepted, Commit, installSnapshot,
              pushMsgToKvServer, getCommandFromRaft
<1>8. ASSUME NEW i \in Server, NEW msg \in pushers'[i]
      PROVE  msg.index \in DOMAIN committed'
  <2>1. CASE msg \in pushers[i]
    BY <1>1, <1>3, <2>1
  <2>2. ASSUME NEW a \in Server, NEW b \in Server, installSnapshot(a, b), msg \notin pushers[i]
        PROVE  msg.index \in DOMAIN committed'
    <3>1. msg.index = snapshotIndex[b] /\ snapshotIndex[b] > snapshotIndex[a]
      BY <1>2, <2>2, <1>8 DEF installSnapshot
    <3> QED BY <1>1, <1>2, <1>3, <3>1
  <2>3. ASSUME NEW a \in Server, Crash(a)
        PROVE  msg \in pushers[i]
    <3>1. pushers' = [pushers EXCEPT ![a] = {}]
      BY <2>3, Crashes DEF Dies, DiesWith
    <3> QED BY <1>2, <1>8, <3>1
  <2>4. ASSUME NEW a \in Server, NEW m, pushMsgToKvServer(a, m)
        PROVE  msg \in pushers[i]
    <3>1. pushers' = [pushers EXCEPT ![a] = @ \ {m}]
      BY <2>4 DEF pushMsgToKvServer
    <3> QED BY <1>2, <1>8, <3>1
  <2>5. CASE UNCHANGED pushers
    BY <1>8, <2>1, <2>5
  <2> QED BY <1>0, <2>1, <2>2, <2>3, <2>4, <2>5
          DEF RaftFrame, raftVars, StartAccepted, Commit, getApplyLogs, applierPush,
              getCommandFromRaft
<1>9. ASSUME NEW i \in Server
      PROVE  \A k \in DOMAIN applyChan'[i] : applyChan'[i][k].index \in DOMAIN committed'
  <2> DEFINE Goal == \A k \in DOMAIN applyChan'[i] :
                        applyChan'[i][k].index \in DOMAIN committed'
  <2>1. ASSUME UNCHANGED applyChan
        PROVE  Goal
    BY <1>1, <1>3, <2>1
  <2>2. ASSUME NEW a \in Server, NEW msg \in Message, msg.index \in DOMAIN committed,
               applyChan' = [applyChan EXCEPT ![a] = Append(@, msg)]
        PROVE  Goal
    <3>1. CASE i = a
      <4>1. applyChan'[i] = Append(applyChan[i], msg) /\ applyChan[i] \in Seq(Message)
        BY <1>2, <2>2, <3>1
      <4> QED BY <1>1, <1>3, <2>2, <4>1
    <3>2. CASE i # a
      <4>1. applyChan'[i] = applyChan[i]
        BY <1>2, <2>2, <3>2
      <4> QED BY <1>1, <1>3, <4>1
    <3> QED BY <3>1, <3>2
  <2>3. ASSUME NEW a \in Server, applierPush(a)
        PROVE  Goal
    <3>1. batch[a] \in Seq(Nat) /\ batch[a] # << >>
      BY <1>2, <2>3 DEF applierPush
    <3>2. PICK n \in DOMAIN committed : n = Head(batch[a])
      BY <1>3, <3>1
    <3>3. n \in Nat \ {0}
      BY <1>1
    <3>4. command(n) \in Message /\ command(n).index = n
      BY <3>3, CommandType DEF command
    <3>5. applyChan' = [applyChan EXCEPT ![a] = Append(@, command(n))]
      BY <2>3, <3>2 DEF applierPush
    <3> QED BY <2>2, <3>4, <3>5
  <2>4. ASSUME NEW a \in Server, NEW msg \in pushers[a], pushMsgToKvServer(a, msg)
        PROVE  Goal
    <3>1. msg \in Message /\ msg.index \in DOMAIN committed
      BY <1>2, <1>3
    <3> QED BY <2>2, <2>4, <3>1 DEF pushMsgToKvServer
  <2>5. ASSUME NEW a \in Server, applyChan[a] # << >>,
               applyChan' = [applyChan EXCEPT ![a] = Tail(@)]
        PROVE  Goal
    <3>1. CASE i = a
      <4>1. applyChan'[i] = Tail(applyChan[i])
        BY <1>2, <2>5, <3>1
      <4>2. \A k \in DOMAIN Tail(applyChan[i]) :
              k + 1 \in DOMAIN applyChan[i] /\ Tail(applyChan[i])[k] = applyChan[i][k + 1]
        BY <2>5, <3>1, HeadOfQueue
      <4> QED BY <1>1, <1>3, <4>1, <4>2
    <3>2. CASE i # a
      <4>1. applyChan'[i] = applyChan[i]
        BY <1>2, <2>5, <3>2
      <4> QED BY <1>1, <1>3, <4>1
    <3> QED BY <3>1, <3>2
  <2>6. ASSUME NEW a \in Server, Crash(a)
        PROVE  Goal
    <3>1. applyChan' = [applyChan EXCEPT ![a] = << >>]
      BY <2>6, Crashes DEF Dies, DiesWith
    <3>2. applyChan'[i] = applyChan[i] \/ applyChan'[i] = << >>
      BY <1>2, <3>1
    <3> QED BY <1>1, <1>3, <3>2
  <2>7. ASSUME NEW call \in calls, ExecGet(call)
        PROVE  UNCHANGED applyChan
    BY <2>7 DEF ExecGet
  <2> HIDE DEF Goal
  <2>8. Goal
    BY <1>0, <2>1, <2>3, <2>4, <2>5, <2>6, <2>7
       DEF StateFrame, getCommandCovered, getCommandFromRaft, getSnapshotFromRaft, Received
  <2> QED BY <2>8 DEF Goal
<1>10. ASSUME NEW i \in Server, NEW n \in Registered(i)'
       PROVE  \A k \in DOMAIN waitApplyCh'[i][n] :
                n \in DOMAIN committed' /\ waitApplyCh'[i][n][k] = committed'[n]
  <2> DEFINE Goal == \A k \in DOMAIN waitApplyCh'[i][n] :
                n \in DOMAIN committed' /\ waitApplyCh'[i][n][k] = committed'[n]
  <2>0. n \in DOMAIN waitApplyCh'[i]
    BY <1>10 DEF Registered
  <2>1. ASSUME n \in Registered(i), waitApplyCh'[i][n] = waitApplyCh[i][n]
        PROVE  Goal
    <3>1. \A k \in DOMAIN waitApplyCh[i][n] :
            n \in DOMAIN committed /\ waitApplyCh[i][n][k] = committed[n]
      BY <2>1 DEF WithinLog
    <3> QED BY <1>1, <2>1, <3>1
  <2>2. ASSUME waitApplyCh'[i][n] = << >>
        PROVE  Goal
    BY <2>2
  <2> HIDE DEF Goal
  <2>3. ASSUME UNCHANGED waitApplyCh
        PROVE  Goal
    BY <2>0, <2>1, <2>3 DEF Registered
  <2>4. ASSUME NEW call \in calls, RegisterChannel(call)
        PROVE  Goal
    <3>1. CASE i = call.server
      <4>1. waitApplyCh'[i] = [m \in Registered(i) \cup {call.index} |->
              IF m \in Registered(i) THEN waitApplyCh[i][m] ELSE << >>]
        BY <2>4, <3>1, RegisteredChannel
      <4> QED BY <2>0, <2>1, <2>2, <4>1
    <3>2. CASE i # call.server
      <4>1. waitApplyCh'[i] = waitApplyCh[i]
        BY <2>4, <3>2, RegisteredChannel
      <4> QED BY <2>0, <2>1, <4>1 DEF Registered
    <3> QED BY <3>1, <3>2
  <2>5. ASSUME NEW call \in calls, DropChannel(call)
        PROVE  Goal
    <3>1. CASE i = call.server
      <4>1. waitApplyCh'[i] = [m \in Registered(i) \ {call.index} |-> waitApplyCh[i][m]]
        BY <2>5, <3>1, Dropped
      <4> QED BY <2>0, <2>1, <4>1
    <3>2. CASE i # call.server
      <4>1. waitApplyCh'[i] = waitApplyCh[i]
        BY <2>5, <3>2, Dropped
      <4> QED BY <2>0, <2>1, <4>1 DEF Registered
    <3> QED BY <3>1, <3>2
  <2>6. ASSUME NEW a \in Server, getCommandFromRaft(a)
        PROVE  Goal
    <3>1. applyChan[a] # << >>
      BY <2>6 DEF getCommandFromRaft, Received
    <3>2. PICK m \in DOMAIN committed : m = Head(applyChan[a]).index
      BY <3>1, HeadOfQueue
    <3>3. m \in Nat /\ committed[m] \in Op /\ Notify(a, m, committed[m])
      BY <2>6, <3>2 DEF getCommandFromRaft, Types, RaftTypes
    <3>4. /\ waitApplyCh'[a] =
                [x \in Registered(a) |-> IF x = m THEN Append(waitApplyCh[a][x], committed[m])
                                                 ELSE waitApplyCh[a][x]]
          /\ \A j \in Server \ {a} : waitApplyCh'[j] = waitApplyCh[j]
      BY <3>3, Notified
    <3>5. CASE i = a /\ n = m
      <4>1. n \in Registered(i) /\ waitApplyCh'[i][n] = Append(waitApplyCh[i][n], committed[n])
        BY <1>10, <3>4, <3>5 DEF Registered
      <4>2. waitApplyCh[i][n] \in Seq(Op)
        BY <4>1 DEF Types, ChannelTypes
      <4>3. \A k \in DOMAIN waitApplyCh[i][n] : waitApplyCh[i][n][k] = committed[n]
        BY <4>1 DEF WithinLog
      <4>4. n \in DOMAIN committed' /\ committed'[n] = committed[n] /\ committed[n] \in Op
        BY <1>1, <3>2, <3>3, <3>5
      <4>5. PICK ch \in Seq(Op) : ch = waitApplyCh[i][n]
        BY <4>2
      <4>6. PICK op \in Op : op = committed[n]
        BY <4>4
      <4>7. \A k \in DOMAIN Append(ch, op) : Append(ch, op)[k] = op
        BY <4>3, <4>5, <4>6
      <4> QED BY <4>1, <4>4, <4>5, <4>6, <4>7 DEF Goal
    <3>6. CASE ~(i = a /\ n = m)
      <4>1. CASE i = a
        BY <2>0, <2>1, <3>4, <3>6, <4>1
      <4>2. CASE i # a
        BY <2>0, <2>1, <3>4, <4>2 DEF Registered
      <4> QED BY <4>1, <4>2
    <3> QED BY <3>5, <3>6
  <2>7. ASSUME NEW a \in Server, Crash(a)
        PROVE  Goal
    <3>1. waitApplyCh' = [waitApplyCh EXCEPT ![a] = << >>]
      BY <2>7, Crashes DEF Dies, DiesWith
    <3>2. waitApplyCh'[a] = << >> /\ \A j \in Server \ {a} : waitApplyCh'[j] = waitApplyCh[j]
      BY <3>1, Emptied
    <3>3. i # a /\ waitApplyCh'[i] = waitApplyCh[i]
      BY <2>0, <3>2
    <3> QED BY <2>0, <2>1, <3>3 DEF Registered
  <2>8. Goal
    BY <1>0, <2>4, <2>5, <2>6, <2>7, <2>3 DEF ChannelFrame
  <2> QED BY <2>8 DEF Goal
<1>11. ASSUME NEW call \in calls'
       PROVE  call.upto <= len'
  <2>0. call \in Call /\ call.upto \in Nat
    BY <1>0 DEF Types, CallTypes, Call
  <2>1. ASSUME call \in calls
        PROVE  call.upto <= len'
    <3>1. call.upto <= len
      BY <2>1 DEF WithinLog, len
    <3> QED BY <1>1, <2>0, <3>1
  <2>2. ASSUME call.upto = 0
        PROVE  call.upto <= len'
    BY <1>1, <2>2
  <2>3. ASSUME NEW i \in Server, call.upto = kvIndex[i]
        PROVE  call.upto <= len'
    BY <1>1, <1>2, <1>3, <2>3
  <2>4. ASSUME NEW c \in calls, call.upto = c.upto
        PROVE  call.upto <= len'
    <3>1. c.upto <= len
      BY DEF WithinLog, len
    <3> QED BY <1>1, <2>0, <2>4, <3>1
  <2>5. ASSUME NEW c, NEW kind, NEW key, Invoke(c, kind, key)
        PROVE  call \in calls \/ call.upto = 0
    <3>1. PICK o, j : calls' = calls \cup {request(o, j)}
      BY <2>5 DEF Invoke
    <3>2. request(o, j).upto = 0
      BY Zenon DEF request
    <3> QED BY <3>1, <3>2
  <2>6. ASSUME NEW c \in calls, Return(c)
        PROVE  call \in calls
    <3>1. calls' = calls \ {c}
      BY <2>6 DEF Return
    <3> QED BY <3>1
  <2>7. ASSUME NEW c \in calls, Retry(c) \/ RetryClosed(c) \/ RpcFails(c)
        PROVE  call \in calls \/ call.upto = 0 \/ call.upto = c.upto
    <3>1. PICK next : Resends(c, next)
      BY <2>7, Resending
    <3> QED BY <3>1 DEF Resends
  <2>8. ASSUME HandlerNext
        PROVE  \/ call \in calls \/ call.upto = 0
               \/ \E c \in calls : call.upto = c.upto
               \/ \E i \in Server : call.upto = kvIndex[i]
    <3>1. PICK c \in calls : \E n : Handled(c, n) /\ Outcome(c, n)
      BY <2>8, Outcomes
    <3>2. PICK next : Handled(c, next) /\ Outcome(c, next)
      BY <3>1
    <3>3. call \in calls \/ call = next
      BY <3>2 DEF Handled, Becomes
    <3>4. next.upto = 0 \/ next.upto = c.upto \/ next.upto = kvIndex[c.server]
      BY <3>2 DEF Outcome, Refuses, Starts, Registers, Proceeds, Acknowledges,
                  ReadsAndAnswers
    <3>5. c.server \in Server
      BY DEF Types, CallTypes, Call
    <3> QED BY <3>3, <3>4, <3>5
  <2>9. ASSUME NEW i \in Server, Crash(i)
        PROVE  call \in calls \/ call.upto = 0
    BY <2>9, Crashed
  <2>10. CASE UNCHANGED calls
    BY <2>1, <2>10
  <2> QED BY <1>0, <2>1, <2>2, <2>3, <2>4, <2>5, <2>6, <2>7, <2>8, <2>9, <2>10
          DEF CallFrame, ClerkNext
<1>12. done' <= len' /\ \A c \in Client : floor'[c] <= done'
  <2>0. /\ done \in Nat /\ floor \in [Client -> Nat] /\ done <= len
        /\ \A c \in Client : floor[c] <= done
    BY DEF Types, ClerkTypes, WithinLog, len
  <2>1. CASE UNCHANGED clerkVars
    BY <1>1, <2>0, <2>1 DEF clerkVars
  <2>2. ASSUME NEW c \in Client, NEW kind, NEW key, Invoke(c, kind, key)
        PROVE  done' <= len' /\ \A d \in Client : floor'[d] <= done'
    BY <1>1, <2>0, <2>2 DEF Invoke
  <2>3. ASSUME NEW call \in calls, Return(call)
        PROVE  done' <= len' /\ \A d \in Client : floor'[d] <= done'
    <3>1. call.upto \in Nat /\ call.upto <= len
      BY DEF Types, CallTypes, Call, WithinLog, len
    <3>2. positionOf(call.op) \in 0 .. len
      <4>1. CASE InLog(call.op)
        BY <1>1, <4>1, PositionOf
      <4>2. CASE ~InLog(call.op)
        BY <1>1, <4>2 DEF positionOf, InLog
      <4> QED BY <4>1, <4>2
    <3>3. done' \in Nat /\ done <= done' /\ done' <= len
      BY <1>1, <2>0, <2>3, <3>1, <3>2 DEF Return, larger
    <3>4. UNCHANGED floor
      BY <2>3 DEF Return
    <3> QED BY <1>1, <2>0, <3>3, <3>4
  <2> QED BY <1>0, <2>1, <2>2, <2>3 DEF ClerkFrame
<1> QED BY <1>4, <1>5, <1>6, <1>7, <1>8, <1>9, <1>10, <1>11, <1>12 DEF WithinLog, len

-----------------------------------------------------------------------------
(* Who waits where *)

LEMMA InitWaiting == Init => Waiting
BY DEF Init, Waiting

LEMMA LastIndexGrows ==
    ASSUME Types, RaftFrame, NEW i \in Server
    PROVE  lastIndex[i] \in Nat /\ lastIndex'[i] \in Nat /\ lastIndex[i] <= lastIndex'[i]
<1>0. /\ lastIndex \in [Server -> Nat] /\ snapshotIndex \in [Server -> Nat]
      /\ committed \in Seq(Op) /\ lastApplied \in [Server -> Nat]
  BY DEF Types, RaftTypes
<1>1. CASE UNCHANGED lastIndex
  BY <1>0, <1>1
<1>2. ASSUME NEW call \in calls, StartAccepted(call)
      PROVE  lastIndex'[i] \in Nat /\ lastIndex[i] <= lastIndex'[i]
  <2>1. call.server \in Server
    BY DEF Types, CallTypes, Call
  <2>2. PICK last \in LogLengths(call.server) :
          lastIndex' = [lastIndex EXCEPT ![call.server] = getNewCommandIndex(last)]
    BY <1>2 DEF StartAccepted
  <2>3. last \in Nat /\ last >= lastIndex[call.server]
    BY <2>1, LogLengthsType
  <2> QED BY <1>0, <2>1, <2>2, <2>3 DEF getNewCommandIndex
<1>3. ASSUME NEW a \in Server, NEW n \in Nat,
             lastIndex' = [lastIndex EXCEPT ![a] = larger(@, n)]
      PROVE  lastIndex'[i] \in Nat /\ lastIndex[i] <= lastIndex'[i]
  BY <1>0, <1>3 DEF larger
<1>4. ASSUME NEW a \in Server, getApplyLogs(a)
      PROVE  \E n \in Nat : lastIndex' = [lastIndex EXCEPT ![a] = larger(@, n)]
  <2>1. PICK n \in lastApplied[a] + 1 .. Len(committed) :
          lastIndex' = [lastIndex EXCEPT ![a] = larger(@, n)]
    BY <1>4 DEF getApplyLogs
  <2>2. lastApplied[a] \in Nat
    BY <1>0
  <2>3. n \in Nat
    BY <2>2
  <2> QED BY <2>1, <2>3
<1>5. ASSUME NEW a \in Server, NEW b \in Server, installSnapshot(a, b)
      PROVE  \E n \in Nat : lastIndex' = [lastIndex EXCEPT ![a] = larger(@, n)]
  <2>1. snapshotIndex[b] \in Nat
    BY <1>0
  <2> QED BY <1>5, <2>1 DEF installSnapshot
<1>6. ASSUME NEW a \in Server, Crash(a)
      PROVE  lastIndex'[i] \in Nat /\ lastIndex[i] <= lastIndex'[i]
  <2>1. PICK cut : Dies(a, cut)
    BY <1>6, Crashes
  <2>2. lastIndex' \in [Server -> Nat]
    BY <2>1, CutIndex
  <2>3. lastIndex[i] <= lastIndex'[i]
    BY <2>1, CutIndex
  <2> QED BY <2>2, <2>3
<1> QED BY <1>0, <1>1, <1>2, <1>3, <1>4, <1>5, <1>6
        DEF RaftFrame, raftVars, Commit, applierPush, pushMsgToKvServer,
            getCommandFromRaft

\* The invariant of a set of calls, when the channels and the log lengths may
\* only have grown.
LEMMA WaitingKept ==
    ASSUME Types, Waiting, RaftFrame, Types',
           \A i \in Server : Registered(i) \subseteq Registered(i)',
           \A d \in calls' :
              \/ d \in calls
              \/ d.phase = "sent" /\ d.index = 0
              \/ d.phase = "reply"
    PROVE  Waiting'
<1>1. \A i \in Server : lastIndex[i] \in Nat /\ lastIndex'[i] \in Nat
                        /\ lastIndex[i] <= lastIndex'[i]
  BY LastIndexGrows
<1>2. \A d \in calls' : d.server \in Server
  BY DEF Types, CallTypes, Call
<1>3. \A d \in calls' : d.phase \in Working => d \in calls
  BY DEF Working
<1>4. \A d \in calls' : d.phase \in Working => d.index \in 1 .. lastIndex'[d.server]
  BY <1>1, <1>2, <1>3 DEF Waiting
<1>5. \A c, d \in calls' :
         c.phase \in Working /\ d.phase \in Working /\ c.server = d.server
           /\ c.index = d.index => c = d
  BY <1>3 DEF Waiting
<1>6. \A d \in calls' :
         d.phase \in {"waiting", "reading"} => d.index \in Registered(d.server)'
  BY <1>2, <1>3 DEF Waiting, Working
<1>7. \A d \in calls' : /\ d.phase = "sent" => d.index = 0
                        /\ d.phase = "reading" => ~Write(d.op)
  BY DEF Waiting
<1> QED BY <1>4, <1>5, <1>6, <1>7 DEF Waiting, Registered

LEMMA WaitingStep ==
    ASSUME Types, WithinLog, Waiting, [Next]_vars
    PROVE  Waiting'
<1>0. RaftFrame /\ ChannelFrame /\ Types'
  BY Frames, TypesStep
<1>1. ASSUME NEW c \in Client, NEW kind, NEW key, Invoke(c, kind, key)
      PROVE  Waiting'
  <2>1. PICK o, j : calls' = calls \cup {request(o, j)}
    BY <1>1 DEF Invoke
  <2>2. request(o, j).phase = "sent" /\ request(o, j).index = 0
    BY Zenon DEF request
  <2>3. UNCHANGED waitApplyCh
    BY <1>1 DEF Invoke
  <2> QED BY <1>0, <2>1, <2>2, <2>3, WaitingKept DEF Registered
<1>2. ASSUME NEW call \in calls, Return(call)
      PROVE  Waiting'
  <2>1. calls' = calls \ {call} /\ UNCHANGED waitApplyCh
    BY <1>2 DEF Return
  <2> QED BY <1>0, <2>1, WaitingKept DEF Registered
<1>3. ASSUME NEW call \in calls, Retry(call) \/ RetryClosed(call) \/ RpcFails(call)
      PROVE  Waiting'
  <2>1. PICK next : Resends(call, next)
    BY <1>3, Resending
  <2>2. UNCHANGED waitApplyCh /\ next.phase = "sent" /\ next.index = 0
    BY <2>1 DEF Resends
  <2>3. CASE calls' = (calls \ {call}) \cup {next}
    BY <1>0, <2>2, <2>3, WaitingKept DEF Registered
  <2>4. ASSUME NEW left \in Call,
               left.op = call.op, left.server = call.server,
               left.phase = call.phase, left.index = call.index,
               calls' = (calls \ {call}) \cup {next, left}
        PROVE  Waiting'
    <3>1. \A i \in Server : lastIndex[i] \in Nat /\ lastIndex'[i] \in Nat
                            /\ lastIndex[i] <= lastIndex'[i]
      BY <1>0, LastIndexGrows
    <3>2. \A d \in calls : d.server \in Server
      BY DEF Types, CallTypes, Call
    <3>3. \A d \in calls' : d.phase \in Working => d.index \in 1 .. lastIndex'[d.server]
      BY <2>2, <2>4, <3>1, <3>2 DEF Waiting, Working
    <3>4. \A c, d \in calls' :
             c.phase \in Working /\ d.phase \in Working /\ c.server = d.server
               /\ c.index = d.index => c = d
      BY <2>2, <2>4 DEF Waiting, Working
    <3>5. \A d \in calls' :
             d.phase \in {"waiting", "reading"} => d.index \in Registered(d.server)'
      BY <2>2, <2>4 DEF Waiting, Registered
    <3>6. \A d \in calls' : /\ d.phase = "sent" => d.index = 0
                            /\ d.phase = "reading" => ~Write(d.op)
      BY <2>2, <2>4 DEF Waiting
    <3> QED BY <3>3, <3>4, <3>5, <3>6 DEF Waiting, Registered
  <2> QED BY <2>1, <2>3, <2>4 DEF Resends
<1>4. CASE HandlerNext
  <2>1. PICK call \in calls : \E n : Handled(call, n) /\ Outcome(call, n)
    BY <1>4, Outcomes
  <2>2. PICK next : Handled(call, next) /\ Outcome(call, next)
    BY <2>1
  <2>3. /\ calls' \subseteq (calls \ {call}) \cup {next}
        /\ next.op = call.op /\ next.server = call.server
        /\ call.server \in Server
    BY <2>2 DEF Handled, Becomes, Types, CallTypes, Call
  <2>4. \A i \in Server : lastIndex[i] \in Nat /\ lastIndex'[i] \in Nat
                          /\ lastIndex[i] <= lastIndex'[i]
    BY <1>0, LastIndexGrows
  <2>5. \A d \in calls : d.server \in Server
    BY DEF Types, CallTypes, Call
  <2>6. \/ next.phase = "reply"
        \/ /\ next.phase = "started"
           /\ next.index = lastIndex'[call.server] /\ next.index > lastIndex[call.server]
        \/ /\ next.phase \in {"waiting", "reading"} /\ call.phase \in Working
           /\ next.index = call.index
           /\ next.phase = "reading" => ~Write(call.op)
    BY <2>2 DEF Outcome, Refuses, Starts, Registers, Proceeds, Acknowledges,
                ReadsAndAnswers, Working
  <2>7. \A d \in calls' : d.phase \in Working => d.index \in 1 .. lastIndex'[d.server]
    BY <2>3, <2>4, <2>5, <2>6 DEF Waiting, Working
  <2>8. ASSUME NEW d \in calls, d # call, d.phase \in Working, d.server = call.server,
               next.phase \in Working
        PROVE  d.index # next.index
    <3>1. d.index \in 1 .. lastIndex[d.server]
      BY <2>8 DEF Waiting
    <3>2. call.phase \in Working => d.index # call.index
      BY <2>8 DEF Waiting
    <3> QED BY <2>4, <2>5, <2>6, <2>8, <3>1, <3>2 DEF Working
  <2>9. \A c, d \in calls' :
           c.phase \in Working /\ d.phase \in Working /\ c.server = d.server
             /\ c.index = d.index => c = d
    <3> SUFFICES ASSUME NEW c \in calls', NEW d \in calls',
                        c.phase \in Working, d.phase \in Working, c.server = d.server,
                        c.index = d.index
                 PROVE  c = d
      OBVIOUS
    <3>1. CASE c = next
      BY <2>3, <2>8, <3>1
    <3>2. CASE d = next
      BY <2>3, <2>8, <3>2
    <3>3. CASE c # next /\ d # next
      BY <2>3, <3>3 DEF Waiting
    <3> QED BY <3>1, <3>2, <3>3
  <2>10. \/ \A i \in Server : Registered(i) \subseteq Registered(i)'
         \/ call.phase \in Working /\ next.phase = "reply" /\ DropChannel(call)
    <3>1. CASE UNCHANGED waitApplyCh
      BY <3>1 DEF Registered
    <3>2. CASE Registers(call, next)
      BY <3>2, RegisteredChannel DEF Registers, Registered
    <3>3. CASE ReadsAndAnswers(call, next)
      BY <3>3 DEF ReadsAndAnswers, ExecGet, Working
    <3> QED BY <2>2, <3>1, <3>2, <3>3
            DEF Outcome, Refuses, Starts, Proceeds, Acknowledges, StartAccepted, Working
  <2>11. next.phase \in {"waiting", "reading"} => next.index \in Registered(call.server)'
    <3>1. CASE Registers(call, next)
      <4>1. waitApplyCh'[call.server] =
                [n \in Registered(call.server) \cup {call.index} |->
                   IF n \in Registered(call.server)
                   THEN waitApplyCh[call.server][n] ELSE << >>]
        BY <3>1, RegisteredChannel DEF Registers
      <4> QED BY <3>1, <4>1 DEF Registers, Registered
    <3>2. CASE Proceeds(call, next)
      <4>1. call.index \in Registered(call.server)
        BY <3>2 DEF Proceeds, Waiting
      <4> QED BY <3>2, <4>1 DEF Proceeds, Registered
    <3> QED BY <2>2, <3>1, <3>2
            DEF Outcome, Refuses, Starts, Acknowledges, ReadsAndAnswers
  <2>12. \A d \in calls' :
           d.phase \in {"waiting", "reading"} => d.index \in Registered(d.server)'
    <3> SUFFICES ASSUME NEW d \in calls', d.phase \in {"waiting", "reading"}
                 PROVE  d.index \in Registered(d.server)'
      OBVIOUS
    <3>1. CASE d = next
      BY <2>3, <2>11, <3>1
    <3>2. CASE d \in calls /\ d # call
      <4>1. d.index \in Registered(d.server) /\ d.server \in Server
        BY <2>5, <3>2 DEF Waiting
      <4>2. CASE \A i \in Server : Registered(i) \subseteq Registered(i)'
        BY <4>1, <4>2
      <4>3. CASE call.phase \in Working /\ DropChannel(call)
        <5>1. /\ waitApplyCh'[call.server] =
                   [n \in Registered(call.server) \ {call.index} |->
                      waitApplyCh[call.server][n]]
              /\ \A j \in Server \ {call.server} : waitApplyCh'[j] = waitApplyCh[j]
          BY <4>3, Dropped
        <5>2. ~(d.server = call.server /\ d.index = call.index)
          BY <3>2, <4>3 DEF Waiting, Working
        <5>3. CASE d.server = call.server
          BY <4>1, <5>1, <5>2, <5>3 DEF Registered
        <5>4. CASE d.server # call.server
          BY <4>1, <5>1, <5>4 DEF Registered
        <5> QED BY <5>3, <5>4
      <4> QED BY <2>10, <4>2, <4>3
    <3> QED BY <2>3, <3>1, <3>2
  <2>13. \A d \in calls' : /\ d.phase = "sent" => d.index = 0
                           /\ d.phase = "reading" => ~Write(d.op)
    BY <2>3, <2>6 DEF Waiting
  <2> QED BY <2>7, <2>9, <2>12, <2>13 DEF Waiting, Registered
<1>5. CASE RaftNext
  <2>1. UNCHANGED <<waitApplyCh, calls>>
    BY <1>5 DEF RaftNext, Commit, getApplyLogs, applierPush, installSnapshot,
                pushMsgToKvServer
  <2> QED BY <1>0, <2>1, WaitingKept DEF Registered
<1>6. ASSUME NEW i \in Server,
             getCommandCovered(i) \/ getCommandFromRaft(i) \/ getSnapshotFromRaft(i)
      PROVE  Waiting'
  <2>1. UNCHANGED calls
    BY <1>6 DEF getCommandCovered, getCommandFromRaft, getSnapshotFromRaft
  <2>2. CASE UNCHANGED waitApplyCh
    BY <1>0, <2>1, <2>2, WaitingKept DEF Registered
  <2>3. CASE getCommandFromRaft(i)
    <3>1. applyChan[i] # << >>
      BY <2>3 DEF getCommandFromRaft, Received
    <3>2. PICK m \in DOMAIN committed : m = Head(applyChan[i]).index
      BY <3>1, HeadOfQueue
    <3>3. m \in Nat /\ committed[m] \in Op /\ Notify(i, m, committed[m])
      BY <2>3, <3>2 DEF getCommandFromRaft, Types, RaftTypes
    <3>4. ASSUME NEW j \in Server
          PROVE  Registered(j) \subseteq Registered(j)'
      <4>1. CASE j = i
        <5>1. waitApplyCh'[i] =
                [n \in Registered(i) |-> IF n = m THEN Append(waitApplyCh[i][n], committed[m])
                                                 ELSE waitApplyCh[i][n]]
          BY <3>3, Notified
        <5> QED BY <4>1, <5>1 DEF Registered
      <4>2. CASE j # i
        BY <3>3, <4>2, Notified DEF Registered
      <4> QED BY <4>1, <4>2
    <3> QED BY <1>0, <2>1, <3>4, WaitingKept
  <2> QED BY <1>6, <2>2, <2>3 DEF getCommandCovered, getSnapshotFromRaft
<1>7. ASSUME NEW i \in Server, Crash(i)
      PROVE  Waiting'
  <2>1. waitApplyCh' = [waitApplyCh EXCEPT ![i] = << >>]
    BY <1>7, Crashes DEF Dies, DiesWith
  <2>2. \A j \in Server \ {i} : waitApplyCh'[j] = waitApplyCh[j]
    BY <2>1, Emptied
  <2>3. \A d \in calls' : \/ d \in calls /\ (d.server # i \/ d.phase = "reply")
                          \/ d.phase = "reply"
    BY <1>7, Crashed
  <2>4. \A j \in Server : /\ lastIndex[j] \in Nat /\ lastIndex'[j] \in Nat
                           /\ lastIndex[j] <= lastIndex'[j]
    BY <1>7, LastIndexGrows DEF RaftFrame
  <2>5. \A d \in calls : d.server \in Server
    BY DEF Types, CallTypes, Call
  <2>6. \A d \in calls' : d.phase \in Working =>
            d \in calls /\ d.server # i /\ d.server \in Server
    BY <2>3, <2>5 DEF Working
  <2>7. \A d \in calls' : d.phase \in Working => d.index \in 1 .. lastIndex'[d.server]
    BY <2>4, <2>6 DEF Waiting
  <2>8. \A c, d \in calls' :
           c.phase \in Working /\ d.phase \in Working /\ c.server = d.server
             /\ c.index = d.index => c = d
    BY <2>6 DEF Waiting
  <2>9. \A d \in calls' :
           d.phase \in {"waiting", "reading"} => d.index \in Registered(d.server)'
    BY <2>2, <2>6 DEF Waiting, Working, Registered
  <2>10. \A d \in calls' : /\ d.phase = "sent" => d.index = 0
                           /\ d.phase = "reading" => ~Write(d.op)
    BY <2>3 DEF Waiting
  <2> QED BY <2>7, <2>8, <2>9, <2>10 DEF Waiting, Registered
<1>8. CASE UNCHANGED vars
  BY <1>0, <1>8, WaitingKept DEF vars, Registered
<1> QED BY <1>1, <1>2, <1>3, <1>4, <1>5, <1>6, <1>7, <1>8
        DEF Next, ClerkNext, ServerNext, Crash

-----------------------------------------------------------------------------
(* Requests and request tables *)

LEMMA OpsTypes ==
    ASSUME Types, NEW o \in Ops
    PROVE  o \in Op /\ o.client \in Client /\ o.id \in Nat
<1>1. CASE \E call \in calls : o = call.op
  BY <1>1 DEF Types, CallTypes, Call, Op
<1>2. CASE \E p \in proposed : o = p.op
  BY <1>2 DEF Types, RaftTypes, Op
<1>3. CASE \E n \in DOMAIN committed : o = committed[n]
  <2>1. o \in Op
    BY <1>3 DEF Types, RaftTypes
  <2> QED BY <2>1 DEF Op
<1> QED BY <1>1, <1>2, <1>3 DEF Ops

\* A step adds no request but the one a clerk invokes.
LEMMA OpsStep ==
    ASSUME Types, [Next]_vars, NEW o \in Ops'
    PROVE  \/ o \in Ops
           \/ /\ \E kind, key : Invoke(o.client, kind, key)
              /\ o.client \in Client /\ o.id = requestId[o.client] + 1
<1>0. RaftFrame /\ CallFrame
  BY Frames
<1>1. ASSUME NEW call \in calls', call.op = o
      PROVE  \/ o \in Ops
             \/ /\ \E kind, key : Invoke(o.client, kind, key)
                /\ o.client \in Client /\ o.id = requestId[o.client] + 1
  <2>1. ASSUME NEW c \in calls, call.op = c.op
        PROVE  o \in Ops
    BY <1>1, <2>1 DEF Ops
  <2>2. ASSUME NEW c \in Client, NEW kind \in {"Put", "Append", "Get"}, NEW key \in Key,
               Invoke(c, kind, key), call \notin calls
        PROVE  /\ Invoke(o.client, kind, key)
               /\ o.client \in Client /\ o.id = requestId[o.client] + 1
    <3>1. PICK op : op = [op |-> kind, key |-> key, client |-> c, id |-> requestId[c] + 1]
      OBVIOUS
    <3>2. call = request(op, recentLeaderId[c])
      BY <2>2, <3>1 DEF Invoke
    <3>3. request(op, recentLeaderId[c]).op = op
      BY Zenon DEF request
    <3>4. o = op /\ op.client = c /\ op.id = requestId[c] + 1
      BY <1>1, <3>1, <3>2, <3>3
    <3> QED BY <2>2, <3>4
  <2>3. ASSUME NEW c \in calls, Return(c)
        PROVE  call \in calls
    <3>1. calls' = calls \ {c}
      BY <2>3 DEF Return
    <3> QED BY <3>1
  <2>4. ASSUME NEW c \in calls, Retry(c) \/ RetryClosed(c) \/ RpcFails(c)
        PROVE  call \in calls \/ call.op = c.op
    <3>1. PICK next : Resends(c, next)
      BY <2>4, Resending
    <3> QED BY <3>1 DEF Resends
  <2>5. ASSUME HandlerNext
        PROVE  \E c \in calls : call.op = c.op
    <3>1. PICK c \in calls : \E n : Handled(c, n) /\ Outcome(c, n)
      BY <2>5, Outcomes
    <3>2. PICK next : Handled(c, next)
      BY <3>1
    <3>3. (call \in calls \/ call = next) /\ next.op = c.op
      BY <3>2 DEF Handled, Becomes
    <3> QED BY <3>3
  <2>6. ASSUME NEW i \in Server, Crash(i)
        PROVE  \E c \in calls : call.op = c.op
    <3>1. CASE call \in calls
      BY <3>1
    <3>2. CASE call \notin calls
      <4>1. PICK c \in calls : call = replied(c, "", 0)
        <5>1. calls' = {d \in calls : d.server # i \/ d.phase = "reply"} \cup
                {replied(d, "", 0) :
                   d \in {e \in calls : e.server = i /\ e.live /\ e.phase # "reply"}}
          BY <2>6, Crashes DEF Dies, DiesWith
        <5>2. call \in {replied(d, "", 0) :
                   d \in {e \in calls : e.server = i /\ e.live /\ e.phase # "reply"}}
          BY <3>2, <5>1
        <5> QED BY <5>2
      <4>2. c \in Call
        BY DEF Types, CallTypes
      <4>3. call.op = c.op
        BY <4>1, <4>2, Zenon DEF replied, Call
      <4> QED BY <4>3
    <3> QED BY <3>1, <3>2
  <2> QED BY <1>0, <2>1, <2>2, <2>3, <2>4, <2>5, <2>6 DEF CallFrame, ClerkNext
<1>2. ASSUME NEW p \in proposed', p.op = o
      PROVE  o \in Ops
  <2>1. ASSUME NEW call \in calls, StartAccepted(call), p \notin proposed
        PROVE  o \in Ops
    <3>1. PICK n : proposed' = proposed \cup
              {q \in {[index |-> n, op |-> call.op]} : n > Len(committed)}
      BY <2>1 DEF StartAccepted
    <3>2. p.op = call.op
      BY <2>1, <3>1
    <3> QED BY <1>2, <3>2 DEF Ops
  <2>2. ASSUME p \in proposed
        PROVE  o \in Ops
    BY <1>2, <2>2 DEF Ops
  <2>3. proposed' \subseteq proposed \/ \E call \in calls : StartAccepted(call)
    BY <1>0 DEF RaftFrame, raftVars, Commit, getApplyLogs, applierPush, installSnapshot,
                pushMsgToKvServer, getCommandFromRaft, Crash, Restart,
                CrashInSnapshot, CrashInInstallSnapshot, DiesWith
  <2> QED BY <1>2, <2>1, <2>2, <2>3
<1>3. ASSUME NEW n \in DOMAIN committed', committed'[n] = o
      PROVE  o \in Ops
  <2>1. \/ UNCHANGED committed
        \/ \E p \in proposed : committed' = Append(committed, p.op)
    BY <1>0, LogGrows
  <2>2. committed \in Seq(Op) /\ proposed \subseteq [index : Nat, op : Op]
    BY DEF Types, RaftTypes
  <2>3. CASE n \in DOMAIN committed
    <3>1. committed'[n] = committed[n]
      BY <1>0, <2>3, LogGrows
    <3> QED BY <1>3, <2>3, <3>1 DEF Ops
  <2>4. CASE n \notin DOMAIN committed
    <3>1. PICK p \in proposed : committed' = Append(committed, p.op)
      BY <1>3, <2>1, <2>4
    <3>2. committed'[n] = p.op
      BY <1>3, <2>2, <2>4, <3>1
    <3> QED BY <1>3, <3>2 DEF Ops
  <2> QED BY <2>3, <2>4
<1> QED BY <1>1, <1>2, <1>3 DEF Ops

LEMMA RequestIdGrows ==
    ASSUME Types, [Next]_vars, NEW c \in Client
    PROVE  /\ requestId[c] \in Nat /\ requestId'[c] \in Nat /\ requestId[c] <= requestId'[c]
           /\ \A kind, key : Invoke(c, kind, key) => requestId'[c] = requestId[c] + 1
           /\ requestId'[c] = requestId[c] \/ \E kind, key : Invoke(c, kind, key)
<1>1. requestId \in [Client -> Nat] /\ ClerkFrame
  BY MoreFrames DEF Types, ClerkTypes
<1>2. CASE UNCHANGED clerkVars
  <2>1. requestId' = requestId
    BY <1>2 DEF clerkVars
  <2>2. ASSUME NEW kind, NEW key, Invoke(c, kind, key)
        PROVE  requestId'[c] = requestId[c] + 1
    BY <1>1, <2>2 DEF Invoke
  <2> QED BY <1>1, <2>1, <2>2
<1>3. ASSUME NEW d \in Client, NEW kind, NEW key, Invoke(d, kind, key)
      PROVE  /\ requestId'[c] \in Nat /\ requestId[c] <= requestId'[c]
             /\ \A k, x : Invoke(c, k, x) => requestId'[c] = requestId[c] + 1
             /\ requestId'[c] = requestId[c] \/ \E k, x : Invoke(c, k, x)
  <2>1. requestId' = [requestId EXCEPT ![d] = @ + 1]
    BY <1>3 DEF Invoke
  <2>2. ASSUME NEW k, NEW x, Invoke(c, k, x)
        PROVE  requestId'[c] = requestId[c] + 1
    BY <1>1, <2>2 DEF Invoke
  <2>3. requestId'[c] = requestId[c] \/ Invoke(c, kind, key)
    BY <1>1, <1>3, <2>1
  <2> QED BY <1>1, <2>1, <2>2, <2>3
<1>4. ASSUME NEW call \in calls, Return(call)
      PROVE  /\ requestId'[c] \in Nat /\ requestId[c] <= requestId'[c]
             /\ \A k, x : Invoke(c, k, x) => requestId'[c] = requestId[c] + 1
             /\ requestId'[c] = requestId[c]
  <2>1. requestId' = requestId
    BY <1>4 DEF Return
  <2>2. ASSUME NEW k, NEW x, Invoke(c, k, x)
        PROVE  requestId'[c] = requestId[c] + 1
    BY <1>1, <2>2 DEF Invoke
  <2> QED BY <1>1, <2>1, <2>2
<1> QED BY <1>1, <1>2, <1>3, <1>4 DEF ClerkFrame

LEMMA InLogKept ==
    ASSUME Types, RaftFrame, NEW o, InLog(o)
    PROVE  InLog(o)'
BY LogGrows DEF InLog

\* A table stays honest: a request it does not know yet is a new one.
LEMMA HonestKept ==
    ASSUME Types, [Next]_vars, NEW last \in [Client -> Nat], Honest(last)
    PROVE  Honest(last)'
<1>0. RaftFrame
  BY Frames
<1>1. \A c \in Client : last[c] <= requestId'[c]
  BY RequestIdGrows DEF Honest
<1>2. ASSUME NEW o \in Ops', Write(o), o.id <= last[o.client]
      PROVE  InLog(o)'
  <2>1. CASE o \in Ops
    BY <1>0, <1>2, <2>1, InLogKept DEF Honest
  <2>2. CASE o \notin Ops
    <3>1. o.client \in Client /\ o.id = requestId[o.client] + 1
      BY <2>2, OpsStep
    <3>2. last[o.client] <= requestId[o.client] /\ requestId[o.client] \in Nat
      BY <3>1, RequestIdGrows DEF Honest
    <3> QED BY <1>2, <3>1, <3>2
  <2> QED BY <2>1, <2>2
<1> QED BY <1>1, <1>2 DEF Honest

\* Raising an entry to a request that was executed keeps a table honest: the
\* writes before it are committed, or their client would still be at them.
LEMMA HonestRaised ==
    ASSUME Types, Numbered, NEW last \in [Client -> Nat], Honest(last),
           NEW op \in Ops, Write(op) => InLog(op)
    PROVE  /\ [last EXCEPT ![op.client] = op.id] \in [Client -> Nat]
           /\ Honest([last EXCEPT ![op.client] = op.id])
<1>1. op.client \in Client /\ op.id \in Nat /\ op.id \in 1 .. requestId[op.client]
  BY OpsTypes DEF Numbered
<1>2. PICK new \in [Client -> Nat] : new = [last EXCEPT ![op.client] = op.id]
  BY <1>1
<1>3. \A c \in Client : new[c] <= requestId[c]
  BY <1>1, <1>2 DEF Honest
<1>4. ASSUME NEW o \in Ops, Write(o), o.id <= new[o.client]
      PROVE  InLog(o)
  <2>1. o.client \in Client /\ o.id \in Nat
    BY OpsTypes
  <2>2. CASE o.client # op.client
    BY <1>2, <1>4, <2>1, <2>2 DEF Honest
  <2>3. CASE o.client = op.client /\ o.id = op.id
    <3>1. o = op
      BY <2>3 DEF Numbered
    <3> QED BY <1>4, <3>1
  <2>4. CASE o.client = op.client /\ o.id # op.id
    <3>1. o.id < op.id
      BY <1>1, <1>2, <1>4, <2>1, <2>4
    <3>2. requestId[o.client] \in Nat /\ o.id < requestId[o.client]
      BY <1>1, <2>1, <2>4, <3>1 DEF Types, ClerkTypes
    <3>3. \A call \in calls : call.live => call.op # o
      BY <3>2 DEF Numbered
    <3> QED BY <1>4, <3>3 DEF Numbered
  <2> QED BY <2>2, <2>3, <2>4
<1>5. Honest(new)
  BY <1>3, <1>4 DEF Honest
<1> QED BY <1>2, <1>5

LEMMA HonestApplied ==
    ASSUME Types, Numbered, NEW store \in Store, Honest(store.last),
           NEW n \in DOMAIN committed
    PROVE  Honest(applied(store, committed[n]).last)
<1> DEFINE op == committed[n]
<1>1. op \in Ops /\ InLog(op) /\ store.last \in [Client -> Nat]
  BY DEF Ops, InLog, Store
<1>2. Honest([store.last EXCEPT ![op.client] = op.id])
  BY <1>1, HonestRaised
<1>3. applied(store, op).last \in {store.last, [store.last EXCEPT ![op.client] = op.id]}
  BY DEF applied
<1> QED BY <1>2, <1>3

LEMMA HonestEmpty ==
    ASSUME Types, Numbered
    PROVE  Honest(EmptyStore.last)
<1>1. \A c \in Client : EmptyStore.last[c] = 0
  BY DEF EmptyStore
<1>2. \A c \in Client : requestId[c] \in Nat
  BY DEF Types, ClerkTypes
<1>3. \A o \in Ops : o.client \in Client /\ o.id \in Nat /\ o.id \in 1 .. requestId[o.client]
  BY OpsTypes DEF Numbered
<1> QED BY <1>1, <1>2, <1>3 DEF Honest

\* A write is acknowledged when its command came back, or when the request table
\* knows it: either way it is in the log.
LEMMA AcknowledgedInLog ==
    ASSUME Types, WithinLog, Waiting, Numbered, Tables, NEW call \in calls,
           NEW next, Acknowledges(call, next)
    PROVE  InLog(call.op)
<1>1. /\ call.server \in Server /\ call.op \in Op /\ call.op \in Ops /\ Write(call.op)
      /\ call.index \in Registered(call.server)
  BY DEF Types, CallTypes, Call, Ops, Acknowledges, Waiting
<1>2. CASE Channel(call) # << >> /\ IsOwn(call.op, Head(Channel(call)))
  <2>1. PICK ch \in Seq(Op) : ch = waitApplyCh[call.server][call.index]
    BY <1>1 DEF Types, ChannelTypes
  <2>2. ch # << >> /\ IsOwn(call.op, Head(ch))
    BY <1>2, <2>1 DEF Channel
  <2>3. 1 \in DOMAIN ch /\ Head(ch) = ch[1]
    BY <2>2
  <2>4. call.index \in DOMAIN committed /\ ch[1] = committed[call.index]
    BY <1>1, <2>1, <2>3 DEF WithinLog
  <2>5. committed[call.index] \in Ops
    BY <2>4 DEF Ops
  <2>6. committed[call.index] = call.op
    BY <1>1, <2>2, <2>3, <2>4, <2>5 DEF IsOwn, Numbered
  <2> QED BY <2>4, <2>6 DEF InLog
<1>3. CASE Known(call)
  BY <1>1, <1>3 DEF Known, isRequestDuplicate, Tables, Honest
<1> QED BY <1>2, <1>3 DEF Acknowledges

\* The live calls of a step are those of before, one for one, but for a call
\* that is invoked and one that returns.
LEMMA LiveStep ==
    ASSUME Types, [Next]_vars, NEW d \in calls', d.live
    PROVE  \/ \E c \in calls : c.live /\ c.op = d.op
           \/ /\ \E kind, key : Invoke(d.op.client, kind, key)
              /\ d.op.client \in Client /\ d.op.id = requestId[d.op.client] + 1
<1>0. CallFrame
  BY Frames
<1> DEFINE Goal == \/ \E c \in calls : c.live /\ c.op = d.op
                   \/ /\ \E kind, key : Invoke(d.op.client, kind, key)
                      /\ d.op.client \in Client /\ d.op.id = requestId[d.op.client] + 1
<1>1. ASSUME d \in calls
      PROVE  Goal
  BY <1>1
<1>2. ASSUME NEW c \in Client, NEW kind \in {"Put", "Append", "Get"}, NEW key \in Key,
             Invoke(c, kind, key), d \notin calls
      PROVE  Goal
  <2>1. PICK op : op = [op |-> kind, key |-> key, client |-> c, id |-> requestId[c] + 1]
    OBVIOUS
  <2>2. d = request(op, recentLeaderId[c])
    BY <1>2, <2>1 DEF Invoke
  <2>3. request(op, recentLeaderId[c]).op = op
    BY Zenon DEF request
  <2>4. d.op = op /\ op.client = c /\ op.id = requestId[c] + 1
    BY <2>1, <2>2, <2>3
  <2> QED BY <1>2, <2>4
<1>3. ASSUME NEW c \in calls, Return(c)
      PROVE  d \in calls
  <2>1. calls' = calls \ {c}
    BY <1>3 DEF Return
  <2> QED BY <2>1
<1>4. ASSUME NEW c \in calls, Retry(c) \/ RetryClosed(c) \/ RpcFails(c)
      PROVE  d \in calls \/ (c.live /\ c.op = d.op)
  <2>1. PICK next : Resends(c, next)
    BY <1>4, Resending
  <2> QED BY <2>1 DEF Resends
<1>5. ASSUME HandlerNext
      PROVE  d \in calls \/ \E c \in calls : c.live /\ c.op = d.op
  <2>1. PICK c \in calls : \E n : Handled(c, n) /\ Outcome(c, n)
    BY <1>5, Outcomes
  <2>2. PICK next : Handled(c, next)
    BY <2>1
  <2>3. (d \in calls \/ d = next) /\ next.op = c.op /\ next.live = c.live
    BY <2>2 DEF Handled, Becomes
  <2>4. d \in calls \/ (c.live /\ c.op = d.op)
    BY <2>3
  <2> QED BY <2>4
<1>6. ASSUME NEW i \in Server, Crash(i)
      PROVE  d \in calls \/ \E c \in calls : c.live /\ c.op = d.op
  <2>1. calls' = {c \in calls : c.server # i \/ c.phase = "reply"} \cup
                {replied(c, "", 0) :
                   c \in {e \in calls : e.server = i /\ e.live /\ e.phase # "reply"}}
    BY <1>6, Crashes DEF Dies, DiesWith
  <2>2. CASE d \notin calls
    <3>1. PICK c \in calls : c.live /\ d = replied(c, "", 0)
      BY <2>1, <2>2
    <3>2. c \in Call
      BY DEF Types, CallTypes
    <3>3. d.op = c.op
      BY <3>1, <3>2, Zenon DEF replied, Call
    <3> QED BY <3>1, <3>3
  <2> QED BY <2>2
<1> HIDE DEF Goal
<1>7. Goal
  <2>1. CASE UNCHANGED calls
    BY <1>1, <2>1
  <2> QED BY <1>0, <1>1, <1>2, <1>3, <1>4, <1>5, <1>6, <2>1 DEF CallFrame, ClerkNext, Goal
<1> QED BY <1>7 DEF Goal

\* A live call goes on, until it returns.
LEMMA LiveKept ==
    ASSUME Types, [Next]_vars, NEW d \in calls, d.live
    PROVE  Return(d) \/ \E c \in calls' : c.live /\ c.op = d.op
<1>0. CallFrame
  BY Frames
<1> DEFINE Goal == Return(d) \/ \E c \in calls' : c.live /\ c.op = d.op
<1>1. ASSUME d \in calls'
      PROVE  Goal
  BY <1>1
<1>2. ASSUME NEW c, NEW kind, NEW key, Invoke(c, kind, key)
      PROVE  d \in calls'
  BY <1>2 DEF Invoke
<1>3. ASSUME NEW c \in calls, Return(c)
      PROVE  Return(d) \/ d \in calls'
  <2>1. calls' = calls \ {c}
    BY <1>3 DEF Return
  <2> QED BY <1>3, <2>1
<1>4. ASSUME NEW c \in calls, Retry(c) \/ RetryClosed(c) \/ RpcFails(c)
      PROVE  d \in calls' \/ \E x \in calls' : x.live /\ x.op = d.op
  <2>1. PICK next : Resends(c, next)
    BY <1>4, Resending
  <2>2. next \in calls' /\ next.live /\ next.op = c.op
    BY <2>1 DEF Resends
  <2>3. d = c \/ d \in calls'
    BY <2>1 DEF Resends
  <2> QED BY <2>2, <2>3
<1>5. ASSUME HandlerNext
      PROVE  d \in calls' \/ \E x \in calls' : x.live /\ x.op = d.op
  <2>1. PICK c \in calls : \E n : Handled(c, n) /\ Outcome(c, n)
    BY <1>5, Outcomes
  <2>2. PICK next : Handled(c, next)
    BY <2>1
  <2>3. /\ calls' = (calls \ {c}) \cup {a \in {next} : a.phase # "reply" \/ a.live}
        /\ next.op = c.op /\ next.live = c.live
    BY <2>2 DEF Handled, Becomes
  <2>4. CASE d = c
    <3>1. next \in calls' /\ next.live /\ next.op = d.op
      BY <2>3, <2>4
    <3> QED BY <3>1
  <2>5. CASE d # c
    BY <2>3, <2>5
  <2> QED BY <2>4, <2>5
<1>6. ASSUME NEW i \in Server, Crash(i)
      PROVE  d \in calls' \/ \E x \in calls' : x.live /\ x.op = d.op
  <2>1. calls' = {c \in calls : c.server # i \/ c.phase = "reply"} \cup
                {replied(c, "", 0) :
                   c \in {e \in calls : e.server = i /\ e.live /\ e.phase # "reply"}}
    BY <1>6, Crashes DEF Dies, DiesWith
  <2>2. CASE d.server = i /\ d.phase # "reply"
    <3>1. PICK x : x = replied(d, "", 0)
      OBVIOUS
    <3>2. x \in calls'
      BY <2>1, <2>2, <3>1
    <3>3. d \in Call
      BY DEF Types, CallTypes
    <3>4. x.op = d.op /\ x.live = d.live
      BY <3>1, <3>3, Zenon DEF replied, Call
    <3> QED BY <3>2, <3>4
  <2> QED BY <2>1, <2>2
<1> HIDE DEF Goal
<1>7. Goal
  <2>1. CASE UNCHANGED calls
    BY <1>1, <2>1
  <2> QED BY <1>0, <1>1, <1>2, <1>3, <1>4, <1>5, <1>6, <2>1 DEF CallFrame, ClerkNext, Goal
<1> QED BY <1>7 DEF Goal

LEMMA InitNumbered == Init => Numbered
<1> SUFFICES ASSUME Init PROVE Numbered
  OBVIOUS
<1>1. calls = {} /\ Ops = {}
  BY DEF Init, Ops
<1> QED BY <1>1 DEF Numbered

\* There is one live call per client after a step too.
LEMMA OneLive ==
    ASSUME Types, Numbered, [Next]_vars, NEW c \in calls', NEW d \in calls',
           c.live, d.live, c.op.client = d.op.client
    PROVE  c = d
<1>0. CallFrame
  BY Frames
<1> DEFINE Goal == c = d
<1>1. ASSUME c \in calls, d \in calls
      PROVE  Goal
  BY <1>1 DEF Numbered
<1>2. ASSUME NEW k, NEW kind, NEW key, Invoke(k, kind, key)
      PROVE  Goal
  <2>1. PICK op : op = [op |-> kind, key |-> key, client |-> k, id |-> requestId[k] + 1]
    OBVIOUS
  <2>2. calls' = calls \cup {request(op, recentLeaderId[k])}
    BY <1>2, <2>1 DEF Invoke
  <2>3. request(op, recentLeaderId[k]).op = op
    BY Zenon DEF request
  <2>4. op.client = k
    BY <2>1
  <2>5. \A x \in calls : x.live => x.op.client # k
    BY <1>2 DEF Invoke, Idle
  <2> QED BY <1>1, <2>2, <2>3, <2>4, <2>5
<1>3. ASSUME NEW k \in calls, Return(k)
      PROVE  Goal
  <2>1. calls' = calls \ {k}
    BY <1>3 DEF Return
  <2> QED BY <1>1, <2>1
<1>4. ASSUME NEW k \in calls, Retry(k) \/ RetryClosed(k) \/ RpcFails(k)
      PROVE  Goal
  <2>1. PICK next : Resends(k, next)
    BY <1>4, Resending
  <2>2. k.live /\ next.op = k.op
    BY <2>1 DEF Resends
  <2>3. \A x \in calls' : x.live => x = next \/ (x \in calls /\ x # k)
    BY <2>1 DEF Resends
  <2>4. \A x \in calls : x.live /\ x # k => x.op.client # next.op.client
    BY <2>2 DEF Numbered
  <2> QED BY <1>1, <2>3, <2>4
<1>5. ASSUME HandlerNext
      PROVE  Goal
  <2>1. PICK k \in calls : \E n : Handled(k, n) /\ Outcome(k, n)
    BY <1>5, Outcomes
  <2>2. PICK next : Handled(k, next)
    BY <2>1
  <2>3. \A x \in calls' : x = next \/ (x \in calls /\ x # k)
    BY <2>2 DEF Handled, Becomes
  <2>4. next.op = k.op /\ (next.live => k.live)
    BY <2>2 DEF Handled
  <2>5. next.live => \A x \in calls : x.live /\ x # k => x.op.client # next.op.client
    BY <2>4 DEF Numbered
  <2> QED BY <1>1, <2>3, <2>5
<1>6. ASSUME NEW i \in Server, Crash(i)
      PROVE  Goal
  <2>1. calls' = {x \in calls : x.server # i \/ x.phase = "reply"} \cup
                {replied(x, "", 0) :
                   x \in {e \in calls : e.server = i /\ e.live /\ e.phase # "reply"}}
    BY <1>6, Crashes DEF Dies, DiesWith
  <2>2. ASSUME NEW x \in calls'
        PROVE  \/ x \in calls /\ (x.server # i \/ x.phase = "reply")
               \/ \E e \in calls : /\ e.server = i /\ e.live /\ e.phase # "reply"
                                  /\ x = replied(e, "", 0) /\ x.op = e.op
    <3>1. ASSUME NEW e \in calls, x = replied(e, "", 0)
          PROVE  x.op = e.op
      <4>1. e \in Call
        BY DEF Types, CallTypes
      <4> QED BY <3>1, <4>1, Zenon DEF replied, Call
    <3> QED BY <2>1, <3>1
  <2>3. \A x, y \in calls : x.live /\ y.live /\ x.op.client = y.op.client => x = y
    BY DEF Numbered
  <2> QED BY <1>1, <2>2, <2>3
<1> HIDE DEF Goal
<1>7. Goal
  <2>1. CASE UNCHANGED calls
    BY <1>1, <2>1
  <2> QED BY <1>0, <1>1, <1>2, <1>3, <1>4, <1>5, <1>6, <2>1 DEF CallFrame, ClerkNext
<1> QED BY <1>7 DEF Goal

\* What a write is answered.
LEMMA WriteAnswers ==
    ASSUME Types, WithinLog, Waiting, Numbered, Tables, [Next]_vars,
           NEW d \in calls', d.phase = "reply", Write(d.op)
    PROVE  (d.err = "OK" => InLog(d.op)') /\ d.err # "ErrNoKey"
<1>0. CallFrame /\ RaftFrame
  BY Frames
<1> DEFINE Goal == (d.err = "OK" => InLog(d.op)') /\ d.err # "ErrNoKey"
<1>1. ASSUME d \in calls
      PROVE  Goal
  <2>1. (d.err = "OK" => InLog(d.op)) /\ d.err # "ErrNoKey"
    BY <1>1 DEF Numbered
  <2> QED BY <1>0, <2>1, InLogKept
<1>2. ASSUME NEW c, NEW kind, NEW key, Invoke(c, kind, key)
      PROVE  d \in calls
  <2>1. PICK op, j : calls' = calls \cup {request(op, j)}
    BY <1>2 DEF Invoke
  <2>2. request(op, j).phase = "sent"
    BY Zenon DEF request
  <2> QED BY <2>1, <2>2
<1>3. ASSUME NEW c \in calls, Return(c)
      PROVE  d \in calls
  <2>1. calls' = calls \ {c}
    BY <1>3 DEF Return
  <2> QED BY <2>1
<1>4. ASSUME NEW c \in calls, Retry(c) \/ RetryClosed(c) \/ RpcFails(c)
      PROVE  d \in calls
  <2>1. PICK next : Resends(c, next)
    BY <1>4, Resending
  <2> QED BY <2>1 DEF Resends
<1>5. ASSUME HandlerNext
      PROVE  Goal
  <2>1. PICK c \in calls : \E n : Handled(c, n) /\ Outcome(c, n)
    BY <1>5, Outcomes
  <2>2. PICK next : Handled(c, next) /\ Outcome(c, next)
    BY <2>1
  <2>3. (d \in calls \/ d = next) /\ next.op = c.op
    BY <2>2 DEF Handled, Becomes
  <2>4. CASE d = next
    <3>1. CASE Refuses(c, next)
      BY <2>4, <3>1 DEF Refuses
    <3>2. CASE Acknowledges(c, next)
      <4>1. InLog(d.op)'
        BY <1>0, <2>3, <2>4, <3>2, AcknowledgedInLog, InLogKept
      <4> QED BY <2>4, <3>2, <4>1 DEF Acknowledges
    <3>3. CASE ReadsAndAnswers(c, next)
      BY <2>3, <2>4, <3>3 DEF ReadsAndAnswers, Waiting
    <3> QED BY <2>2, <2>4, <3>1, <3>2, <3>3 DEF Outcome, Starts, Registers, Proceeds
  <2> QED BY <1>1, <2>3, <2>4
<1>6. ASSUME NEW i \in Server, Crash(i)
      PROVE  d \in calls \/ d.err = ""
  BY <1>6, Crashed
<1>7. ASSUME d.err = ""
      PROVE  Goal
  BY <1>7
<1> HIDE DEF Goal
<1>8. Goal
  <2>1. CASE UNCHANGED calls
    BY <1>1, <2>1
  <2> QED BY <1>0, <1>1, <1>2, <1>3, <1>4, <1>5, <1>6, <1>7, <2>1 DEF CallFrame, ClerkNext
<1> QED BY <1>8 DEF Goal

LEMMA NumberedStep ==
    ASSUME Types, WithinLog, Waiting, Numbered, Tables, [Next]_vars
    PROVE  Numbered'
<1>0. RaftFrame
  BY Frames
<1>1. ASSUME NEW o \in Ops'
      PROVE  /\ o.client \in Client /\ o.id \in Nat
             /\ o.id \in 1 .. requestId'[o.client]
             /\ o \notin Ops => /\ o.id = requestId[o.client] + 1
                               /\ \E kind, key : Invoke(o.client, kind, key)
  <2>1. CASE o \in Ops
    <3>1. o.client \in Client /\ o.id \in Nat /\ o.id \in 1 .. requestId[o.client]
      BY <2>1, OpsTypes DEF Numbered
    <3>2. /\ requestId[o.client] \in Nat /\ requestId'[o.client] \in Nat
          /\ requestId[o.client] <= requestId'[o.client]
      BY <3>1, RequestIdGrows
    <3> QED BY <2>1, <3>1, <3>2
  <2>2. CASE o \notin Ops
    <3>1. PICK kind, key : Invoke(o.client, kind, key)
      BY <2>2, OpsStep
    <3>2. o.client \in Client /\ o.id = requestId[o.client] + 1
      BY <2>2, OpsStep
    <3>3. requestId[o.client] \in Nat /\ requestId'[o.client] = requestId[o.client] + 1
      BY <3>1, <3>2, RequestIdGrows
    <3> QED BY <3>1, <3>2, <3>3
  <2> QED BY <2>1, <2>2
<1>2. ASSUME NEW o \in Ops', NEW p \in Ops', o.client = p.client, o.id = p.id
      PROVE  o = p
  <2>1. CASE o \in Ops /\ p \in Ops
    BY <1>2, <2>1 DEF Numbered
  <2>2. ASSUME NEW x \in Ops, NEW y \in Ops', y \notin Ops, x.client = y.client, x.id = y.id
        PROVE  FALSE
    <3>1. x.id \in 1 .. requestId[x.client] /\ x.client \in Client
      BY OpsTypes DEF Numbered
    <3>2. y.id = requestId[y.client] + 1
      BY <1>1, <2>2
    <3>3. requestId[x.client] \in Nat
      BY <3>1, RequestIdGrows
    <3> QED BY <2>2, <3>1, <3>2, <3>3
  <2>3. CASE o \notin Ops /\ p \notin Ops
    <3>1. PICK kind, key : Invoke(o.client, kind, key)
      BY <1>1, <2>3
    <3>2. PICK op : op = [op |-> kind, key |-> key, client |-> o.client,
                         id |-> requestId[o.client] + 1]
      OBVIOUS
    <3>3. /\ calls' = calls \cup {request(op, recentLeaderId[o.client])}
          /\ UNCHANGED raftVars
      BY <3>1, <3>2 DEF Invoke
    <3>4. request(op, recentLeaderId[o.client]).op = op
      BY Zenon DEF request
    <3>5. \A x \in Ops' : x \in Ops \/ x = op
      BY <3>3, <3>4 DEF Ops, raftVars
    <3> QED BY <2>3, <3>5
  <2> QED BY <1>2, <2>1, <2>2, <2>3
<1>3. ASSUME NEW d \in calls', d.live
      PROVE  d.op.id = requestId'[d.op.client]
  <2>1. ASSUME NEW c \in calls, c.live, c.op = d.op
        PROVE  d.op.id = requestId'[d.op.client]
    <3>1. c.op.client \in Client /\ c.op.id = requestId[c.op.client]
      BY <2>1 DEF Numbered, Types, CallTypes, Call, Op
    <3>2. \A kind, key : ~Invoke(c.op.client, kind, key)
      BY <2>1 DEF Invoke, Idle
    <3>3. requestId'[c.op.client] = requestId[c.op.client]
      BY <3>1, <3>2, RequestIdGrows
    <3> QED BY <2>1, <3>1, <3>3
  <2>2. ASSUME NEW kind, NEW key, Invoke(d.op.client, kind, key),
               d.op.client \in Client, d.op.id = requestId[d.op.client] + 1
        PROVE  d.op.id = requestId'[d.op.client]
    BY <2>2, RequestIdGrows
  <2> QED BY <1>3, <2>1, <2>2, LiveStep
<1>4. \A c, d \in calls' : c.live /\ d.live /\ c.op.client = d.op.client => c = d
  BY OneLive
<1>5. ASSUME NEW o \in Ops', Write(o)
      PROVE  InLog(o)' \/ \E call \in calls' : call.live /\ call.op = o
  <2>1. ASSUME InLog(o)
        PROVE  InLog(o)'
    BY <1>0, <2>1, InLogKept
  <2>2. ASSUME NEW d \in calls, d.live, d.op = o
        PROVE  InLog(o)' \/ \E call \in calls' : call.live /\ call.op = o
    <3>1. CASE Return(d)
      <4>1. d.phase = "reply" /\ d.err \in {"OK", "ErrNoKey"}
        BY <3>1 DEF Return, Answer
      <4>2. InLog(o)
        BY <1>5, <2>2, <4>1 DEF Numbered
      <4> QED BY <2>1, <4>2
    <3>2. CASE ~Return(d)
      BY <2>2, <3>2, LiveKept
    <3> QED BY <3>1, <3>2
  <2>3. CASE o \in Ops
    BY <1>5, <2>1, <2>2, <2>3 DEF Numbered
  <2>4. CASE o \notin Ops
    <3>1. PICK kind, key : Invoke(o.client, kind, key)
      BY <1>1, <2>4
    <3>2. PICK op : op = [op |-> kind, key |-> key, client |-> o.client,
                         id |-> requestId[o.client] + 1]
      OBVIOUS
    <3>3. PICK call : call = request(op, recentLeaderId[o.client])
      OBVIOUS
    <3>4. calls' = calls \cup {call} /\ UNCHANGED raftVars
      BY <3>1, <3>2, <3>3 DEF Invoke
    <3>5. call.op = op /\ call.live
      BY <3>3, Zenon DEF request
    <3>6. o = op
      BY <2>4, <3>4, <3>5 DEF Ops, raftVars
    <3> QED BY <3>4, <3>5, <3>6
  <2> QED BY <2>3, <2>4
<1>6. \A d \in calls' : d.phase = "reply" /\ Write(d.op) =>
           (d.err = "OK" => InLog(d.op)') /\ d.err # "ErrNoKey"
  BY WriteAnswers
<1>7. \A o \in Ops' : o.id \in 1 .. requestId'[o.client]
  BY <1>1
<1> QED BY <1>2, <1>3, <1>4, <1>5, <1>6, <1>7 DEF Numbered, InLog

LEMMA InitTables == Init => Tables
<1> SUFFICES ASSUME Init PROVE Tables
  OBVIOUS
<1>1. Types /\ Numbered
  BY InitTypes, InitNumbered
<1>2. Honest(EmptyStore.last)
  BY <1>1, HonestEmpty
<1>3. restored(NoSnapshot) = EmptyStore
  BY DEF restored
<1> QED BY <1>2, <1>3 DEF Init, Tables

LEMMA TablesStep ==
    ASSUME Types, WithinLog, Waiting, Numbered, Tables, [Next]_vars
    PROVE  Tables'
<1>0. RaftFrame /\ StateFrame /\ Types'
  BY Frames, TypesStep
<1>1. /\ lastRequestIdMap \in [Server -> [Client -> Nat]]
      /\ snapshotFile \in [Server -> Snapshot]
      /\ pushers \in [Server -> SUBSET Message]
      /\ applyChan \in [Server -> Seq(Message)]
  BY DEF Types, RaftTypes, StateTypes
<1>2. \A i \in Server :
        /\ Honest(lastRequestIdMap[i])
        /\ Honest(restored(snapshotFile[i]).last)
        /\ \A k \in DOMAIN applyChan[i] : Honest(restored(applyChan[i][k].data).last)
        /\ \A msg \in pushers[i] : Honest(restored(msg.data).last)
  BY DEF Tables
\* What the four places hold after the step was honest before it.
<1>3. ASSUME NEW i \in Server
      PROVE  /\ Honest(restored(snapshotFile'[i]).last)
             /\ restored(snapshotFile'[i]).last \in [Client -> Nat]
  <2>1. restored(snapshotFile'[i]).last \in [Client -> Nat]
    <3>1. snapshotFile'[i] \in Snapshot
      BY <1>0 DEF Types, RaftTypes
    <3> QED BY <3>1, RestoredLast
  <2>2. CASE UNCHANGED snapshotFile
    BY <1>2, <2>1, <2>2
  <2>3. ASSUME NEW a \in Server, NEW b \in Server, installSnapshot(a, b)
        PROVE  Honest(restored(snapshotFile'[i]).last)
    <3>1. snapshotFile'[i] \in {snapshotFile[i], snapshotFile[b]}
      BY <1>1, <2>3 DEF installSnapshot
    <3> QED BY <1>2, <3>1
  <2>4. ASSUME NEW a \in Server, getCommandFromRaft(a)
        PROVE  Honest(restored(snapshotFile'[i]).last)
    <3>1. applyChan[a] # << >>
      BY <2>4 DEF getCommandFromRaft, Received
    <3>2. PICK n \in DOMAIN committed : n = Head(applyChan[a]).index
      BY <3>1, HeadOfQueue
    <3>3. PICK store \in Store : store = applied(current(a), committed[n])
      BY CurrentType
    <3>4. snapshotFile'[i] \in {snapshotFile[i], store}
      BY <1>1, <2>4, <3>2, <3>3 DEF getCommandFromRaft, TakeSnapshot, getSnapshotData
    <3>5. Honest(current(a).last) /\ current(a) \in Store
      BY <1>2, CurrentType DEF current
    <3>6. Honest(store.last)
      BY <3>3, <3>5, HonestApplied
    <3>7. Honest(restored(store).last)
      BY <3>6, HonestEmpty DEF restored
    <3> QED BY <1>2, <3>4, <3>7
  <2>5. \/ UNCHANGED snapshotFile
        \/ \E a, b \in Server : installSnapshot(a, b)
        \/ \E a \in Server : getCommandFromRaft(a)
    BY <1>0, Crashes DEF RaftFrame, raftVars, StartAccepted, Commit, getApplyLogs,
                applierPush, pushMsgToKvServer, Dies, DiesWith
  <2> QED BY <2>1, <2>2, <2>3, <2>4, <2>5
<1>4. ASSUME NEW i \in Server
      PROVE  Honest(lastRequestIdMap'[i]) /\ lastRequestIdMap'[i] \in [Client -> Nat]
  <2>1. lastRequestIdMap'[i] \in [Client -> Nat]
    BY <1>0 DEF Types, StateTypes
  <2>2. CASE UNCHANGED lastRequestIdMap
    BY <1>2, <2>1, <2>2
  <2>3. ASSUME NEW call \in calls, ExecGet(call)
        PROVE  Honest(lastRequestIdMap'[i])
    <3>1. call.server \in Server /\ call.op \in Ops /\ ~Write(call.op)
      BY <2>3 DEF ExecGet, Waiting, Ops, Types, CallTypes, Call
    <3>2. PICK last \in [Client -> Nat] : last = lastRequestIdMap[call.server]
      BY <1>1, <3>1
    <3>3. Honest(last)
      BY <1>2, <3>1, <3>2
    <3>4. Honest([last EXCEPT ![call.op.client] = call.op.id])
      BY <3>1, <3>3, HonestRaised
    <3>5. lastRequestIdMap'[i] \in
            {lastRequestIdMap[i], [last EXCEPT ![call.op.client] = call.op.id]}
      BY <1>1, <2>3, <3>1, <3>2 DEF ExecGet
    <3> QED BY <1>2, <3>4, <3>5
  <2>4. ASSUME NEW a \in Server, getCommandFromRaft(a)
        PROVE  Honest(lastRequestIdMap'[i])
    <3>1. applyChan[a] # << >>
      BY <2>4 DEF getCommandFromRaft, Received
    <3>2. PICK n \in DOMAIN committed : n = Head(applyChan[a]).index
      BY <3>1, HeadOfQueue
    <3>3. PICK store \in Store : store = applied(current(a), committed[n])
      BY CurrentType
    <3>4. lastRequestIdMap'[i] \in {lastRequestIdMap[i], store.last}
      BY <1>1, <2>4, <3>2, <3>3 DEF getCommandFromRaft
    <3>5. Honest(current(a).last) /\ current(a) \in Store
      BY <1>2, CurrentType DEF current
    <3>6. Honest(store.last)
      BY <3>3, <3>5, HonestApplied
    <3> QED BY <1>2, <3>4, <3>6
  <2>5. ASSUME NEW a \in Server, getSnapshotFromRaft(a)
        PROVE  Honest(lastRequestIdMap'[i])
    <3>1. applyChan[a] # << >>
      BY <2>5 DEF getSnapshotFromRaft, Received
    <3>2. Head(applyChan[a]) = applyChan[a][1] /\ 1 \in DOMAIN applyChan[a]
      BY <3>1, HeadOfQueue
    <3>3. Honest(restored(Head(applyChan[a]).data).last)
      BY <1>2, <3>2
    <3>4. lastRequestIdMap' =
            [lastRequestIdMap EXCEPT ![a] = loaded(a, Head(applyChan[a]).data).last]
      BY <2>5 DEF getSnapshotFromRaft
    <3>5. loaded(a, Head(applyChan[a]).data).last \in
            {lastRequestIdMap[a], restored(Head(applyChan[a]).data).last}
      BY DEF loaded, current, restored
    <3>6. lastRequestIdMap'[i] \in
            {lastRequestIdMap[i], restored(Head(applyChan[a]).data).last}
      BY <1>1, <3>4, <3>5
    <3> QED BY <1>2, <3>3, <3>6
  <2>6. ASSUME NEW a \in Server, Crash(a)
        PROVE  Honest(lastRequestIdMap'[i])
    <3>1. lastRequestIdMap' = [lastRequestIdMap EXCEPT ![a] = restored(snapshotFile[a]).last]
      BY <2>6, Crashes DEF Dies, DiesWith
    <3>2. lastRequestIdMap'[i] \in {lastRequestIdMap[i], restored(snapshotFile[a]).last}
      BY <1>1, <3>1
    <3> QED BY <1>2, <3>2
  <2>7. \/ UNCHANGED lastRequestIdMap
        \/ \E call \in calls : ExecGet(call)
        \/ \E a \in Server : getCommandFromRaft(a) \/ getSnapshotFromRaft(a) \/ Crash(a)
    BY <1>0 DEF StateFrame, stateVars, applierPush, pushMsgToKvServer, getCommandCovered
  <2> QED BY <2>1, <2>2, <2>3, <2>4, <2>5, <2>6, <2>7
<1>5. ASSUME NEW i \in Server, NEW msg \in pushers'[i]
      PROVE  Honest(restored(msg.data).last) /\ restored(msg.data).last \in [Client -> Nat]
  <2>1. restored(msg.data).last \in [Client -> Nat]
    <3>1. msg.data \in Snapshot
      BY <1>0 DEF Types, RaftTypes, Message
    <3> QED BY <3>1, RestoredLast
  <2>2. \/ msg \in pushers[i]
        \/ \E b \in Server : msg.data = snapshotFile[b]
    <3>1. CASE UNCHANGED pushers
      BY <1>5, <3>1
    <3>2. ASSUME NEW a \in Server, NEW b \in Server, installSnapshot(a, b)
          PROVE  msg \in pushers[i] \/ msg.data = snapshotFile[b]
      BY <1>1, <1>5, <3>2 DEF installSnapshot
    <3>3. ASSUME NEW a \in Server, NEW m, pushMsgToKvServer(a, m)
          PROVE  msg \in pushers[i]
      <4>1. pushers' = [pushers EXCEPT ![a] = @ \ {m}]
        BY <3>3 DEF pushMsgToKvServer
      <4> QED BY <1>1, <1>5, <4>1
    <3>4. ASSUME NEW a \in Server, Crash(a)
          PROVE  msg \in pushers[i]
      <4>1. pushers' = [pushers EXCEPT ![a] = {}]
        BY <3>4, Crashes DEF Dies, DiesWith
      <4> QED BY <1>1, <1>5, <4>1
    <3>5. \/ UNCHANGED pushers
          \/ \E a, b \in Server : installSnapshot(a, b)
          \/ \E a \in Server : \E m \in pushers[a] : pushMsgToKvServer(a, m)
          \/ \E a \in Server : Crash(a)
      BY <1>0 DEF RaftFrame, raftVars, StartAccepted, Commit, getApplyLogs, applierPush,
                  getCommandFromRaft
    <3> QED BY <3>1, <3>2, <3>3, <3>4, <3>5
  <2> QED BY <1>2, <2>1, <2>2
<1>6. ASSUME NEW i \in Server, NEW k \in DOMAIN applyChan'[i]
      PROVE  /\ Honest(restored(applyChan'[i][k].data).last)
             /\ restored(applyChan'[i][k].data).last \in [Client -> Nat]
  <2>1. restored(applyChan'[i][k].data).last \in [Client -> Nat]
    <3>1. applyChan'[i] \in Seq(Message)
      BY <1>0 DEF Types, StateTypes
    <3>2. applyChan'[i][k] \in Message
      BY <3>1
    <3>3. applyChan'[i][k].data \in Snapshot
      BY <3>2 DEF Message
    <3> QED BY <3>3, RestoredLast
  <2> DEFINE Goal == Honest(restored(applyChan'[i][k].data).last)
  <2>2. ASSUME UNCHANGED applyChan
        PROVE  Goal
    BY <1>2, <2>2
  <2>3. ASSUME NEW a \in Server, NEW msg \in Message, Honest(restored(msg.data).last),
               applyChan' = [applyChan EXCEPT ![a] = Append(@, msg)]
        PROVE  Goal
    <3>1. CASE i = a
      <4>1. applyChan'[i] = Append(applyChan[i], msg) /\ applyChan[i] \in Seq(Message)
        BY <1>1, <2>3, <3>1
      <4>2. applyChan'[i][k] = msg
            \/ (k \in DOMAIN applyChan[i] /\ applyChan'[i][k] = applyChan[i][k])
        BY <4>1
      <4> QED BY <1>2, <2>3, <4>2
    <3>2. CASE i # a
      <4>1. applyChan'[i] = applyChan[i]
        BY <1>1, <2>3, <3>2
      <4> QED BY <1>2, <4>1
    <3> QED BY <3>1, <3>2
  <2>4. ASSUME NEW a \in Server, applierPush(a)
        PROVE  Goal
    <3>1. batch[a] \in Seq(Nat) /\ batch[a] # << >>
      BY <2>4 DEF applierPush, Types, RaftTypes
    <3>2. PICK n \in DOMAIN committed : n = Head(batch[a])
      <4>1. Head(batch[a]) = batch[a][1] /\ 1 \in DOMAIN batch[a]
        BY <3>1
      <4>2. batch[a][1] \in DOMAIN committed
        BY <4>1 DEF WithinLog
      <4> QED BY <4>1, <4>2
    <3>3. n \in Nat \ {0}
      BY DEF Types, RaftTypes
    <3>4. command(n) \in Message /\ command(n).data = EmptyStore
      BY <3>3, CommandType DEF command
    <3>5. applyChan' = [applyChan EXCEPT ![a] = Append(@, command(n))]
      BY <2>4, <3>2 DEF applierPush
    <3>6. Honest(restored(command(n).data).last)
      BY <3>4, HonestEmpty DEF restored
    <3> QED BY <2>3, <3>4, <3>5, <3>6
  <2>5. ASSUME NEW a \in Server, NEW msg \in pushers[a], pushMsgToKvServer(a, msg)
        PROVE  Goal
    <3>1. msg \in Message /\ Honest(restored(msg.data).last)
      BY <1>1, <1>2
    <3> QED BY <2>3, <2>5, <3>1 DEF pushMsgToKvServer
  <2>6. ASSUME NEW a \in Server, applyChan[a] # << >>,
               applyChan' = [applyChan EXCEPT ![a] = Tail(@)]
        PROVE  Goal
    <3>1. CASE i = a
      <4>1. applyChan'[i] = Tail(applyChan[i])
        BY <1>1, <2>6, <3>1
      <4>2. k + 1 \in DOMAIN applyChan[i] /\ Tail(applyChan[i])[k] = applyChan[i][k + 1]
        BY <1>6, <2>6, <3>1, <4>1, HeadOfQueue
      <4> QED BY <1>2, <4>1, <4>2
    <3>2. CASE i # a
      <4>1. applyChan'[i] = applyChan[i]
        BY <1>1, <2>6, <3>2
      <4> QED BY <1>2, <4>1
    <3> QED BY <3>1, <3>2
  <2>7. ASSUME NEW a \in Server, Crash(a)
        PROVE  Goal
    <3>1. applyChan' = [applyChan EXCEPT ![a] = << >>]
      BY <2>7, Crashes DEF Dies, DiesWith
    <3>2. applyChan'[i] = applyChan[i] \/ applyChan'[i] = << >>
      BY <1>1, <3>1
    <3>3. applyChan'[i] = applyChan[i]
      BY <1>6, <3>2
    <3> QED BY <1>2, <3>3
  <2>8. ASSUME NEW call \in calls, ExecGet(call)
        PROVE  UNCHANGED applyChan
    BY <2>8 DEF ExecGet
  <2> HIDE DEF Goal
  <2>9. Goal
    BY <1>0, <2>2, <2>4, <2>5, <2>6, <2>7, <2>8
       DEF StateFrame, getCommandCovered, getCommandFromRaft, getSnapshotFromRaft, Received
  <2> QED BY <2>1, <2>9 DEF Goal
\* And it stays so.
<1>7. ASSUME NEW last \in [Client -> Nat], Honest(last)
      PROVE  Honest(last)'
  BY <1>7, HonestKept
<1>8. ASSUME NEW i \in Server
      PROVE  Honest(lastRequestIdMap[i])' /\ Honest(restored(snapshotFile[i]).last)'
  <2>1. PICK a \in [Client -> Nat] : a = lastRequestIdMap'[i]
    BY <1>4
  <2>2. PICK b \in [Client -> Nat] : b = restored(snapshotFile'[i]).last
    BY <1>3
  <2>3. Honest(a)' /\ Honest(b)'
    BY <1>3, <1>4, <1>7, <2>1, <2>2
  <2> QED BY <2>1, <2>2, <2>3 DEF Honest
<1>9. ASSUME NEW i \in Server, NEW msg \in pushers'[i]
      PROVE  Honest(restored(msg.data).last)'
  <2>1. PICK a \in [Client -> Nat] : a = restored(msg.data).last
    BY <1>5
  <2>2. Honest(a)'
    BY <1>5, <1>7, <2>1
  <2> QED BY <2>1, <2>2 DEF Honest
<1>10. ASSUME NEW i \in Server, NEW k \in DOMAIN applyChan'[i]
       PROVE  Honest(restored(applyChan[i][k].data).last)'
  <2>1. PICK a \in [Client -> Nat] : a = restored(applyChan'[i][k].data).last
    BY <1>6
  <2>2. Honest(a)'
    BY <1>6, <1>7, <2>1
  <2> QED BY <2>1, <2>2 DEF Honest
<1> QED BY <1>8, <1>9, <1>10 DEF Tables

-----------------------------------------------------------------------------
(* The theorems without bounds on failures *)

ServerInv == Types /\ WithinLog /\ Waiting /\ Numbered /\ Tables

LEMMA ServerInvariant == Spec => []ServerInv
<1>1. Init => ServerInv
  BY InitTypes, InitWithinLog, InitWaiting, InitNumbered, InitTables DEF ServerInv
<1>2. ServerInv /\ [Next]_vars => ServerInv'
  <2> SUFFICES ASSUME ServerInv, [Next]_vars
               PROVE  ServerInv'
    OBVIOUS
  <2> USE DEF ServerInv
  <2>1. Types'
    BY TypesStep
  <2>2. WithinLog'
    BY WithinLogStep
  <2>3. Waiting'
    BY WaitingStep
  <2>4. Numbered'
    BY NumberedStep
  <2>5. Tables'
    BY TablesStep
  <2> QED BY <2>1, <2>2, <2>3, <2>4, <2>5
<1> QED BY <1>1, <1>2, PTL DEF Spec

\* Every variable of the servers and clerks has its type, and the index queues
\* of applierTicker (raft.cpp) hold positions of the committed log.
THEOREM KvTypeCorrect == Spec => []TypeOK
<1>1. ServerInv => TypeOK
  <2> SUFFICES ASSUME ServerInv PROVE TypeOK
    OBVIOUS
  <2>1. Types /\ WithinLog
    BY DEF ServerInv
  <2>2. ASSUME NEW i \in Server
        PROVE  /\ batch[i] \in Seq(DOMAIN committed)
               /\ pushers[i] \subseteq Message /\ applyChan[i] \in Seq(Message)
               /\ Registered(i) \subseteq Nat
               /\ \A n \in Registered(i) : waitApplyCh[i][n] \in Seq(Op)
               /\ current(i) \in Store
    <3>1. batch[i] \in Seq(Nat) /\ pushers[i] \subseteq Message /\ applyChan[i] \in Seq(Message)
      BY <2>1 DEF Types, RaftTypes, StateTypes
    <3>2. \A k \in DOMAIN batch[i] : batch[i][k] \in DOMAIN committed
      BY <2>1 DEF WithinLog
    <3>3. batch[i] \in Seq(DOMAIN committed)
      BY <3>1, <3>2
    <3> QED BY <2>1, <3>1, <3>3, CurrentType DEF Types, ChannelTypes
  <2>3. /\ committed \in Seq(Op)
        /\ proposed \subseteq [index : Nat, op : Op]
        /\ {lastIndex, lastApplied, snapshotIndex, lastSnapShotRaftLogIndex, kvIndex}
             \subseteq [Server -> Nat]
        /\ snapshotFile \in [Server -> Snapshot]
    BY <2>1 DEF Types, RaftTypes, StateTypes
  <2>4. calls \subseteq Call
    BY <2>1 DEF Types, CallTypes
  <2>5. /\ requestId \in [Client -> Nat] /\ recentLeaderId \in [Client -> Server]
        /\ done \in Nat /\ floor \in [Client -> Nat]
    BY <2>1 DEF Types, ClerkTypes
  <2>6. {timeouts, fails, installs, restarts} \subseteq Nat /\ torn \subseteq Server
    <3> HIDE DEF Server
    <3> QED BY <2>1 DEF Types, BoundTypes
  <2> QED BY <2>2, <2>3, <2>4, <2>5, <2>6 DEF TypeOK
<1> QED BY <1>1, ServerInvariant, PTL

\* A handler's wait channel is registered and its own: start() hands out every
\* index of a server once, so erasing waitApplyCh[index] (KvServer.cpp:281-283)
\* takes it from no other handler.
THEOREM ChannelIsOwned == Spec => []ChannelOwned
<1>1. ServerInv => ChannelOwned
  <2> SUFFICES ASSUME ServerInv, NEW c \in calls, NEW d \in calls,
                      c.phase \in {"waiting", "reading"}
               PROVE  /\ c.index \in Registered(c.server)
                      /\ d.server = c.server /\ d.index = c.index /\ d.phase # "reply"
                            => d = c
    BY DEF ChannelOwned
  <2>1. Waiting /\ c.phase \in Working /\ lastIndex \in [Server -> Nat] /\ c.server \in Server
    BY DEF ServerInv, Working, Types, RaftTypes, CallTypes, Call
  <2>2. c.index \in Registered(c.server) /\ c.index \in 1 .. lastIndex[c.server]
    BY <2>1 DEF Waiting
  <2>3. CASE d.phase \in Working
    BY <2>1, <2>2, <2>3 DEF Waiting
  <2>4. CASE d.phase = "sent"
    <3>1. d.index = 0
      BY <2>1, <2>4 DEF Waiting
    <3> QED BY <2>2, <3>1
  <2>5. d.phase \in Working \/ d.phase = "sent" \/ d.phase = "reply"
    BY DEF ServerInv, Types, CallTypes, Call, Working
  <2> QED BY <2>2, <2>3, <2>4, <2>5
<1> QED BY <1>1, ServerInvariant, PTL

\* A write that is answered OK is committed, on the notified path
\* (KvServer.cpp:273) and on the timeout path (KvServer.cpp:261), whatever was
\* lost, retried, installed or restarted before.
THEOREM AcknowledgedWritesCommitted == Spec => []AckedIsCommitted
<1>1. ServerInv => AckedIsCommitted
  <2> SUFFICES ASSUME ServerInv, NEW call \in calls,
                      call.phase = "reply", call.err = "OK", call.op.op # "Get"
               PROVE  positionOf(call.op) > 0
    BY DEF AckedIsCommitted
  <2>1. InLog(call.op)
    BY DEF ServerInv, Numbered, Write
  <2> QED BY <2>1, PositionOf DEF ServerInv
<1> QED BY <1>1, ServerInvariant, PTL

-----------------------------------------------------------------------------
(* Without an installed snapshot *)

\* Before a snapshot is installed, nothing but these steps of the servers touches
\* their data and what is on its way to it.
LEMMA ServerSteps ==
    ASSUME Types, WithinLog, Queues, [Next]_vars, installs' = 0
    PROVE  /\ installs = 0
           /\ \/ UNCHANGED <<applyChan, kv, kvIndex, lastSnapShotRaftLogIndex, batch,
                             lastApplied, pushers, snapshotIndex, snapshotFile>>
              \/ \E i \in Server : \/ getApplyLogs(i) \/ applierPush(i)
                                   \/ getCommandFromRaft(i) \/ Crash(i)
<1> DEFINE Kept == UNCHANGED <<applyChan, kv, kvIndex, lastSnapShotRaftLogIndex, batch,
                             lastApplied, pushers, snapshotIndex, snapshotFile>>
           Moves == \E i \in Server : \/ getApplyLogs(i) \/ applierPush(i)
                                     \/ getCommandFromRaft(i) \/ Crash(i)
<1>1. installs = 0
  BY MoreFrames DEF BoundFrame, Types, BoundTypes
<1>2. \A i \in Server : Queue(i)
  BY <1>1 DEF Queues
<1>3. ASSUME ClerkNext \/ (\E p \in proposed : Commit(p))
      PROVE  Kept
  BY <1>3 DEF ClerkNext, Invoke, Return, Retry, RetryClosed, RpcFails, Commit,
              raftVars, stateVars
<1>4. ASSUME HandlerNext
      PROVE  Kept
  <2>1. PICK call \in calls :
          \/ StartRefused(call) \/ StartAccepted(call) \/ RegisterChannel(call)
          \/ NotifiedOther(call) \/ NotifiedWrite(call) \/ NotifiedGet(call)
          \/ TimedOutWrite(call) \/ TimedOutGetKnown(call) \/ TimedOutGet(call)
          \/ ExecGet(call)
    BY <1>4 DEF HandlerNext
  <2> QED BY <2>1 DEF StartRefused, StartAccepted, RegisterChannel, NotifiedOther,
                      NotifiedWrite, NotifiedGet, TimedOutWrite, TimedOutGetKnown,
                      TimedOutGet, TimesOut, ExecGet, raftVars, stateVars
<1>5. ASSUME NEW i \in Server,
             \/ getApplyLogs(i) \/ applierPush(i)
             \/ \E j \in Server \ {i} : installSnapshot(i, j)
             \/ \E msg \in pushers[i] : pushMsgToKvServer(i, msg)
      PROVE  Moves
  <2>1. ASSUME NEW j, installSnapshot(i, j)
        PROVE  FALSE
    <3>1. installs' = installs + 1
      BY <2>1 DEF installSnapshot
    <3> QED BY <1>1, <3>1
  <2> QED BY <1>2, <1>5, <2>1 DEF Queue
<1>6. ASSUME NEW i \in Server,
             \/ getCommandCovered(i) \/ getCommandFromRaft(i)
             \/ getSnapshotFromRaft(i) \/ Crash(i)
      PROVE  Moves
  <2>1. ASSUME applyChan[i] # << >>
        PROVE  /\ Head(applyChan[i]).kind = "command"
               /\ Head(applyChan[i]).index > lastSnapShotRaftLogIndex[i]
    <3>1. Head(applyChan[i]) = applyChan[i][1] /\ 1 \in DOMAIN applyChan[i]
      BY <2>1, HeadOfQueue
    <3>2. kvIndex[i] \in Nat
      BY DEF Types, StateTypes
    <3> QED BY <1>2, <3>1, <3>2 DEF Queue
  <2>2. ~getCommandCovered(i)
    <3> SUFFICES ASSUME getCommandCovered(i) PROVE FALSE
      OBVIOUS
    <3>1. applyChan[i] # << >> /\ lastSnapShotRaftLogIndex[i] >= Head(applyChan[i]).index
      BY DEF getCommandCovered, Received
    <3>2. Head(applyChan[i]).index \in Nat /\ lastSnapShotRaftLogIndex[i] \in Nat
      BY <3>1, HeadOfQueue DEF Types, StateTypes, Message
    <3> QED BY <2>1, <3>1, <3>2
  <2>3. ~getSnapshotFromRaft(i)
    BY <2>1 DEF getSnapshotFromRaft, Received
  <2> QED BY <1>6, <2>2, <2>3
<1>7. CASE UNCHANGED vars
  BY <1>1, <1>7 DEF vars, raftVars, stateVars
<1> HIDE DEF Moves, Kept
<1>8. Kept \/ Moves
  <2>1. CASE UNCHANGED vars
    BY <2>1 DEF vars, raftVars, stateVars, Kept
  <2>2. CASE ServerNext
    <3>1. PICK i \in Server :
            \/ getCommandCovered(i) \/ getCommandFromRaft(i) \/ getSnapshotFromRaft(i)
            \/ Crash(i)
      BY <2>2 DEF ServerNext, Crash
    <3> QED BY <1>6, <3>1
  <2> QED BY <1>3, <1>4, <1>5, <2>1, <2>2 DEF Next, RaftNext
<1> QED BY <1>1, <1>8 DEF Moves, Kept

LEMMA InitQueues == Init => Queues
BY DEF Init, Queues, Queue

LEMMA QueuesStep ==
    ASSUME Types, WithinLog, Queues, [Next]_vars
    PROVE  Queues'
<1> SUFFICES ASSUME installs' = 0, NEW i \in Server
             PROVE  Queue(i)'
  BY DEF Queues
<1>0. Queue(i) /\ installs = 0
  BY ServerSteps DEF Queues
<1>1. /\ lastApplied \in [Server -> Nat] /\ snapshotIndex \in [Server -> Nat]
      /\ kvIndex \in [Server -> Nat] /\ batch \in [Server -> Seq(Nat)]
      /\ pushers \in [Server -> SUBSET Message]
      /\ applyChan \in [Server -> Seq(Message)]
      /\ lastSnapShotRaftLogIndex \in [Server -> Nat]
  BY DEF Types, RaftTypes, StateTypes
<1> DEFINE Same == /\ pushers'[i] = pushers[i] /\ applyChan'[i] = applyChan[i]
                   /\ lastSnapShotRaftLogIndex'[i] = lastSnapShotRaftLogIndex[i]
                   /\ batch'[i] = batch[i] /\ kvIndex'[i] = kvIndex[i]
                   /\ lastApplied'[i] = lastApplied[i]
<1>2. ASSUME Same
      PROVE  Queue(i)'
  BY <1>0, <1>2 DEF Queue
<1>3. ASSUME NEW a \in Server, getApplyLogs(a)
      PROVE  Queue(i)'
  <2>1. PICK n \in lastApplied[a] + 1 .. Len(committed) :
         /\ batch' = [batch EXCEPT
              ![a] = [k \in 1 .. n - lastApplied[a] |-> lastApplied[a] + k]]
         /\ lastApplied' = [lastApplied EXCEPT ![a] = n]
    BY <1>3 DEF getApplyLogs
  <2>2. UNCHANGED <<pushers, applyChan, lastSnapShotRaftLogIndex, kvIndex>>
    BY <1>3 DEF getApplyLogs, stateVars
  <2>3. CASE i = a
    <3>1. batch[i] = << >>
      BY <1>3, <2>3 DEF getApplyLogs
    <3>2. lastApplied[i] = kvIndex[i] + Len(applyChan[i]) /\ lastApplied[i] \in Nat
      BY <1>0, <1>1, <3>1 DEF Queue
    <3>3. PICK m \in Nat : m = n - lastApplied[i]
      BY <2>1, <2>3, <3>2
    <3>4. batch'[i] = [k \in 1 .. m |-> lastApplied[i] + k] /\ lastApplied'[i] = n
      BY <1>1, <2>1, <2>3, <3>3
    <3>5. Len(batch'[i]) = m /\ DOMAIN batch'[i] = 1 .. m
      BY <3>4
    <3>6. n = lastApplied[i] + m
      BY <2>1, <2>3, <3>2, <3>3
    <3> QED BY <1>0, <2>2, <3>2, <3>4, <3>5, <3>6 DEF Queue
  <2>4. CASE i # a
    BY <1>1, <1>2, <2>1, <2>2, <2>4
  <2> QED BY <2>3, <2>4
<1>4. ASSUME NEW a \in Server, applierPush(a)
      PROVE  Queue(i)'
  <2>1. /\ applyChan' = [applyChan EXCEPT ![a] = Append(@, command(Head(batch[a])))]
        /\ batch' = [batch EXCEPT ![a] = Tail(@)]
        /\ UNCHANGED <<pushers, lastSnapShotRaftLogIndex, kvIndex, lastApplied>>
        /\ batch[a] # << >>
    BY <1>4 DEF applierPush, stateVars
  <2>2. CASE i = a
    <3>1. PICK q, b : /\ q = applyChan[i] /\ b = batch[i]
                      /\ q \in Seq(Message) /\ b \in Seq(Nat)
      BY <1>1
    <3>2. b # << >> /\ Head(b) = b[1] /\ 1 \in DOMAIN b /\ Len(b) > 0
      BY <2>1, <2>2, <3>1
    <3>3. PICK m \in Nat, l \in Nat, v \in Nat : m = Len(q) /\ l = Len(b) /\ v = kvIndex[i]
      BY <1>1, <3>1
    <3>4. \A k \in 1 .. m : q[k].kind = "command" /\ q[k].index = v + k
      BY <1>0, <3>1, <3>3 DEF Queue
    <3>16. \A k \in 1 .. l : b[k] = v + m + k
      BY <1>0, <3>1, <3>3 DEF Queue
    <3>17. lastApplied[i] = v + m + l
      BY <1>0, <3>1, <3>3 DEF Queue
    <3>5. Head(b) = v + m + 1
      BY <3>2, <3>3, <3>16
    <3>6. PICK msg \in Message : msg = command(v + m + 1)
      BY CommandType
    <3>18. msg.kind = "command" /\ msg.index = v + m + 1
      BY <3>6 DEF command
    <3>7. applyChan'[i] = Append(q, msg) /\ batch'[i] = Tail(b)
      BY <1>1, <2>1, <2>2, <3>1, <3>5, <3>6
    <3>8. PICK f, g : f = applyChan'[i] /\ g = batch'[i]
      OBVIOUS
    <3>9. /\ DOMAIN f = 1 .. m + 1 /\ f[m + 1] = msg
          /\ \A k \in 1 .. m : f[k] = q[k]
      BY <3>1, <3>3, <3>7, <3>8
    <3>10. /\ DOMAIN g = 1 .. l - 1
           /\ \A k \in 1 .. l - 1 : g[k] = b[k + 1]
      BY <3>1, <3>2, <3>3, <3>7, <3>8
    <3>11. Len(f) = m + 1 /\ Len(g) = l - 1
      BY <3>1, <3>2, <3>3, <3>7, <3>8
    <3>12. \A k \in DOMAIN f : f[k].kind = "command" /\ f[k].index = v + k
      BY <3>4, <3>9, <3>18
    <3>13. \A k \in DOMAIN g : g[k] = v + (m + 1) + k
      <4> SUFFICES ASSUME NEW k \in 1 .. l - 1
                   PROVE  g[k] = v + (m + 1) + k
        BY <3>10
      <4>1. k \in Nat /\ k + 1 \in 1 .. l
        OBVIOUS
      <4>2. g[k] = b[k + 1] /\ b[k + 1] = v + m + (k + 1)
        BY <3>10, <3>16, <4>1
      <4> QED BY <4>1, <4>2
    <3>14. lastApplied[i] = v + (m + 1) + (l - 1)
      BY <3>17
    <3>15. /\ pushers'[i] = {} /\ lastSnapShotRaftLogIndex'[i] = 0
           /\ kvIndex'[i] = v /\ lastApplied'[i] = lastApplied[i]
      BY <1>0, <2>1, <3>3 DEF Queue
    <3> QED BY <3>8, <3>11, <3>12, <3>13, <3>14, <3>15 DEF Queue
  <2>3. CASE i # a
    BY <1>1, <1>2, <2>1, <2>3
  <2> QED BY <2>2, <2>3
<1>5. ASSUME NEW a \in Server, getCommandFromRaft(a)
      PROVE  Queue(i)'
  <2>1. applyChan[a] # << >>
    BY <1>5 DEF getCommandFromRaft, Received
  <2>2. /\ applyChan' = [applyChan EXCEPT ![a] = Tail(@)]
        /\ kvIndex' = [kvIndex EXCEPT ![a] = Head(applyChan[a]).index]
        /\ UNCHANGED <<pushers, lastSnapShotRaftLogIndex, batch, lastApplied>>
    BY <1>5 DEF getCommandFromRaft, Received
  <2>3. CASE i = a
    <3>1. PICK q : q = applyChan[i] /\ q \in Seq(Message)
      BY <1>1
    <3>2. q # << >> /\ Head(q) = q[1] /\ 1 \in DOMAIN q /\ Len(q) > 0
      BY <2>1, <2>3, <3>1
    <3>3. PICK m \in Nat, v \in Nat : m = Len(q) /\ v = kvIndex[i]
      BY <1>1, <3>1
    <3>13. \A k \in 1 .. m : q[k].kind = "command" /\ q[k].index = v + k
      BY <1>0, <3>1, <3>3 DEF Queue
    <3>4. /\ \A k \in DOMAIN batch[i] : batch[i][k] = v + m + k
          /\ lastApplied[i] = v + m + Len(batch[i])
      BY <1>0, <3>1, <3>3 DEF Queue
    <3>14. q[1].index = v + 1
      BY <3>2, <3>3, <3>13
    <3>5. applyChan'[i] = Tail(q) /\ kvIndex'[i] = v + 1
      BY <1>1, <2>2, <2>3, <3>1, <3>2, <3>14
    <3>6. PICK f : f = applyChan'[i]
      OBVIOUS
    <3>7. /\ DOMAIN f = 1 .. m - 1
          /\ \A k \in 1 .. m - 1 : f[k] = q[k + 1]
      BY <3>1, <3>2, <3>3, <3>5, <3>6
    <3>8. Len(f) = m - 1
      BY <3>1, <3>2, <3>3, <3>5, <3>6
    <3>9. \A k \in DOMAIN f : f[k].kind = "command" /\ f[k].index = (v + 1) + k
      BY <3>7, <3>13
    <3>10. v + m = (v + 1) + (m - 1)
      OBVIOUS
    <3>11. /\ \A k \in DOMAIN batch[i] : batch[i][k] = (v + 1) + (m - 1) + k
           /\ lastApplied[i] = (v + 1) + (m - 1) + Len(batch[i])
      BY <3>4, <3>10
    <3>12. /\ pushers'[i] = {} /\ lastSnapShotRaftLogIndex'[i] = 0
           /\ batch'[i] = batch[i] /\ lastApplied'[i] = lastApplied[i]
      BY <1>0, <2>2 DEF Queue
    <3> QED BY <3>5, <3>6, <3>8, <3>9, <3>11, <3>12 DEF Queue
  <2>4. CASE i # a
    BY <1>1, <1>2, <2>2, <2>4
  <2> QED BY <2>3, <2>4
<1>6. ASSUME NEW a \in Server, Crash(a)
      PROVE  Queue(i)'
  <2>0. PICK cut : Dies(a, cut)
    BY <1>6, Crashes
  <2>1. /\ lastSnapShotRaftLogIndex' = [lastSnapShotRaftLogIndex EXCEPT ![a] = 0]
        /\ kvIndex' = [kvIndex EXCEPT ![a] = cut]
        /\ lastApplied' = [lastApplied EXCEPT ![a] = cut]
        /\ batch' = [batch EXCEPT ![a] = << >>]
        /\ pushers' = [pushers EXCEPT ![a] = {}]
        /\ applyChan' = [applyChan EXCEPT ![a] = << >>]
        /\ cut \in Nat
    BY <2>0, CutIndex DEF Dies, DiesWith
  <2>2. CASE i = a
    <3>1. /\ pushers'[i] = {} /\ lastSnapShotRaftLogIndex'[i] = 0
          /\ applyChan'[i] = << >> /\ batch'[i] = << >>
          /\ lastApplied'[i] = kvIndex'[i] /\ kvIndex'[i] \in Nat
      BY <1>1, <2>1, <2>2
    <3> QED BY <3>1 DEF Queue
  <2>3. CASE i # a
    BY <1>1, <1>2, <2>1, <2>3
  <2> QED BY <2>2, <2>3
<1>7. CASE UNCHANGED <<applyChan, kv, kvIndex, lastSnapShotRaftLogIndex, batch,
                       lastApplied, pushers, snapshotIndex, snapshotFile>>
  BY <1>2, <1>7
<1> QED BY <1>3, <1>4, <1>5, <1>6, <1>7, ServerSteps

\* The command a server executes is the one that follows what its data reflects.
LEMMA NextCommand ==
    ASSUME Types, WithinLog, Queues, installs = 0, NEW i \in Server, getCommandFromRaft(i)
    PROVE  \E n \in DOMAIN committed : \E store \in Store :
             /\ n = kvIndex[i] + 1 /\ n \in Nat /\ committed[n] \in Op
             /\ store = applied(current(i), committed[n])
             /\ kv' = [kv EXCEPT ![i] = store.kv]
             /\ lastRequestIdMap' = [lastRequestIdMap EXCEPT ![i] = store.last]
             /\ kvIndex' = [kvIndex EXCEPT ![i] = n]
             /\ \/ UNCHANGED <<snapshotIndex, snapshotFile>>
                \/ /\ snapshotIndex' = [snapshotIndex EXCEPT ![i] = n]
                   /\ snapshotFile' = [snapshotFile EXCEPT ![i] = store]
             /\ Notify(i, n, committed[n])
             /\ UNCHANGED <<committed, proposed, calls, clerkVars, boundVars>>
<1>1. applyChan[i] # << >>
  BY DEF getCommandFromRaft, Received
<1>2. PICK n \in DOMAIN committed : n = Head(applyChan[i]).index
  BY <1>1, HeadOfQueue
<1>3. n \in Nat /\ committed[n] \in Op
  BY DEF Types, RaftTypes
<1>4. PICK store \in Store : store = applied(current(i), committed[n])
  BY CurrentType
<1>5. n = kvIndex[i] + 1
  <2>1. Head(applyChan[i]) = applyChan[i][1] /\ 1 \in DOMAIN applyChan[i]
    BY <1>1, HeadOfQueue
  <2>2. Queue(i)
    BY DEF Queues
  <2> QED BY <1>2, <2>1, <2>2 DEF Queue
<1>6. /\ kv' = [kv EXCEPT ![i] = store.kv]
      /\ lastRequestIdMap' = [lastRequestIdMap EXCEPT ![i] = store.last]
      /\ kvIndex' = [kvIndex EXCEPT ![i] = n]
      /\ \/ UNCHANGED <<snapshotIndex, snapshotFile>>
         \/ /\ snapshotIndex' = [snapshotIndex EXCEPT ![i] = n]
            /\ snapshotFile' = [snapshotFile EXCEPT ![i] = store]
      /\ Notify(i, n, committed[n])
      /\ UNCHANGED <<committed, proposed, calls, clerkVars, boundVars>>
  BY <1>2, <1>4 DEF getCommandFromRaft, TakeSnapshot, getSnapshotData
<1> QED BY <1>3, <1>4, <1>5, <1>6

\* A clerk's last request and its place in time change together, when the clerk
\* is idle and nothing else happens.
LEMMA FloorStep ==
    ASSUME Types, [Next]_vars
    PROVE  \/ UNCHANGED <<requestId, floor>>
           \/ \E c \in Client, kind \in {"Put", "Append", "Get"}, key \in Key :
                /\ Invoke(c, kind, key)
                /\ requestId' = [requestId EXCEPT ![c] = @ + 1]
                /\ floor' = [floor EXCEPT ![c] = done]
                /\ UNCHANGED <<raftVars, applyChan, stateVars, waitApplyCh, done, boundVars>>
<1>1. ClerkFrame
  BY MoreFrames
<1>2. CASE UNCHANGED clerkVars
  BY <1>2 DEF clerkVars
<1>3. CASE \E call \in calls : Return(call)
  BY <1>3 DEF Return
<1> QED BY <1>1, <1>2, <1>3 DEF ClerkFrame, Invoke

LEMMA LastStandsStep ==
    ASSUME Types, WithinLog, Numbered, LastStands, [Next]_vars
    PROVE  LastStands'
<1>0. RaftFrame
  BY Frames
<1> SUFFICES ASSUME NEW n \in DOMAIN committed',
                    committed'[n].id = requestId'[committed'[n].client]
             PROVE  floor'[committed'[n].client] < n
  BY DEF LastStands
<1>1. /\ committed \in Seq(Op) /\ proposed \subseteq [index : Nat, op : Op]
      /\ requestId \in [Client -> Nat] /\ floor \in [Client -> Nat]
      /\ \A c \in Client : floor[c] <= Len(committed)
  BY DEF Types, RaftTypes, ClerkTypes, WithinLog
<1>2. CASE n \in DOMAIN committed
  <2>1. PICK o : o = committed[n]
    OBVIOUS
  <2>2. o \in Ops /\ o.client \in Client /\ o.id \in Nat /\ o.id <= requestId[o.client]
    <3>1. o \in Ops
      BY <1>2, <2>1 DEF Ops
    <3>2. o.client \in Client /\ o.id \in Nat
      BY <3>1, OpsTypes
    <3>3. o.id \in 1 .. requestId[o.client]
      BY <3>1 DEF Numbered
    <3>4. requestId[o.client] \in Nat
      BY <1>1, <3>2
    <3> QED BY <3>1, <3>2, <3>3, <3>4
  <2>3. committed'[n] = o /\ o.id = requestId'[o.client]
    BY <1>0, <1>2, <2>1, LogGrows
  <2>4. o.id = requestId[o.client] => floor[o.client] < n
    BY <1>2, <2>1 DEF LastStands
  <2>5. CASE UNCHANGED <<requestId, floor>>
    BY <2>3, <2>4, <2>5
  <2>6. ASSUME NEW c \in Client, requestId' = [requestId EXCEPT ![c] = @ + 1],
               floor' = [floor EXCEPT ![c] = done]
        PROVE  floor'[o.client] < n
    <3>1. o.client # c
      BY <1>1, <2>2, <2>3, <2>6
    <3> QED BY <1>1, <2>2, <2>3, <2>4, <2>6, <3>1
  <2> QED BY <2>3, <2>5, <2>6, FloorStep
<1>3. CASE n \notin DOMAIN committed
  <2>1. PICK p \in proposed : Commit(p) /\ committed' = Append(committed, p.op)
    BY <1>0, <1>3, LogGrows
  <2>2. n = Len(committed) + 1 /\ committed'[n] \in Op
    BY <1>1, <1>3, <2>1
  <2>3. floor' = floor
    BY <2>1 DEF Commit, clerkVars
  <2>4. PICK c \in Client : c = committed'[n].client
    BY <2>2 DEF Op
  <2>5. Len(committed) \in Nat
    BY <1>1
  <2>6. floor[c] \in Nat /\ floor[c] <= Len(committed)
    BY <1>1
  <2> QED BY <2>2, <2>3, <2>4, <2>5, <2>6
<1> QED BY <1>2, <1>3

\* The data of a server only goes on, but for a crash.
LEMMA KvIndexStep ==
    ASSUME Types, WithinLog, Queues, [Next]_vars, installs' = 0, NEW i \in Server
    PROVE  kvIndex[i] <= kvIndex'[i] \/ Crash(i)
<1>1. kvIndex \in [Server -> Nat] /\ installs = 0
  BY ServerSteps DEF Types, StateTypes
<1>2. CASE UNCHANGED kvIndex
  BY <1>1, <1>2
<1>3. ASSUME NEW a \in Server, getCommandFromRaft(a)
      PROVE  kvIndex[i] <= kvIndex'[i]
  <2>1. kvIndex' = [kvIndex EXCEPT ![a] = kvIndex[a] + 1]
    BY <1>1, <1>3, NextCommand
  <2> QED BY <1>1, <2>1
<1>4. ASSUME NEW a \in Server, Crash(a)
      PROVE  kvIndex[i] <= kvIndex'[i] \/ Crash(i)
  <2>1. PICK cut : kvIndex' = [kvIndex EXCEPT ![a] = cut]
    BY <1>4, Crashes DEF Dies, DiesWith
  <2>2. CASE i # a
    BY <1>1, <2>1, <2>2
  <2> QED BY <1>4, <2>2
<1> QED BY <1>2, <1>3, <1>4, ServerSteps DEF getApplyLogs, applierPush, stateVars

\* Executing the command that follows keeps a table recent.
LEMMA RecentApplied ==
    ASSUME Types, LastStands, NEW store \in Store, NEW n \in DOMAIN committed,
           n \in Nat, committed[n] \in Op, NEW m \in Nat, m <= n, Recent(store.last, m)
    PROVE  Recent(applied(store, committed[n]).last, n)
<1>1. /\ floor \in [Client -> Nat] /\ store.last \in [Client -> Nat]
      /\ committed[n].client \in Client /\ committed[n].id \in Nat
  BY DEF Types, ClerkTypes, Store, Op
<1>2. PICK last : last = applied(store, committed[n]).last
  OBVIOUS
<1>3. \/ last = store.last
      \/ last = [store.last EXCEPT ![committed[n].client] = committed[n].id]
  <2>1. PICK op : op = committed[n]
    OBVIOUS
  <2>2. \/ applied(store, op).last = store.last
        \/ applied(store, op).last = [store.last EXCEPT ![op.client] = op.id]
    BY DEF applied
  <2> QED BY <1>2, <2>1, <2>2
<1>4. ASSUME NEW c \in Client, last[c] = requestId[c]
      PROVE  floor[c] <= n
  <2>1. CASE last[c] = store.last[c]
    <3>1. store.last[c] = requestId[c]
      BY <1>4, <2>1
    <3>2. floor[c] <= m
      BY <3>1 DEF Recent
    <3>3. floor[c] \in Nat
      BY <1>1
    <3> QED BY <3>2, <3>3
  <2>2. CASE last[c] # store.last[c]
    <3>1. c = committed[n].client /\ last[c] = committed[n].id
      <4>1. PICK old \in [Client -> Nat], d \in Client, id \in Nat :
              old = store.last /\ d = committed[n].client /\ id = committed[n].id
        BY <1>1
      <4>2. last = [old EXCEPT ![d] = id] /\ last[c] # old[c]
        BY <1>3, <2>2, <4>1
      <4> QED BY <4>1, <4>2
    <3>2. floor[c] < n
      BY <1>4, <3>1 DEF LastStands
    <3> QED BY <1>1, <3>2
  <2> QED BY <2>1, <2>2
<1> QED BY <1>2, <1>4 DEF Recent

\* Before a snapshot is installed, three steps touch the tables of a server.
LEMMA TableSteps ==
    ASSUME Types, WithinLog, Queues, [Next]_vars, installs' = 0
    PROVE  \/ UNCHANGED <<lastRequestIdMap, kv, kvIndex, snapshotFile, snapshotIndex>>
           \/ \E call \in calls : ExecGet(call)
           \/ \E a \in Server : getCommandFromRaft(a) \/ Crash(a)
<1>0. installs = 0 /\ StateFrame
  BY ServerSteps, Frames
<1>1. \/ UNCHANGED lastRequestIdMap
      \/ \E call \in calls : ExecGet(call)
      \/ \E a \in Server : getCommandFromRaft(a) \/ Crash(a)
  <2>1. ~\E a \in Server : getSnapshotFromRaft(a)
    <3> SUFFICES ASSUME NEW a \in Server, getSnapshotFromRaft(a) PROVE FALSE
      OBVIOUS
    <3>1. applyChan[a] # << >> /\ Head(applyChan[a]).kind = "snapshot"
      BY DEF getSnapshotFromRaft, Received
    <3>2. Head(applyChan[a]) = applyChan[a][1] /\ 1 \in DOMAIN applyChan[a]
      BY <3>1, HeadOfQueue
    <3> QED BY <1>0, <3>1, <3>2 DEF Queues, Queue
  <2> QED BY <1>0, <2>1 DEF StateFrame, stateVars, applierPush, pushMsgToKvServer,
                            getCommandCovered
<1>2. \/ UNCHANGED <<kv, kvIndex, snapshotFile, snapshotIndex>>
      \/ \E a \in Server : getCommandFromRaft(a) \/ Crash(a)
  BY ServerSteps DEF getApplyLogs, applierPush, stateVars
<1> QED BY <1>1, <1>2

\* What the tables know is as recent as the data they come with.
LEMMA TablesRecentStep ==
    ASSUME Types, WithinLog, Waiting, Numbered, Tables, Queues, LastStands, Reads,
           [Next]_vars, installs' = 0
    PROVE  TablesRecent'
<1>0. /\ installs = 0 /\ TablesRecent /\ ReadsRecent
      /\ RaftFrame /\ StateFrame
  BY ServerSteps, Frames DEF Reads
<1>1. /\ lastRequestIdMap \in [Server -> [Client -> Nat]] /\ kvIndex \in [Server -> Nat]
      /\ snapshotFile \in [Server -> Snapshot] /\ snapshotIndex \in [Server -> Nat]
      /\ requestId \in [Client -> Nat] /\ floor \in [Client -> Nat]
  BY DEF Types, StateTypes, RaftTypes, ClerkTypes
<1>2. ASSUME NEW c \in Client, requestId' = [requestId EXCEPT ![c] = @ + 1],
             floor' = [floor EXCEPT ![c] = done],
             UNCHANGED <<lastRequestIdMap, kvIndex, snapshotFile, snapshotIndex>>
      PROVE  TablesRecent'
  <2>1. ASSUME NEW last \in [Client -> Nat], Honest(last), NEW n, Recent(last, n),
               NEW d \in Client, last[d] = requestId'[d]
        PROVE  floor'[d] <= n
    <3>1. last[d] <= requestId[d] /\ requestId[d] \in Nat /\ last[d] \in Nat
      BY <1>1, <2>1 DEF Honest
    <3>2. d # c
      BY <1>1, <1>2, <2>1, <3>1
    <3>3. requestId'[d] = requestId[d] /\ floor'[d] = floor[d]
      BY <1>1, <1>2, <3>2
    <3> QED BY <2>1, <3>3 DEF Recent
  <2>2. ASSUME NEW i \in Server
        PROVE  /\ \A d \in Client : lastRequestIdMap[i][d] = requestId'[d]
                                      => floor'[d] <= kvIndex[i]
               /\ \A d \in Client : restored(snapshotFile[i]).last[d] = requestId'[d]
                                      => floor'[d] <= snapshotIndex[i]
    <3>1. /\ lastRequestIdMap[i] \in [Client -> Nat]
          /\ restored(snapshotFile[i]).last \in [Client -> Nat]
          /\ Honest(lastRequestIdMap[i]) /\ Honest(restored(snapshotFile[i]).last)
          /\ Recent(lastRequestIdMap[i], kvIndex[i])
          /\ Recent(restored(snapshotFile[i]).last, snapshotIndex[i])
      BY <1>0, <1>1, RestoredLast DEF Tables, TablesRecent
    <3> QED BY <2>1, <3>1
  <2> QED BY <1>2, <2>2 DEF TablesRecent, Recent
<1>3. ASSUME UNCHANGED <<requestId, floor>>,
             \A i \in Server : /\ Recent(lastRequestIdMap'[i], kvIndex'[i])
                               /\ Recent(restored(snapshotFile'[i]).last, snapshotIndex'[i])
      PROVE  TablesRecent'
  BY <1>3 DEF TablesRecent, Recent
<1>4. ASSUME UNCHANGED <<requestId, floor>>,
             UNCHANGED <<lastRequestIdMap, kvIndex, snapshotFile, snapshotIndex>>
      PROVE  TablesRecent'
  BY <1>0, <1>4 DEF TablesRecent, Recent
<1>5. ASSUME NEW call \in calls, ExecGet(call)
      PROVE  TablesRecent'
  <2>1. call.server \in Server /\ call.op.client \in Client /\ call.op.id \in Nat
    BY DEF Types, CallTypes, Call, Op
  <2>2. /\ lastRequestIdMap' = [lastRequestIdMap EXCEPT
                                  ![call.server][call.op.client] = call.op.id]
        /\ UNCHANGED <<kvIndex, snapshotFile, snapshotIndex, requestId, floor>>
        /\ call.phase = "reading"
    BY <1>5 DEF ExecGet, raftVars, clerkVars
  <2>3. ASSUME NEW i \in Server, NEW c \in Client, lastRequestIdMap'[i][c] = requestId[c]
        PROVE  floor[c] <= kvIndex[i]
    <3>1. CASE i = call.server /\ c = call.op.client
      <4>1. call.op.id = requestId[c]
        BY <1>1, <2>1, <2>2, <2>3, <3>1
      <4> QED BY <1>0, <2>2, <3>1, <4>1 DEF ReadsRecent
    <3>2. CASE ~(i = call.server /\ c = call.op.client)
      <4>1. lastRequestIdMap[i][c] = requestId[c]
        BY <1>1, <2>1, <2>2, <2>3, <3>2
      <4> QED BY <1>0, <4>1 DEF TablesRecent, Recent
    <3> QED BY <3>1, <3>2
  <2>4. \A i \in Server : Recent(lastRequestIdMap'[i], kvIndex'[i])
    BY <2>2, <2>3 DEF Recent
  <2>5. \A i \in Server : Recent(restored(snapshotFile'[i]).last, snapshotIndex'[i])
    BY <1>0, <2>2 DEF TablesRecent
  <2> QED BY <1>3, <2>2, <2>4, <2>5
<1>6. ASSUME NEW a \in Server, getCommandFromRaft(a)
      PROVE  TablesRecent'
  <2>1. PICK n \in DOMAIN committed, store \in Store :
             /\ n = kvIndex[a] + 1 /\ n \in Nat /\ committed[n] \in Op
             /\ store = applied(current(a), committed[n])
             /\ lastRequestIdMap' = [lastRequestIdMap EXCEPT ![a] = store.last]
             /\ kvIndex' = [kvIndex EXCEPT ![a] = n]
             /\ \/ UNCHANGED <<snapshotIndex, snapshotFile>>
                \/ /\ snapshotIndex' = [snapshotIndex EXCEPT ![a] = n]
                   /\ snapshotFile' = [snapshotFile EXCEPT ![a] = store]
             /\ UNCHANGED clerkVars
    BY <1>0, <1>6, NextCommand
  <2>2. current(a) \in Store /\ current(a).last = lastRequestIdMap[a]
    BY CurrentType DEF current
  <2>3. Recent(current(a).last, kvIndex[a]) /\ kvIndex[a] \in Nat /\ kvIndex[a] <= n
    BY <1>0, <1>1, <2>1, <2>2 DEF TablesRecent
  <2>4. Recent(store.last, n)
    BY <2>1, <2>2, <2>3, RecentApplied
  <2>5. ASSUME NEW i \in Server
        PROVE  /\ Recent(lastRequestIdMap'[i], kvIndex'[i])
               /\ Recent(restored(snapshotFile'[i]).last, snapshotIndex'[i])
    <3>1. \/ lastRequestIdMap'[i] = store.last /\ kvIndex'[i] = n
          \/ lastRequestIdMap'[i] = lastRequestIdMap[i] /\ kvIndex'[i] = kvIndex[i]
      BY <1>1, <2>1
    <3>2. \/ snapshotFile'[i] = store /\ snapshotIndex'[i] = n
          \/ snapshotFile'[i] = snapshotFile[i] /\ snapshotIndex'[i] = snapshotIndex[i]
      BY <1>1, <2>1
    <3>3. restored(store) = store
      BY NoSnapshotAssumption DEF restored
    <3> QED BY <1>0, <2>4, <3>1, <3>2, <3>3 DEF TablesRecent
  <2> QED BY <1>3, <2>1, <2>5 DEF clerkVars
<1>7. ASSUME NEW a \in Server, Crash(a)
      PROVE  TablesRecent'
  <2> DEFINE last == restored(snapshotFile[a]).last
  <2>0. PICK cut : Dies(a, cut)
    BY <1>7, Crashes
  <2>1. /\ lastRequestIdMap' = [lastRequestIdMap EXCEPT ![a] = last]
        /\ kvIndex' = [kvIndex EXCEPT ![a] = cut]
        /\ snapshotIndex' = [snapshotIndex EXCEPT ![a] = cut]
        /\ UNCHANGED <<snapshotFile, requestId, floor>>
    BY <2>0 DEF Dies, DiesWith, clerkVars
  <2>2. Recent(last, cut)
    <3>1. Recent(last, snapshotIndex[a])
      BY <1>0 DEF TablesRecent
    <3>2. cut \in Nat /\ snapshotIndex[a] <= cut /\ snapshotIndex[a] \in Nat
      BY <1>1, <2>0, CutIndex
    <3> HIDE DEF last
    <3> QED BY <1>1, <3>1, <3>2 DEF Recent
  <2> HIDE DEF last
  <2>3. ASSUME NEW i \in Server
        PROVE  /\ Recent(lastRequestIdMap'[i], kvIndex'[i])
               /\ Recent(restored(snapshotFile'[i]).last, snapshotIndex'[i])
    <3>1. CASE i = a
      <4>1. lastRequestIdMap'[i] = last /\ kvIndex'[i] = cut /\ snapshotIndex'[i] = cut
        BY <1>1, <2>1, <3>1
      <4>2. restored(snapshotFile'[i]).last = last
        BY <2>1, <3>1 DEF last
      <4> QED BY <2>2, <4>1, <4>2
    <3>2. CASE i # a
      <4>1. /\ lastRequestIdMap'[i] = lastRequestIdMap[i] /\ kvIndex'[i] = kvIndex[i]
            /\ snapshotIndex'[i] = snapshotIndex[i] /\ snapshotFile'[i] = snapshotFile[i]
        BY <1>1, <2>1, <3>2
      <4> QED BY <1>0, <4>1 DEF TablesRecent
    <3> QED BY <3>1, <3>2
  <2> QED BY <1>3, <2>1, <2>3
<1>8. CASE UNCHANGED <<lastRequestIdMap, kvIndex, snapshotFile, snapshotIndex>>
  BY <1>2, <1>4, <1>8, FloorStep
<1> QED BY <1>5, <1>6, <1>7, <1>8, TableSteps

\* A channel holds what the server has been through.
LEMMA ToldAppliedStep ==
    ASSUME Types, WithinLog, Queues, Reads, [Next]_vars, installs' = 0
    PROVE  ToldApplied'
<1>0. installs = 0 /\ ToldApplied /\ ChannelFrame /\ Types'
  BY ServerSteps, Frames, TypesStep DEF Reads
<1>1. kvIndex \in [Server -> Nat] /\ kvIndex' \in [Server -> Nat]
  BY <1>0 DEF Types, StateTypes
<1> SUFFICES ASSUME NEW i \in Server, NEW n \in DOMAIN waitApplyCh'[i],
                    waitApplyCh'[i][n] # << >>
             PROVE  n <= kvIndex'[i]
  BY DEF ToldApplied, Registered
<1>2. n \in Nat
  BY <1>0 DEF Types, ChannelTypes, Registered
<1>3. ASSUME n \in DOMAIN waitApplyCh[i], waitApplyCh'[i][n] = waitApplyCh[i][n], ~Crash(i)
      PROVE  n <= kvIndex'[i]
  <2>1. n <= kvIndex[i]
    BY <1>0, <1>3 DEF ToldApplied, Registered
  <2>2. kvIndex[i] <= kvIndex'[i]
    BY <1>3, KvIndexStep
  <2> QED BY <1>1, <1>2, <2>1, <2>2
<1>4. ~Crash(i)
  <2> SUFFICES ASSUME Crash(i) PROVE FALSE
    OBVIOUS
  <2>1. waitApplyCh' = [waitApplyCh EXCEPT ![i] = << >>]
    BY Crashes DEF Dies, DiesWith
  <2>2. waitApplyCh'[i] = << >>
    BY <2>1, Emptied
  <2> QED BY <2>2
<1>5. CASE UNCHANGED waitApplyCh
  BY <1>3, <1>4, <1>5
<1>6. ASSUME NEW call \in calls, RegisterChannel(call)
      PROVE  n \in DOMAIN waitApplyCh[i] /\ waitApplyCh'[i][n] = waitApplyCh[i][n]
  <2>1. CASE i = call.server
    <3>1. waitApplyCh'[i] =
                [m \in Registered(i) \cup {call.index} |->
                   IF m \in Registered(i) THEN waitApplyCh[i][m] ELSE << >>]
      BY <1>6, <2>1, RegisteredChannel
    <3>2. n \in Registered(i)
      BY <3>1
    <3> QED BY <3>1, <3>2 DEF Registered
  <2>2. CASE i # call.server
    BY <1>6, <2>2, RegisteredChannel
  <2> QED BY <2>1, <2>2
<1>7. ASSUME NEW call \in calls, DropChannel(call)
      PROVE  n \in DOMAIN waitApplyCh[i] /\ waitApplyCh'[i][n] = waitApplyCh[i][n]
  <2>1. CASE i = call.server
    <3>1. waitApplyCh'[i] = [m \in Registered(i) \ {call.index} |-> waitApplyCh[i][m]]
      <4>1. waitApplyCh'[call.server] =
              [m \in Registered(call.server) \ {call.index} |-> waitApplyCh[call.server][m]]
        BY <1>7, Dropped
      <4> QED BY <2>1, <4>1
    <3>2. n \in Registered(i) \ {call.index}
      BY <3>1
    <3> QED BY <3>1, <3>2 DEF Registered
  <2>2. CASE i # call.server
    BY <1>7, <2>2, Dropped
  <2> QED BY <2>1, <2>2
<1>8. ASSUME NEW a \in Server, getCommandFromRaft(a)
      PROVE  n <= kvIndex'[i]
  <2>1. PICK m \in DOMAIN committed, store \in Store :
          /\ m = kvIndex[a] + 1 /\ m \in Nat /\ committed[m] \in Op
          /\ kvIndex' = [kvIndex EXCEPT ![a] = m]
          /\ Notify(a, m, committed[m])
    BY <1>0, <1>8, NextCommand
  <2>2. /\ waitApplyCh'[a] =
              [x \in Registered(a) |-> IF x = m THEN Append(waitApplyCh[a][x], committed[m])
                                               ELSE waitApplyCh[a][x]]
        /\ \A j \in Server \ {a} : waitApplyCh'[j] = waitApplyCh[j]
    BY <2>1, Notified
  <2>3. CASE i = a /\ n = m
    BY <1>1, <2>1, <2>3
  <2>4. CASE ~(i = a /\ n = m)
    <3>1. n \in DOMAIN waitApplyCh[i] /\ waitApplyCh'[i][n] = waitApplyCh[i][n]
      BY <2>2, <2>4 DEF Registered
    <3> QED BY <1>3, <1>4, <3>1
  <2> QED BY <2>3, <2>4
<1>9. ASSUME NEW a \in Server, Crash(a)
      PROVE  n \in DOMAIN waitApplyCh[i] /\ waitApplyCh'[i][n] = waitApplyCh[i][n]
  <2>1. waitApplyCh' = [waitApplyCh EXCEPT ![a] = << >>]
    BY <1>9, Crashes DEF Dies, DiesWith
  <2>2. \A j \in Server \ {a} : waitApplyCh'[j] = waitApplyCh[j]
    BY <2>1, Emptied
  <2> QED BY <1>4, <1>9, <2>2
<1> QED BY <1>0, <1>3, <1>4, <1>5, <1>6, <1>7, <1>8, <1>9 DEF ChannelFrame

\* What a handler of a last request was told, and what the table knows, is after
\* all that the client has seen.
LEMMA ProceedsRecent ==
    ASSUME Types, WithinLog, Waiting, Numbered, Tables, LastStands, Reads, installs = 0,
           NEW call \in calls, NEW next, Proceeds(call, next),
           call.op.id = requestId[call.op.client]
    PROVE  floor[call.op.client] <= kvIndex[call.server]
<1>0. TablesRecent /\ ToldApplied
  BY DEF Reads
<1>1. /\ call.server \in Server /\ call.op \in Op /\ call.op \in Ops
      /\ call.op.client \in Client /\ call.op.id \in Nat
      /\ call.index \in Registered(call.server)
  BY DEF Types, CallTypes, Call, Ops, Op, Proceeds, Waiting
<1>2. /\ floor[call.op.client] \in Nat /\ requestId[call.op.client] \in Nat
      /\ kvIndex[call.server] \in Nat
      /\ lastRequestIdMap[call.server] \in [Client -> Nat]
      /\ call.index \in Nat
  BY <1>1 DEF Types, ClerkTypes, StateTypes, ChannelTypes
<1>3. CASE Channel(call) # << >> /\ IsOwn(call.op, Head(Channel(call)))
  <2>1. PICK ch \in Seq(Op) : ch = waitApplyCh[call.server][call.index]
    BY <1>1 DEF Types, ChannelTypes
  <2>2. ch # << >> /\ IsOwn(call.op, Head(ch))
    BY <1>3, <2>1 DEF Channel
  <2>3. 1 \in DOMAIN ch /\ Head(ch) = ch[1]
    BY <2>2
  <2>4. call.index \in DOMAIN committed /\ ch[1] = committed[call.index]
    BY <1>1, <2>1, <2>3 DEF WithinLog
  <2>5. committed[call.index] \in Ops
    BY <2>4 DEF Ops
  <2>6. committed[call.index] = call.op
    BY <1>1, <2>2, <2>3, <2>4, <2>5 DEF IsOwn, Numbered
  <2>7. floor[call.op.client] < call.index
    BY <2>4, <2>6 DEF LastStands
  <2>8. call.index <= kvIndex[call.server]
    BY <1>0, <1>1, <2>1, <2>2 DEF ToldApplied
  <2> QED BY <1>2, <2>7, <2>8
<1>4. CASE Known(call)
  <2>1. call.op.id <= lastRequestIdMap[call.server][call.op.client]
    BY <1>4 DEF Known, isRequestDuplicate
  <2>2. lastRequestIdMap[call.server][call.op.client] <= requestId[call.op.client]
    BY <1>1 DEF Tables, Honest
  <2>3. lastRequestIdMap[call.server][call.op.client] = requestId[call.op.client]
    BY <1>1, <1>2, <2>1, <2>2
  <2> QED BY <1>0, <1>1, <2>3 DEF TablesRecent, Recent
<1> QED BY <1>3, <1>4 DEF Proceeds

\* A handler that is about to read for a last request reads what is recent.
LEMMA ReadsRecentStep ==
    ASSUME Types, WithinLog, Waiting, Numbered, Tables, Queues, LastStands, Reads,
           [Next]_vars, installs' = 0
    PROVE  ReadsRecent'
<1>0. installs = 0 /\ ReadsRecent /\ CallFrame /\ Types'
  BY ServerSteps, Frames, TypesStep DEF Reads
<1> SUFFICES ASSUME NEW d \in calls', d.phase = "reading",
                    d.op.id = requestId'[d.op.client]
             PROVE  floor'[d.op.client] <= kvIndex'[d.server]
  BY DEF ReadsRecent
<1> DEFINE Goal == floor'[d.op.client] <= kvIndex'[d.server]
<1>1. d.server \in Server /\ d.op.client \in Client
  BY <1>0 DEF Types, CallTypes, Call, Op
<1>2. /\ kvIndex[d.server] \in Nat /\ kvIndex'[d.server] \in Nat
      /\ floor[d.op.client] \in Nat
      /\ requestId \in [Client -> Nat]
  BY <1>0, <1>1 DEF Types, StateTypes, ClerkTypes
\* The clerk has not gone on to a new request, with which nobody reads yet.
<1>3. ASSUME NEW c \in calls, c.op = d.op
      PROVE  UNCHANGED <<requestId, floor>>
             \/ (requestId'[d.op.client] = requestId[d.op.client]
                 /\ floor'[d.op.client] = floor[d.op.client])
  <2>1. d.op \in Ops /\ d.op.id \in 1 .. requestId[d.op.client]
    BY <1>3 DEF Ops, Numbered
  <2>2. requestId[d.op.client] \in Nat
    BY <1>1, <1>2
  <2>3. ASSUME NEW x \in Client, requestId' = [requestId EXCEPT ![x] = @ + 1],
               floor' = [floor EXCEPT ![x] = done]
        PROVE  /\ requestId'[d.op.client] = requestId[d.op.client]
               /\ floor'[d.op.client] = floor[d.op.client]
    <3>1. floor \in [Client -> Nat]
      BY DEF Types, ClerkTypes
    <3>2. CASE x = d.op.client
      <4>1. requestId'[d.op.client] = requestId[d.op.client] + 1
        BY <1>2, <2>3, <3>2
      <4> QED BY <2>1, <2>2, <4>1
    <3>3. CASE x # d.op.client
      BY <1>1, <1>2, <2>3, <3>1, <3>3
    <3> QED BY <3>2, <3>3
  <2> QED BY <2>3, FloorStep
<1>4. ASSUME NEW c \in calls, c.op = d.op, c.server = d.server, c.phase = "reading",
             kvIndex[d.server] <= kvIndex'[d.server]
      PROVE  Goal
  <2>1. /\ requestId'[d.op.client] = requestId[d.op.client]
        /\ floor'[d.op.client] = floor[d.op.client]
    BY <1>3, <1>4
  <2>2. floor[d.op.client] <= kvIndex[d.server]
    BY <1>0, <1>4, <2>1 DEF ReadsRecent
  <2> QED BY <1>2, <1>4, <2>1, <2>2
<1> HIDE DEF Goal
<1>5. ASSUME d \in calls, ~Crash(d.server)
      PROVE  Goal
  BY <1>1, <1>4, <1>5, KvIndexStep
<1>6. ASSUME UNCHANGED calls
      PROVE  Goal
  <2>1. d \in calls
    BY <1>6
  <2>2. ~Crash(d.server)
    <3> SUFFICES ASSUME Crash(d.server) PROVE FALSE
      OBVIOUS
    <3>1. d.server # d.server \/ d.phase = "reply"
          \/ \E c \in calls : d.phase = "reply"
      BY <1>1, Crashed
    <3> QED BY <3>1
  <2> QED BY <1>5, <2>1, <2>2
<1>7. ASSUME NEW c, NEW kind, NEW key, Invoke(c, kind, key)
      PROVE  Goal
  <2>1. PICK o, j : calls' = calls \cup {request(o, j)}
    BY <1>7 DEF Invoke
  <2>2. request(o, j).phase = "sent"
    BY Zenon DEF request
  <2>3. d \in calls
    BY <2>1, <2>2
  <2>4. UNCHANGED kvIndex
    BY <1>7 DEF Invoke, stateVars
  <2>5. kvIndex[d.server] <= kvIndex'[d.server]
    BY <1>2, <2>4
  <2> QED BY <1>4, <2>3, <2>5
<1>8. ASSUME NEW c \in calls, Return(c)
      PROVE  Goal
  <2>1. calls' = calls \ {c} /\ UNCHANGED kvIndex
    BY <1>8 DEF Return, stateVars
  <2>2. kvIndex[d.server] <= kvIndex'[d.server]
    BY <1>2, <2>1
  <2> QED BY <1>4, <2>1, <2>2
<1>9. ASSUME NEW c \in calls, Retry(c) \/ RetryClosed(c) \/ RpcFails(c)
      PROVE  Goal
  <2>1. PICK next : Resends(c, next)
    BY <1>9, Resending
  <2>2. d \in calls \/ (d.op = c.op /\ d.server = c.server /\ c.phase = "reading")
    BY <2>1 DEF Resends
  <2>3. UNCHANGED kvIndex
    BY <2>1 DEF Resends, stateVars
  <2>4. kvIndex[d.server] <= kvIndex'[d.server]
    BY <1>2, <2>3
  <2> QED BY <1>4, <2>2, <2>4
<1>10. ASSUME HandlerNext
       PROVE  Goal
  <2>1. PICK c \in calls : \E n : Handled(c, n) /\ Outcome(c, n)
    BY <1>10, Outcomes
  <2>2. PICK next : Handled(c, next) /\ Outcome(c, next)
    BY <2>1
  <2>3. (d \in calls \/ d = next) /\ next.op = c.op /\ next.server = c.server
    BY <2>2 DEF Handled, Becomes
  <2>4. UNCHANGED kvIndex
    BY <1>10 DEF HandlerNext, StartRefused, StartAccepted, RegisterChannel,
                 NotifiedOther, NotifiedWrite, NotifiedGet, TimedOutWrite,
                 TimedOutGetKnown, TimedOutGet, TimesOut, ExecGet, stateVars
  <2>5. kvIndex[d.server] <= kvIndex'[d.server]
    BY <1>2, <2>4
  <2>6. CASE d = next
    <3>1. Proceeds(c, next)
      BY <2>2, <2>6 DEF Outcome, Refuses, Starts, Registers, Acknowledges, ReadsAndAnswers
    <3>2. /\ requestId'[d.op.client] = requestId[d.op.client]
          /\ floor'[d.op.client] = floor[d.op.client]
      BY <1>3, <2>3, <2>6
    <3>3. floor[c.op.client] <= kvIndex[c.server]
      BY <1>0, <2>3, <2>6, <3>1, <3>2, ProceedsRecent
    <3> QED BY <2>3, <2>4, <2>6, <3>2, <3>3 DEF Goal
  <2> QED BY <1>4, <2>3, <2>5, <2>6
<1>11. ASSUME NEW a \in Server, Crash(a)
       PROVE  Goal
  <2>1. d \in calls /\ d.server # a
    BY <1>11, Crashed
  <2>2. PICK cut : kvIndex' = [kvIndex EXCEPT ![a] = cut] /\ kvIndex \in [Server -> Nat]
    BY <1>11, Crashes DEF Dies, DiesWith, Types, StateTypes
  <2>3. kvIndex'[d.server] = kvIndex[d.server]
    BY <1>1, <2>1, <2>2
  <2>4. kvIndex[d.server] <= kvIndex'[d.server]
    BY <1>2, <2>3
  <2> QED BY <1>4, <2>1, <2>4
<1>12. Goal
  BY <1>0, <1>6, <1>7, <1>8, <1>9, <1>10, <1>11 DEF CallFrame, ClerkNext
<1> QED BY <1>12 DEF Goal

\* A Get is answered with what its client has seen and more: the answer of a live
\* handler reflects the data it read, and a client that waits sees nothing else.
LEMMA ReadsCurrentStep ==
    ASSUME Types, WithinLog, Numbered, Queues, Reads, ReadsCurrent, [Next]_vars
    PROVE  ReadsCurrent'
<1> SUFFICES ASSUME installs' = 0, NEW d \in calls', d.live, d.phase = "reply",
                    d.op.op = "Get", d.err \in {"OK", "ErrNoKey"}, d.server \notin torn'
             PROVE  floor'[d.op.client] <= d.upto
  <2>1. \A d \in calls' : d.upto \in Nat /\ floor'[d.op.client] \in Nat
    <3>1. Types'
      BY TypesStep
    <3> QED BY <3>1 DEF Types, CallTypes, Call, Op, ClerkTypes
  <2> QED BY <2>1 DEF ReadsCurrent, Answer
<1>0. installs = 0 /\ ReadsRecent /\ CallFrame /\ Types'
  BY ServerSteps, Frames, TypesStep DEF Reads
<1> DEFINE Goal == floor'[d.op.client] <= d.upto
<1>1. d.server \in Server /\ d.op.client \in Client /\ d.upto \in Nat
      /\ d.server \notin torn
  BY <1>0, MoreFrames DEF Types, CallTypes, Call, Op, BoundFrame
<1>2. floor \in [Client -> Nat] /\ requestId \in [Client -> Nat]
  BY DEF Types, ClerkTypes
\* The clerk of a live call does not go on to a new request.
<1>3. ASSUME NEW c \in calls, c.live, c.op = d.op
      PROVE  floor'[d.op.client] = floor[d.op.client]
  <2>1. ASSUME NEW x \in Client, NEW kind, NEW key, Invoke(x, kind, key),
               floor' = [floor EXCEPT ![x] = done]
        PROVE  floor'[d.op.client] = floor[d.op.client]
    <3>1. x # d.op.client
      BY <1>3, <2>1 DEF Invoke, Idle
    <3> QED BY <1>1, <1>2, <2>1, <3>1
  <2> QED BY <2>1, FloorStep
<1>4. ASSUME d \in calls
      PROVE  Goal
  <2>1. d.upto >= floor[d.op.client]
    BY <1>0, <1>1, <1>4 DEF ReadsCurrent, Answer
  <2>2. floor[d.op.client] \in Nat /\ floor'[d.op.client] = floor[d.op.client]
    BY <1>1, <1>2, <1>3, <1>4
  <2> QED BY <1>1, <2>1, <2>2
<1> HIDE DEF Goal
<1>5. ASSUME NEW c, NEW kind, NEW key, Invoke(c, kind, key)
      PROVE  d \in calls
  <2>1. PICK o, j : calls' = calls \cup {request(o, j)}
    BY <1>5 DEF Invoke
  <2>2. request(o, j).phase = "sent"
    BY Zenon DEF request
  <2> QED BY <2>1, <2>2
<1>6. ASSUME NEW c \in calls, Return(c)
      PROVE  d \in calls
  <2>1. calls' = calls \ {c}
    BY <1>6 DEF Return
  <2> QED BY <2>1
<1>7. ASSUME NEW c \in calls, Retry(c) \/ RetryClosed(c) \/ RpcFails(c)
      PROVE  d \in calls
  <2>1. PICK next : Resends(c, next)
    BY <1>7, Resending
  <2> QED BY <2>1 DEF Resends
<1>8. ASSUME HandlerNext
      PROVE  Goal
  <2>1. PICK c \in calls : \E n : Handled(c, n) /\ Outcome(c, n)
    BY <1>8, Outcomes
  <2>2. PICK next : Handled(c, next) /\ Outcome(c, next)
    BY <2>1
  <2>3. /\ d \in calls \/ d = next
        /\ next.op = c.op /\ next.server = c.server /\ (next.live => c.live)
    BY <2>2 DEF Handled, Becomes
  <2>4. CASE d = next
    <3>1. ReadsAndAnswers(c, next)
      BY <2>2, <2>3, <2>4
         DEF Outcome, Refuses, Starts, Registers, Proceeds, Acknowledges, Write
    <3>2. c.live /\ c.op = d.op /\ c.server = d.server
      BY <2>3, <2>4
    <3>3. d.upto = kvIndex[d.server] /\ c.phase = "reading"
      BY <2>4, <3>1, <3>2 DEF ReadsAndAnswers
    <3>4. c.op.id = requestId[c.op.client]
      BY <3>2 DEF Numbered
    <3>5. floor[d.op.client] <= d.upto
      BY <1>0, <3>2, <3>3, <3>4 DEF ReadsRecent
    <3> QED BY <1>3, <3>2, <3>5 DEF Goal
  <2> QED BY <1>4, <2>3, <2>4
<1>9. ASSUME NEW a \in Server, Crash(a)
      PROVE  d \in calls
  BY <1>9, Crashed
<1>10. Goal
  <2>1. CASE UNCHANGED calls
    BY <1>4, <2>1
  <2> QED BY <1>0, <1>4, <1>5, <1>6, <1>7, <1>8, <1>9, <2>1 DEF CallFrame, ClerkNext
<1> QED BY <1>10 DEF Goal

\* Without a snapshot installed, a Get never shows less than its client saw.
ReadInv == ServerInv /\ Queues /\ LastStands /\ Reads /\ ReadsCurrent

LEMMA ReadInvariant == Spec => []ReadInv
<1>1. Init => ReadInv
  <2> SUFFICES ASSUME Init PROVE ReadInv
    OBVIOUS
  <2>1. ServerInv
    BY InitTypes, InitWithinLog, InitWaiting, InitNumbered, InitTables DEF ServerInv
  <2>2. LastStands /\ ReadsCurrent
    BY DEF Init, LastStands, ReadsCurrent
  <2>3. Reads
    BY DEF Init, Reads, TablesRecent, ToldApplied, ReadsRecent, Recent, Registered,
           EmptyStore
  <2> QED BY <2>1, <2>2, <2>3, InitQueues DEF ReadInv
<1>2. ReadInv /\ [Next]_vars => ReadInv'
  <2> SUFFICES ASSUME ReadInv, [Next]_vars
               PROVE  ReadInv'
    OBVIOUS
  <2> USE DEF ReadInv, ServerInv
  <2>1. ServerInv'
    BY TypesStep, WithinLogStep, WaitingStep, NumberedStep, TablesStep
  <2>2. Queues' /\ LastStands'
    BY QueuesStep, LastStandsStep
  <2>3. Reads'
    BY TablesRecentStep, ToldAppliedStep, ReadsRecentStep DEF Reads
  <2>4. ReadsCurrent'
    BY ReadsCurrentStep
  <2> QED BY <2>1, <2>2, <2>3, <2>4
<1> QED BY <1>1, <1>2, PTL DEF Spec

\* A Get shows no state older than what had returned to any client before it was
\* invoked, on the notified path and on the read after a timeout
\* (KvServer.cpp:178-190), through retries, clerks that gave up and crashes.
\* Not spoken for are the Gets of a server that has died between the two files
\* of Persister::Save (Persisiter.cpp:27-28), and those of any server once a
\* snapshot has been installed.
THEOREM ReadsAreCurrent == Spec => []ReadsCurrent
<1>1. ReadInv => ReadsCurrent
  BY DEF ReadInv
<1> QED BY <1>1, ReadInvariant, PTL

-----------------------------------------------------------------------------
(* The replay of the log *)

\* What the command at n makes of the data, each request once.
Execute(n, data) ==
    IF committed[n].op = "Get" \/ ~First(n) THEN data
    ELSE [data EXCEPT ![committed[n].key] = written(committed[n], @)]

\* Replay is the function its definition says: it exists, since the replay of n
\* commands does for every n, and the replays of two lengths agree.
LEMMA ReplayUnfolds ==
    /\ Replay[0] = EmptyStore.kv
    /\ \A n \in Nat \ {0} : Replay[n] = Execute(n, Replay[n - 1])
<1> DEFINE Good(f, n) == /\ f = [m \in 0 .. n |-> f[m]]
                         /\ f[0] = EmptyStore.kv
                         /\ \A m \in 1 .. n : f[m] = Execute(m, f[m - 1])
<1>1. ASSUME NEW n \in Nat
      PROVE  \E f : Good(f, n)
  <2> DEFINE S == {m \in Nat : ~\E f : Good(f, m)}
  <2> HIDE DEF Good
  <2>1. ASSUME NEW m \in S, \A k \in S : m <= k
        PROVE  FALSE
    <3>1. m \in Nat /\ ~\E f : Good(f, m)
      OBVIOUS
    <3>2. CASE m = 0
      <4>1. PICK f : f = [x \in 0 .. 0 |-> EmptyStore.kv]
        OBVIOUS
      <4>2. Good(f, 0)
        BY <4>1 DEF Good
      <4> QED BY <3>1, <3>2, <4>2
    <3>3. CASE m # 0
      <4>1. m - 1 \in Nat /\ m - 1 \notin S
        BY <2>1, <3>1, <3>3
      <4>2. PICK f : Good(f, m - 1)
        BY <4>1
      <4>3. PICK g : g = [x \in 0 .. m |-> IF x = m THEN Execute(m, f[m - 1]) ELSE f[x]]
        OBVIOUS
      <4>4. \A x \in 0 .. m - 1 : g[x] = f[x]
        BY <3>1, <4>3
      <4>5. g[m] = Execute(m, g[m - 1])
        BY <3>1, <4>1, <4>3, <4>4
      <4>6. g[0] = EmptyStore.kv
        BY <4>1, <4>2, <4>4 DEF Good
      <4>7. ASSUME NEW x \in 1 .. m
            PROVE  g[x] = Execute(x, g[x - 1])
        <5>1. CASE x = m
          BY <4>5, <5>1
        <5>2. CASE x # m
          <6>1. x \in 1 .. m - 1 /\ x \in 0 .. m - 1 /\ x - 1 \in 0 .. m - 1
            BY <3>1, <5>2
          <6>2. f[x] = Execute(x, f[x - 1])
            BY <4>2, <6>1 DEF Good
          <6> QED BY <4>4, <6>1, <6>2
        <5> QED BY <5>1, <5>2
      <4>8. g = [x \in 0 .. m |-> g[x]]
        BY <4>3
      <4> QED BY <3>1, <4>6, <4>7, <4>8 DEF Good
    <3> QED BY <3>2, <3>3
  <2>2. S \in SUBSET Nat
    OBVIOUS
  <2>3. S = {}
    <3> HIDE DEF S
    <3> QED BY <2>1, <2>2, LeastOf
  <2> QED BY <2>3
<1>2. ASSUME NEW n \in Nat, NEW m \in Nat, n <= m, NEW f, NEW g, Good(f, n), Good(g, m)
      PROVE  f[n] = g[n]
  <2> DEFINE S == {k \in 0 .. n : f[k] # g[k]}
  <2>1. ASSUME NEW k \in S, \A x \in S : k <= x
        PROVE  FALSE
    <3>1. k \in 0 .. n /\ f[k] # g[k]
      OBVIOUS
    <3>2. k # 0
      BY <1>2, <3>1
    <3>3. k \in 1 .. n /\ k \in 1 .. m /\ k - 1 \in 0 .. n /\ k - 1 \notin S
      <4>1. n \in Nat /\ m \in Nat /\ n <= m
        BY <1>2
      <4>2. k \in Nat /\ k - 1 \in 0 .. n
        BY <3>1, <3>2, <4>1
      <4>3. k - 1 \notin S
        <5>1. ~(k <= k - 1)
          BY <4>2
        <5> HIDE DEF S
        <5> QED BY <2>1, <5>1
      <4> QED BY <3>1, <3>2, <4>1, <4>2, <4>3
    <3>4. f[k - 1] = g[k - 1]
      BY <3>3
    <3>5. f[k] = Execute(k, f[k - 1]) /\ g[k] = Execute(k, g[k - 1])
      BY <1>2, <3>3
    <3> QED BY <3>1, <3>4, <3>5
  <2>2. S \in SUBSET Nat
    OBVIOUS
  <2>3. S = {}
    <3> HIDE DEF S
    <3> QED BY <2>1, <2>2, LeastOf
  <2> QED BY <2>3
<1> DEFINE part(n) == CHOOSE f : Good(f, n)
           F == [n \in Nat |-> part(n)[n]]
<1>3. \A n \in Nat : Good(part(n), n)
  <2> HIDE DEF Good
  <2> QED BY <1>1
<1>4. F[0] = EmptyStore.kv
  BY <1>3
<1>5. ASSUME NEW n \in Nat, n # 0
      PROVE  F[n] = Execute(n, F[n - 1])
  <2>1. n - 1 \in Nat /\ n - 1 <= n /\ n \in 1 .. n
    BY <1>5
  <2>2. Good(part(n), n) /\ Good(part(n - 1), n - 1)
    BY <1>3, <2>1
  <2>3. part(n - 1)[n - 1] = part(n)[n - 1]
    <3> HIDE DEF Good, part
    <3> QED BY <1>2, <2>1, <2>2
  <2>4. part(n)[n] = Execute(n, part(n)[n - 1])
    <3> HIDE DEF part
    <3> QED BY <2>1, <2>2
  <2>5. F[n] = part(n)[n] /\ F[n - 1] = part(n - 1)[n - 1]
    <3> HIDE DEF part
    <3> QED BY <2>1
  <2> QED BY <2>3, <2>4, <2>5
<1>6. PICK R : R = F
  OBVIOUS
<1>7. R = [n \in Nat |-> IF n = 0 THEN EmptyStore.kv ELSE Execute(n, R[n - 1])]
  <2>1. R = [n \in Nat |-> R[n]]
    <3> HIDE DEF part
    <3> QED BY <1>6
  <2>2. \A n \in Nat : R[n] = IF n = 0 THEN EmptyStore.kv ELSE Execute(n, R[n - 1])
    <3> HIDE DEF F
    <3> QED BY <1>4, <1>5, <1>6
  <2> QED BY <2>1, <2>2
<1>8. Replay = [n \in Nat |-> IF n = 0 THEN EmptyStore.kv ELSE Execute(n, Replay[n - 1])]
  <2> HIDE DEF F
  <2> QED BY <1>7, Zenon DEF Replay, Execute
<1> HIDE DEF F
<1> QED BY <1>8

\* And so in the state after a step.
LEMMA ReplayUnfoldsNext ==
    (/\ Replay[0] = EmptyStore.kv
     /\ \A n \in Nat \ {0} : Replay[n] = Execute(n, Replay[n - 1]))'
BY ReplayUnfolds, PTL

\* The replay of what is committed already does not change when the log grows.
LEMMA ReplayKept ==
    ASSUME Types, RaftFrame, NEW n \in 0 .. Len(committed)
    PROVE  Replay'[n] = Replay[n]
<1>1. /\ Len(committed) \in Nat
      /\ DOMAIN committed = 1 .. Len(committed)
      /\ \A k \in DOMAIN committed : committed'[k] = committed[k]
  BY LogGrows
<1>2. ASSUME NEW k \in 1 .. Len(committed), Replay'[k - 1] = Replay[k - 1]
      PROVE  Replay'[k] = Replay[k]
  <2>1. committed'[k] = committed[k] /\ \A m \in 1 .. k - 1 : committed'[m] = committed[m]
    BY <1>1
  <2>2. First(k)' <=> First(k)
    BY <2>1 DEF First, IsOwn
  <2>3. k \in Nat \ {0}
    BY <1>1
  <2>4. Replay[k] = Execute(k, Replay[k - 1]) /\ Replay'[k] = Execute(k, Replay[k - 1])'
    BY <2>3, ReplayUnfolds, ReplayUnfoldsNext
  <2>5. written(committed[k], Replay[k - 1][committed[k].key])' =
          written(committed[k], Replay[k - 1][committed[k].key])
    BY <1>2, <2>1 DEF written
  <2> QED BY <1>2, <2>1, <2>2, <2>4, <2>5, Zenon DEF Execute
<1> DEFINE S == {k \in 0 .. n : Replay'[k] # Replay[k]}
<1>3. ASSUME NEW k \in S, \A x \in S : k <= x
      PROVE  FALSE
  <2>1. k \in 0 .. n /\ Replay'[k] # Replay[k]
    OBVIOUS
  <2>2. k # 0
    BY <2>1, ReplayUnfolds, ReplayUnfoldsNext DEF EmptyStore
  <2>3. k - 1 \in 0 .. n /\ k \in 1 .. Len(committed) /\ ~(k <= k - 1)
    BY <1>1, <2>1, <2>2
  <2>4. k - 1 \notin S
    <3> HIDE DEF S
    <3> QED BY <1>3, <2>3
  <2>5. Replay'[k - 1] = Replay[k - 1]
    BY <2>3, <2>4
  <2> QED BY <1>2, <2>1, <2>3, <2>5
<1>4. S \in SUBSET Nat
  BY <1>1
<1>5. S = {}
  <2> HIDE DEF S
  <2> QED BY <1>3, <1>4, LeastOf
<1>6. n \in 0 .. n
  BY <1>1
<1> QED BY <1>5, <1>6

-----------------------------------------------------------------------------
(* The order of the requests of a client *)

\* What is seen stays seen.
LEMMA SeenKept ==
    ASSUME Types, RaftFrame, NEW o, NEW n \in Nat, n <= Len(committed), Seen(o, n),
           NEW m \in Nat, n <= m
    PROVE  \E q \in 1 .. m : committed'[q] = o
<1>1. PICK q \in 1 .. n : committed[q] = o
  BY Zenon DEF Seen
<1>2. q \in DOMAIN committed
  <2>1. PICK len \in Nat : len = Len(committed) /\ DOMAIN committed = 1 .. len
    BY LogGrows
  <2>2. n <= len
    BY <2>1
  <2> QED BY <2>1, <2>2
<1>3. committed'[q] = o
  BY <1>1, <1>2, LogGrows
<1>4. q \in 1 .. m
  OBVIOUS
<1> QED BY <1>3, <1>4

\* What has returned to a client is not forgotten, and a write that returns is
\* where it stands in the log.
LEMMA DoneGrows ==
    ASSUME Types, WithinLog, Numbered, [Next]_vars
    PROVE  /\ done \in Nat /\ done' \in Nat /\ done <= done'
           /\ \A d \in calls : Return(d) /\ Write(d.op) =>
                /\ positionOf(d.op) \in 1 .. done'
                /\ committed'[positionOf(d.op)] = d.op
<1>1. done \in Nat
  BY DEF Types, ClerkTypes
<1>2. ASSUME NEW d \in calls, Return(d)
      PROVE  /\ done' \in Nat /\ done <= done'
             /\ Write(d.op) => /\ positionOf(d.op) \in 1 .. done'
                               /\ committed'[positionOf(d.op)] = d.op
  <2>1. /\ done' = larger(done, IF d.op.op = "Get" THEN d.upto ELSE positionOf(d.op))
        /\ d.phase = "reply" /\ d.err \in {"OK", "ErrNoKey"} /\ committed' = committed
    BY <1>2 DEF Return, Answer, raftVars
  <2>2. d.upto \in Nat
    BY DEF Types, CallTypes, Call
  <2>3. CASE ~Write(d.op)
    BY <1>1, <2>1, <2>2, <2>3 DEF larger, Write
  <2>4. CASE Write(d.op)
    <3>1. InLog(d.op)
      BY <2>1, <2>4 DEF Numbered
    <3>2. PICK n : n = positionOf(d.op)
      OBVIOUS
    <3>3. n \in DOMAIN committed /\ committed[n] = d.op /\ n > 0
      BY <3>1, <3>2, PositionOf
    <3>4. n \in Nat
      BY <3>3 DEF Types, RaftTypes
    <3>5. done' = larger(done, n)
      BY <2>1, <2>4, <3>2 DEF Write
    <3>6. done' \in Nat /\ done <= done' /\ n \in 1 .. done'
      BY <1>1, <3>3, <3>4, <3>5 DEF larger
    <3> QED BY <2>1, <3>2, <3>3, <3>6
  <2> QED BY <2>3, <2>4
<1>3. UNCHANGED done \/ \E d \in calls : Return(d)
  BY MoreFrames DEF ClerkFrame, clerkVars, Invoke
<1> QED BY <1>1, <1>2, <1>3

LEMMA AllLiveStep ==
    ASSUME Types, AllLive, [Next]_vars, fails' = 0
    PROVE  AllLive'
<1>0. CallFrame
  BY Frames
<1> SUFFICES ASSUME NEW d \in calls', d \notin calls PROVE d.live
  BY DEF AllLive
<1>2. ASSUME NEW c, NEW kind, NEW key, Invoke(c, kind, key)
      PROVE  d.live
  <2>1. PICK op : calls' = calls \cup {request(op, recentLeaderId[c])}
    BY <1>2 DEF Invoke
  <2>2. d = request(op, recentLeaderId[c])
    BY <2>1
  <2>3. request(op, recentLeaderId[c]).live = TRUE
    BY Zenon DEF request
  <2> QED BY <2>2, <2>3
<1>3. ASSUME NEW c \in calls, Return(c)
      PROVE  d.live
  BY <1>3 DEF Return
<1>4. ASSUME NEW c \in calls, Retry(c) \/ RetryClosed(c) \/ RpcFails(c)
      PROVE  d.live
  <2>1. PICK next : Resends(c, next)
    BY <1>4, Resending
  <2>2. calls' = (calls \ {c}) \cup {next} /\ next.live
    BY <2>1 DEF Resends
  <2> QED BY <2>2
<1>5. ASSUME HandlerNext
      PROVE  d.live
  <2>1. PICK c \in calls : \E n : Handled(c, n) /\ Outcome(c, n)
    BY <1>5, Outcomes
  <2>2. PICK next : Handled(c, next)
    BY <2>1
  <2>3. d = next /\ next.live = c.live
    BY <2>2 DEF Handled, Becomes
  <2> QED BY <2>3 DEF AllLive
<1>6. ASSUME NEW i \in Server, Crash(i)
      PROVE  d.live
  <2>1. PICK c \in calls : c.live /\ d.live = c.live
    BY <1>6, Crashed
  <2> QED BY <2>1
<1> QED BY <1>0, <1>2, <1>3, <1>4, <1>5, <1>6 DEF CallFrame, ClerkNext

LEMMA EarlierSeenStep ==
    ASSUME Types, WithinLog, EarlierSeen, LastSeen, [Next]_vars
    PROVE  EarlierSeen'
<1>0. RaftFrame
  BY Frames
<1> SUFFICES ASSUME NEW o \in Ops', Write(o), o.id < requestId'[o.client]
             PROVE  \E q \in 1 .. floor'[o.client] : committed'[q] = o
  BY DEF EarlierSeen, Seen
<1>1. o \in Ops
  <2>1. ASSUME NEW kind, NEW key, Invoke(o.client, kind, key), o.client \in Client,
               o.id = requestId[o.client] + 1
        PROVE  FALSE
    <3>1. requestId[o.client] \in Nat /\ requestId'[o.client] = requestId[o.client] + 1
      BY <2>1, RequestIdGrows
    <3> QED BY <2>1, <3>1
  <2> QED BY <2>1, OpsStep
<1>2. o.client \in Client
  BY <1>1, OpsTypes
<1>3. /\ requestId \in [Client -> Nat] /\ floor \in [Client -> Nat] /\ done \in Nat
      /\ done <= Len(committed) /\ floor[o.client] <= done
      /\ Len(committed) \in Nat
  BY <1>0, <1>2, LogGrows DEF Types, ClerkTypes, WithinLog
<1>4. ASSUME requestId'[o.client] = requestId[o.client], floor'[o.client] = floor[o.client]
      PROVE  \E q \in 1 .. floor'[o.client] : committed'[q] = o
  <2>1. Seen(o, floor[o.client])
    BY <1>1, <1>4 DEF EarlierSeen
  <2>2. floor[o.client] \in Nat /\ floor[o.client] <= Len(committed)
    BY <1>2, <1>3
  <2> QED BY <1>0, <1>4, <2>1, <2>2, SeenKept
<1>5. ASSUME NEW c \in Client, NEW kind, NEW key, Invoke(c, kind, key),
             requestId' = [requestId EXCEPT ![c] = @ + 1],
             floor' = [floor EXCEPT ![c] = done]
      PROVE  \E q \in 1 .. floor'[o.client] : committed'[q] = o
  <2>1. CASE o.client = c
    <3>1. Seen(o, done)
      BY <1>1, <1>5, <2>1 DEF Invoke, LastSeen
    <3>2. floor'[o.client] = done
      BY <1>3, <1>5, <2>1
    <3>3. done <= done
      BY <1>3
    <3> QED BY <1>0, <1>3, <3>1, <3>2, <3>3, SeenKept
  <2>2. CASE o.client # c
    BY <1>2, <1>3, <1>4, <1>5, <2>2
  <2> QED BY <2>1, <2>2
<1> QED BY <1>4, <1>5, FloorStep

LEMMA LastSeenStep ==
    ASSUME Types, WithinLog, Numbered, EarlierSeen, LastSeen, [Next]_vars
    PROVE  LastSeen'
<1>0. RaftFrame
  BY Frames
<1> SUFFICES ASSUME NEW o \in Ops', Write(o), Idle(o.client)'
             PROVE  \E q \in 1 .. done' : committed'[q] = o
  BY DEF LastSeen, Seen
<1>1. o \in Ops
  <2>1. ASSUME NEW kind, NEW key, Invoke(o.client, kind, key)
        PROVE  FALSE
    <3>1. PICK op : op = [op |-> kind, key |-> key, client |-> o.client,
                          id |-> requestId[o.client] + 1]
      OBVIOUS
    <3>2. PICK call : call = request(op, recentLeaderId[o.client])
      OBVIOUS
    <3>3. calls' = calls \cup {call}
      BY <2>1, <3>1, <3>2 DEF Invoke
    <3>4. call.op = op /\ call.live
      BY <3>2, Zenon DEF request
    <3>5. op.client = o.client
      BY <3>1
    <3> QED BY <3>3, <3>4, <3>5 DEF Idle
  <2> QED BY <2>1, OpsStep
<1>2. o.client \in Client /\ o.id \in Nat
  BY <1>1, OpsTypes
<1>3. /\ requestId[o.client] \in Nat /\ floor[o.client] \in Nat /\ done \in Nat
      /\ done <= Len(committed) /\ floor[o.client] <= done
      /\ Len(committed) \in Nat /\ done' \in Nat /\ done <= done'
  BY <1>0, <1>2, LogGrows, DoneGrows DEF Types, ClerkTypes, WithinLog
<1>4. ASSUME NEW n \in Nat, n <= done, Seen(o, n)
      PROVE  \E q \in 1 .. done' : committed'[q] = o
  <2>1. n <= Len(committed) /\ n <= done'
    BY <1>3, <1>4
  <2> QED BY <1>0, <1>3, <1>4, <2>1, SeenKept
<1>5. CASE Idle(o.client)
  <2>1. Seen(o, done)
    BY <1>1, <1>5 DEF LastSeen
  <2> QED BY <1>3, <1>4, <2>1
<1>6. CASE ~Idle(o.client)
  <2>1. PICK d \in calls : d.live /\ d.op.client = o.client
    BY <1>6 DEF Idle
  <2>2. Return(d)
    BY <2>1, LiveKept DEF Idle
  <2>3. d.op.id = requestId[o.client] /\ o.id <= requestId[o.client]
    <3>1. d.op.id = requestId[o.client] /\ o.id \in 1 .. requestId[o.client]
      BY <1>1, <2>1 DEF Numbered
    <3> QED BY <1>3, <3>1
  <2>4. CASE o.id < requestId[o.client]
    <3>1. Seen(o, floor[o.client])
      BY <1>1, <2>4 DEF EarlierSeen
    <3> QED BY <1>3, <1>4, <3>1
  <2>5. CASE o.id = requestId[o.client]
    <3>1. d.op \in Ops
      BY DEF Ops
    <3>2. o = d.op
      BY <1>1, <2>1, <2>3, <2>5, <3>1 DEF Numbered
    <3>3. positionOf(o) \in 1 .. done' /\ committed'[positionOf(o)] = o
      BY <2>2, <3>2, DoneGrows
    <3> QED BY <3>3
  <2> QED BY <1>2, <1>3, <2>3, <2>4, <2>5
<1> QED BY <1>5, <1>6

LEMMA ClientOrderStep ==
    ASSUME Types, WithinLog, Numbered, EarlierSeen, ClientOrder, [Next]_vars
    PROVE  ClientOrder'
<1>0. RaftFrame
  BY Frames
<1> SUFFICES ASSUME NEW m \in DOMAIN committed', NEW n \in DOMAIN committed',
                    Write(committed'[m]), committed'[m].client = committed'[n].client,
                    committed'[m].id < committed'[n].id
             PROVE  \E q \in 1 .. n - 1 : committed'[q] = committed'[m]
  BY DEF ClientOrder, Seen
<1>1. PICK o, p : o = committed'[m] /\ p = committed'[n]
  OBVIOUS
<1>2. o \in Ops /\ p \in Ops
  <2>1. ASSUME NEW x \in Ops', \A kind, key : ~Invoke(x.client, kind, key)
        PROVE  x \in Ops
    BY <2>1, OpsStep
  <2>2. o \in Ops' /\ p \in Ops'
    BY <1>1 DEF Ops
  <2>3. CASE \E c, kind, key : Invoke(c, kind, key)
    <3>1. committed' = committed
      BY <2>3 DEF Invoke, raftVars
    <3> QED BY <1>1, <3>1 DEF Ops
  <2>4. CASE ~\E c, kind, key : Invoke(c, kind, key)
    BY <2>1, <2>2, <2>4
  <2> QED BY <2>3, <2>4
<1>3. /\ o.client \in Client /\ o.id \in Nat /\ p.id \in Nat
      /\ p.id <= requestId[o.client] /\ o.id < requestId[o.client]
      /\ o.client = p.client /\ o.id < p.id
  <2>1. o.client \in Client /\ o.id \in Nat /\ p.id \in Nat
    BY <1>2, OpsTypes
  <2>2. p.id \in 1 .. requestId[p.client] /\ o.client = p.client /\ o.id < p.id
    BY <1>1, <1>2 DEF Numbered
  <2>3. requestId[o.client] \in Nat
    BY <2>1 DEF Types, ClerkTypes
  <2> QED BY <2>1, <2>2, <2>3
<1>4. Seen(o, floor[o.client])
  BY <1>1, <1>2, <1>3 DEF EarlierSeen
<1>5. /\ floor[o.client] \in Nat /\ floor[o.client] <= Len(committed)
      /\ Len(committed) \in Nat /\ Len(committed') \in Nat
      /\ DOMAIN committed = 1 .. Len(committed) /\ DOMAIN committed' = 1 .. Len(committed')
  <2>1. floor \in [Client -> Nat] /\ done \in Nat /\ done <= Len(committed)
    BY DEF Types, ClerkTypes, WithinLog
  <2>2. floor[o.client] <= done
    BY <1>3, Zenon DEF WithinLog
  <2>3. /\ Len(committed) \in Nat /\ Len(committed') \in Nat
        /\ DOMAIN committed = 1 .. Len(committed) /\ DOMAIN committed' = 1 .. Len(committed')
    BY <1>0, LogGrows
  <2> QED BY <1>3, <2>1, <2>2, <2>3
<1>6. CASE n \notin DOMAIN committed
  <2>1. n \in Nat /\ floor[o.client] <= n - 1 /\ n - 1 \in Nat
    BY <1>5, <1>6
  <2>2. \E q \in 1 .. n - 1 : committed'[q] = o
    BY <1>0, <1>4, <1>5, <2>1, SeenKept, Zenon
  <2> QED BY <1>1, <2>2
<1>7. CASE n \in DOMAIN committed
  <2>1. p = committed[n]
    BY <1>0, <1>1, <1>7, LogGrows
  <2>2. PICK q \in DOMAIN committed : committed[q] = o
    BY <1>4, <1>5 DEF Seen
  <2>3. Seen(committed[q], n - 1)
    BY <1>1, <1>3, <1>7, <2>1, <2>2 DEF ClientOrder
  <2>4. n - 1 \in Nat /\ n - 1 <= Len(committed)
    BY <1>5, <1>7
  <2>5. \E r \in 1 .. n - 1 : committed'[r] = o
    BY <1>0, <2>2, <2>3, <2>4, SeenKept
  <2> QED BY <1>1, <2>5
<1> QED BY <1>6, <1>7

LEMMA InitInTurn == Init => InTurn
BY DEF Init, InTurn, AllLive, EarlierSeen, LastSeen, ClientOrder, Ops

LEMMA InTurnStep ==
    ASSUME Types, WithinLog, Numbered, InTurn, [Next]_vars
    PROVE  InTurn'
<1> SUFFICES ASSUME fails' = 0 PROVE (AllLive /\ EarlierSeen /\ LastSeen /\ ClientOrder)'
  BY DEF InTurn
<1>1. fails = 0
  BY MoreFrames DEF BoundFrame, Types, BoundTypes
<1>2. AllLive /\ EarlierSeen /\ LastSeen /\ ClientOrder
  BY <1>1 DEF InTurn
<1> QED BY <1>2, AllLiveStep, EarlierSeenStep, LastSeenStep, ClientOrderStep

-----------------------------------------------------------------------------
(* The data of a server is the replay of its log *)

\* A table goes on knowing what it knows: a request that it knows of and that
\* is committed now was committed before.
LEMMA KnowsKept ==
    ASSUME Types, [Next]_vars, NEW last \in [Client -> Nat], Honest(last),
           NEW n \in 0 .. Len(committed), Knows(last, n)
    PROVE  Knows(last, n)'
<1>0. RaftFrame
  BY Frames, Zenon
<1>1. /\ Len(committed) \in Nat /\ DOMAIN committed = 1 .. Len(committed)
      /\ \A k \in DOMAIN committed : committed'[k] = committed[k]
  BY <1>0, LogGrows
<1>2. \A q \in 1 .. n : q \in DOMAIN committed /\ committed'[q] = committed[q]
  BY <1>1
<1>3. ASSUME NEW m \in 1 .. n, Write(committed'[m])
      PROVE  committed'[m].id <= last[committed'[m].client]
  BY <1>2, <1>3 DEF Knows
<1>4. ASSUME NEW m \in DOMAIN committed', Write(committed'[m]),
             committed'[m].id <= last[committed'[m].client]
      PROVE  \E q \in 1 .. n : committed'[q] = committed'[m]
  <2>1. PICK o : o = committed'[m]
    OBVIOUS
  <2>2. ASSUME NEW k \in DOMAIN committed, committed[k] = o
        PROVE  \E q \in 1 .. n : committed'[q] = o
    <3>1. PICK q \in 1 .. n : committed[q] = o
      BY <1>4, <2>1, <2>2, Zenon DEF Knows
    <3> QED BY <1>2, <3>1
  <2>3. CASE m \in DOMAIN committed
    BY <1>1, <2>1, <2>2, <2>3
  <2>4. CASE m \notin DOMAIN committed
    <3>1. PICK p \in proposed : committed' = Append(committed, p.op)
      BY <1>0, <1>4, <2>4, LogGrows
    <3>2. o = p.op
      <4>1. committed \in Seq(Op) /\ p.op \in Op
        BY DEF Types, RaftTypes
      <4> QED BY <1>4, <2>1, <2>4, <3>1, <4>1
    <3>3. o \in Ops
      BY <3>2 DEF Ops
    <3>4. InLog(o)
      BY <1>4, <2>1, <3>3 DEF Honest
    <3> QED BY <2>1, <2>2, <3>4 DEF InLog
  <2> QED BY <2>1, <2>3, <2>4
<1> QED BY <1>3, <1>4 DEF Knows

LEMMA IsReplayKept ==
    ASSUME Types, [Next]_vars, NEW data, NEW last \in [Client -> Nat], Honest(last),
           NEW n \in 0 .. Len(committed), IsReplay(data, last, n)
    PROVE  IsReplay(data, last, n)'
<1>1. Knows(last, n)'
  BY KnowsKept DEF IsReplay
<1>2. data = Replay'[n]
  BY Frames, ReplayKept DEF IsReplay
<1> QED BY <1>1, <1>2 DEF IsReplay

\* A command that the table knows of stands earlier in the log; one that it does
\* not know stands there for the first time, and is the last of its client's.
LEMMA IsReplayApplied ==
    ASSUME Types, Numbered, ClientOrder, NEW store \in Store,
           NEW n \in DOMAIN committed, n \in Nat, committed[n] \in Op,
           IsReplay(store.kv, store.last, n - 1)
    PROVE  IsReplay(applied(store, committed[n]).kv, applied(store, committed[n]).last, n)
<1>0. PICK op \in Op : op = committed[n]
  OBVIOUS
<1>1. PICK data, last : data = store.kv /\ last = store.last /\ last \in [Client -> Nat]
  <2>1. store.last \in [Client -> Nat]
    BY DEF Store
  <2> QED BY <2>1
<1>2. op.client \in Client /\ op.id \in Nat
  BY DEF Op
<1>3. /\ DOMAIN committed \subseteq Nat \ {0}
      /\ \A m \in DOMAIN committed : committed[m] \in Op /\ committed[m] \in Ops
      /\ \A m \in 1 .. n : m \in DOMAIN committed
      /\ \A m \in 1 .. n : m = n \/ m \in 1 .. n - 1
      /\ \A m \in 1 .. n - 1 : m \in 1 .. n
      /\ n \in 1 .. n
  <2>1. committed \in Seq(Op)
    BY DEF Types, RaftTypes
  <2>2. PICK len \in Nat : len = Len(committed) /\ DOMAIN committed = 1 .. len
    BY <2>1
  <2>3. \A m \in 1 .. n : m \in DOMAIN committed
    BY <2>2
  <2>4. \A m \in 1 .. n : m = n \/ m \in 1 .. n - 1
    OBVIOUS
  <2>5. n \in 1 .. n /\ \A m \in 1 .. n - 1 : m \in 1 .. n
    BY <2>2
  <2>6. \A m \in DOMAIN committed : committed[m] \in Op /\ committed[m] \in Ops
    BY <2>1 DEF Ops
  <2> QED BY <2>2, <2>3, <2>4, <2>5, <2>6
<1>4. \A m \in DOMAIN committed : committed[m].client \in Client /\ committed[m].id \in Nat
  BY <1>3 DEF Op
<1>5. /\ \A m \in 1 .. n - 1 :
           Write(committed[m]) => committed[m].id <= last[committed[m].client]
      /\ \A m \in DOMAIN committed :
           Write(committed[m]) /\ committed[m].id <= last[committed[m].client]
             => \E q \in 1 .. n - 1 : committed[q] = committed[m]
      /\ data = Replay[n - 1]
  BY <1>1 DEF IsReplay, Knows
<1>6. Replay[n] = Execute(n, data)
  BY <1>3, <1>5, ReplayUnfolds
<1>7. \A m \in DOMAIN committed : committed[m].client = op.client /\ committed[m].id = op.id
        => committed[m] = op
  BY <1>0, <1>3 DEF Numbered
<1>8. ASSUME op.op = "Get" \/ op.id <= last[op.client]
      PROVE  IsReplay(applied(store, op).kv, applied(store, op).last, n)
  <2>1. applied(store, op) = store
    BY <1>1, <1>8 DEF applied, isRequestDuplicate
  <2>2. op.op = "Get" \/ ~First(n)
    <3>1. CASE op.op # "Get"
      <4>1. PICK q \in 1 .. n - 1 : committed[q] = op
        BY <1>0, <1>5, <1>8, <3>1 DEF Write
      <4> QED BY <1>0, <4>1 DEF First, IsOwn
    <3> QED BY <3>1
  <2>3. Replay[n] = data
    BY <1>0, <1>6, <2>2 DEF Execute
  <2>4. Knows(last, n)
    <3>1. \A m \in 1 .. n : Write(committed[m]) =>
            committed[m].id <= last[committed[m].client]
      BY <1>0, <1>3, <1>5, <1>8 DEF Write
    <3> QED BY <1>3, <1>5, <3>1 DEF Knows
  <2> QED BY <1>1, <2>1, <2>3, <2>4 DEF IsReplay
<1>9. ASSUME op.op # "Get", ~(op.id <= last[op.client])
      PROVE  IsReplay(applied(store, op).kv, applied(store, op).last, n)
  <2>1. PICK next \in [Client -> Nat] : next = [last EXCEPT ![op.client] = op.id]
    BY <1>1, <1>2
  <2>2. applied(store, op) =
          [kv |-> [data EXCEPT ![op.key] = written(op, @)], last |-> next]
    BY <1>1, <1>9, <2>1, Zenon DEF applied, isRequestDuplicate
  <2>3. First(n)
    <3> SUFFICES ASSUME NEW m \in 1 .. n - 1, IsOwn(committed[m], committed[n])
                 PROVE  FALSE
      BY DEF First
    <3>1. committed[m].client = op.client /\ committed[m].id = op.id
      BY <1>0 DEF IsOwn
    <3>2. committed[m] = op
      BY <1>3, <1>7, <3>1
    <3> QED BY <1>5, <1>9, <3>2 DEF Write
  <2>4. Replay[n] = [data EXCEPT ![op.key] = written(op, @)]
    BY <1>0, <1>6, <1>9, <2>3 DEF Execute
  <2>5. /\ next[op.client] = op.id /\ last[op.client] < op.id
        /\ \A c \in Client : c # op.client => next[c] = last[c]
        /\ \A c \in Client : last[c] \in Nat
    BY <1>1, <1>2, <1>9, <2>1
  <2>6. ASSUME NEW m \in 1 .. n, Write(committed[m])
        PROVE  committed[m].id <= next[committed[m].client]
    <3>1. PICK c \in Client, id \in Nat : c = committed[m].client /\ id = committed[m].id
      BY <1>3, <1>4
    <3>2. CASE m = n
      BY <1>0, <1>2, <2>5, <3>2
    <3>3. CASE m # n
      <4>1. id <= last[c]
        BY <1>3, <1>5, <2>6, <3>1, <3>3
      <4>2. id <= next[c]
        BY <1>2, <2>5, <3>1, <4>1
      <4> QED BY <3>1, <4>2
    <3> QED BY <3>2, <3>3
  <2>7. ASSUME NEW m \in DOMAIN committed, Write(committed[m]),
               committed[m].id <= next[committed[m].client]
        PROVE  \E q \in 1 .. n : committed[q] = committed[m]
    <3>1. PICK c \in Client, id \in Nat : c = committed[m].client /\ id = committed[m].id
      BY <1>4
    <3>2. CASE c # op.client
      <4>1. id <= last[c]
        BY <2>5, <2>7, <3>1, <3>2
      <4> QED BY <1>3, <1>5, <2>7, <3>1, <4>1
    <3>3. CASE c = op.client /\ id = op.id
      BY <1>0, <1>3, <1>7, <3>1, <3>3
    <3>4. CASE c = op.client /\ id < op.id
      <4>1. Seen(committed[m], n - 1)
        BY <1>0, <2>7, <3>1, <3>4 DEF ClientOrder
      <4> QED BY <1>3, <4>1 DEF Seen
    <3>5. id < op.id \/ id = op.id \/ c # op.client
      BY <1>2, <2>5, <2>7, <3>1
    <3> QED BY <3>2, <3>3, <3>4, <3>5
  <2>8. Knows(next, n)
    BY <2>6, <2>7 DEF Knows
  <2> QED BY <2>2, <2>4, <2>8 DEF IsReplay
<1> QED BY <1>0, <1>8, <1>9

\* A read puts the number of its Get into the table: the writes before it are in
\* the data already.
LEMMA KnowsRead ==
    ASSUME Types, WithinLog, Waiting, Numbered, AllLive, EarlierSeen, ReadsRecent,
           NEW call \in calls, call.phase = "reading",
           NEW last \in [Client -> Nat], Knows(last, kvIndex[call.server])
    PROVE  Knows([last EXCEPT ![call.op.client] = call.op.id], kvIndex[call.server])
<1>1. PICK c, id, k : c = call.op.client /\ id = call.op.id /\ k = kvIndex[call.server]
  OBVIOUS
<1>2. /\ c \in Client /\ id \in Nat /\ k \in Nat /\ k <= Len(committed)
      /\ call.op \in Ops /\ ~Write(call.op)
  <2>1. call.server \in Server /\ call.op \in Op
    BY DEF Types, CallTypes, Call
  <2>2. kvIndex[call.server] \in Nat /\ kvIndex[call.server] <= Len(committed)
    BY <2>1 DEF Types, StateTypes, WithinLog
  <2> QED BY <1>1, <2>1, <2>2 DEF Op, Ops, Waiting
<1>3. id = requestId[c] /\ floor[c] <= k
  BY <1>1 DEF AllLive, Numbered, ReadsRecent
<1>4. ASSUME NEW m \in DOMAIN committed
      PROVE  /\ committed[m] \in Ops /\ committed[m].client \in Client
             /\ committed[m].id \in Nat
             /\ committed[m].client = c => committed[m].id <= id
  <2>1. committed[m] \in Ops
    BY DEF Ops
  <2>2. committed[m].client \in Client /\ committed[m].id \in Nat
    BY <2>1, OpsTypes
  <2>3. committed[m].id \in 1 .. requestId[committed[m].client]
    BY <2>1 DEF Numbered
  <2>4. CASE committed[m].client = c
    BY <1>2, <1>3, <2>1, <2>2, <2>3, <2>4
  <2> QED BY <2>1, <2>2, <2>4
<1>5. PICK next : next = [last EXCEPT ![c] = id]
  OBVIOUS
<1>6. next[c] = id /\ \A d \in Client : d # c => next[d] = last[d]
  BY <1>2, <1>5
<1>7. \A m \in 1 .. k : m \in DOMAIN committed
  <2>1. PICK len \in Nat : len = Len(committed) /\ DOMAIN committed = 1 .. len
    BY DEF Types, RaftTypes
  <2> QED BY <1>2, <2>1
<1>8. ASSUME NEW m \in 1 .. k, Write(committed[m])
      PROVE  committed[m].id <= next[committed[m].client]
  <2>1. committed[m].id <= last[committed[m].client]
    BY <1>1, <1>8 DEF Knows
  <2>2. CASE committed[m].client = c
    BY <1>4, <1>6, <1>7, <2>2
  <2>3. CASE committed[m].client # c
    BY <1>4, <1>6, <1>7, <2>1, <2>3
  <2> QED BY <2>2, <2>3
<1>9. ASSUME NEW m \in DOMAIN committed, Write(committed[m]),
             committed[m].id <= next[committed[m].client]
      PROVE  \E q \in 1 .. k : committed[q] = committed[m]
  <2>1. CASE committed[m].client # c
    <3>1. committed[m].id <= last[committed[m].client]
      BY <1>4, <1>6, <1>9, <2>1
    <3> QED BY <1>1, <1>9, <3>1, Zenon DEF Knows
  <2>2. CASE committed[m].client = c
    <3>1. committed[m].id # id
      BY <1>1, <1>2, <1>4, <1>9, <2>2 DEF Numbered
    <3>2. committed[m].id < requestId[committed[m].client]
      BY <1>2, <1>3, <1>4, <2>2, <3>1
    <3>3. PICK q \in 1 .. floor[c] : committed[q] = committed[m]
      BY <1>4, <1>9, <2>2, <3>2 DEF EarlierSeen, Seen
    <3>4. q \in 1 .. k
      <4>1. floor[c] \in Nat
        BY <1>2 DEF Types, ClerkTypes
      <4> QED BY <1>2, <1>3, <3>3, <4>1
    <3> QED BY <3>3, <3>4
  <2> QED BY <2>1, <2>2
<1>10. Knows(next, k)
  BY <1>8, <1>9 DEF Knows
<1> QED BY <1>1, <1>5, <1>10

LEMMA InitReplayed == Init => Replayed
<1> SUFFICES ASSUME Init, NEW i \in Server
             PROVE  /\ IsReplay(kv[i], lastRequestIdMap[i], kvIndex[i])
                    /\ FileReplays(i)
  BY DEF Replayed
<1>1. /\ committed = << >> /\ kvIndex[i] = 0 /\ snapshotIndex[i] = 0
      /\ kv[i] = EmptyStore.kv /\ restored(snapshotFile[i]).kv = EmptyStore.kv
  BY DEF Init, restored
<1>2. \A last : Knows(last, 0)
  BY <1>1 DEF Knows
<1>3. EmptyStore.kv = Replay[0]
  BY ReplayUnfolds
<1> QED BY <1>1, <1>2, <1>3 DEF IsReplay, FileReplays

LEMMA ReplayedStep ==
    ASSUME Types, WithinLog, Waiting, Numbered, Tables, Queues, Reads, InTurn, Replayed,
           [Next]_vars
    PROVE  Replayed'
<1> SUFFICES ASSUME fails' = 0, installs' = 0, NEW i \in Server, i \notin torn'
             PROVE  /\ IsReplay(kv[i], lastRequestIdMap[i], kvIndex[i])'
                    /\ FileReplays(i)'
  BY DEF Replayed, FileReplays
<1>1. fails = 0 /\ installs = 0 /\ i \notin torn
  BY MoreFrames DEF BoundFrame, Types, BoundTypes
<1>2. /\ AllLive /\ EarlierSeen /\ ClientOrder /\ ReadsRecent
      /\ IsReplay(kv[i], lastRequestIdMap[i], kvIndex[i])
      /\ FileReplays(i)
  BY <1>1 DEF InTurn, Reads, Replayed, FileReplays
<1>3. /\ kv \in [Server -> [Key -> Value]] /\ lastRequestIdMap \in [Server -> [Client -> Nat]]
      /\ kvIndex \in [Server -> Nat] /\ snapshotIndex \in [Server -> Nat]
      /\ snapshotFile \in [Server -> Snapshot] /\ committed \in Seq(Op)
  BY DEF Types, StateTypes, RaftTypes
<1>4. /\ restored(snapshotFile[i]).last \in [Client -> Nat]
      /\ Honest(restored(snapshotFile[i]).last)
      /\ lastRequestIdMap[i] \in [Client -> Nat] /\ Honest(lastRequestIdMap[i])
      /\ kvIndex[i] \in 0 .. Len(committed) /\ snapshotIndex[i] \in 0 .. Len(committed)
  <2>1. PICK len \in Nat : len = Len(committed)
    BY <1>3
  <2>2. /\ kvIndex[i] \in Nat /\ kvIndex[i] <= len
        /\ snapshotIndex[i] \in Nat /\ snapshotIndex[i] <= len
    BY <1>3, <2>1 DEF WithinLog
  <2>3. /\ restored(snapshotFile[i]).last \in [Client -> Nat]
        /\ lastRequestIdMap[i] \in [Client -> Nat]
        /\ Honest(restored(snapshotFile[i]).last) /\ Honest(lastRequestIdMap[i])
    BY <1>3, RestoredLast DEF Tables
  <2> QED BY <2>1, <2>2, <2>3
<1>5. ASSUME kv'[i] = kv[i], lastRequestIdMap'[i] = lastRequestIdMap[i],
             kvIndex'[i] = kvIndex[i]
      PROVE  IsReplay(kv[i], lastRequestIdMap[i], kvIndex[i])'
  <2>1. PICK data, last, n : data = kv[i] /\ last = lastRequestIdMap[i] /\ n = kvIndex[i]
    OBVIOUS
  <2>2. IsReplay(data, last, n)'
    BY <1>2, <1>4, <2>1, IsReplayKept
  <2> QED BY <1>5, <2>1, <2>2 DEF IsReplay, Knows
<1>6. ASSUME snapshotFile'[i] = snapshotFile[i], snapshotIndex'[i] = snapshotIndex[i]
      PROVE  FileReplays(i)'
  <2>1. PICK data, last, n : /\ data = restored(snapshotFile[i]).kv
                             /\ last = restored(snapshotFile[i]).last
                             /\ n = snapshotIndex[i]
    OBVIOUS
  <2>2. IsReplay(data, last, n)'
    BY <1>2, <1>4, <2>1, IsReplayKept DEF FileReplays
  <2> QED BY <1>6, <2>1, <2>2 DEF IsReplay, Knows, FileReplays
<1> DEFINE Goal == /\ IsReplay(kv[i], lastRequestIdMap[i], kvIndex[i])'
                   /\ FileReplays(i)'
<1> HIDE DEF Goal
<1>7. ASSUME NEW call \in calls, ExecGet(call)
      PROVE  Goal
  <2>1. /\ lastRequestIdMap' = [lastRequestIdMap EXCEPT
                                  ![call.server][call.op.client] = call.op.id]
        /\ UNCHANGED <<committed, kv, kvIndex, snapshotFile, snapshotIndex>>
        /\ call.phase = "reading"
    BY <1>7 DEF ExecGet, raftVars
  <2>2. PICK data, last, n : data = kv[i] /\ last = lastRequestIdMap'[i] /\ n = kvIndex[i]
    OBVIOUS
  <2>3. IsReplay(data, last, n)
    <3>1. CASE i = call.server
      <4>1. last = [lastRequestIdMap[i] EXCEPT ![call.op.client] = call.op.id]
        BY <1>3, <2>1, <2>2, <3>1
      <4>2. Knows(lastRequestIdMap[i], kvIndex[call.server])
        BY <1>2, <3>1 DEF IsReplay
      <4>3. Knows([lastRequestIdMap[i] EXCEPT ![call.op.client] = call.op.id],
                  kvIndex[call.server])
        BY <1>2, <1>4, <2>1, <4>2, KnowsRead
      <4>4. Knows(last, n)
        BY <2>2, <3>1, <4>1, <4>3
      <4> QED BY <1>2, <2>2, <4>4 DEF IsReplay
    <3>2. CASE i # call.server
      BY <1>2, <1>3, <2>1, <2>2, <3>2
    <3> QED BY <3>1, <3>2
  <2>4. Replay'[n] = Replay[n]
    BY <1>4, <2>2, Frames, ReplayKept
  <2>5. IsReplay(kv[i], lastRequestIdMap[i], kvIndex[i])'
    BY <2>1, <2>2, <2>3, <2>4 DEF IsReplay, Knows
  <2>6. FileReplays(i)'
    BY <1>6, <2>1
  <2> QED BY <2>5, <2>6 DEF Goal
<1>8. ASSUME NEW a \in Server, getCommandFromRaft(a)
      PROVE  Goal
  <2>1. PICK n \in DOMAIN committed, store \in Store :
             /\ n = kvIndex[a] + 1 /\ n \in Nat /\ committed[n] \in Op
             /\ store = applied(current(a), committed[n])
             /\ kv' = [kv EXCEPT ![a] = store.kv]
             /\ lastRequestIdMap' = [lastRequestIdMap EXCEPT ![a] = store.last]
             /\ kvIndex' = [kvIndex EXCEPT ![a] = n]
             /\ \/ UNCHANGED <<snapshotIndex, snapshotFile>>
                \/ /\ snapshotIndex' = [snapshotIndex EXCEPT ![a] = n]
                   /\ snapshotFile' = [snapshotFile EXCEPT ![a] = store]
             /\ committed' = committed
    BY <1>1, <1>8, NextCommand
  <2>2. CASE i # a
    <3>1. /\ kv'[i] = kv[i] /\ lastRequestIdMap'[i] = lastRequestIdMap[i]
          /\ kvIndex'[i] = kvIndex[i]
          /\ snapshotFile'[i] = snapshotFile[i] /\ snapshotIndex'[i] = snapshotIndex[i]
      BY <1>3, <2>1, <2>2
    <3> QED BY <1>5, <1>6, <3>1 DEF Goal
  <2>3. CASE i = a
    <3>1. IsReplay(store.kv, store.last, n)
      <4>1. PICK old \in Store : old = current(i)
        BY CurrentType
      <4>2. old.kv = kv[i] /\ old.last = lastRequestIdMap[i] /\ n - 1 = kvIndex[i]
        BY <1>3, <2>1, <2>3, <4>1 DEF current
      <4>3. IsReplay(old.kv, old.last, n - 1)
        BY <1>2, <4>2
      <4> QED BY <1>2, <2>1, <2>3, <4>1, <4>3, IsReplayApplied
    <3>2. n \in 0 .. Len(committed)
      BY <1>3, <2>1
    <3>3. Replay'[n] = Replay[n]
      BY <3>2, Frames, ReplayKept
    <3>4. /\ kv'[i] = store.kv /\ lastRequestIdMap'[i] = store.last /\ kvIndex'[i] = n
      BY <1>3, <2>1, <2>3
    <3>5. IsReplay(kv[i], lastRequestIdMap[i], kvIndex[i])'
      BY <2>1, <3>1, <3>3, <3>4 DEF IsReplay, Knows
    <3>6. CASE snapshotFile'[i] = store /\ snapshotIndex'[i] = n
      <4>1. restored(store) = store
        BY NoSnapshotAssumption DEF restored
      <4>2. FileReplays(i)'
        BY <2>1, <3>1, <3>3, <3>6, <4>1 DEF IsReplay, Knows, FileReplays
      <4> QED BY <3>5, <4>2 DEF Goal
    <3>7. CASE snapshotFile'[i] = snapshotFile[i] /\ snapshotIndex'[i] = snapshotIndex[i]
      BY <1>6, <3>5, <3>7 DEF Goal
    <3> QED BY <1>3, <2>1, <2>3, <3>6, <3>7
  <2> QED BY <2>2, <2>3
<1>9. ASSUME NEW a \in Server, Crash(a)
      PROVE  Goal
  <2>0. PICK cut : Dies(a, cut)
    BY <1>9, Crashes
  <2>1. /\ kv' = [kv EXCEPT ![a] = restored(snapshotFile[a]).kv]
        /\ lastRequestIdMap' =
             [lastRequestIdMap EXCEPT ![a] = restored(snapshotFile[a]).last]
        /\ kvIndex' = [kvIndex EXCEPT ![a] = cut]
        /\ snapshotIndex' = [snapshotIndex EXCEPT ![a] = cut]
        /\ snapshotFile' = snapshotFile
    BY <2>0 DEF Dies, DiesWith
  \* A server that did not die inside Save has the index of its snapshot.
  <2>2. i = a => cut = snapshotIndex[i]
    BY <2>0 DEF Dies, CutAt
  <2>3. snapshotIndex'[i] = snapshotIndex[i]
    BY <1>3, <2>1, <2>2
  <2>4. FileReplays(i)'
    BY <1>6, <2>1, <2>3
  <2>5. CASE i = a
    <3>1. /\ kv'[i] = restored(snapshotFile'[i]).kv
          /\ lastRequestIdMap'[i] = restored(snapshotFile'[i]).last
          /\ kvIndex'[i] = snapshotIndex'[i]
      BY <1>3, <2>1, <2>5
    <3> QED BY <2>4, <3>1 DEF Goal, IsReplay, Knows, FileReplays
  <2>6. CASE i # a
    <3>1. /\ kv'[i] = kv[i] /\ lastRequestIdMap'[i] = lastRequestIdMap[i]
          /\ kvIndex'[i] = kvIndex[i]
      BY <1>3, <2>1, <2>6
    <3> QED BY <1>5, <2>4, <3>1 DEF Goal
  <2> QED BY <2>5, <2>6
<1>10. ASSUME UNCHANGED <<lastRequestIdMap, kv, kvIndex, snapshotFile, snapshotIndex>>
       PROVE  Goal
  BY <1>5, <1>6, <1>10 DEF Goal
<1>11. \/ UNCHANGED <<lastRequestIdMap, kv, kvIndex, snapshotFile, snapshotIndex>>
       \/ \E call \in calls : ExecGet(call)
       \/ \E a \in Server : getCommandFromRaft(a) \/ Crash(a)
  BY TableSteps
<1>12. Goal
  BY <1>7, <1>8, <1>9, <1>10, <1>11
<1> QED BY <1>12 DEF Goal

MatchInv == ReadInv /\ InTurn /\ Replayed

LEMMA MatchInvariant == Spec => []MatchInv
<1>1. ReadInv /\ Init => InTurn /\ Replayed
  BY InitInTurn, InitReplayed
<1>2. ReadInv /\ InTurn /\ Replayed /\ [Next]_vars => (InTurn /\ Replayed)'
  BY InTurnStep, ReplayedStep DEF ReadInv, ServerInv
<1> QED BY <1>1, <1>2, ReadInvariant, PTL DEF Spec, MatchInv

\* A server's data is the replay of the log up to where it is, each request
\* executed once (KvServer.cpp:304-311), however often it was sent again,
\* whatever timed out, and from whichever of its own snapshots the server
\* started.  Spoken for are the servers that never died between the two files of
\* Persister::Save (Persisiter.cpp:27-28), as long as no clerk has given up and
\* no snapshot was installed; others may have died there at any time.
THEOREM ReplicasMatchLog == Spec => []ReplicaMatchesLog
<1>1. MatchInv => ReplicaMatchesLog
  BY DEF MatchInv, Replayed, IsReplay, ReplicaMatchesLog, IsReplica
<1> QED BY <1>1, MatchInvariant, PTL

=============================================================================
