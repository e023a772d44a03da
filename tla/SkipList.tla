------------------------------ MODULE SkipList ------------------------------
(***************************************************************************)
(* The skip list that holds the key-value pairs of KvServer                *)
(* (src/skipList/include/skipList.h).  A node is a tower with the levels   *)
(* 0 .. level_; forward_[i] is the next node of level i.  Every operation  *)
(* holds mutex_ from its first to its last line and is one action, but     *)
(* insertSetElement takes and releases it three times.                     *)
(***************************************************************************)
EXTENDS Naturals, Sequences, FiniteSets, FiniteSetsExt

CONSTANTS
    NKey,           \* keys are numbers, so that they are ordered
    Value,
    maxLevel_,
    Thread,
    null            \* the null pointer

ASSUME SkipListAssumption == NKey \in Nat /\ maxLevel_ \in Nat \ {0}

\* A null pointer is no node, and no value stands for a missing one.
ASSUME NullAssumption == null \notin Nat /\ null \notin Value

Key == 1 .. NKey
Level == 0 .. maxLevel_

\* The header is a node of its own; its key is never compared.
header_ == 0

VARIABLES
    node,           \* the nodes that are allocated, by key, and the header
    curLevel_,
    elementCount_,
    call,           \* for every thread, where it is in insertSetElement
    dumpStr,        \* what dumpFile returned last
    owed            \* history: the keys put in and not deleted by a caller

list == <<node, curLevel_, elementCount_>>
vars == <<node, curLevel_, elementCount_, call, dumpStr, owed>>

-----------------------------------------------------------------------------
(* A list as one value, so that loadFile can insert into it repeatedly.    *)

List == [node |-> node, cur |-> curLevel_, count |-> elementCount_]

SetList(l) ==
    /\ node' = l.node
    /\ curLevel_' = l.cur
    /\ elementCount_' = l.count

Tower(key, value, level, next) ==
    [key |-> key, value |-> value, forward |-> [i \in 0 .. level |-> next[i]]]

\* The constructor: a header with maxLevel_ + 1 null pointers.
EmptyList ==
    [node |-> [n \in {header_} |->
                 Tower(header_, null, maxLevel_, [i \in Level |-> null])],
     cur |-> 0, count |-> 0]

\* The nodes that reach level i.
On(l, i) == {n \in DOMAIN l.node : i \in DOMAIN l.node[n].forward}

\* The walk along level i of l from node n to the last node before key.
Walk(l, n, i, key) ==
    LET walk[m \in On(l, i)] ==
          LET next == l.node[m].forward[i]
          IN  IF next # null /\ next < key THEN walk[next] ELSE m
    IN  walk[n]

\* On every level in use the node left of where key belongs.  The walk of a level
\* starts where that of the level above it ended.
update(l, key) ==
    LET left[i \in 0 .. l.cur] ==
          Walk(l, IF i = l.cur THEN header_ ELSE left[i + 1], i, key)
    IN  left

Found(l, key) == l.node[update(l, key)[0]].forward[0] = key

\* Slip: the walk ends on the top level.
SearchTop(l, key) ==
    LET left == Walk(l, header_, l.cur, key)
    IN  IF l.node[left].forward[l.cur] = key THEN l.node[key].value ELSE null

\* searchElement: the value of key, null if it is not found.
Search(l, key) == IF Found(l, key) THEN l.node[key].value ELSE null

\* getRandomLevel: coin tosses, cut off at maxLevel_.
RandomLevel == 1 .. maxLevel_

\* Slip: curLevel_ stays as it is.
InsertedBelow(l, key, value, level) ==
    LET upd == update(l, key)
        left(i) == IF i <= l.cur THEN upd[i] ELSE header_
        new == Tower(key, value, level,
                     [i \in 0 .. level |-> l.node[left(i)].forward[i]])
        linked(n) == [l.node[n] EXCEPT !.forward =
                        [i \in DOMAIN @ |->
                           IF i <= level /\ left(i) = n THEN key ELSE @[i]]]
    IN  IF Found(l, key) THEN l
        ELSE [node |-> [n \in DOMAIN l.node \cup {key} |->
                          IF n = key THEN new ELSE linked(n)],
              cur |-> l.cur, count |-> l.count + 1]

\* insertElementNoBlock with the level that getRandomLevel gave: update points to
\* the header on the levels that were not in use.
Inserted(l, key, value, level) ==
    LET upd == update(l, key)
        left(i) == IF i <= l.cur THEN upd[i] ELSE header_
        new == Tower(key, value, level,
                     [i \in 0 .. level |-> l.node[left(i)].forward[i]])
        linked(n) == [l.node[n] EXCEPT !.forward =
                        [i \in DOMAIN @ |->
                           IF i <= level /\ left(i) = n THEN key ELSE @[i]]]
    IN  IF Found(l, key) THEN l
        ELSE [node |-> [n \in DOMAIN l.node \cup {key} |->
                          IF n = key THEN new ELSE linked(n)],
              cur |-> IF level > l.cur THEN level ELSE l.cur,
              count |-> l.count + 1]

\* Slip: unlinked from level 0 only.
DeletedBottom(l, key) ==
    LET left == update(l, key)[0]
    IN  IF ~Found(l, key) THEN l
        ELSE [l EXCEPT !.node = [n \in DOMAIN @ \ {key} |->
                 IF n = left THEN [@[n] EXCEPT !.forward[0] = l.node[key].forward[0]]
                 ELSE @[n]],
              !.count = @ - 1]

\* deleteElement: the node is unlinked from level 0 up to the first level it is
\* not on, levels left empty are given up, and the node is freed.
Deleted(l, key) ==
    LET upd == update(l, key)
        next(i) == l.node[upd[i]].forward[i]
        on == {i \in 0 .. l.cur : \A j \in 0 .. i : next(j) = key}
        left == [n \in DOMAIN l.node \ {key} |->
                   [l.node[n] EXCEPT !.forward =
                      [i \in DOMAIN @ |->
                         IF i \in on /\ upd[i] = n
                         THEN l.node[key].forward[i] ELSE @[i]]]]
        used == {i \in 1 .. l.cur : left[header_].forward[i] # null}
    IN  IF ~Found(l, key) THEN l
        ELSE [node |-> left,
              cur |-> IF used = {} THEN 0 ELSE Max(used),
              count |-> l.count - 1]

\* dumpFile: the pairs along level 0.
Pairs(l) ==
    LET pairs[n \in DOMAIN l.node] ==
          LET next == l.node[n].forward[0]
          IN  IF next = null THEN << >>
              ELSE <<[key |-> next, value |-> l.node[next].value]>> \o pairs[next]
    IN  pairs[header_]

\* Slip: the list is emptied first.
LoadedClean(l, pairs, levels) ==
    LET loaded[j \in 0 .. Len(pairs)] ==
          IF j = 0 THEN EmptyList
          ELSE Inserted(loaded[j - 1], pairs[j].key, pairs[j].value, levels[j])
    IN  loaded[Len(pairs)]

\* loadFile: the dumped pairs are inserted one by one, with levels of their own.
Loaded(l, pairs, levels) ==
    LET loaded[j \in 0 .. Len(pairs)] ==
          IF j = 0 THEN l
          ELSE Inserted(loaded[j - 1], pairs[j].key, pairs[j].value, levels[j])
    IN  loaded[Len(pairs)]

-----------------------------------------------------------------------------

Idle(t) == call[t].pc = "idle"

\* The other calls on key that are under way are not alone with it.
Disturbed(key, t) ==
    [u \in Thread |-> IF u # t /\ call[u].key = key THEN [call[u] EXCEPT !.alone = FALSE]
                      ELSE call[u]]

NoCall == [pc |-> "idle", key |-> 0, value |-> null, alone |-> TRUE]

Init ==
    /\ node = EmptyList.node /\ curLevel_ = EmptyList.cur
    /\ elementCount_ = EmptyList.count
    /\ call = [t \in Thread |-> NoCall]
    /\ dumpStr = << >>
    /\ owed = {}

insertElement(t, key, value, level) ==
    /\ Idle(t)
    /\ SetList(Inserted(List, key, value, level))
    /\ call' = Disturbed(key, t)
    /\ owed' = owed \cup {key}
    /\ UNCHANGED dumpStr

deleteElement(t, key) ==
    /\ Idle(t)
    /\ SetList(Deleted(List, key))
    /\ call' = Disturbed(key, t)
    /\ owed' = owed \ {key}
    /\ UNCHANGED dumpStr

\* Slip: the key is inserted whether it was found or not.
SetSearchOnly(t, key, value) ==
    /\ Idle(t)
    /\ call' = [Disturbed(key, t) EXCEPT ![t] =
                   [pc |-> "insert", key |-> key, value |-> value,
                    alone |-> \A u \in Thread : call[u].key # key]]
    /\ UNCHANGED <<list, dumpStr, owed>>

\* insertSetElement: a search, a delete if the key was found, and an insert.
SetSearch(t, key, value) ==
    /\ Idle(t)
    /\ call' = [Disturbed(key, t) EXCEPT ![t] =
                   [pc |-> IF Search(List, key) # null THEN "delete" ELSE "insert",
                    key |-> key, value |-> value,
                    alone |-> \A u \in Thread : call[u].key # key]]
    /\ UNCHANGED <<list, dumpStr, owed>>

\* Slip: it returns when it has deleted.
SetDeleteOnly(t) ==
    /\ call[t].pc = "delete"
    /\ SetList(Deleted(List, call[t].key))
    /\ call' = [Disturbed(call[t].key, t) EXCEPT ![t] = NoCall]
    /\ UNCHANGED <<dumpStr, owed>>

SetDelete(t) ==
    /\ call[t].pc = "delete"
    /\ SetList(Deleted(List, call[t].key))
    /\ call' = [Disturbed(call[t].key, t) EXCEPT ![t].pc = "insert"]
    /\ UNCHANGED <<dumpStr, owed>>

SetInsert(t, level) ==
    /\ call[t].pc = "insert"
    /\ SetList(Inserted(List, call[t].key, call[t].value, level))
    /\ call' = [Disturbed(call[t].key, t) EXCEPT ![t] = NoCall]
    /\ owed' = owed \cup {call[t].key}
    /\ UNCHANGED dumpStr

dumpFile(t) ==
    /\ Idle(t)
    /\ dumpStr' = Pairs(List)
    /\ UNCHANGED <<list, call, owed>>

loadFile(t, levels) ==
    /\ Idle(t)
    /\ SetList(Loaded(List, dumpStr, levels))
    /\ call' = [u \in Thread |->
                  [call[u] EXCEPT !.alone =
                     @ /\ \A j \in DOMAIN dumpStr : dumpStr[j].key # call[u].key]]
    /\ owed' = owed \cup {dumpStr[j].key : j \in DOMAIN dumpStr}
    /\ UNCHANGED dumpStr

\* The destructor frees every node, which nobody may be using, and the
\* constructor makes a list with nothing in it; the dump outlives the list.
Construct ==
    /\ \A t \in Thread : Idle(t)
    /\ SetList(EmptyList)
    /\ owed' = {}
    /\ UNCHANGED <<call, dumpStr>>

Next ==
    \/ \E t \in Thread, key \in Key :
         \/ \E value \in Value : \/ SetSearch(t, key, value)
                                \/ \E level \in RandomLevel :
                                     insertElement(t, key, value, level)
         \/ deleteElement(t, key)
    \/ \E t \in Thread :
         \/ SetDelete(t)
         \/ \E level \in RandomLevel : SetInsert(t, level)
         \/ dumpFile(t)
         \/ \E levels \in [1 .. Len(dumpStr) -> RandomLevel] : loadFile(t, levels)
    \/ Construct

Spec == Init /\ [][Next]_vars

-----------------------------------------------------------------------------
(* Properties.                                                             *)

Live == DOMAIN node \ {header_}

Contents == [key \in Key |-> IF key \in Live THEN node[key].value ELSE null]

\* The walk from the top level (skipList.h:192, 241 and 267) finds every pair that
\* is in the list and no other.
SearchFinds == \A key \in Key : Search(List, key) = Contents[key]

\* Every level is a sorted chain through the nodes that reach it and no other:
\* no pointer to a freed node (delete curNode, skipList.h:293), no node lost from
\* a level by the early break of skipList.h:280 or a stale update[i].
LevelsLinked ==
    \A i \in Level :
        LET at == {n \in Live : i \in DOMAIN node[n].forward}
            after(n) == {m \in at : m > n}
        IN  \A n \in at \cup {header_} :
                node[n].forward[i] = IF after(n) = {} THEN null ELSE Min(after(n))

\* curLevel_ is the highest level with a node, so that a search that starts there
\* (skipList.h:192 and 241) neither misses a level nor walks an empty one, and
\* size() is the number of pairs.
CountersRight ==
    /\ curLevel_ = Max({0} \cup UNION {DOMAIN node[n].forward : n \in Live})
    /\ elementCount_ = Cardinality(Live)

\* insertSetElement is not atomic (skipList.h:303-310), and a search or a dump may
\* find the key gone.  It is gone only then: a key that was put in and that no
\* caller deleted is in the list, or the thread that will put it back is under way.
HoleIsTransient ==
    \A key \in owed : Contents[key] = null =>
        \E t \in Thread : call[t].pc = "insert" /\ call[t].key = key

\* The comment of skipList.h:301-302: what was there is replaced.  A set of a key
\* that nobody else touched meanwhile leaves the value it was called with.
SetTakesEffect ==
    [][\A t \in Thread, level \in RandomLevel :
         SetInsert(t, level) /\ call[t].alone
             => Contents'[call[t].key] = call[t].value]_vars

Map == INSTANCE KeyMap
         WITH NoValue <- null,
              store <- Contents,
              saved <- [key \in Key |->
                          LET at == {j \in DOMAIN dumpStr : dumpStr[j].key = key}
                          IN  IF at = {} THEN null ELSE dumpStr[Max(at)].value]

\* The list behaves as the plain map of KeyMap, as seen through the search from
\* the top level.
MapRefinement == Map!Spec

=============================================================================
