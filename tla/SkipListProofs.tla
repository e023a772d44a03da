--------------------------- MODULE SkipListProofs ---------------------------
(***************************************************************************)
(* Theorems about SkipList.tla.  A list is sound if every level is a       *)
(* sorted chain through the towers that reach it and curLevel_ and         *)
(* elementCount_ agree with the towers.  In a sound list every walk ends   *)
(* at the node left of the key, so a search finds what is there and an     *)
(* insert and a delete make a sound list again.                            *)
(***************************************************************************)
EXTENDS SkipList, FiniteSetTheorems, WellFoundedInduction, TLAPS

-----------------------------------------------------------------------------
(* The inductive invariant *)

Alive(l) == DOMAIN l.node \ {header_}

After(l, i, n) == {m \in On(l, i) : m > n}

NextOn(l, i, n) == IF After(l, i, n) = {} THEN null ELSE Min(After(l, i, n))

Before(l, i, key) == {m \in On(l, i) : m < key}

\* Where a walk of level i ends.
LeftOf(l, i, key) == Max(Before(l, i, key))

Towers(l) ==
    /\ header_ \in DOMAIN l.node
    /\ DOMAIN l.node[header_].forward = Level
    /\ DOMAIN l.node \subseteq 0 .. NKey
    /\ \A n \in DOMAIN l.node :
         l.node[n] = [key |-> n, value |-> l.node[n].value, forward |-> l.node[n].forward]
    /\ \A n \in Alive(l) :
         /\ l.node[n].value \in Value
         /\ \E h \in RandomLevel : DOMAIN l.node[n].forward = 0 .. h

Linked(l) ==
    \A i \in Level : \A n \in On(l, i) : l.node[n].forward[i] = NextOn(l, i, n)

Counted(l) ==
    /\ l.cur \in Level
    /\ l.cur # 0 => On(l, l.cur) # {header_}
    /\ \A i \in Level : i > l.cur => On(l, i) = {header_}
    /\ l.count = Cardinality(Alive(l))

Sound(l) == Towers(l) /\ Linked(l) /\ Counted(l)

CallRecord == [pc : {"idle", "delete", "insert"}, key : Key \cup {0},
               value : Value \cup {null}, alone : BOOLEAN]

\* What a thread remembers between the steps of insertSetElement; a key that
\* nobody else touched is not in the list when it is put in.
CallsOK ==
    /\ call \in [Thread -> CallRecord]
    /\ \A t \in Thread :
         /\ ~Idle(t) => call[t].key \in Key /\ call[t].value \in Value
         /\ call[t].pc = "insert" /\ call[t].alone => call[t].key \notin Live

\* A dump is of one moment: a key has one value in it.
DumpOK ==
    /\ dumpStr \in Seq([key : Key, value : Value])
    /\ \A j, k \in DOMAIN dumpStr :
         dumpStr[j].key = dumpStr[k].key => dumpStr[j].value = dumpStr[k].value

OwedOK ==
    /\ owed \subseteq Key
    /\ \A key \in owed : key \in Live \/ \E t \in Thread : call[t].pc = "insert"
                                                           /\ call[t].key = key

SkipListInv == Sound(List) /\ CallsOK /\ DumpOK /\ OwedOK

-----------------------------------------------------------------------------
(* Sets of numbers *)

\* A nonempty set of naturals has a least member.
LEMMA LeastOf ==
    ASSUME NEW S \in SUBSET Nat, S # {}
    PROVE  \E n \in S : \A m \in S : n <= m
<1>1. PICK k \in S : TRUE
  OBVIOUS
<1> DEFINE T == {0 .. n : n \in {m \in S : m <= k}}
<1>2. IsWellFoundedOn(StrictSubsetOrdering(0 .. k), FiniteSubsetsOf(0 .. k))
  BY FS_StrictSubsetOrderingWellFounded
<1>3. T \subseteq FiniteSubsetsOf(0 .. k)
  <2> SUFFICES ASSUME NEW n \in S, n <= k
               PROVE  0 .. n \in FiniteSubsetsOf(0 .. k)
    OBVIOUS
  <2>1. IsFiniteSet(0 .. n)
    BY FS_Interval
  <2> QED BY <2>1 DEF FiniteSubsetsOf
<1>4. T # {}
  OBVIOUS
<1>5. PICK x \in T : \A y \in T : ~(<<y, x>> \in StrictSubsetOrdering(0 .. k))
  <2> HIDE DEF T
  <2> QED BY <1>2, <1>3, <1>4, WFMin
<1>6. PICK n \in S : n <= k /\ x = 0 .. n
  BY <1>5
<1>7. ASSUME NEW m \in S, m < n
      PROVE  FALSE
  <2>1. 0 .. m \in T
    BY <1>6, <1>7
  <2>2. 0 .. m \subseteq 0 .. n /\ 0 .. m # 0 .. n
    BY <1>7
  <2>3. <<0 .. m, x>> \in StrictSubsetOrdering(0 .. k)
    BY <1>6, <1>7, <2>2 DEF StrictSubsetOrdering
  <2> QED BY <1>5, <2>1, <2>3
<1> QED BY <1>6, <1>7

\* And a greatest one, if it is bounded.
LEMMA GreatestOf ==
    ASSUME NEW N \in Nat, NEW S \in SUBSET (0 .. N), S # {}
    PROVE  \E n \in S : \A m \in S : m <= n
<1> DEFINE T == {k \in 0 .. N : N - k \in S}
<1>1. \A m \in S : m \in 0 .. N /\ N - m \in T
  <2> SUFFICES ASSUME NEW m \in S
               PROVE  m \in 0 .. N /\ N - m \in T
    OBVIOUS
  <2>1. m \in 0 .. N
    OBVIOUS
  <2>2. N - m \in 0 .. N /\ N - (N - m) = m
    BY <2>1
  <2> QED BY <2>1, <2>2
<1>2. T \in SUBSET Nat /\ T # {}
  <2>1. 0 .. N \subseteq Nat
    OBVIOUS
  <2>2. PICK m \in S : TRUE
    OBVIOUS
  <2> QED BY <1>1, <2>1, <2>2
<1>3. PICK k \in T : \A x \in T : k <= x
  <2> HIDE DEF T
  <2> QED BY <1>2, LeastOf
<1>4. ASSUME NEW m \in S
      PROVE  m <= N - k
  <2>1. k <= N - m /\ m \in 0 .. N /\ k \in 0 .. N
    BY <1>1, <1>3
  <2> QED BY <2>1
<1> QED BY <1>3, <1>4

LEMMA MinOf ==
    ASSUME NEW S \in SUBSET Nat, S # {}
    PROVE  Min(S) \in S /\ \A m \in S : Min(S) <= m
BY LeastOf DEF Min

LEMMA MaxOf ==
    ASSUME NEW N \in Nat, NEW S \in SUBSET (0 .. N), S # {}
    PROVE  Max(S) \in S /\ \A m \in S : m <= Max(S)
<1>1. PICK n \in S : \A m \in S : m <= n
  BY GreatestOf
<1>2. \A y \in S : y \in 0 .. N /\ n \in 0 .. N /\ n >= y
  BY <1>1
<1>3. Max(S) \in S /\ \A y \in S : Max(S) >= y
  BY <1>2 DEF Max
<1>4. \A y \in S : y \in 0 .. N /\ Max(S) \in 0 .. N
  BY <1>3
<1> QED BY <1>3, <1>4

\* A member with nothing above it is the greatest.
LEMMA MaxIs ==
    ASSUME NEW N \in Nat, NEW S \in SUBSET (0 .. N), NEW x \in S, \A m \in S : m <= x
    PROVE  Max(S) = x
<1>1. Max(S) \in S /\ \A m \in S : m <= Max(S)
  BY MaxOf
<1>2. Max(S) <= x /\ x <= Max(S)
  BY <1>1
<1>3. x \in 0 .. N /\ Max(S) \in 0 .. N
  BY <1>1
<1> QED BY <1>2, <1>3

LEMMA MinIs ==
    ASSUME NEW S \in SUBSET Nat, NEW x \in S, \A m \in S : x <= m
    PROVE  Min(S) = x
<1>1. Min(S) \in S /\ \A m \in S : Min(S) <= m
  BY MinOf
<1>2. Min(S) <= x /\ x <= Min(S) /\ x \in Nat /\ Min(S) \in Nat
  BY <1>1
<1> QED BY <1>2

-----------------------------------------------------------------------------
(* The levels of a sound list *)

LEMMA OnFacts ==
    ASSUME NEW l, Towers(l), NEW i \in Level
    PROVE  /\ On(l, 0) = DOMAIN l.node
           /\ header_ \in On(l, i)
           /\ On(l, i) \subseteq DOMAIN l.node
           /\ On(l, i) \subseteq 0 .. NKey
           /\ i # 0 => i - 1 \in Level /\ On(l, i) \subseteq On(l, i - 1)
<1> USE SkipListAssumption
<1>1. On(l, i) \subseteq DOMAIN l.node
  BY DEF On
<1>2. header_ \in On(l, i)
  BY DEF On, Towers
<1>3. ASSUME NEW n \in DOMAIN l.node
      PROVE  0 \in DOMAIN l.node[n].forward
                /\ (i # 0 /\ i \in DOMAIN l.node[n].forward
                      => i - 1 \in DOMAIN l.node[n].forward)
  <2>1. PICK h \in Nat : DOMAIN l.node[n].forward = 0 .. h
    <3>1. CASE n = header_
      BY <3>1 DEF Towers, Level
    <3>2. CASE n # header_
      BY <3>2 DEF Towers, Alive, RandomLevel
    <3> QED BY <3>1, <3>2
  <2> QED BY <2>1 DEF Level
<1>4. i # 0 => i - 1 \in Level
  BY DEF Level
<1>5. On(l, i) \subseteq 0 .. NKey
  BY <1>1 DEF Towers
<1> QED BY <1>1, <1>2, <1>3, <1>4, <1>5 DEF On

LEMMA LeftFacts ==
    ASSUME NEW l, Towers(l), NEW i \in Level, NEW key \in Key
    PROVE  /\ LeftOf(l, i, key) \in On(l, i)
           /\ LeftOf(l, i, key) \in 0 .. NKey
           /\ LeftOf(l, i, key) < key
           /\ \A m \in On(l, i) : m < key => m <= LeftOf(l, i, key)
<1>1. Before(l, i, key) \in SUBSET (0 .. NKey) /\ header_ \in Before(l, i, key)
  BY OnFacts DEF Before, header_, Key
<1>2. /\ Max(Before(l, i, key)) \in Before(l, i, key)
      /\ \A m \in Before(l, i, key) : m <= Max(Before(l, i, key))
  BY <1>1, MaxOf, SkipListAssumption
<1> QED BY <1>1, <1>2 DEF LeftOf, Before

LEMMA LeftIs ==
    ASSUME NEW l, Towers(l), NEW i \in Level, NEW key \in Key,
           NEW x \in On(l, i), x < key, \A m \in On(l, i) : m < key => m <= x
    PROVE  LeftOf(l, i, key) = x
<1>1. Before(l, i, key) \in SUBSET (0 .. NKey) /\ x \in Before(l, i, key)
  BY OnFacts DEF Before
<1>2. \A m \in Before(l, i, key) : m <= x
  BY DEF Before
<1> QED BY <1>1, <1>2, MaxIs, SkipListAssumption DEF LeftOf

LEMMA NextFacts ==
    ASSUME NEW l, Towers(l), NEW i \in Level, NEW n \in On(l, i)
    PROVE  \/ NextOn(l, i, n) = null /\ \A m \in On(l, i) : m <= n
           \/ /\ NextOn(l, i, n) # null
              /\ NextOn(l, i, n) \in On(l, i)
              /\ NextOn(l, i, n) \in 1 .. NKey
              /\ NextOn(l, i, n) > n
              /\ \A m \in On(l, i) : m > n => NextOn(l, i, n) <= m
<1>1. n \in 0 .. NKey /\ On(l, i) \subseteq 0 .. NKey /\ NKey \in Nat
  BY OnFacts, SkipListAssumption
<1>2. CASE After(l, i, n) = {}
  <2>1. \A m \in On(l, i) : m <= n
    BY <1>1, <1>2 DEF After
  <2> QED BY <1>2, <2>1 DEF NextOn
<1>3. CASE After(l, i, n) # {}
  <2>1. After(l, i, n) \in SUBSET Nat
    BY <1>1 DEF After
  <2> DEFINE x == Min(After(l, i, n))
  <2>2. x \in After(l, i, n) /\ \A m \in After(l, i, n) : x <= m
    BY <1>3, <2>1, MinOf
  <2>3. NextOn(l, i, n) = x
    BY <1>3 DEF NextOn
  <2> HIDE DEF x
  <2>4. x \in On(l, i) /\ x > n
    BY <2>2 DEF After
  <2>5. x \in 0 .. NKey
    BY <1>1, <2>4
  <2>6. x # null /\ x \in 1 .. NKey
    BY <1>1, <2>4, <2>5, NullAssumption
  <2>7. \A m \in On(l, i) : m > n => x <= m
    BY <2>2 DEF After
  <2> QED BY <2>3, <2>4, <2>6, <2>7
<1> QED BY <1>2, <1>3

LEMMA NextIs ==
    ASSUME NEW l, Towers(l), NEW i \in Level, NEW n \in On(l, i),
           NEW x \in On(l, i), x > n, \A m \in On(l, i) : m > n => x <= m
    PROVE  NextOn(l, i, n) = x
<1>1. After(l, i, n) \in SUBSET Nat /\ x \in After(l, i, n)
  BY OnFacts, SkipListAssumption DEF After
<1>2. \A m \in After(l, i, n) : x <= m
  BY DEF After
<1>3. Min(After(l, i, n)) = x
  BY <1>1, <1>2, MinIs
<1> QED BY <1>1, <1>3 DEF NextOn

LEMMA NextNull ==
    ASSUME NEW l, NEW i, NEW n, \A m \in On(l, i) : ~(m > n)
    PROVE  NextOn(l, i, n) = null
BY DEF NextOn, After

-----------------------------------------------------------------------------
(* The walks *)

\* What the definition of a walk asks of the function it names.
WalkStep(l, i, key, f, m) ==
    LET next == l.node[m].forward[i]
    IN  IF next # null /\ next < key THEN f[next] ELSE m

IsWalk(l, i, key, f) == f = [m \in On(l, i) |-> WalkStep(l, i, key, f, m)]

\* skipList.h:242: a walk from the left of key ends at the last node before key.
LEMMA WalkEnds ==
    ASSUME NEW l, Towers(l), Linked(l), NEW i \in Level, NEW key \in Key,
           NEW n \in On(l, i), n < key
    PROVE  Walk(l, n, i, key) = LeftOf(l, i, key)
<1> DEFINE left == LeftOf(l, i, key)
<1>0. /\ NKey \in Nat /\ key \in 1 .. NKey /\ On(l, i) \subseteq 0 .. NKey
      /\ left \in On(l, i) /\ left \in 0 .. NKey /\ left < key
      /\ \A m \in On(l, i) : m < key => m <= left
  BY LeftFacts, OnFacts, SkipListAssumption DEF Key
<1> HIDE DEF left
<1>1. ASSUME NEW m \in On(l, i)
      PROVE  l.node[m].forward[i] = NextOn(l, i, m)
  BY DEF Linked
<1>2. ASSUME NEW m \in On(l, i), m < key, NEW next, next = NextOn(l, i, m)
      PROVE  IF next # null /\ next < key
             THEN next \in On(l, i) /\ next > m
             ELSE m = left
  <2>1. CASE next = null
    <3>1. \A x \in On(l, i) : x <= m
      BY <1>2, <2>1, NextFacts
    <3>2. left <= m /\ m <= left /\ m \in 0 .. NKey
      BY <1>0, <1>2, <3>1
    <3>3. m = left
      BY <1>0, <3>2
    <3> QED BY <2>1, <3>3
  <2>2. CASE next # null
    <3>1. /\ next \in On(l, i) /\ next > m /\ next \in 1 .. NKey
          /\ \A x \in On(l, i) : x > m => next <= x
      BY <1>2, <2>2, NextFacts
    <3>2. CASE next < key
      BY <2>2, <3>1, <3>2
    <3>3. CASE ~(next < key)
      <4>1. ~(left > m)
        <5>1. left > m => next <= left
          BY <1>0, <3>1
        <5> QED BY <1>0, <3>1, <3>3, <5>1
      <4>2. m \in 0 .. NKey /\ m <= left
        BY <1>0, <1>2
      <4>3. m = left
        BY <1>0, <4>1, <4>2
      <4> QED BY <3>3, <4>3
    <3> QED BY <3>2, <3>3
  <2> QED BY <2>1, <2>2
<1>3. PICK f : f = [m \in On(l, i) |-> IF m < key THEN left ELSE m]
  OBVIOUS
<1>4. ASSUME NEW m \in On(l, i)
      PROVE  f[m] = WalkStep(l, i, key, f, m)
  <2> DEFINE next == l.node[m].forward[i]
  <2>1. next = NextOn(l, i, m)
    BY <1>1
  <2> HIDE DEF next
  <2>2. CASE m < key
    <3>1. CASE next # null /\ next < key
      <4>1. next \in On(l, i)
        BY <1>2, <2>1, <2>2, <3>1
      <4>2. f[next] = left /\ f[m] = left
        BY <1>3, <2>2, <3>1, <4>1
      <4> QED BY <3>1, <4>2 DEF WalkStep, next
    <3>2. CASE ~(next # null /\ next < key)
      <4>1. m = left
        BY <1>2, <2>1, <2>2, <3>2
      <4>2. f[m] = m
        BY <1>3, <2>2, <4>1
      <4> QED BY <3>2, <4>2 DEF WalkStep, next
    <3> QED BY <3>1, <3>2
  <2>3. CASE ~(m < key)
    <3>1. next # null => ~(next < key)
      <4>1. next # null => next > m /\ next \in 1 .. NKey
        BY <2>1, NextFacts
      <4>2. m \in 0 .. NKey
        BY <1>0
      <4> QED BY <1>0, <2>3, <4>1, <4>2
    <3>2. f[m] = m
      BY <1>3, <2>3
    <3> QED BY <3>1, <3>2 DEF WalkStep, next
  <2> QED BY <2>2, <2>3
<1>5. IsWalk(l, i, key, f)
  BY <1>3, <1>4 DEF IsWalk
<1>6. ASSUME NEW g, IsWalk(l, i, key, g)
      PROVE  g[n] = left
  <2> DEFINE S == {m \in On(l, i) : m < key /\ g[m] # left}
  <2>1. ASSUME NEW m \in S, \A x \in S : x <= m
        PROVE  FALSE
    <3> DEFINE next == l.node[m].forward[i]
    <3>1. m \in On(l, i) /\ m < key /\ g[m] # left
      OBVIOUS
    <3>2. next = NextOn(l, i, m)
      BY <1>1, <3>1
    <3>3. g[m] = IF next # null /\ next < key THEN g[next] ELSE m
      BY <1>6, <3>1 DEF IsWalk, WalkStep
    <3> HIDE DEF next
    <3>4. CASE next # null /\ next < key
      <4>1. next \in On(l, i) /\ next > m
        BY <1>2, <3>1, <3>2, <3>4
      <4>2. next \in 0 .. NKey /\ m \in 0 .. NKey
        BY <1>0, <3>1, <4>1
      <4>3. next \notin S
        <5>1. ~(next <= m)
          BY <4>1, <4>2
        <5> HIDE DEF S
        <5> QED BY <2>1, <5>1
      <4>4. g[next] = left
        BY <3>4, <4>1, <4>3
      <4> QED BY <3>1, <3>3, <3>4, <4>4
    <3>5. CASE ~(next # null /\ next < key)
      <4>1. m = left
        BY <1>2, <3>1, <3>2, <3>5
      <4> QED BY <3>1, <3>3, <3>5, <4>1
    <3> QED BY <3>4, <3>5
  <2>2. S \in SUBSET (0 .. NKey)
    BY <1>0
  <2>3. S = {}
    <3> HIDE DEF S
    <3> QED BY <1>0, <2>1, <2>2, GreatestOf
  <2> QED BY <1>6, <2>3
<1>7. Walk(l, n, i, key) = (CHOOSE g : IsWalk(l, i, key, g))[n]
  BY Zenon DEF Walk, IsWalk, WalkStep
<1>8. IsWalk(l, i, key, CHOOSE g : IsWalk(l, i, key, g))
  BY <1>5, Zenon
<1> QED BY <1>6, <1>7, <1>8 DEF left

IsUpdate(l, key, f) ==
    f = [i \in 0 .. l.cur |-> Walk(l, IF i = l.cur THEN header_ ELSE f[i + 1], i, key)]

\* skipList.h:187-198: update[i] is the last node before key on level i, although
\* only the walk of the top level starts at the header.
LEMMA UpdateEnds ==
    ASSUME NEW l, Sound(l), NEW key \in Key
    PROVE  \A i \in 0 .. l.cur : update(l, key)[i] = LeftOf(l, i, key)
<1>1. /\ Towers(l) /\ Linked(l) /\ l.cur \in Nat /\ 0 .. l.cur \subseteq Level
      /\ key \in 1 .. NKey /\ NKey \in Nat /\ header_ < key
  BY SkipListAssumption DEF Sound, Counted, Level, Key, header_
<1>2. ASSUME NEW i \in 0 .. l.cur, i # l.cur
      PROVE  /\ i + 1 \in 0 .. l.cur
             /\ LeftOf(l, i + 1, key) \in On(l, i)
             /\ LeftOf(l, i + 1, key) < key
  <2>1. i + 1 \in 0 .. l.cur /\ i + 1 \in Level /\ i + 1 # 0 /\ (i + 1) - 1 = i
    BY <1>1, <1>2
  <2> QED BY <1>1, <2>1, LeftFacts, OnFacts
<1>3. PICK f : f = [i \in 0 .. l.cur |-> LeftOf(l, i, key)]
  OBVIOUS
<1>4. ASSUME NEW i \in 0 .. l.cur
      PROVE  f[i] = Walk(l, IF i = l.cur THEN header_ ELSE f[i + 1], i, key)
  <2>1. i \in Level /\ header_ \in On(l, i)
    BY <1>1, OnFacts
  <2>2. CASE i = l.cur
    <3>1. Walk(l, header_, i, key) = LeftOf(l, i, key)
      BY <1>1, <2>1, WalkEnds
    <3> QED BY <1>3, <2>2, <3>1
  <2>3. CASE i # l.cur
    <3>1. Walk(l, LeftOf(l, i + 1, key), i, key) = LeftOf(l, i, key)
      BY <1>1, <1>2, <2>1, <2>3, WalkEnds
    <3>2. f[i + 1] = LeftOf(l, i + 1, key) /\ f[i] = LeftOf(l, i, key)
      BY <1>2, <1>3, <2>3
    <3> QED BY <2>3, <3>1, <3>2
  <2> QED BY <2>2, <2>3
<1>5. IsUpdate(l, key, f)
  BY <1>3, <1>4 DEF IsUpdate
<1>6. ASSUME NEW g, IsUpdate(l, key, g)
      PROVE  \A i \in 0 .. l.cur : g[i] = LeftOf(l, i, key)
  <2> DEFINE S == {i \in 0 .. l.cur : g[i] # LeftOf(l, i, key)}
  <2>1. ASSUME NEW i \in S, \A x \in S : x <= i
        PROVE  FALSE
    <3>1. i \in 0 .. l.cur /\ g[i] # LeftOf(l, i, key)
      OBVIOUS
    <3>2. i \in Level /\ header_ \in On(l, i)
      BY <1>1, <3>1, OnFacts
    <3>3. g[i] = Walk(l, IF i = l.cur THEN header_ ELSE g[i + 1], i, key)
      BY <1>6, <3>1 DEF IsUpdate
    <3>4. CASE i = l.cur
      <4>1. Walk(l, header_, i, key) = LeftOf(l, i, key)
        BY <1>1, <3>2, WalkEnds
      <4> QED BY <3>1, <3>3, <3>4, <4>1
    <3>5. CASE i # l.cur
      <4>1. i + 1 \in 0 .. l.cur
        BY <1>2, <3>1, <3>5
      <4>2. i + 1 \notin S
        <5>1. ~(i + 1 <= i)
          BY <3>1, <1>1
        <5> HIDE DEF S
        <5> QED BY <2>1, <5>1
      <4>3. g[i + 1] = LeftOf(l, i + 1, key)
        BY <4>1, <4>2
      <4>4. Walk(l, LeftOf(l, i + 1, key), i, key) = LeftOf(l, i, key)
        BY <1>1, <1>2, <3>1, <3>2, <3>5, WalkEnds
      <4> QED BY <3>1, <3>3, <3>5, <4>3, <4>4
    <3> QED BY <3>4, <3>5
  <2>2. S \in SUBSET (0 .. l.cur)
    OBVIOUS
  <2>3. S = {}
    <3> HIDE DEF S
    <3> QED BY <1>1, <2>1, <2>2, GreatestOf
  <2> QED BY <2>3
<1>7. update(l, key) = CHOOSE g : IsUpdate(l, key, g)
  BY Zenon DEF update, IsUpdate
<1>8. IsUpdate(l, key, CHOOSE g : IsUpdate(l, key, g))
  BY <1>5, Zenon
<1> QED BY <1>6, <1>7, <1>8

\* The node right of where the walk of a level ends is the node of key, if it
\* stands on that level.
LEMMA RightOfLeft ==
    ASSUME NEW l, Towers(l), NEW i \in Level, NEW key \in Key
    PROVE  NextOn(l, i, LeftOf(l, i, key)) = key <=> key \in On(l, i)
<1> DEFINE left == LeftOf(l, i, key)
<1>1. key \in 1 .. NKey /\ NKey \in Nat /\ On(l, i) \subseteq 0 .. NKey
  BY OnFacts, SkipListAssumption DEF Key
<1>2. /\ left \in On(l, i) /\ left < key /\ left \in 0 .. NKey
      /\ \A m \in On(l, i) : m < key => m <= left
  BY LeftFacts
<1> HIDE DEF left
<1>3. ASSUME key \in On(l, i)
      PROVE  NextOn(l, i, left) = key
  <2>1. \A m \in On(l, i) : m > left => key <= m
    <3> SUFFICES ASSUME NEW m \in On(l, i), m > left
                 PROVE  key <= m
      OBVIOUS
    <3>1. m \in 0 .. NKey /\ ~(m < key)
      BY <1>1, <1>2
    <3> QED BY <1>1, <3>1
  <2>2. key > left
    BY <1>1, <1>2
  <2> QED BY <1>2, <1>3, <2>1, <2>2, NextIs
<1>4. ASSUME NextOn(l, i, left) = key
      PROVE  key \in On(l, i)
  <2>1. key # null
    BY <1>1, NullAssumption
  <2> QED BY <1>2, <1>4, <2>1, NextFacts
<1> QED BY <1>3, <1>4 DEF left

\* skipList.h:247-249: a search that ends left of key looks at the next node.
LEMMA FoundIff ==
    ASSUME NEW l, Sound(l), NEW key \in Key
    PROVE  Found(l, key) <=> key \in Alive(l)
<1>1. Towers(l) /\ Linked(l) /\ 0 \in 0 .. l.cur /\ 0 \in Level
  BY SkipListAssumption DEF Sound, Counted, Level
<1>2. l.node[update(l, key)[0]].forward[0] = NextOn(l, 0, LeftOf(l, 0, key))
  BY <1>1, UpdateEnds, LeftFacts DEF Linked
<1>3. key \in On(l, 0) <=> key \in Alive(l)
  BY <1>1, OnFacts, SkipListAssumption DEF Alive, Key, header_
<1> QED BY <1>1, <1>2, <1>3, RightOfLeft DEF Found

-----------------------------------------------------------------------------
(* An insert *)

\* The list after an insert of a key that was not there.
IsLinkedIn(l, key, value, level, k) ==
    /\ DOMAIN k.node = DOMAIN l.node \cup {key}
    /\ k.node[key] = [key |-> key, value |-> value,
                      forward |-> [i \in 0 .. level |-> NextOn(l, i, LeftOf(l, i, key))]]
    /\ \A n \in DOMAIN l.node :
         k.node[n] = [key |-> n, value |-> l.node[n].value,
                      forward |-> [i \in DOMAIN l.node[n].forward |->
                        IF i <= level /\ LeftOf(l, i, key) = n THEN key
                        ELSE l.node[n].forward[i]]]
    /\ k.cur = IF level > l.cur THEN level ELSE l.cur
    /\ k.count = l.count + 1

LEMMA InsertedParts ==
    ASSUME NEW l, Sound(l), NEW key \in Key, key \notin Alive(l), NEW value,
           NEW level \in RandomLevel, NEW k, k = Inserted(l, key, value, level)
    PROVE  IsLinkedIn(l, key, value, level, k)
<1> DEFINE left(i) == IF i <= l.cur THEN update(l, key)[i] ELSE header_
           fwd(n) == [i \in DOMAIN l.node[n].forward |->
                        IF i <= level /\ left(i) = n THEN key ELSE l.node[n].forward[i]]
           linked(n) == [l.node[n] EXCEPT !.forward = fwd(n)]
           new == Tower(key, value, level, [i \in 0 .. level |-> l.node[left(i)].forward[i]])
<1>0. /\ Towers(l) /\ Linked(l) /\ Counted(l) /\ l.cur \in Level /\ maxLevel_ \in Nat
      /\ level \in 1 .. maxLevel_
  BY SkipListAssumption DEF Sound, Counted, RandomLevel
<1>1. ASSUME NEW i \in Level
      PROVE  left(i) = LeftOf(l, i, key)
  <2>1. CASE i <= l.cur
    <3>1. i \in 0 .. l.cur
      BY <1>0, <2>1 DEF Level
    <3>2. update(l, key)[i] = LeftOf(l, i, key)
      BY <3>1, UpdateEnds
    <3> QED BY <2>1, <3>2
  <2>2. CASE ~(i <= l.cur)
    <3>1. i > l.cur
      BY <1>0, <2>2 DEF Level
    <3>2. On(l, i) = {header_}
      BY <1>0, <3>1 DEF Counted
    <3>3. LeftOf(l, i, key) = header_
      BY <1>0, <3>2, LeftFacts
    <3> QED BY <2>2, <3>3
  <2> QED BY <2>1, <2>2
<1>2. ASSUME NEW i \in Level
      PROVE  l.node[left(i)].forward[i] = NextOn(l, i, LeftOf(l, i, key))
  BY <1>0, <1>1, LeftFacts DEF Linked
<1>3. 0 .. level \subseteq Level
  BY <1>0 DEF Level
<1>4. ~Found(l, key)
  BY FoundIff
<1>5. key \notin DOMAIN l.node
  BY <1>0, SkipListAssumption DEF Alive, Key, header_
<1>6. k = [node |-> [n \in DOMAIN l.node \cup {key} |-> IF n = key THEN new ELSE linked(n)],
           cur |-> IF level > l.cur THEN level ELSE l.cur,
           count |-> l.count + 1]
  BY <1>4, Zenon DEF Inserted
<1>9. DOMAIN k.node = DOMAIN l.node \cup {key} /\ k.node[key] = new
      /\ \A n \in DOMAIN l.node : k.node[n] = linked(n)
  <2> HIDE DEF new, linked
  <2> QED BY <1>5, <1>6
<1> HIDE DEF left
<1>7. k.node[key] = [key |-> key, value |-> value,
                     forward |-> [i \in 0 .. level |-> NextOn(l, i, LeftOf(l, i, key))]]
  <2>1. k.node[key] = Tower(key, value, level, [i \in 0 .. level |-> l.node[left(i)].forward[i]])
    BY <1>9
  <2>2. [i \in 0 .. level |-> [j \in 0 .. level |-> l.node[left(j)].forward[j]][i]]
          = [i \in 0 .. level |-> NextOn(l, i, LeftOf(l, i, key))]
    BY <1>2, <1>3
  <2> QED BY <2>1, <2>2 DEF Tower
<1>8. ASSUME NEW n \in DOMAIN l.node
      PROVE  k.node[n] = [key |-> n, value |-> l.node[n].value,
                          forward |-> [i \in DOMAIN l.node[n].forward |->
                            IF i <= level /\ LeftOf(l, i, key) = n THEN key
                            ELSE l.node[n].forward[i]]]
  <2>1. l.node[n] = [key |-> n, value |-> l.node[n].value, forward |-> l.node[n].forward]
    BY <1>0 DEF Towers
  <2>2. k.node[n] = [l.node[n] EXCEPT !.forward = fwd(n)]
    BY <1>9
  <2>3. ASSUME NEW i \in DOMAIN l.node[n].forward
        PROVE  i \in Level
    <3>1. CASE n = header_
      BY <1>0, <3>1 DEF Towers
    <3>2. CASE n # header_
      <4>1. n \in Alive(l)
        BY <3>2 DEF Alive
      <4>2. PICK h \in 1 .. maxLevel_ : DOMAIN l.node[n].forward = 0 .. h
        BY <1>0, <4>1 DEF Towers, RandomLevel
      <4> QED BY <1>0, <4>2 DEF Level
    <3> QED BY <3>1, <3>2
  <2>4. fwd(n) = [i \in DOMAIN l.node[n].forward |->
                 IF i <= level /\ LeftOf(l, i, key) = n THEN key ELSE l.node[n].forward[i]]
    BY <1>1, <2>3
  <2>5. [l.node[n] EXCEPT !.forward = fwd(n)]
          = [key |-> n, value |-> l.node[n].value, forward |-> fwd(n)]
    <3> HIDE DEF fwd
    <3> QED BY <2>1
  <2> HIDE DEF fwd
  <2> QED BY <2>2, <2>4, <2>5
<1>10. k.cur = (IF level > l.cur THEN level ELSE l.cur) /\ k.count = l.count + 1
  <2> HIDE DEF new, linked
  <2> QED BY <1>6
<1> QED BY <1>7, <1>8, <1>9, <1>10 DEF IsLinkedIn

\* A tower stands on every level up to its own and on none above.
LEMMA Reaches ==
    ASSUME NEW l, Towers(l), NEW n \in DOMAIN l.node
    PROVE  DOMAIN l.node[n].forward \subseteq Level
<1>1. CASE n = header_
  BY <1>1 DEF Towers
<1>2. CASE n # header_
  <2>1. PICK h \in 1 .. maxLevel_ : DOMAIN l.node[n].forward = 0 .. h
    BY <1>2 DEF Towers, RandomLevel, Alive
  <2> QED BY <2>1, SkipListAssumption DEF Level
<1> QED BY <1>1, <1>2

\* skipList.h:207-226: the new node is put on its levels behind update[i].
LEMMA InsertedSound ==
    ASSUME NEW l, Sound(l), NEW key \in Key, key \notin Alive(l), NEW value \in Value,
           NEW level \in RandomLevel, NEW k, k = Inserted(l, key, value, level)
    PROVE  Sound(k)
<1>0. /\ Towers(l) /\ Linked(l) /\ Counted(l) /\ l.cur \in Level /\ maxLevel_ \in Nat
      /\ level \in 1 .. maxLevel_ /\ NKey \in Nat /\ key \in 1 .. NKey
  BY SkipListAssumption DEF Sound, Counted, RandomLevel, Key
<1>p. /\ DOMAIN k.node = DOMAIN l.node \cup {key}
      /\ k.node[key] = [key |-> key, value |-> value,
                        forward |-> [i \in 0 .. level |-> NextOn(l, i, LeftOf(l, i, key))]]
      /\ \A n \in DOMAIN l.node :
           k.node[n] = [key |-> n, value |-> l.node[n].value,
                        forward |-> [i \in DOMAIN l.node[n].forward |->
                          IF i <= level /\ LeftOf(l, i, key) = n THEN key
                          ELSE l.node[n].forward[i]]]
      /\ k.cur = IF level > l.cur THEN level ELSE l.cur
      /\ k.count = l.count + 1
  BY InsertedParts DEF IsLinkedIn
<1>1. key \notin DOMAIN l.node /\ Alive(k) = Alive(l) \cup {key}
  BY <1>0, <1>p DEF Alive, header_
<1>2. /\ DOMAIN k.node[key].forward = 0 .. level
      /\ k.node[key].value = value
      /\ k.node[key] = [key |-> key, value |-> k.node[key].value,
                        forward |-> k.node[key].forward]
  BY <1>p
<1>3. ASSUME NEW n \in DOMAIN l.node
      PROVE  /\ DOMAIN k.node[n].forward = DOMAIN l.node[n].forward
             /\ k.node[n].value = l.node[n].value
             /\ k.node[n] = [key |-> n, value |-> k.node[n].value,
                             forward |-> k.node[n].forward]
             /\ \A i \in DOMAIN l.node[n].forward :
                  k.node[n].forward[i] = IF i <= level /\ LeftOf(l, i, key) = n THEN key
                                         ELSE l.node[n].forward[i]
  <2>1. k.node[n] = [key |-> n, value |-> l.node[n].value,
                     forward |-> [i \in DOMAIN l.node[n].forward |->
                       IF i <= level /\ LeftOf(l, i, key) = n THEN key
                       ELSE l.node[n].forward[i]]]
    BY <1>p
  <2>2. /\ k.node[n].value = l.node[n].value
        /\ k.node[n].forward = [i \in DOMAIN l.node[n].forward |->
                       IF i <= level /\ LeftOf(l, i, key) = n THEN key
                       ELSE l.node[n].forward[i]]
    BY <2>1
  <2> QED BY <2>1, <2>2
<1>4. Towers(k)
  <2>1. header_ \in DOMAIN k.node /\ DOMAIN k.node[header_].forward = Level
    BY <1>0, <1>p, <1>3 DEF Towers
  <2>2. DOMAIN k.node \subseteq 0 .. NKey
    BY <1>0, <1>p DEF Towers
  <2>3. \A n \in DOMAIN k.node : k.node[n] = [key |-> n, value |-> k.node[n].value,
                                              forward |-> k.node[n].forward]
    BY <1>p, <1>2, <1>3
  <2>4. ASSUME NEW n \in Alive(k)
        PROVE  k.node[n].value \in Value /\ \E h \in RandomLevel : DOMAIN k.node[n].forward = 0 .. h
    <3>1. CASE n = key
      BY <1>2, <3>1
    <3>2. CASE n # key
      <4>1. n \in Alive(l)
        BY <1>1, <3>2
      <4>2. n \in DOMAIN l.node
        BY <4>1 DEF Alive
      <4>3. l.node[n].value \in Value /\ \E h \in RandomLevel : DOMAIN l.node[n].forward = 0 .. h
        BY <1>0, <4>1 DEF Towers
      <4> QED BY <1>3, <4>2, <4>3
    <3> QED BY <3>1, <3>2
  <2> QED BY <2>1, <2>2, <2>3, <2>4 DEF Towers
<1>5. ASSUME NEW i \in Level
      PROVE  On(k, i) = On(l, i) \cup (IF i <= level THEN {key} ELSE {})
  <2>1. i \in 0 .. level <=> i <= level
    BY <1>0 DEF Level
  <2> QED BY <1>p, <1>1, <1>2, <1>3, <2>1 DEF On
<1>6. ASSUME NEW i \in Level
      PROVE  /\ LeftOf(l, i, key) \in On(l, i) /\ LeftOf(l, i, key) < key
             /\ \A m \in On(l, i) : m < key => m <= LeftOf(l, i, key)
             /\ On(l, i) \subseteq 0 .. NKey /\ On(l, i) \subseteq DOMAIN l.node
             /\ key \notin On(l, i)
  BY <1>0, <1>1, LeftFacts, OnFacts
<1>7. ASSUME NEW i \in Level, NEW n \in On(k, i)
      PROVE  k.node[n].forward[i] = NextOn(k, i, n)
  <2> DEFINE left == LeftOf(l, i, key)
  <2>0. left \in 0 .. NKey /\ left \in On(l, i)
    BY <1>6
  <2>1. CASE ~(i <= level)
    <3>1. On(k, i) = On(l, i)
      BY <1>5, <2>1
    <3>2. NextOn(k, i, n) = NextOn(l, i, n)
      BY <3>1 DEF NextOn, After
    <3>3. n \in DOMAIN l.node /\ i \in DOMAIN l.node[n].forward
      BY <3>1 DEF On
    <3>4. k.node[n].forward[i] = l.node[n].forward[i]
      BY <1>3, <2>1, <3>3
    <3> QED BY <1>0, <3>1, <3>2, <3>4 DEF Linked
  <2>2. CASE i <= level /\ n = key
    <3>1. On(k, i) = On(l, i) \cup {key}
      BY <1>5, <2>2
    <3>2. i \in 0 .. level
      BY <1>0, <2>2 DEF Level
    <3>3. k.node[n].forward[i] = NextOn(l, i, left)
      <4>1. k.node[key].forward = [j \in 0 .. level |-> NextOn(l, j, LeftOf(l, j, key))]
        BY <1>p
      <4> QED BY <2>2, <3>2, <4>1
    <3>4. After(k, i, key) = After(l, i, left)
      <4>1. ASSUME NEW m \in On(l, i)
            PROVE  m > key <=> m > left
        <5>1. m \in 0 .. NKey /\ m # key
          BY <1>6
        <5>2. m < key => m <= left
          BY <1>6
        <5>3. left < key
          BY <1>6
        <5> HIDE DEF left
        <5> QED BY <1>0, <2>0, <5>1, <5>2, <5>3
      <4>2. ~(key > key) /\ ~(key \in On(l, i))
        BY <1>0, <1>6
      <4> HIDE DEF left
      <4> QED BY <3>1, <4>1, <4>2 DEF After
    <3>5. NextOn(k, i, key) = NextOn(l, i, left)
      BY <3>4 DEF NextOn
    <3> QED BY <2>2, <3>3, <3>5
  <2>3. CASE i <= level /\ n # key
    <3>1. On(k, i) = On(l, i) \cup {key} /\ n \in On(l, i)
      BY <1>5, <2>3
    <3>2. n \in DOMAIN l.node /\ i \in DOMAIN l.node[n].forward /\ n \in 0 .. NKey
      BY <1>6, <3>1 DEF On
    <3>3. CASE left = n
      <4>1. k.node[n].forward[i] = key
        BY <1>3, <2>3, <3>2, <3>3
      <4>2. \A m \in On(k, i) : m > n => key <= m
        <5> SUFFICES ASSUME NEW m \in On(k, i), m > n, m # key
                     PROVE  key <= m
          BY <1>0
        <5>1. m \in On(l, i) /\ m \in 0 .. NKey
          BY <1>6, <3>1
        <5>2. ~(m < key)
          <6>1. m < key => m <= n
            BY <1>6, <3>3, <5>1
          <6> QED BY <3>2, <5>1, <6>1
        <5> QED BY <1>0, <5>1, <5>2
      <4>3. key \in On(k, i) /\ key > n
        BY <1>0, <1>6, <3>1, <3>2, <3>3
      <4>4. NextOn(k, i, n) = key
        BY <1>4, <3>1, <4>2, <4>3, NextIs
      <4> QED BY <4>1, <4>4
    <3>4. CASE left # n
      <4>1. k.node[n].forward[i] = NextOn(l, i, n)
        <5>1. l.node[n].forward[i] = NextOn(l, i, n)
          BY <1>0, <3>1 DEF Linked
        <5> QED BY <1>3, <3>2, <3>4, <5>1
      <4>2. CASE n < key
        <5>1. left > n
          <6>1. n <= left
            BY <1>6, <3>1, <4>2
          <6> HIDE DEF left
          <6> QED BY <2>0, <3>2, <3>4, <6>1
        <5>2. /\ NextOn(l, i, n) \in On(l, i) /\ NextOn(l, i, n) > n
              /\ \A m \in On(l, i) : m > n => NextOn(l, i, n) <= m
          <6>1. ~(\A m \in On(l, i) : m <= n)
            <7> HIDE DEF left
            <7> QED BY <2>0, <3>2, <5>1
          <6> QED BY <1>0, <3>1, <6>1, NextFacts
        <5> DEFINE next == NextOn(l, i, n)
        <5>3. next <= left /\ next \in 0 .. NKey /\ left < key
          BY <1>6, <2>0, <5>1, <5>2
        <5>4. next <= key
          <6> HIDE DEF left, next
          <6> QED BY <1>0, <2>0, <5>3
        <5>5. \A m \in On(k, i) : m > n => next <= m
          <6> HIDE DEF next
          <6> QED BY <3>1, <5>2, <5>4 DEF next
        <5>6. next \in On(k, i) /\ next > n
          BY <3>1, <5>2
        <5>7. NextOn(k, i, n) = next
          <6> HIDE DEF next
          <6> QED BY <1>4, <3>1, <5>5, <5>6, NextIs
        <5> QED BY <4>1, <5>7
      <4>3. CASE ~(n < key)
        <5>1. ~(key > n)
          BY <1>0, <3>2, <4>3
        <5>2. After(k, i, n) = After(l, i, n)
          BY <3>1, <5>1 DEF After
        <5> QED BY <4>1, <5>2 DEF NextOn
      <4> QED BY <4>2, <4>3
    <3> QED BY <3>3, <3>4
  <2> QED BY <2>1, <2>2, <2>3
<1>8. Counted(k)
  <2>1. k.cur \in Level /\ k.cur >= level /\ k.cur >= l.cur
    BY <1>0, <1>p DEF Level
  <2>2. k.cur # 0 => On(k, k.cur) # {header_}
    <3>1. CASE level > l.cur
      <4>1. k.cur = level /\ level \in Level /\ level <= level
        BY <1>0, <1>p, <3>1 DEF Level
      <4>2. key \in On(k, level)
        BY <1>5, <4>1
      <4> QED BY <1>0, <4>1, <4>2 DEF header_
    <3>2. CASE ~(level > l.cur)
      <4>1. k.cur = l.cur /\ level <= l.cur
        BY <1>0, <1>p, <3>2 DEF Level
      <4>2. l.cur # 0
        BY <1>0, <4>1 DEF Level
      <4>3. On(l, l.cur) # {header_} /\ header_ \in On(l, l.cur)
        BY <1>0, <4>2, OnFacts DEF Counted
      <4>4. On(l, l.cur) \subseteq On(k, k.cur)
        BY <1>0, <1>5, <4>1
      <4> QED BY <4>3, <4>4
    <3> QED BY <3>1, <3>2
  <2>3. ASSUME NEW i \in Level, i > k.cur
        PROVE  On(k, i) = {header_}
    <3>1. ~(i <= level) /\ i > l.cur
      BY <1>0, <1>p, <2>1, <2>3 DEF Level
    <3>2. On(l, i) = {header_}
      BY <1>0, <3>1 DEF Counted
    <3> QED BY <1>5, <3>1, <3>2
  <2>4. k.count = Cardinality(Alive(k))
    <3>1. IsFiniteSet(0 .. NKey)
      BY <1>0, FS_Interval
    <3>2. IsFiniteSet(Alive(l))
      BY <1>0, <3>1, FS_Subset DEF Alive, Towers
    <3>3. key \notin Alive(l)
      OBVIOUS
    <3>4. Cardinality(Alive(l) \cup {key}) = Cardinality(Alive(l)) + 1
      BY <3>2, <3>3, FS_AddElement
    <3> QED BY <1>0, <1>1, <1>p, <3>4 DEF Counted
  <2> QED BY <2>1, <2>2, <2>3, <2>4 DEF Counted
<1> QED BY <1>4, <1>7, <1>8 DEF Sound, Linked

-----------------------------------------------------------------------------
(* A delete *)

\* skipList.h:279-286: the break ends the unlinking at the first level the node is
\* not on, and the node is on every level below that and on none above.
LEMMA UnlinkedLevels ==
    ASSUME NEW l, Sound(l), NEW key \in Key, NEW i
    PROVE  (/\ i \in 0 .. l.cur
            /\ \A j \in 0 .. i : l.node[update(l, key)[j]].forward[j] = key)
             <=> i \in Level /\ key \in On(l, i)
<1>0. /\ Towers(l) /\ Linked(l) /\ Counted(l) /\ l.cur \in Level /\ maxLevel_ \in Nat
      /\ 0 .. l.cur \subseteq Level /\ key # header_ /\ Level \subseteq Nat
  BY SkipListAssumption DEF Sound, Counted, Level, Key, header_
<1>1. ASSUME NEW j \in 0 .. l.cur
      PROVE  l.node[update(l, key)[j]].forward[j] = key <=> key \in On(l, j)
  <2>1. l.node[update(l, key)[j]].forward[j] = NextOn(l, j, LeftOf(l, j, key))
    BY <1>0, UpdateEnds, LeftFacts DEF Linked
  <2> QED BY <1>0, <2>1, RightOfLeft
<1>2. ASSUME i \in 0 .. l.cur, \A j \in 0 .. i : l.node[update(l, key)[j]].forward[j] = key
      PROVE  i \in Level /\ key \in On(l, i)
  <2>1. i \in 0 .. i
    BY <1>0, <1>2
  <2> QED BY <1>0, <1>1, <1>2, <2>1
<1>3. ASSUME i \in Level, key \in On(l, i)
      PROVE  /\ i \in 0 .. l.cur
             /\ \A j \in 0 .. i : l.node[update(l, key)[j]].forward[j] = key
  <2>1. i \in 0 .. l.cur
    <3>1. ~(i > l.cur)
      BY <1>0, <1>3 DEF Counted
    <3> QED BY <1>0, <1>3, <3>1 DEF Level
  <2>2. ASSUME NEW j \in 0 .. i
        PROVE  key \in On(l, j)
    <3>1. key \in DOMAIN l.node /\ i \in DOMAIN l.node[key].forward
      BY <1>3 DEF On
    <3>2. PICK h \in Nat : DOMAIN l.node[key].forward = 0 .. h
      BY <1>0, <3>1 DEF Towers, Alive, RandomLevel
    <3>3. j \in 0 .. h
      BY <1>3, <3>1, <3>2 DEF Level
    <3> QED BY <3>1, <3>2, <3>3 DEF On
  <2>3. \A j \in 0 .. i : j \in 0 .. l.cur
    BY <1>0, <2>1 DEF Level
  <2> QED BY <1>1, <2>1, <2>2, <2>3
<1> QED BY <1>2, <1>3

IsUnlinked(l, key, k) ==
    /\ DOMAIN k.node = DOMAIN l.node \ {key}
    /\ \A n \in DOMAIN l.node \ {key} :
         k.node[n] = [key |-> n, value |-> l.node[n].value,
                      forward |-> [i \in DOMAIN l.node[n].forward |->
                        IF key \in On(l, i) /\ LeftOf(l, i, key) = n
                        THEN NextOn(l, i, key) ELSE l.node[n].forward[i]]]
    /\ k.count = l.count - 1

\* skipList.h:289-292.
GivesUpLevels(l, k) ==
    LET used == {i \in 1 .. l.cur : k.node[header_].forward[i] # null}
    IN  k.cur = IF used = {} THEN 0 ELSE Max(used)

LEMMA DeletedParts ==
    ASSUME NEW l, Sound(l), NEW key \in Key, key \in Alive(l), NEW k, k = Deleted(l, key)
    PROVE  IsUnlinked(l, key, k) /\ GivesUpLevels(l, k)
<1> DEFINE on == {i \in 0 .. l.cur : \A j \in 0 .. i :
                    l.node[update(l, key)[j]].forward[j] = key}
           fwd(n) == [i \in DOMAIN l.node[n].forward |->
                        IF i \in on /\ update(l, key)[i] = n
                        THEN l.node[key].forward[i] ELSE l.node[n].forward[i]]
           unlinked(n) == [l.node[n] EXCEPT !.forward = fwd(n)]
           left == [n \in DOMAIN l.node \ {key} |-> unlinked(n)]
           used == {i \in 1 .. l.cur : left[header_].forward[i] # null}
<1>0. /\ Towers(l) /\ Linked(l) /\ Counted(l) /\ key \in DOMAIN l.node
  BY DEF Sound, Alive
<1>1. Found(l, key)
  BY FoundIff
<1>2. k = [node |-> left, cur |-> IF used = {} THEN 0 ELSE Max(used), count |-> l.count - 1]
  BY <1>1, Zenon DEF Deleted
<1>3. /\ k.node = left
      /\ k.cur = (IF used = {} THEN 0 ELSE Max(used))
      /\ k.count = l.count - 1
  <2> HIDE DEF left, used
  <2> QED BY <1>2
<1>4. ASSUME NEW n \in DOMAIN l.node \ {key}
      PROVE  k.node[n] = [key |-> n, value |-> l.node[n].value,
                          forward |-> [i \in DOMAIN l.node[n].forward |->
                            IF key \in On(l, i) /\ LeftOf(l, i, key) = n
                            THEN NextOn(l, i, key) ELSE l.node[n].forward[i]]]
  <2>1. l.node[n] = [key |-> n, value |-> l.node[n].value, forward |-> l.node[n].forward]
    BY <1>0 DEF Towers
  <2>2. k.node[n] = unlinked(n)
    <3> HIDE DEF unlinked
    <3> QED BY <1>3
  <2>3. ASSUME NEW i \in DOMAIN l.node[n].forward
        PROVE  (IF i \in on /\ update(l, key)[i] = n
                THEN l.node[key].forward[i] ELSE l.node[n].forward[i])
               = IF key \in On(l, i) /\ LeftOf(l, i, key) = n
                 THEN NextOn(l, i, key) ELSE l.node[n].forward[i]
    <3>1. i \in Level
      BY <1>0, Reaches
    <3>2. i \in on <=> key \in On(l, i)
      BY <3>1, UnlinkedLevels
    <3>3. i \in on => update(l, key)[i] = LeftOf(l, i, key)
      BY UpdateEnds
    <3>4. key \in On(l, i) => l.node[key].forward[i] = NextOn(l, i, key)
      BY <1>0, <3>1 DEF Linked
    <3> HIDE DEF on
    <3> QED BY <3>2, <3>3, <3>4
  <2>4. fwd(n) = [i \in DOMAIN l.node[n].forward |->
                   IF key \in On(l, i) /\ LeftOf(l, i, key) = n
                   THEN NextOn(l, i, key) ELSE l.node[n].forward[i]]
    <3> HIDE DEF on
    <3> QED BY <2>3
  <2>5. [l.node[n] EXCEPT !.forward = fwd(n)]
          = [key |-> n, value |-> l.node[n].value, forward |-> fwd(n)]
    <3> HIDE DEF fwd
    <3> QED BY <2>1
  <2> HIDE DEF fwd
  <2> QED BY <2>2, <2>4, <2>5
<1>5. DOMAIN k.node = DOMAIN l.node \ {key}
  <2> HIDE DEF unlinked
  <2> QED BY <1>3
<1> HIDE DEF left
<1> QED BY <1>3, <1>4, <1>5 DEF IsUnlinked, GivesUpLevels

LEMMA DeletedSound ==
    ASSUME NEW l, Sound(l), NEW key \in Key, key \in Alive(l), NEW k, k = Deleted(l, key)
    PROVE  Sound(k)
<1>0. /\ Towers(l) /\ Linked(l) /\ Counted(l) /\ l.cur \in Level /\ maxLevel_ \in Nat
      /\ NKey \in Nat /\ key \in 1 .. NKey /\ key # header_ /\ Level = 0 .. maxLevel_
  BY SkipListAssumption DEF Sound, Counted, Key, header_, Level
<1>p. /\ DOMAIN k.node = DOMAIN l.node \ {key}
      /\ \A n \in DOMAIN l.node \ {key} :
           k.node[n] = [key |-> n, value |-> l.node[n].value,
                        forward |-> [i \in DOMAIN l.node[n].forward |->
                          IF key \in On(l, i) /\ LeftOf(l, i, key) = n
                          THEN NextOn(l, i, key) ELSE l.node[n].forward[i]]]
      /\ k.count = l.count - 1
  BY DeletedParts DEF IsUnlinked
<1>u. LET used == {i \in 1 .. l.cur : k.node[header_].forward[i] # null}
      IN  k.cur = IF used = {} THEN 0 ELSE Max(used)
  BY DeletedParts DEF GivesUpLevels
<1>1. Alive(k) = Alive(l) \ {key}
  BY <1>p DEF Alive
<1>2. ASSUME NEW n \in DOMAIN k.node
      PROVE  /\ n \in DOMAIN l.node
             /\ DOMAIN k.node[n].forward = DOMAIN l.node[n].forward
             /\ k.node[n].value = l.node[n].value
             /\ k.node[n] = [key |-> n, value |-> k.node[n].value,
                             forward |-> k.node[n].forward]
             /\ \A i \in DOMAIN l.node[n].forward :
                  k.node[n].forward[i] = IF key \in On(l, i) /\ LeftOf(l, i, key) = n
                                         THEN NextOn(l, i, key) ELSE l.node[n].forward[i]
  <2>1. k.node[n] = [key |-> n, value |-> l.node[n].value,
                     forward |-> [i \in DOMAIN l.node[n].forward |->
                       IF key \in On(l, i) /\ LeftOf(l, i, key) = n
                       THEN NextOn(l, i, key) ELSE l.node[n].forward[i]]]
    BY <1>p
  <2>2. /\ k.node[n].value = l.node[n].value
        /\ k.node[n].forward = [i \in DOMAIN l.node[n].forward |->
                       IF key \in On(l, i) /\ LeftOf(l, i, key) = n
                       THEN NextOn(l, i, key) ELSE l.node[n].forward[i]]
    BY <2>1
  <2>3. n \in DOMAIN l.node
    BY <1>p
  <2> QED BY <2>1, <2>2, <2>3
<1>3. Towers(k)
  <2>1. header_ \in DOMAIN k.node
    BY <1>0, <1>p DEF Towers
  <2>2. DOMAIN k.node[header_].forward = Level
    BY <1>0, <1>2, <2>1 DEF Towers
  <2>3. DOMAIN k.node \subseteq 0 .. NKey
    BY <1>0, <1>p DEF Towers
  <2>4. \A n \in DOMAIN k.node : k.node[n] = [key |-> n, value |-> k.node[n].value,
                                              forward |-> k.node[n].forward]
    BY <1>2
  <2>5. ASSUME NEW n \in Alive(k)
        PROVE  k.node[n].value \in Value /\ \E h \in RandomLevel : DOMAIN k.node[n].forward = 0 .. h
    <3>1. n \in Alive(l) /\ n \in DOMAIN k.node
      BY <1>1 DEF Alive
    <3>2. l.node[n].value \in Value /\ \E h \in RandomLevel : DOMAIN l.node[n].forward = 0 .. h
      BY <1>0, <3>1 DEF Towers
    <3> QED BY <1>2, <3>1, <3>2
  <2> QED BY <2>1, <2>2, <2>3, <2>4, <2>5 DEF Towers
<1>4. ASSUME NEW i \in Level
      PROVE  On(k, i) = On(l, i) \ {key}
  BY <1>p, <1>2 DEF On
<1>5. ASSUME NEW i \in Level
      PROVE  /\ LeftOf(l, i, key) \in On(l, i) /\ LeftOf(l, i, key) < key
             /\ LeftOf(l, i, key) \in 0 .. NKey
             /\ \A m \in On(l, i) : m < key => m <= LeftOf(l, i, key)
             /\ On(l, i) \subseteq 0 .. NKey
  BY <1>0, LeftFacts, OnFacts
<1>6. ASSUME NEW i \in Level, NEW n \in On(k, i)
      PROVE  k.node[n].forward[i] = NextOn(k, i, n)
  <2> DEFINE left == LeftOf(l, i, key)
  <2>0. /\ left \in 0 .. NKey /\ left \in On(l, i) /\ left < key
        /\ n \in On(l, i) /\ n # key /\ n \in 0 .. NKey
        /\ n \in DOMAIN k.node /\ i \in DOMAIN l.node[n].forward
        /\ l.node[n].forward[i] = NextOn(l, i, n)
        /\ On(k, i) = On(l, i) \ {key}
    <3>1. n \in On(l, i) /\ n # key /\ On(k, i) = On(l, i) \ {key}
      BY <1>4
    <3>2. l.node[n].forward[i] = NextOn(l, i, n)
      BY <1>0, <3>1 DEF Linked
    <3>3. n \in DOMAIN k.node /\ i \in DOMAIN l.node[n].forward
      BY <3>1 DEF On
    <3> QED BY <1>5, <3>1, <3>2, <3>3
  <2>1. CASE key \notin On(l, i)
    <3>1. k.node[n].forward[i] = NextOn(l, i, n)
      BY <1>2, <2>0, <2>1
    <3>2. On(k, i) = On(l, i)
      BY <2>0, <2>1
    <3> QED BY <3>1, <3>2 DEF NextOn, After
  <2>2. CASE key \in On(l, i) /\ n = left
    <3>1. k.node[n].forward[i] = NextOn(l, i, key)
      BY <1>2, <2>0, <2>2
    <3>2. After(k, i, n) = After(l, i, key)
      <4>1. ASSUME NEW m \in On(l, i), m # key
            PROVE  m > key <=> m > n
        <5>1. m \in 0 .. NKey
          BY <1>5
        <5>2. m < key => m <= n
          BY <1>5, <2>2
        <5> HIDE DEF left
        <5> QED BY <1>0, <2>0, <2>2, <4>1, <5>1, <5>2
      <4>2. ~(key > key)
        BY <1>0
      <4> QED BY <2>0, <4>1, <4>2 DEF After
    <3> QED BY <3>1, <3>2 DEF NextOn
  <2>3. CASE key \in On(l, i) /\ n # left
    <3> DEFINE next == NextOn(l, i, n)
    <3>1. k.node[n].forward[i] = next
      BY <1>2, <2>0, <2>3
    <3>2. CASE next = null
      <4>1. \A m \in On(l, i) : m <= n
        BY <1>0, <2>0, <3>2, NextFacts
      <4>2. \A m \in On(k, i) : ~(m > n)
        <5> SUFFICES ASSUME NEW m \in On(k, i)
                     PROVE  ~(m > n)
          OBVIOUS
        <5>1. m \in 0 .. NKey /\ m <= n
          BY <1>5, <2>0, <4>1
        <5> QED BY <2>0, <5>1
      <4> QED BY <3>1, <3>2, <4>2, NextNull
    <3>3. CASE next # null
      <4>1. /\ next \in On(l, i) /\ next > n /\ next \in 1 .. NKey
            /\ \A m \in On(l, i) : m > n => next <= m
        BY <1>0, <2>0, <3>3, NextFacts
      <4>2. next # key
        <5>1. CASE n < key
          <6>1. n <= left
            BY <1>5, <2>0, <5>1
          <6>2. left > n
            <7> HIDE DEF left
            <7> QED BY <2>0, <2>3, <6>1
          <6>3. next <= left
            BY <2>0, <4>1, <6>2
          <6> HIDE DEF left, next
          <6> QED BY <1>0, <2>0, <4>1, <6>3
        <5>2. CASE ~(n < key)
          <6> HIDE DEF next
          <6> QED BY <1>0, <2>0, <4>1, <5>2
        <5> QED BY <5>1, <5>2
      <4>3. next \in On(k, i) /\ \A m \in On(k, i) : m > n => next <= m
        BY <2>0, <4>1, <4>2
      <4>4. NextOn(k, i, n) = next
        <5> HIDE DEF next
        <5> QED BY <1>3, <4>1, <4>3, NextIs
      <4> QED BY <3>1, <4>4
    <3> QED BY <3>2, <3>3
  <2> QED BY <2>1, <2>2, <2>3
<1>7. Counted(k)
  <2> DEFINE used == {i \in 1 .. l.cur : k.node[header_].forward[i] # null}
  <2>1. ASSUME NEW i \in 1 .. l.cur
        PROVE  /\ i \in Level /\ header_ \in On(k, i)
               /\ k.node[header_].forward[i] = NextOn(k, i, header_)
    <3>1. i \in Level
      BY <1>0
    <3> QED BY <1>3, <1>6, <3>1, OnFacts
  <2>2. k.cur \in Level /\ k.cur <= l.cur /\ (k.cur # 0 => k.cur \in used)
    <3>1. CASE used = {}
      BY <1>0, <1>u, <3>1
    <3>2. CASE used # {}
      <4>1. used \in SUBSET (0 .. l.cur) /\ l.cur \in Nat
        BY <1>0
      <4>2. Max(used) \in used
        <5> HIDE DEF used
        <5> QED BY <3>2, <4>1, MaxOf
      <4>3. k.cur \in used
        <5> HIDE DEF used
        <5> QED BY <1>u, <3>2, <4>2 DEF used
      <4> QED BY <1>0, <4>3
    <3> QED BY <3>1, <3>2
  <2>3. ASSUME k.cur # 0
        PROVE  On(k, k.cur) # {header_}
    <3>1. k.cur \in 1 .. l.cur /\ k.node[header_].forward[k.cur] # null
      BY <2>2, <2>3
    <3>2. NextOn(k, k.cur, header_) # null /\ k.cur \in Level /\ header_ \in On(k, k.cur)
      BY <2>1, <3>1
    <3>3. NextOn(k, k.cur, header_) \in On(k, k.cur) /\ NextOn(k, k.cur, header_) \in 1 .. NKey
      BY <1>3, <3>2, NextFacts
    <3>4. NextOn(k, k.cur, header_) # header_
      BY <1>0, <3>3 DEF header_
    <3> QED BY <3>3, <3>4
  <2>4. ASSUME NEW i \in Level, i > k.cur
        PROVE  On(k, i) = {header_}
    <3>1. header_ \in On(k, i) /\ On(k, i) \subseteq 0 .. NKey
      BY <1>3, OnFacts
    <3>2. CASE i > l.cur
      <4>1. On(l, i) = {header_}
        BY <1>0, <3>2 DEF Counted
      <4> QED BY <1>4, <3>1, <4>1
    <3>3. CASE ~(i > l.cur)
      <4>1. i \in 1 .. l.cur
        BY <1>0, <2>2, <2>4, <3>3
      <4>2. i \notin used
        <5>1. used # {} => \A j \in used : j <= k.cur
          <6>1. used \in SUBSET (0 .. l.cur) /\ l.cur \in Nat
            BY <1>0
          <6>2. used # {} => \A j \in used : j <= Max(used)
            <7> HIDE DEF used
            <7> QED BY <6>1, MaxOf
          <6>3. used # {} => k.cur = Max(used)
            <7> HIDE DEF used
            <7> QED BY <1>u DEF used
          <6> HIDE DEF used
          <6> QED BY <6>2, <6>3
        <5>2. ~(i <= k.cur)
          BY <1>0, <2>2, <2>4
        <5> HIDE DEF used
        <5> QED BY <5>1, <5>2
      <4>3. NextOn(k, i, header_) = null
        BY <2>1, <4>1, <4>2
      <4>4. \A m \in On(k, i) : m <= header_
        BY <1>3, <3>1, <4>3, NextFacts
      <4>5. \A m \in On(k, i) : m = header_
        BY <1>0, <3>1, <4>4 DEF header_
      <4> QED BY <3>1, <4>5
    <3> QED BY <3>2, <3>3
  <2>5. k.count = Cardinality(Alive(k))
    <3>1. IsFiniteSet(0 .. NKey)
      BY <1>0, FS_Interval
    <3>2. IsFiniteSet(Alive(l))
      BY <1>0, <3>1, FS_Subset DEF Alive, Towers
    <3>3. Cardinality(Alive(l) \ {key}) = Cardinality(Alive(l)) - 1
      BY <3>2, FS_RemoveElement
    <3> QED BY <1>0, <1>1, <1>p, <3>3 DEF Counted
  <2> HIDE DEF used
  <2> QED BY <2>2, <2>3, <2>4, <2>5 DEF Counted
<1> QED BY <1>3, <1>6, <1>7 DEF Sound, Linked

-----------------------------------------------------------------------------
(* What the operations do to the pairs *)

\* The constructor (skipList.h:121-128) makes a sound list with nothing in it.
LEMMA EmptySound ==
    Sound(EmptyList) /\ Alive(EmptyList) = {}
<1> DEFINE l == EmptyList
<1>0. NKey \in Nat /\ maxLevel_ \in Nat /\ Level = 0 .. maxLevel_
  BY SkipListAssumption DEF Level
<1>1. DOMAIN l.node = {header_} /\ l.cur = 0 /\ l.count = 0
  BY DEF EmptyList
<1>2. l.node[header_] = [key |-> header_, value |-> null,
                         forward |-> [i \in 0 .. maxLevel_ |-> [j \in Level |-> null][i]]]
  BY DEF EmptyList, Tower
<1>3. /\ l.node[header_].forward = [i \in Level |-> null]
      /\ l.node[header_] = [key |-> header_, value |-> l.node[header_].value,
                            forward |-> l.node[header_].forward]
  <2>1. [i \in 0 .. maxLevel_ |-> [j \in Level |-> null][i]] = [i \in Level |-> null]
    BY <1>0
  <2> QED BY <1>2, <2>1
<1>4. Alive(l) = {}
  BY <1>1 DEF Alive
<1>5. Towers(l)
  BY <1>0, <1>1, <1>3, <1>4 DEF Towers, header_
<1>6. ASSUME NEW i \in Level
      PROVE  On(l, i) = {header_} /\ NextOn(l, i, header_) = null
  <2>1. On(l, i) = {header_}
    BY <1>1, <1>3 DEF On
  <2>2. ~(header_ > header_)
    BY DEF header_
  <2> QED BY <2>1, <2>2, NextNull
<1>7. Linked(l)
  BY <1>3, <1>6 DEF Linked
<1>8. Counted(l)
  BY <1>0, <1>1, <1>4, <1>6, FS_EmptySet DEF Counted
<1> QED BY <1>4, <1>5, <1>7, <1>8 DEF Sound

AddsPair(l, key, value, k) ==
    /\ Sound(k)
    /\ Alive(k) = Alive(l) \cup {key}
    /\ \A n \in Alive(l) : k.node[n].value = l.node[n].value
    /\ key \notin Alive(l) => k.node[key].value = value

\* skipList.h:203-206: a key that is there keeps its value.
LEMMA InsertedIs ==
    ASSUME NEW l, Sound(l), NEW key \in Key, NEW value \in Value,
           NEW level \in RandomLevel, NEW k, k = Inserted(l, key, value, level)
    PROVE  AddsPair(l, key, value, k)
<1>1. CASE key \in Alive(l)
  <2>1. Found(l, key)
    BY <1>1, FoundIff
  <2>2. k = l
    BY <2>1, Zenon DEF Inserted
  <2> QED BY <1>1, <2>2 DEF AddsPair
<1>2. CASE key \notin Alive(l)
  <2>1. Sound(k)
    BY <1>2, InsertedSound
  <2>0. IsLinkedIn(l, key, value, level, k)
    BY <1>2, InsertedParts
  <2>2. DOMAIN k.node = DOMAIN l.node \cup {key}
    BY <2>0 DEF IsLinkedIn
  <2>3. k.node[key].value = value
    BY <2>0 DEF IsLinkedIn
  <2>4. ASSUME NEW n \in Alive(l)
        PROVE  k.node[n].value = l.node[n].value
    <3>1. n \in DOMAIN l.node
      BY DEF Alive
    <3>2. k.node[n] = [key |-> n, value |-> l.node[n].value,
                       forward |-> [i \in DOMAIN l.node[n].forward |->
                         IF i <= level /\ LeftOf(l, i, key) = n THEN key
                         ELSE l.node[n].forward[i]]]
      BY <2>0, <3>1 DEF IsLinkedIn
    <3> QED BY <3>2
  <2>5. key # header_
    BY SkipListAssumption DEF Key, header_
  <2> QED BY <2>1, <2>2, <2>3, <2>4, <2>5 DEF Alive, AddsPair
<1> QED BY <1>1, <1>2

LEMMA DeletedIs ==
    ASSUME NEW l, Sound(l), NEW key \in Key, NEW k, k = Deleted(l, key)
    PROVE  /\ Sound(k)
           /\ Alive(k) = Alive(l) \ {key}
           /\ \A n \in Alive(k) : k.node[n].value = l.node[n].value
<1>1. CASE key \notin Alive(l)
  <2>1. ~Found(l, key)
    BY <1>1, FoundIff
  <2>2. k = l
    BY <2>1, Zenon DEF Deleted
  <2> QED BY <1>1, <2>2
<1>2. CASE key \in Alive(l)
  <2>1. Sound(k)
    BY <1>2, DeletedSound
  <2>2. IsUnlinked(l, key, k)
    BY <1>2, DeletedParts
  <2>3. Alive(k) = Alive(l) \ {key}
    BY <2>2 DEF Alive, IsUnlinked
  <2>4. ASSUME NEW n \in Alive(k)
        PROVE  k.node[n].value = l.node[n].value
    <3>1. n \in DOMAIN l.node \ {key}
      BY <2>3 DEF Alive
    <3>2. k.node[n] = [key |-> n, value |-> l.node[n].value,
                       forward |-> [i \in DOMAIN l.node[n].forward |->
                         IF key \in On(l, i) /\ LeftOf(l, i, key) = n
                         THEN NextOn(l, i, key) ELSE l.node[n].forward[i]]]
      BY <2>2, <3>1 DEF IsUnlinked
    <3> QED BY <3>2
  <2> QED BY <2>1, <2>3, <2>4
<1> QED BY <1>1, <1>2

PairsStep(l, f, n) ==
    LET next == l.node[n].forward[0]
    IN  IF next = null THEN << >>
        ELSE <<[key |-> next, value |-> l.node[next].value]>> \o f[next]

IsPairs(l, f) == f = [n \in DOMAIN l.node |-> PairsStep(l, f, n)]

\* The bottom level leads from a node to the next and to nothing in between.
LEMMA BottomNext ==
    ASSUME NEW l, Sound(l), NEW n \in DOMAIN l.node, NEW next,
           next = l.node[n].forward[0]
    PROVE  /\ n \in 0 .. NKey
           /\ next = null => \A m \in DOMAIN l.node : ~(m > n)
           /\ next # null => /\ next \in Alive(l) /\ next \in Key /\ next > n
                             /\ l.node[next].value \in Value
                             /\ \A m \in DOMAIN l.node : m > n <=> m >= next
<1>1. Towers(l) /\ Linked(l) /\ 0 \in Level /\ NKey \in Nat
  BY SkipListAssumption DEF Sound, Level
<1>2. On(l, 0) = DOMAIN l.node /\ DOMAIN l.node \subseteq 0 .. NKey
  BY <1>1, OnFacts
<1>3. next = NextOn(l, 0, n)
  BY <1>1, <1>2 DEF Linked
<1>4. ASSUME next = null
      PROVE  \A m \in DOMAIN l.node : ~(m > n)
  <2>1. \A m \in DOMAIN l.node : m <= n
    BY <1>1, <1>2, <1>3, <1>4, NextFacts
  <2> QED BY <1>2, <2>1
<1>5. ASSUME next # null
      PROVE  /\ next \in Alive(l) /\ next \in Key /\ next > n
             /\ l.node[next].value \in Value
             /\ \A m \in DOMAIN l.node : m > n <=> m >= next
  <2>1. /\ next \in DOMAIN l.node /\ next \in 1 .. NKey /\ next > n
        /\ \A m \in DOMAIN l.node : m > n => next <= m
    BY <1>1, <1>2, <1>3, <1>5, NextFacts
  <2>2. next \in Alive(l) /\ next \in Key
    BY <1>1, <2>1 DEF Alive, Key, header_
  <2>3. l.node[next].value \in Value
    BY <1>1, <2>2 DEF Towers
  <2>4. ASSUME NEW m \in DOMAIN l.node
        PROVE  m > n <=> m >= next
    <3>1. m \in 0 .. NKey /\ n \in 0 .. NKey
      BY <1>2
    <3> QED BY <1>1, <2>1, <3>1
  <2> QED BY <2>1, <2>2, <2>3, <2>4
<1> QED BY <1>2, <1>4, <1>5

\* skipList.h:318-323: the loop along the bottom level ends, since the keys grow.
LEMMA PairsExist ==
    ASSUME NEW l, Sound(l)
    PROVE  \E f : IsPairs(l, f)
<1> DEFINE From(n) == {m \in DOMAIN l.node : m >= n}
           Good(f, n) == f = [m \in From(n) |-> f[m]]
                         /\ \A m \in From(n) : f[m] = PairsStep(l, f, m)
           S == {n \in DOMAIN l.node : ~\E f : Good(f, n)}
<1>0. DOMAIN l.node \subseteq 0 .. NKey /\ NKey \in Nat /\ header_ \in DOMAIN l.node
  BY SkipListAssumption DEF Sound, Towers
<1>1. ASSUME NEW n \in S, \A m \in S : m <= n
      PROVE  FALSE
  <2> DEFINE next == l.node[n].forward[0]
  <2>1. n \in DOMAIN l.node /\ (~\E f : Good(f, n)) /\ n \in 0 .. NKey
    BY <1>0
  <2>2. CASE next = null
    <3>1. From(n) = {n}
      <4>1. \A m \in DOMAIN l.node : ~(m > n)
        BY <2>1, <2>2, BottomNext
      <4>2. \A m \in DOMAIN l.node : m >= n => m = n
        BY <1>0, <2>1, <4>1
      <4>3. n >= n
        BY <1>0, <2>1
      <4> QED BY <2>1, <4>2, <4>3
    <3>2. PICK g : g = [m \in {n} |-> << >>]
      OBVIOUS
    <3>3. PairsStep(l, g, n) = << >>
      BY <2>2 DEF PairsStep
    <3>4. Good(g, n)
      <4> HIDE DEF From
      <4> QED BY <3>1, <3>2, <3>3
    <3> QED BY <2>1, <3>4
  <2>3. CASE next # null
    <3>1. next \in DOMAIN l.node /\ next > n /\ \A m \in DOMAIN l.node : m > n <=> m >= next
      BY <2>1, <2>3, BottomNext DEF Alive
    <3>2. next \notin S
      <4>1. ~(next <= n)
        BY <1>0, <2>1, <3>1
      <4> HIDE DEF S, next
      <4> QED BY <1>1, <4>1
    <3>3. PICK f : Good(f, next)
      <4> HIDE DEF Good, next
      <4> QED BY <3>1, <3>2
    <3>4. From(n) = {n} \cup From(next) /\ n \notin From(next)
      <4>1. \A m \in DOMAIN l.node : m >= n <=> m = n \/ m >= next
        <5> SUFFICES ASSUME NEW m \in DOMAIN l.node
                     PROVE  m >= n <=> m = n \/ m >= next
          OBVIOUS
        <5>1. m \in 0 .. NKey /\ next \in 0 .. NKey
          BY <1>0, <3>1
        <5>2. m >= n <=> m = n \/ m > n
          BY <1>0, <2>1, <5>1
        <5> HIDE DEF next
        <5> QED BY <3>1, <5>2
      <4>2. ~(n >= next)
        <5>1. next \in 0 .. NKey
          BY <1>0, <3>1
        <5> HIDE DEF next
        <5> QED BY <1>0, <2>1, <3>1, <5>1
      <4> HIDE DEF next
      <4> QED BY <2>1, <4>1, <4>2
    <3> DEFINE first == <<[key |-> next, value |-> l.node[next].value]>> \o f[next]
    <3>5. PICK g : g = [m \in From(n) |-> IF m = n THEN first ELSE f[m]]
      OBVIOUS
    <3>6. g[n] = first /\ \A m \in From(next) : g[m] = f[m]
      <4> HIDE DEF From, first, next
      <4> QED BY <3>4, <3>5
    <3>7. next \in From(next)
      <4>1. next \in 0 .. NKey
        BY <1>0, <3>1
      <4>2. next >= next
        <5> HIDE DEF next
        <5> QED BY <1>0, <4>1
      <4> QED BY <3>1, <4>2
    <3>8. g[n] = PairsStep(l, g, n)
      BY <2>3, <3>6, <3>7, Zenon DEF PairsStep
    <3>9. ASSUME NEW m \in From(next)
          PROVE  g[m] = PairsStep(l, g, m)
      <4>1. f[m] = PairsStep(l, f, m) /\ m \in DOMAIN l.node /\ m >= next
        BY <3>3
      <4> DEFINE after == l.node[m].forward[0]
      <4>2. after # null => after \in From(next)
        <5>1. after # null => after \in DOMAIN l.node /\ after > m
          BY <4>1, BottomNext DEF Alive
        <5>2. after # null => after \in 0 .. NKey /\ m \in 0 .. NKey /\ next \in 0 .. NKey
          BY <1>0, <3>1, <4>1, <5>1
        <5>3. after # null => after >= next
          <6> HIDE DEF after, next
          <6> QED BY <1>0, <4>1, <5>1, <5>2
        <5> QED BY <5>1, <5>3
      <4>3. after # null => g[after] = f[after]
        BY <3>6, <4>2
      <4>4. PairsStep(l, f, m) = PairsStep(l, g, m)
        BY <4>3, Zenon DEF PairsStep
      <4> QED BY <3>6, <4>1, <4>4
    <3>10. \A m \in From(n) : g[m] = PairsStep(l, g, m)
      <4> HIDE DEF From, next
      <4> QED BY <3>4, <3>8, <3>9
    <3>11. g = [m \in From(n) |-> g[m]]
      BY <3>5
    <3>12. Good(g, n)
      BY <3>10, <3>11
    <3> QED BY <2>1, <3>12
  <2> QED BY <2>2, <2>3
<1>2. S = {}
  <2>1. S \in SUBSET (0 .. NKey)
    BY <1>0
  <2> HIDE DEF S
  <2> QED BY <1>0, <1>1, <2>1, GreatestOf
<1>3. PICK f : Good(f, header_)
  <2> HIDE DEF Good
  <2> QED BY <1>0, <1>2
<1>4. From(header_) = DOMAIN l.node
  BY <1>0 DEF header_
<1>5. IsPairs(l, f)
  <2>1. f = [m \in DOMAIN l.node |-> f[m]] /\ \A m \in DOMAIN l.node : f[m] = PairsStep(l, f, m)
    BY <1>3, <1>4
  <2> QED BY <2>1 DEF IsPairs
<1> QED BY <1>5

IsDump(l, p) ==
    /\ p \in Seq([key : Key, value : Value])
    /\ \A j \in DOMAIN p : p[j].key \in Alive(l) /\ p[j].value = l.node[p[j].key].value
    /\ \A key \in Alive(l) : \E j \in DOMAIN p : p[j].key = key

\* dumpFile (skipList.h:314-329) writes every pair and nothing else.
LEMMA PairsAre ==
    ASSUME NEW l, Sound(l), NEW p, p = Pairs(l)
    PROVE  IsDump(l, p)
<1> DEFINE Good(s, n) ==
             /\ s \in Seq([key : Key, value : Value])
             /\ \A j \in DOMAIN s : s[j].key \in Alive(l)
                                    /\ s[j].value = l.node[s[j].key].value
             /\ \A m \in DOMAIN l.node : m > n => \E j \in DOMAIN s : s[j].key = m
<1>0. DOMAIN l.node \subseteq 0 .. NKey /\ NKey \in Nat /\ header_ \in DOMAIN l.node
  BY SkipListAssumption DEF Sound, Towers
<1>1. PICK f : f = (CHOOSE g : IsPairs(l, g))
  OBVIOUS
<1>2. IsPairs(l, f)
  BY <1>1, PairsExist, Zenon
<1>3. p = f[header_]
  BY <1>1, Zenon DEF Pairs, IsPairs, PairsStep
<1> DEFINE S == {n \in DOMAIN l.node : ~Good(f[n], n)}
<1>4. ASSUME NEW n \in S, \A m \in S : m <= n
      PROVE  FALSE
  <2> DEFINE next == l.node[n].forward[0]
  <2>1. n \in DOMAIN l.node /\ ~Good(f[n], n) /\ n \in 0 .. NKey
    BY <1>0
  <2>2. f[n] = PairsStep(l, f, n)
    BY <1>2, <2>1 DEF IsPairs
  <2>3. CASE next = null
    <3>1. \A m \in DOMAIN l.node : ~(m > n)
      BY <2>1, <2>3, BottomNext
    <3>2. f[n] = << >>
      BY <2>2, <2>3 DEF PairsStep
    <3>3. Good(<< >>, n)
      BY <3>1
    <3> HIDE DEF Good
    <3> QED BY <2>1, <3>2, <3>3
  <2>4. CASE next # null
    <3>1. /\ next \in Alive(l) /\ next \in Key /\ next > n /\ l.node[next].value \in Value
          /\ next \in DOMAIN l.node
          /\ \A m \in DOMAIN l.node : m > n <=> m >= next
      BY <2>1, <2>4, BottomNext DEF Alive
    <3>2. next \notin S
      <4>1. ~(next <= n)
        BY <1>0, <2>1, <3>1
      <4> HIDE DEF S, next
      <4> QED BY <1>4, <4>1
    <3>3. Good(f[next], next)
      <4> HIDE DEF Good, next
      <4> QED BY <3>1, <3>2
    <3> DEFINE one == [key |-> next, value |-> l.node[next].value]
               s == f[next]
    <3>4. f[n] = <<one>> \o s
      BY <2>2, <2>4 DEF PairsStep
    <3>5. one \in [key : Key, value : Value] /\ s \in Seq([key : Key, value : Value])
      BY <3>1, <3>3
    <3>6. one.key = next /\ one.value = l.node[next].value
      OBVIOUS
    <3> HIDE DEF one, s, next
    <3>7. /\ <<one>> \o s \in Seq([key : Key, value : Value])
          /\ Len(<<one>> \o s) = Len(s) + 1
          /\ (<<one>> \o s)[1] = one
          /\ \A j \in 1 .. Len(s) : (<<one>> \o s)[j + 1] = s[j]
      BY <3>5
    <3>8. ASSUME NEW j \in DOMAIN (<<one>> \o s)
          PROVE  /\ (<<one>> \o s)[j].key \in Alive(l)
                 /\ (<<one>> \o s)[j].value = l.node[(<<one>> \o s)[j].key].value
      <4>1. CASE j = 1
        BY <3>1, <3>6, <3>7, <4>1
      <4>2. CASE j # 1
        <5>1. j - 1 \in 1 .. Len(s) /\ j = (j - 1) + 1
          BY <3>5, <3>7, <4>2
        <5>2. (<<one>> \o s)[j] = s[j - 1] /\ j - 1 \in DOMAIN s
          BY <3>5, <3>7, <5>1
        <5>3. s[j - 1].key \in Alive(l) /\ s[j - 1].value = l.node[s[j - 1].key].value
          BY <3>3, <5>2 DEF s
        <5> QED BY <5>2, <5>3
      <4> QED BY <4>1, <4>2
    <3>9. ASSUME NEW m \in DOMAIN l.node, m > n
          PROVE  \E j \in DOMAIN (<<one>> \o s) : (<<one>> \o s)[j].key = m
      <4>1. CASE m = next
        <5>1. 1 \in DOMAIN (<<one>> \o s)
          BY <3>5, <3>7
        <5> QED BY <3>6, <3>7, <4>1, <5>1
      <4>2. CASE m # next
        <5>1. m > next
          <6>1. m >= next /\ m \in 0 .. NKey /\ next \in 0 .. NKey
            BY <1>0, <3>1, <3>9
          <6> QED BY <1>0, <4>2, <6>1
        <5>2. PICK j \in DOMAIN s : s[j].key = m
          BY <3>3, <5>1 DEF s
        <5>3. j \in 1 .. Len(s) /\ j + 1 \in DOMAIN (<<one>> \o s)
          BY <3>5, <3>7
        <5> QED BY <3>7, <5>2, <5>3
      <4> QED BY <4>1, <4>2
    <3>10. Good(<<one>> \o s, n)
      BY <3>7, <3>8, <3>9
    <3> HIDE DEF Good
    <3> QED BY <2>1, <3>4, <3>10
  <2> QED BY <2>3, <2>4
<1>5. S = {}
  <2>1. S \in SUBSET (0 .. NKey)
    BY <1>0
  <2> HIDE DEF S
  <2> QED BY <1>0, <1>4, <2>1, GreatestOf
<1>6. Good(f[header_], header_)
  <2> HIDE DEF Good
  <2> QED BY <1>0, <1>5
<1>7. \A m \in Alive(l) : m \in DOMAIN l.node /\ m > header_
  <2> SUFFICES ASSUME NEW m \in Alive(l)
               PROVE  m \in DOMAIN l.node /\ m > header_
    OBVIOUS
  <2>1. m \in 0 .. NKey /\ m # 0 /\ m \in DOMAIN l.node
    BY <1>0 DEF Alive, header_
  <2> QED BY <1>0, <2>1 DEF header_
<1> QED BY <1>3, <1>6, <1>7 DEF IsDump

IsLoad(l, pairs, levels, f) ==
    f = [j \in 0 .. Len(pairs) |->
           IF j = 0 THEN l
           ELSE Inserted(f[j - 1], pairs[j].key, pairs[j].value, levels[j])]

LEMMA LoadExists ==
    ASSUME NEW l, NEW pairs, Len(pairs) \in Nat, NEW levels
    PROVE  \E f : IsLoad(l, pairs, levels, f)
<1> DEFINE Step(f, j) == IF j = 0 THEN l
                         ELSE Inserted(f[j - 1], pairs[j].key, pairs[j].value, levels[j])
           Good(f, n) == f = [j \in 0 .. n |-> f[j]] /\ \A j \in 0 .. n : f[j] = Step(f, j)
           S == {n \in Nat : ~\E f : Good(f, n)}
<1>1. ASSUME NEW n \in S, \A m \in S : n <= m
      PROVE  FALSE
  <2>1. n \in Nat /\ ~\E f : Good(f, n)
    OBVIOUS
  <2>2. CASE n = 0
    <3>1. PICK f : f = [j \in 0 .. 0 |-> l]
      OBVIOUS
    <3>2. Good(f, 0)
      BY <3>1
    <3> QED BY <2>1, <2>2, <3>2
  <2>3. CASE n # 0
    <3>1. n - 1 \in Nat /\ n - 1 \notin S
      BY <1>1, <2>1, <2>3
    <3>2. PICK f : Good(f, n - 1)
      <4> HIDE DEF Good
      <4> QED BY <3>1
    <3> DEFINE last == Inserted(f[n - 1], pairs[n].key, pairs[n].value, levels[n])
    <3>3. PICK g : g = [j \in 0 .. n |-> IF j = n THEN last ELSE f[j]]
      OBVIOUS
    <3>4. \A j \in 0 .. n - 1 : g[j] = f[j]
      BY <2>1, <3>3
    <3>5. g[n] = Step(g, n)
      <4>1. g[n] = last
        <5> HIDE DEF last
        <5> QED BY <2>1, <3>3
      <4>2. g[n - 1] = f[n - 1]
        BY <3>1, <3>4
      <4> QED BY <2>3, <4>1, <4>2
    <3>6. ASSUME NEW j \in 0 .. n, j # n
          PROVE  g[j] = Step(g, j)
      <4>1. j \in 0 .. n - 1
        BY <2>1, <3>6
      <4>2. f[j] = Step(f, j)
        BY <3>2, <4>1
      <4>3. j # 0 => j - 1 \in 0 .. n - 1
        BY <2>1, <4>1
      <4> QED BY <3>4, <4>1, <4>2, <4>3
    <3>7. \A j \in 0 .. n : g[j] = Step(g, j)
      <4> HIDE DEF Step
      <4> QED BY <3>5, <3>6
    <3>8. g = [j \in 0 .. n |-> g[j]]
      <4> HIDE DEF last
      <4> QED BY <3>3
    <3>9. Good(g, n)
      <4> HIDE DEF Step
      <4> QED BY <3>7, <3>8
    <3> QED BY <2>1, <3>9
  <2> QED BY <2>2, <2>3
<1>2. S = {}
  <2>1. S \in SUBSET Nat
    OBVIOUS
  <2> HIDE DEF S
  <2> QED BY <1>1, <2>1, LeastOf
<1>3. PICK f : Good(f, Len(pairs))
  <2> HIDE DEF Good
  <2> QED BY <1>2
<1>4. IsLoad(l, pairs, levels, f)
  BY <1>3 DEF IsLoad
<1> QED BY <1>4

AddsPairs(l, pairs, k) ==
    /\ Sound(k)
    /\ Alive(k) = Alive(l) \cup {pairs[j].key : j \in DOMAIN pairs}
    /\ \A n \in Alive(l) : k.node[n].value = l.node[n].value
    /\ \A j \in DOMAIN pairs :
         pairs[j].key \notin Alive(l) => k.node[pairs[j].key].value = pairs[j].value

LEMMA MemberOf ==
    ASSUME NEW S, NEW s \in Seq(S)
    PROVE  \A j \in 1 .. Len(s) : s[j] \in S
OBVIOUS

\* loadFile (skipList.h:344-346) adds the pairs whose key the list has not.
LEMMA LoadedIs ==
    ASSUME NEW l, Sound(l), NEW pairs \in Seq([key : Key, value : Value]),
           \A i, j \in DOMAIN pairs :
             pairs[i].key = pairs[j].key => pairs[i].value = pairs[j].value,
           NEW levels \in [1 .. Len(pairs) -> RandomLevel],
           NEW k, k = Loaded(l, pairs, levels)
    PROVE  AddsPairs(l, pairs, k)
<1> DEFINE Good(m, j) ==
             /\ Sound(m)
             /\ Alive(m) = Alive(l) \cup {pairs[i].key : i \in 1 .. j}
             /\ \A n \in Alive(l) : m.node[n].value = l.node[n].value
             /\ \A i \in 1 .. j :
                  pairs[i].key \notin Alive(l) => m.node[pairs[i].key].value = pairs[i].value
<1>0. Len(pairs) \in Nat /\ DOMAIN pairs = 1 .. Len(pairs)
  OBVIOUS
<1>7. \A j \in 1 .. Len(pairs) : pairs[j] \in [key : Key, value : Value]
  BY MemberOf
<1>1. PICK f : f = (CHOOSE g : IsLoad(l, pairs, levels, g))
  OBVIOUS
<1>2. IsLoad(l, pairs, levels, f)
  BY <1>0, <1>1, LoadExists, Zenon
<1>3. k = f[Len(pairs)]
  BY <1>1, Zenon DEF Loaded, IsLoad
<1> DEFINE S == {j \in 0 .. Len(pairs) : ~Good(f[j], j)}
<1>4. ASSUME NEW j \in S, \A i \in S : j <= i
      PROVE  FALSE
  <2>1. j \in 0 .. Len(pairs) /\ ~Good(f[j], j)
    OBVIOUS
  <2>2. f[j] = IF j = 0 THEN l
               ELSE Inserted(f[j - 1], pairs[j].key, pairs[j].value, levels[j])
    BY <1>2, <2>1, Zenon DEF IsLoad
  <2>3. CASE j = 0
    <3>1. f[j] = l /\ 1 .. j = {}
      BY <2>2, <2>3
    <3>2. Good(l, j)
      BY <3>1
    <3> HIDE DEF Good
    <3> QED BY <2>1, <3>1, <3>2
  <2>4. CASE j # 0
    <3>1. j - 1 \in 0 .. Len(pairs) /\ j \in 1 .. Len(pairs)
      BY <1>0, <2>1, <2>4
    <3>2. j - 1 \notin S
      <4>1. ~(j <= j - 1)
        BY <1>0, <2>1
      <4> HIDE DEF S
      <4> QED BY <1>4, <4>1
    <3>3. Good(f[j - 1], j - 1)
      <4> HIDE DEF Good
      <4> QED BY <3>1, <3>2
    <3> DEFINE key == pairs[j].key
    <3>4. key \in Key /\ pairs[j].value \in Value /\ levels[j] \in RandomLevel
      <4>1. pairs[j] \in [key : Key, value : Value]
        BY <1>7, <3>1
      <4>2. levels[j] \in RandomLevel
        BY <3>1
      <4> QED BY <4>1, <4>2
    <3>5. f[j] = Inserted(f[j - 1], key, pairs[j].value, levels[j])
      BY <2>2, <2>4
    <3> HIDE DEF key
    <3>6. /\ Sound(f[j])
          /\ Alive(f[j]) = Alive(f[j - 1]) \cup {key}
          /\ \A n \in Alive(f[j - 1]) : f[j].node[n].value = f[j - 1].node[n].value
          /\ key \notin Alive(f[j - 1]) => f[j].node[key].value = pairs[j].value
      <4>2. Sound(f[j - 1])
        BY <3>3
      <4>3. AddsPair(f[j - 1], key, pairs[j].value, f[j])
        BY <3>4, <3>5, <4>2, InsertedIs
      <4> QED BY <4>3 DEF AddsPair
    <3>7. {pairs[i].key : i \in 1 .. j} = {pairs[i].key : i \in 1 .. j - 1} \cup {key}
      <4> DEFINE done == 1 .. j - 1
      <4>1. 1 .. j = done \cup {j}
        BY <1>0, <3>1
      <4> HIDE DEF done
      <4>2. {pairs[i].key : i \in done \cup {j}} = {pairs[i].key : i \in done} \cup {key}
        BY DEF key
      <4> QED BY <4>1, <4>2 DEF done
    <3>8. Alive(f[j]) = Alive(l) \cup {pairs[i].key : i \in 1 .. j}
      BY <3>3, <3>6, <3>7
    <3>9. \A n \in Alive(l) : f[j].node[n].value = l.node[n].value
      BY <3>3, <3>6
    <3>10. ASSUME NEW i \in 1 .. j, pairs[i].key \notin Alive(l)
           PROVE  f[j].node[pairs[i].key].value = pairs[i].value
      <4>0. i \in DOMAIN pairs /\ j \in DOMAIN pairs /\ (i # j => i \in 1 .. j - 1)
        BY <1>0, <3>1
      <4>1. CASE pairs[i].key \in Alive(f[j - 1])
        <5>1. PICK h \in 1 .. j - 1 : pairs[h].key = pairs[i].key
          BY <3>3, <3>10, <4>1
        <5>2. h \in DOMAIN pairs
          BY <1>0, <3>1
        <5>3. f[j - 1].node[pairs[h].key].value = pairs[h].value
          BY <3>3, <3>10, <5>1
        <5>4. pairs[h].value = pairs[i].value
          BY <4>0, <5>1, <5>2
        <5> QED BY <3>6, <4>1, <5>1, <5>3, <5>4
      <4>2. CASE pairs[i].key \notin Alive(f[j - 1])
        <5>1. i = j
          <6>1. i # j => pairs[i].key \in Alive(f[j - 1])
            BY <3>3, <4>0
          <6> QED BY <4>2, <6>1
        <5> QED BY <3>6, <4>2, <5>1 DEF key
      <4> QED BY <4>1, <4>2
    <3>11. Good(f[j], j)
      BY <3>6, <3>8, <3>9, <3>10
    <3> HIDE DEF Good
    <3> QED BY <2>1, <3>11
  <2> QED BY <2>3, <2>4
<1>5. S = {}
  <2>1. S \in SUBSET Nat
    BY <1>0
  <2> HIDE DEF S
  <2> QED BY <1>4, <2>1, LeastOf
<1>6. Good(k, Len(pairs))
  <2> HIDE DEF Good
  <2> QED BY <1>0, <1>3, <1>5
<1> QED BY <1>0, <1>6 DEF AddsPairs

-----------------------------------------------------------------------------
(* The steps *)

\* Nothing but the three members of a list counts.
LEMMA SameList ==
    ASSUME NEW l, NEW k, k.node = l.node, k.cur = l.cur, k.count = l.count
    PROVE  (Sound(k) <=> Sound(l)) /\ Alive(k) = Alive(l)
<1>1. Alive(k) = Alive(l)
  BY DEF Alive
<1>2. \A i : On(k, i) = On(l, i)
  BY DEF On
<1>3. \A i, n : NextOn(k, i, n) = NextOn(l, i, n)
  BY <1>2 DEF NextOn, After
<1>4. Towers(k) <=> Towers(l)
  BY <1>1 DEF Towers
<1>5. Linked(k) <=> Linked(l)
  BY <1>2, <1>3 DEF Linked
<1>6. Counted(k) <=> Counted(l)
  BY <1>1, <1>2 DEF Counted
<1> QED BY <1>1, <1>4, <1>5, <1>6 DEF Sound

LEMMA ListIs ==
    List.node = node /\ List.cur = curLevel_ /\ List.count = elementCount_
    /\ Alive(List) = Live
BY DEF List, Alive, Live

LEMMA SetListIs ==
    ASSUME NEW k, Sound(k), SetList(k)
    PROVE  Sound(List)' /\ Live' = Alive(k) /\ node' = k.node
<1>1. List'.node = k.node /\ List'.cur = k.cur /\ List'.count = k.count
  BY DEF List, SetList
<1>2. Sound(List')
  BY <1>1, SameList
<1>3. Live' = Alive(k) /\ node' = k.node
  BY DEF Live, Alive, SetList
<1> QED BY <1>2, <1>3

LEMMA DisturbedFacts ==
    ASSUME CallsOK, NEW key, NEW t \in Thread, NEW d, d = Disturbed(key, t)
    PROVE  /\ d \in [Thread -> CallRecord]
           /\ d[t] = call[t]
           /\ \A u \in Thread :
                /\ d[u].pc = call[u].pc /\ d[u].key = call[u].key
                /\ d[u].value = call[u].value
                /\ d[u].alone => call[u].alone /\ (u # t => call[u].key # key)
<1>1. ASSUME NEW u \in Thread
      PROVE  /\ d[u] \in CallRecord
             /\ d[u].pc = call[u].pc /\ d[u].key = call[u].key
             /\ d[u].value = call[u].value
             /\ d[u].alone => call[u].alone /\ (u # t => call[u].key # key)
  <2>1. call[u] \in CallRecord
    BY DEF CallsOK
  <2>2. CASE u # t /\ call[u].key = key
    <3>1. d[u] = [call[u] EXCEPT !.alone = FALSE]
      BY <2>2 DEF Disturbed
    <3> QED BY <2>1, <3>1 DEF CallRecord
  <2>3. CASE ~(u # t /\ call[u].key = key)
    <3>1. d[u] = call[u]
      BY <2>3 DEF Disturbed
    <3> QED BY <2>1, <2>3, <3>1
  <2> QED BY <2>2, <2>3
<1>2. d[t] = call[t] /\ d = [u \in Thread |-> d[u]]
  BY DEF Disturbed
<1> QED BY <1>1, <1>2

\* A step that leaves the calls at their steps, puts in some keys and takes out none.
LEMMA KeysAdded ==
    ASSUME CallsOK, OwedOK, NEW keys \in SUBSET Key,
           Live' = Live \cup keys, owed' = owed \cup keys,
           call' \in [Thread -> CallRecord],
           \A u \in Thread :
             \/ call'[u].pc = "idle" /\ (call[u].pc = "insert" => call[u].key \in keys)
             \/ /\ call'[u].pc = call[u].pc /\ call'[u].key = call[u].key
                /\ call'[u].value = call[u].value
                /\ call'[u].alone => call[u].alone /\ call[u].key \notin keys
    PROVE  CallsOK' /\ OwedOK'
<1>1. ASSUME NEW u \in Thread
      PROVE  /\ ~Idle(u)' => call'[u].key \in Key /\ call'[u].value \in Value
             /\ call'[u].pc = "insert" /\ call'[u].alone => call'[u].key \notin Live'
  BY DEF CallsOK, Idle
<1>2. CallsOK'
  BY <1>1 DEF CallsOK
<1>3. ASSUME NEW key \in owed'
      PROVE  key \in Live' \/ \E u \in Thread : call'[u].pc = "insert" /\ call'[u].key = key
  <2>1. CASE key \in Live'
    BY <2>1
  <2>2. CASE key \notin Live'
    <3>1. PICK u \in Thread : call[u].pc = "insert" /\ call[u].key = key
      BY <2>2 DEF OwedOK
    <3>2. call'[u].pc = "insert" /\ call'[u].key = key
      BY <2>2, <3>1
    <3> QED BY <3>2
  <2> QED BY <2>1, <2>2
<1> QED BY <1>2, <1>3 DEF OwedOK

LEMMA InvInit == Init => SkipListInv
<1> SUFFICES ASSUME Init
             PROVE  SkipListInv
  OBVIOUS
<1>1. Sound(List) /\ Live = {}
  BY EmptySound, SameList, ListIs DEF Init
<1>2. NoCall \in CallRecord
  BY DEF NoCall, CallRecord
<1>3. CallsOK
  BY <1>1, <1>2 DEF Init, CallsOK, Idle, NoCall
<1>4. DumpOK
  BY DEF Init, DumpOK
<1>5. OwedOK
  BY DEF Init, OwedOK
<1> QED BY <1>1, <1>3, <1>4, <1>5 DEF SkipListInv

LEMMA InsertKeeps ==
    ASSUME SkipListInv, NEW t \in Thread, NEW key \in Key, NEW value \in Value,
           NEW level \in RandomLevel, insertElement(t, key, value, level)
    PROVE  /\ SkipListInv'
           /\ Live' = Live \cup {key}
           /\ \A n \in Live : node'[n].value = node[n].value
           /\ key \notin Live => node'[key].value = value
<1> DEFINE k == Inserted(List, key, value, level)
<1>1. AddsPair(List, key, value, k)
  BY InsertedIs DEF SkipListInv
<1>2. Sound(k) /\ SetList(k)
  BY <1>1 DEF AddsPair, insertElement
<1> HIDE DEF k
<1>3. Sound(List)' /\ Live' = Live \cup {key} /\ node' = k.node
  BY <1>1, <1>2, SetListIs, ListIs DEF AddsPair
<1>4. /\ call' \in [Thread -> CallRecord]
      /\ \A u \in Thread :
           /\ call'[u].pc = call[u].pc /\ call'[u].key = call[u].key
           /\ call'[u].value = call[u].value
           /\ call'[u].alone => call[u].alone /\ (u # t => call[u].key # key)
  BY DisturbedFacts DEF insertElement, SkipListInv
<1>5. CallsOK' /\ OwedOK'
  <2>1. CallsOK /\ OwedOK /\ call[t].pc = "idle" /\ owed' = owed \cup {key}
    BY DEF SkipListInv, insertElement, Idle
  <2>2. \A u \in Thread :
             \/ call'[u].pc = "idle" /\ (call[u].pc = "insert" => call[u].key \in {key})
             \/ /\ call'[u].pc = call[u].pc /\ call'[u].key = call[u].key
                /\ call'[u].value = call[u].value
                /\ call'[u].alone => call[u].alone /\ call[u].key \notin {key}
    BY <1>4, <2>1
  <2> QED BY <1>3, <1>4, <2>1, <2>2, KeysAdded
<1>6. DumpOK'
  BY DEF SkipListInv, DumpOK, insertElement
<1> QED BY <1>1, <1>3, <1>5, <1>6, ListIs DEF SkipListInv, AddsPair

LEMMA SetInsertKeeps ==
    ASSUME SkipListInv, NEW t \in Thread, NEW level \in RandomLevel, SetInsert(t, level)
    PROVE  /\ SkipListInv'
           /\ call[t].key \in Key /\ call[t].value \in Value
           /\ Live' = Live \cup {call[t].key}
           /\ \A n \in Live : node'[n].value = node[n].value
           /\ call[t].key \notin Live => node'[call[t].key].value = call[t].value
<1> DEFINE key == call[t].key
           value == call[t].value
           k == Inserted(List, key, value, level)
<1>0. key \in Key /\ value \in Value
  BY DEF SkipListInv, CallsOK, SetInsert, Idle
<1>1. AddsPair(List, key, value, k)
  <2> HIDE DEF key, value
  <2> QED BY <1>0, InsertedIs DEF SkipListInv
<1>2. Sound(k) /\ SetList(k)
  BY <1>1 DEF AddsPair, SetInsert
<1> HIDE DEF k
<1>3. Sound(List)' /\ Live' = Live \cup {key} /\ node' = k.node
  BY <1>1, <1>2, SetListIs, ListIs DEF AddsPair
<1> DEFINE d == Disturbed(key, t)
<1>4. /\ d \in [Thread -> CallRecord]
      /\ \A u \in Thread :
           /\ d[u].pc = call[u].pc /\ d[u].key = call[u].key
           /\ d[u].value = call[u].value
           /\ d[u].alone => call[u].alone /\ (u # t => call[u].key # key)
  <2> HIDE DEF key
  <2> QED BY DisturbedFacts DEF SkipListInv
<1>5. call' = [d EXCEPT ![t] = NoCall] /\ owed' = owed \cup {key}
  BY DEF SetInsert
<1> HIDE DEF d
<1>6. call' \in [Thread -> CallRecord] /\ call'[t] = NoCall
      /\ \A u \in Thread : u # t => call'[u] = d[u]
  <2>1. NoCall \in CallRecord
    BY DEF NoCall, CallRecord
  <2> QED BY <1>4, <1>5, <2>1
<1>7. CallsOK' /\ OwedOK'
  <2>1. CallsOK /\ OwedOK
    BY DEF SkipListInv
  <2>2. ASSUME NEW u \in Thread
        PROVE  \/ call'[u].pc = "idle" /\ (call[u].pc = "insert" => call[u].key \in {key})
               \/ /\ call'[u].pc = call[u].pc /\ call'[u].key = call[u].key
                  /\ call'[u].value = call[u].value
                  /\ call'[u].alone => call[u].alone /\ call[u].key \notin {key}
    <3>1. CASE u = t
      BY <1>6, <3>1 DEF NoCall
    <3>2. CASE u # t
      BY <1>4, <1>6, <3>2
    <3> QED BY <3>1, <3>2
  <2>3. {key} \in SUBSET Key /\ Live' = Live \cup {key} /\ owed' = owed \cup {key}
        /\ call' \in [Thread -> CallRecord]
    BY <1>0, <1>3, <1>5, <1>6
  <2> HIDE DEF key
  <2> QED BY <2>1, <2>2, <2>3, KeysAdded
<1>8. DumpOK'
  BY DEF SkipListInv, DumpOK, SetInsert
<1> QED BY <1>0, <1>1, <1>3, <1>7, <1>8, ListIs DEF SkipListInv, AddsPair

\* A step that takes one key out, which its caller no longer wants or puts back.
LEMMA KeyRemoved ==
    ASSUME CallsOK, OwedOK, NEW key \in Key, NEW t \in Thread,
           Live' = Live \ {key}, owed' \subseteq owed,
           key \in owed' => call'[t].pc = "insert" /\ call'[t].key = key,
           call[t].pc # "insert",
           ~Idle(t)' => call'[t].key \in Key /\ call'[t].value \in Value,
           call'[t].pc = "insert" => call'[t].key \notin Live',
           call' \in [Thread -> CallRecord],
           \A u \in Thread : u # t =>
             /\ call'[u].pc = call[u].pc /\ call'[u].key = call[u].key
             /\ call'[u].value = call[u].value
             /\ call'[u].alone => call[u].alone
    PROVE  CallsOK' /\ OwedOK'
<1>1. ASSUME NEW u \in Thread
      PROVE  /\ ~Idle(u)' => call'[u].key \in Key /\ call'[u].value \in Value
             /\ call'[u].pc = "insert" /\ call'[u].alone => call'[u].key \notin Live'
  BY DEF CallsOK, Idle
<1>2. CallsOK'
  BY <1>1 DEF CallsOK
<1>3. ASSUME NEW m \in owed'
      PROVE  m \in Live' \/ \E u \in Thread : call'[u].pc = "insert" /\ call'[u].key = m
  <2>1. CASE m = key
    BY <2>1
  <2>2. CASE m # key
    <3>1. m \in Live => m \in Live'
      BY <2>2
    <3>2. m \notin Live => \E u \in Thread : call[u].pc = "insert" /\ call[u].key = m
      BY DEF OwedOK
    <3> QED BY <3>1, <3>2
  <2> QED BY <2>1, <2>2
<1> QED BY <1>2, <1>3 DEF OwedOK

LEMMA DeleteKeeps ==
    ASSUME SkipListInv, NEW t \in Thread, NEW key \in Key, deleteElement(t, key)
    PROVE  /\ SkipListInv'
           /\ Live' = Live \ {key}
           /\ \A n \in Live' : node'[n].value = node[n].value
<1> DEFINE k == Deleted(List, key)
<1>1. Sound(k) /\ Alive(k) = Live \ {key} /\ \A n \in Alive(k) : k.node[n].value = node[n].value
  BY DeletedIs, ListIs DEF SkipListInv
<1>2. SetList(k)
  BY DEF deleteElement
<1> HIDE DEF k
<1>3. Sound(List)' /\ Live' = Live \ {key} /\ node' = k.node
  BY <1>1, <1>2, SetListIs
<1>4. /\ call' \in [Thread -> CallRecord] /\ call'[t] = call[t]
      /\ \A u \in Thread :
           /\ call'[u].pc = call[u].pc /\ call'[u].key = call[u].key
           /\ call'[u].value = call[u].value
           /\ call'[u].alone => call[u].alone
  BY DisturbedFacts DEF deleteElement, SkipListInv
<1>5. CallsOK' /\ OwedOK'
  <2>1. CallsOK /\ OwedOK /\ call[t].pc = "idle" /\ owed' = owed \ {key}
    BY DEF SkipListInv, deleteElement, Idle
  <2>2. call'[t].pc = "idle" /\ Idle(t)'
    BY <1>4, <2>1 DEF Idle
  <2> QED BY <1>3, <1>4, <2>1, <2>2, KeyRemoved
<1>6. DumpOK'
  BY DEF SkipListInv, DumpOK, deleteElement
<1> QED BY <1>1, <1>3, <1>5, <1>6 DEF SkipListInv

LEMMA SetDeleteKeeps ==
    ASSUME SkipListInv, NEW t \in Thread, SetDelete(t)
    PROVE  /\ SkipListInv'
           /\ call[t].key \in Key
           /\ Live' = Live \ {call[t].key}
           /\ \A n \in Live' : node'[n].value = node[n].value
<1> DEFINE key == call[t].key
           k == Deleted(List, key)
<1>0. key \in Key /\ call[t].value \in Value /\ call[t].pc = "delete"
  BY DEF SkipListInv, CallsOK, SetDelete, Idle
<1> HIDE DEF key
<1>1. Sound(k) /\ Alive(k) = Live \ {key} /\ \A n \in Alive(k) : k.node[n].value = node[n].value
  BY <1>0, DeletedIs, ListIs DEF SkipListInv
<1>2. SetList(k)
  BY DEF SetDelete, key
<1> HIDE DEF k
<1>3. Sound(List)' /\ Live' = Live \ {key} /\ node' = k.node
  BY <1>1, <1>2, SetListIs
<1> DEFINE d == Disturbed(key, t)
<1>4. /\ d \in [Thread -> CallRecord] /\ d[t] = call[t]
      /\ \A u \in Thread :
           /\ d[u].pc = call[u].pc /\ d[u].key = call[u].key
           /\ d[u].value = call[u].value
           /\ d[u].alone => call[u].alone
  BY DisturbedFacts DEF SkipListInv
<1>5. call' = [d EXCEPT ![t].pc = "insert"] /\ owed' = owed
  BY DEF SetDelete, key
<1> HIDE DEF d
<1>6. /\ call' \in [Thread -> CallRecord]
      /\ call'[t].pc = "insert" /\ call'[t].key = key /\ call'[t].value = call[t].value
      /\ \A u \in Thread : u # t => call'[u] = d[u]
  <2>1. call' = [d EXCEPT ![t] = [d[t] EXCEPT !.pc = "insert"]]
    BY <1>5
  <2>2. /\ [d[t] EXCEPT !.pc = "insert"] \in CallRecord
        /\ [d[t] EXCEPT !.pc = "insert"].pc = "insert"
        /\ [d[t] EXCEPT !.pc = "insert"].key = d[t].key
        /\ [d[t] EXCEPT !.pc = "insert"].value = d[t].value
    <3>1. d[t] \in CallRecord
      BY <1>4
    <3> QED BY <3>1 DEF CallRecord
  <2>3. d[t].key = key /\ d[t].value = call[t].value
    BY <1>4 DEF key
  <2>4. /\ call' \in [Thread -> CallRecord] /\ call'[t] = [d[t] EXCEPT !.pc = "insert"]
        /\ \A u \in Thread : u # t => call'[u] = d[u]
    BY <1>4, <2>1, <2>2
  <2> QED BY <2>2, <2>3, <2>4
<1>7. CallsOK' /\ OwedOK'
  <2>1. CallsOK /\ OwedOK /\ call[t].pc # "insert"
    BY <1>0 DEF SkipListInv
  <2>2. \A u \in Thread : u # t =>
             /\ call'[u].pc = call[u].pc /\ call'[u].key = call[u].key
             /\ call'[u].value = call[u].value
             /\ call'[u].alone => call[u].alone
    BY <1>4, <1>6
  <2> QED BY <1>0, <1>3, <1>5, <1>6, <2>1, <2>2, KeyRemoved
<1>8. DumpOK'
  BY DEF SkipListInv, DumpOK, SetDelete
<1> QED BY <1>0, <1>1, <1>3, <1>7, <1>8 DEF SkipListInv, key

\* skipList.h:233-256: a search finds what is there, with its value, and nothing else.
LEMMA SearchIs ==
    ASSUME SkipListInv, NEW key \in Key
    PROVE  /\ Search(List, key) = Contents[key]
           /\ Contents[key] = IF key \in Live THEN node[key].value ELSE null
           /\ key \in Live => node[key].value \in Value /\ node[key].value # null
<1>1. Found(List, key) <=> key \in Live
  BY FoundIff, ListIs DEF SkipListInv
<1>2. Search(List, key) = IF key \in Live THEN node[key].value ELSE null
  BY <1>1, ListIs DEF Search
<1>3. key \in Live => node[key].value \in Value
  BY ListIs DEF SkipListInv, Sound, Towers
<1> QED BY <1>2, <1>3, NullAssumption DEF Contents

LEMMA SetSearchKeeps ==
    ASSUME SkipListInv, NEW t \in Thread, NEW key \in Key, NEW value \in Value,
           SetSearch(t, key, value)
    PROVE  SkipListInv'
<1> DEFINE d == Disturbed(key, t)
           r == [pc |-> IF Search(List, key) # null THEN "delete" ELSE "insert",
                 key |-> key, value |-> value,
                 alone |-> \A u \in Thread : call[u].key # key]
<1>1. /\ d \in [Thread -> CallRecord]
      /\ \A u \in Thread :
           /\ d[u].pc = call[u].pc /\ d[u].key = call[u].key
           /\ d[u].value = call[u].value
           /\ d[u].alone => call[u].alone
  BY DisturbedFacts DEF SkipListInv
<1>2. call' = [d EXCEPT ![t] = r] /\ UNCHANGED <<node, curLevel_, elementCount_, dumpStr, owed>>
  BY DEF SetSearch, list
<1>3. /\ r \in CallRecord /\ r.key = key /\ r.value = value
      /\ r.pc = "insert" => key \notin Live
      /\ r.pc = "insert" \/ r.pc = "delete"
  <2>1. key \in Live => Search(List, key) # null
    BY SearchIs
  <2>2. (\A u \in Thread : call[u].key # key) \in BOOLEAN
    OBVIOUS
  <2> QED BY <2>1, <2>2 DEF CallRecord
<1> HIDE DEF d, r
<1>4. call' \in [Thread -> CallRecord] /\ call'[t] = r
      /\ \A u \in Thread : u # t => call'[u] = d[u]
  BY <1>1, <1>2, <1>3
<1>5. Live' = Live /\ List' = List
  BY <1>2 DEF Live, List
<1>6. Sound(List)'
  BY <1>5 DEF SkipListInv
<1>7. CallsOK'
  <2>1. ASSUME NEW u \in Thread
        PROVE  /\ call'[u].pc # "idle" => call'[u].key \in Key /\ call'[u].value \in Value
               /\ call'[u].pc = "insert" /\ call'[u].alone => call'[u].key \notin Live'
    <3>1. CASE u = t
      BY <1>3, <1>4, <1>5, <3>1
    <3>2. CASE u # t
      BY <1>1, <1>4, <1>5, <3>2 DEF SkipListInv, CallsOK, Idle
    <3> QED BY <3>1, <3>2
  <2> QED BY <1>4, <2>1 DEF CallsOK, Idle
<1>8. OwedOK'
  <2>1. ASSUME NEW m \in owed, m \notin Live
        PROVE  \E u \in Thread : call'[u].pc = "insert" /\ call'[u].key = m
    <3>1. PICK u \in Thread : call[u].pc = "insert" /\ call[u].key = m
      BY <2>1 DEF SkipListInv, OwedOK
    <3>2. u # t
      BY <3>1 DEF SetSearch, Idle
    <3> QED BY <1>1, <1>4, <3>1, <3>2
  <2> QED BY <1>2, <1>5, <2>1 DEF SkipListInv, OwedOK
<1>9. DumpOK'
  BY <1>2 DEF SkipListInv, DumpOK
<1> QED BY <1>6, <1>7, <1>8, <1>9 DEF SkipListInv

LEMMA DumpKeeps ==
    ASSUME SkipListInv, NEW t \in Thread, dumpFile(t)
    PROVE  SkipListInv' /\ IsDump(List, dumpStr')
<1>1. UNCHANGED <<node, curLevel_, elementCount_, call, owed>> /\ dumpStr' = Pairs(List)
  BY DEF dumpFile, list
<1>2. List' = List /\ Live' = Live
  BY <1>1 DEF List, Live
<1>3. IsDump(List, dumpStr')
  BY <1>1, PairsAre DEF SkipListInv
<1>4. DumpOK'
  BY <1>3 DEF DumpOK, IsDump
<1>5. Sound(List)' /\ CallsOK' /\ OwedOK'
  BY <1>1, <1>2 DEF SkipListInv, CallsOK, OwedOK, Idle
<1> QED BY <1>3, <1>4, <1>5 DEF SkipListInv

LEMMA LoadKeeps ==
    ASSUME SkipListInv, NEW t \in Thread,
           NEW levels \in [1 .. Len(dumpStr) -> RandomLevel], loadFile(t, levels)
    PROVE  /\ SkipListInv'
           /\ Live' = Live \cup {dumpStr[j].key : j \in DOMAIN dumpStr}
           /\ \A n \in Live : node'[n].value = node[n].value
           /\ \A j \in DOMAIN dumpStr :
                dumpStr[j].key \notin Live => node'[dumpStr[j].key].value = dumpStr[j].value
<1> DEFINE k == Loaded(List, dumpStr, levels)
           keys == {dumpStr[j].key : j \in DOMAIN dumpStr}
<1>0. dumpStr \in Seq([key : Key, value : Value]) /\ DOMAIN dumpStr = 1 .. Len(dumpStr)
  BY DEF SkipListInv, DumpOK
<1>1. /\ Sound(k) /\ Alive(k) = Live \cup keys
      /\ \A n \in Live : k.node[n].value = node[n].value
      /\ \A j \in DOMAIN dumpStr :
           dumpStr[j].key \notin Live => k.node[dumpStr[j].key].value = dumpStr[j].value
  <2>1. AddsPairs(List, dumpStr, k)
    BY LoadedIs DEF SkipListInv, DumpOK
  <2> HIDE DEF k
  <2> QED BY <2>1, ListIs DEF AddsPairs
<1>2. SetList(k)
  BY DEF loadFile
<1> HIDE DEF k
<1>3. Sound(List)' /\ Live' = Live \cup keys /\ node' = k.node
  BY <1>1, <1>2, SetListIs
<1>4. keys \in SUBSET Key
  <2>1. \A j \in DOMAIN dumpStr : dumpStr[j] \in [key : Key, value : Value]
    BY <1>0, MemberOf
  <2> QED BY <2>1
<1>5. ASSUME NEW u \in Thread
      PROVE  /\ call'[u] \in CallRecord
             /\ call'[u].pc = call[u].pc /\ call'[u].key = call[u].key
             /\ call'[u].value = call[u].value
             /\ call'[u].alone => call[u].alone /\ call[u].key \notin keys
  <2> DEFINE a == call[u].alone /\ \A j \in DOMAIN dumpStr : dumpStr[j].key # call[u].key
  <2>1. call[u] \in CallRecord
    BY DEF SkipListInv, CallsOK
  <2>2. call'[u] = [call[u] EXCEPT !.alone = a]
    BY DEF loadFile
  <2>3. a \in BOOLEAN /\ (a => call[u].alone /\ call[u].key \notin keys)
    BY <2>1 DEF CallRecord
  <2> HIDE DEF a
  <2> QED BY <2>1, <2>2, <2>3 DEF CallRecord
<1>6. call' \in [Thread -> CallRecord]
  <2>1. call' = [u \in Thread |-> call'[u]]
    BY DEF loadFile
  <2> QED BY <1>5, <2>1
<1>7. CallsOK' /\ OwedOK'
  <2>1. CallsOK /\ OwedOK /\ owed' = owed \cup keys
    BY DEF SkipListInv, loadFile
  <2> HIDE DEF keys
  <2> QED BY <1>3, <1>4, <1>5, <1>6, <2>1, KeysAdded
<1>8. DumpOK'
  BY DEF SkipListInv, DumpOK, loadFile
<1> QED BY <1>1, <1>3, <1>7, <1>8 DEF SkipListInv

LEMMA ConstructKeeps ==
    ASSUME SkipListInv, Construct
    PROVE  SkipListInv' /\ Live' = {}
<1>1. Sound(List)' /\ Live' = {}
  BY EmptySound, SetListIs DEF Construct
<1>2. UNCHANGED <<call, dumpStr>> /\ owed' = {}
  BY DEF Construct
<1>3. CallsOK' /\ OwedOK' /\ DumpOK'
  BY <1>1, <1>2 DEF SkipListInv, CallsOK, OwedOK, DumpOK, Idle
<1> QED BY <1>1, <1>3 DEF SkipListInv

LEMMA StutterKeeps ==
    ASSUME SkipListInv, UNCHANGED vars
    PROVE  SkipListInv' /\ Contents' = Contents
<1>1. List' = List /\ Live' = Live /\ Contents' = Contents
  BY DEF List, Live, Contents, vars
<1> QED BY <1>1 DEF SkipListInv, CallsOK, OwedOK, DumpOK, Idle, vars

LEMMA InvNext == SkipListInv /\ [Next]_vars => SkipListInv'
<1> SUFFICES ASSUME SkipListInv, [Next]_vars
             PROVE  SkipListInv'
  OBVIOUS
<1>1. CASE \E t \in Thread, key \in Key, value \in Value, level \in RandomLevel :
             insertElement(t, key, value, level)
  BY <1>1, InsertKeeps
<1>2. CASE \E t \in Thread, key \in Key, value \in Value : SetSearch(t, key, value)
  BY <1>2, SetSearchKeeps
<1>3. CASE \E t \in Thread, key \in Key : deleteElement(t, key)
  BY <1>3, DeleteKeeps
<1>4. CASE \E t \in Thread : SetDelete(t)
  BY <1>4, SetDeleteKeeps
<1>5. CASE \E t \in Thread, level \in RandomLevel : SetInsert(t, level)
  BY <1>5, SetInsertKeeps
<1>6. CASE \E t \in Thread : dumpFile(t)
  BY <1>6, DumpKeeps
<1>7. CASE \E t \in Thread : \E levels \in [1 .. Len(dumpStr) -> RandomLevel] :
             loadFile(t, levels)
  BY <1>7, LoadKeeps
<1>8. CASE Construct
  BY <1>8, ConstructKeeps
<1>9. CASE UNCHANGED vars
  BY <1>9, StutterKeeps
<1> QED BY <1>1, <1>2, <1>3, <1>4, <1>5, <1>6, <1>7, <1>8, <1>9 DEF Next

LEMMA SkipListInvariant == Spec => []SkipListInv
<1> QED BY InvInit, InvNext, PTL DEF Spec

-----------------------------------------------------------------------------
(* The properties *)

LEMMA InvLevels == SkipListInv => LevelsLinked
<1> SUFFICES ASSUME SkipListInv, NEW i \in Level,
                    NEW n \in {m \in Live : i \in DOMAIN node[m].forward} \cup {header_}
             PROVE  LET at == {m \in Live : i \in DOMAIN node[m].forward}
                        after(x) == {m \in at : m > x}
                    IN  node[n].forward[i] = IF after(n) = {} THEN null ELSE Min(after(n))
  BY Zenon DEF LevelsLinked
<1> DEFINE at == {m \in Live : i \in DOMAIN node[m].forward}
<1>1. Towers(List) /\ Linked(List) /\ NKey \in Nat
  BY SkipListAssumption DEF SkipListInv, Sound
<1>2. On(List, i) = at \cup {header_} /\ On(List, i) \subseteq 0 .. NKey
  <2>1. header_ \in On(List, i) /\ On(List, i) \subseteq 0 .. NKey
    BY <1>1, OnFacts
  <2> QED BY <2>1, ListIs DEF On, Live
<1>3. After(List, i, n) = {m \in at : m > n}
  <2>1. n \in 0 .. NKey
    BY <1>2
  <2>2. ~(header_ > n)
    BY <1>1, <2>1 DEF header_
  <2> QED BY <1>2, <2>2 DEF After
<1>4. node[n].forward[i] = NextOn(List, i, n)
  BY <1>1, <1>2, ListIs DEF Linked
<1> QED BY <1>3, <1>4 DEF NextOn

LEMMA InvCounters == SkipListInv => CountersRight
<1> SUFFICES ASSUME SkipListInv
             PROVE  CountersRight
  OBVIOUS
<1> DEFINE S == {0} \cup UNION {DOMAIN node[n].forward : n \in Live}
<1>1. /\ Towers(List) /\ Counted(List) /\ maxLevel_ \in Nat /\ Level = 0 .. maxLevel_
      /\ curLevel_ \in Level
  BY SkipListAssumption, ListIs DEF SkipListInv, Sound, Counted, Level
<1>2. ASSUME NEW n \in Live
      PROVE  n \in DOMAIN node /\ DOMAIN node[n].forward \subseteq Level
  BY <1>1, ListIs, Reaches DEF Live
<1>3. S \in SUBSET (0 .. maxLevel_)
  BY <1>1, <1>2
<1>4. curLevel_ \in S
  <2>1. CASE curLevel_ = 0
    BY <2>1
  <2>2. CASE curLevel_ # 0
    <3>1. On(List, curLevel_) # {header_} /\ header_ \in On(List, curLevel_)
      BY <1>1, <2>2, ListIs, OnFacts DEF Counted
    <3>2. PICK n \in On(List, curLevel_) : n # header_
      BY <3>1
    <3>3. n \in Live /\ curLevel_ \in DOMAIN node[n].forward
      BY <3>2, ListIs DEF On, Live
    <3> QED BY <3>3
  <2> QED BY <2>1, <2>2
<1>5. ASSUME NEW i \in S
      PROVE  i <= curLevel_
  <2>1. CASE i = 0
    BY <1>1, <2>1
  <2>2. CASE i # 0
    <3>1. PICK n \in Live : i \in DOMAIN node[n].forward
      BY <2>2
    <3>2. n \in On(List, i) /\ n # header_ /\ i \in Level
      BY <1>2, <3>1, ListIs DEF On, Live
    <3>3. ~(i > curLevel_)
      BY <1>1, <3>2, ListIs DEF Counted
    <3> QED BY <1>1, <3>2, <3>3
  <2> QED BY <2>1, <2>2
<1>6. Max(S) = curLevel_
  <2> HIDE DEF S
  <2> QED BY <1>1, <1>3, <1>4, <1>5, MaxIs
<1>7. elementCount_ = Cardinality(Live)
  BY <1>1, ListIs DEF Counted
<1> QED BY <1>6, <1>7 DEF CountersRight

LEMMA InvHole == SkipListInv => HoleIsTransient
<1> SUFFICES ASSUME SkipListInv, NEW key \in owed, Contents[key] = null
             PROVE  \E t \in Thread : call[t].pc = "insert" /\ call[t].key = key
  BY DEF HoleIsTransient
<1>1. key \in Key
  BY DEF SkipListInv, OwedOK
<1>2. key \notin Live
  BY <1>1, SearchIs
<1> QED BY <1>2 DEF SkipListInv, OwedOK

\* Every level is at any time a sorted chain through the nodes that reach it, whatever
\* inserts, deletes and loads came before: the early break of deleteElement
\* (skipList.h:279-286) leaves no level with a pointer to a freed node, and update[]
\* of insertElementNoBlock (skipList.h:187-226) loses none.
THEOREM EveryLevelLinked == Spec => []LevelsLinked
<1> QED BY SkipListInvariant, InvLevels, PTL

\* curLevel_ is the highest level with a node, after the levels that insertElementNoBlock
\* opens (skipList.h:210-216) and deleteElement gives up (skipList.h:289-292), and
\* elementCount_ is the number of nodes.
THEOREM CountersAgree == Spec => []CountersRight
<1> QED BY SkipListInvariant, InvCounters, PTL

\* searchElement (skipList.h:233-256), which starts at the header on level curLevel_,
\* finds every pair that is in the list and no other.
THEOREM SearchIsRight == Spec => []SearchFinds
<1>1. SkipListInv => SearchFinds
  BY SearchIs DEF SearchFinds
<1> QED BY <1>1, SkipListInvariant, PTL

\* insertSetElement (skipList.h:303-310) gives the mutex away between its steps.  A key
\* that was put in and not deleted by a caller is missing only while a thread is about
\* to put it back.
THEOREM HolesAreFilled == Spec => []HoleIsTransient
<1> QED BY SkipListInvariant, InvHole, PTL

\* When no other thread touched the key between the steps of insertSetElement
\* (skipList.h:303-310), the key has the value of the call when it returns, whatever was
\* there before.
THEOREM SetIsEffective == Spec => SetTakesEffect
<1>1. ASSUME SkipListInv, NEW t \in Thread, NEW level \in RandomLevel,
             SetInsert(t, level), call[t].alone
      PROVE  Contents'[call[t].key] = call[t].value
  <2>1. /\ call[t].key \in Key
        /\ Live' = Live \cup {call[t].key}
        /\ call[t].key \notin Live => node'[call[t].key].value = call[t].value
    BY <1>1, SetInsertKeeps
  <2>2. call[t].key \notin Live
    BY <1>1 DEF SkipListInv, CallsOK, SetInsert
  <2> QED BY <2>1, <2>2 DEF Contents
<1>2. SkipListInv /\ [Next]_vars =>
        [\A t \in Thread, level \in RandomLevel :
           SetInsert(t, level) /\ call[t].alone
             => Contents'[call[t].key] = call[t].value]_vars
  BY <1>1
<1> QED BY <1>2, SkipListInvariant, PTL DEF Spec, SetTakesEffect

-----------------------------------------------------------------------------
(* The list is a map *)

SavedBy(d) == [key \in Key |->
                 LET at == {j \in DOMAIN d : d[j].key = key}
                 IN  IF at = {} THEN null ELSE d[Max(at)].value]

Saved == SavedBy(dumpStr)

\* A dump has the value of a key wherever it has the key.
LEMMA SavedIs ==
    ASSUME NEW d \in Seq([key : Key, value : Value]),
           \A j, k \in DOMAIN d : d[j].key = d[k].key => d[j].value = d[k].value,
           NEW key \in Key
    PROVE  /\ (\A j \in DOMAIN d : d[j].key # key) => SavedBy(d)[key] = null
           /\ \A j \in DOMAIN d : d[j].key = key => SavedBy(d)[key] = d[j].value
<1> DEFINE at == {j \in DOMAIN d : d[j].key = key}
<1>1. SavedBy(d)[key] = IF at = {} THEN null ELSE d[Max(at)].value
  BY DEF SavedBy
<1>2. at \in SUBSET (0 .. Len(d)) /\ Len(d) \in Nat
  OBVIOUS
<1>3. at # {} => Max(at) \in at
  <2> HIDE DEF at
  <2> QED BY <1>2, MaxOf
<1>4. ASSUME NEW j \in DOMAIN d, d[j].key = key
      PROVE  SavedBy(d)[key] = d[j].value
  <2>1. Max(at) \in DOMAIN d /\ d[Max(at)].key = d[j].key
    BY <1>3, <1>4
  <2>2. d[Max(at)].value = d[j].value
    BY <1>4, <2>1
  <2> QED BY <1>1, <1>4, <2>2
<1> QED BY <1>1, <1>4

\* A step that puts a pair in, unless the key is there.
LEMMA StepInserts ==
    ASSUME SkipListInv, NEW key \in Key, NEW value \in Value, Live' = Live \cup {key},
           \A n \in Live : node'[n].value = node[n].value,
           key \notin Live => node'[key].value = value,
           UNCHANGED dumpStr
    PROVE  Map!Insert(key, value) \/ UNCHANGED <<Contents, Saved>>
<1>1. Saved' = Saved
  BY DEF Saved, SavedBy
<1>2. CASE key \in Live
  <2>1. Contents' = Contents
    BY <1>2 DEF Contents
  <2> QED BY <1>1, <2>1
<1>3. CASE key \notin Live
  <2>1. Contents[key] = null
    BY <1>3 DEF Contents
  <2>2. Contents' = [Contents EXCEPT ![key] = value]
    BY <1>3 DEF Contents
  <2> QED BY <1>1, <2>1, <2>2 DEF Map!Insert, Saved, SavedBy
<1> QED BY <1>2, <1>3

LEMMA StepRemoves ==
    ASSUME NEW key \in Key, Live' = Live \ {key},
           \A n \in Live' : node'[n].value = node[n].value,
           UNCHANGED dumpStr
    PROVE  Map!Remove(key)
<1>1. Saved' = Saved
  BY DEF Saved, SavedBy
<1>2. Contents' = [Contents EXCEPT ![key] = null]
  BY DEF Contents
<1> QED BY <1>1, <1>2 DEF Map!Remove, Saved, SavedBy

LEMMA StepSaves ==
    ASSUME SkipListInv, NEW t \in Thread, dumpFile(t)
    PROVE  Map!Save
<1>1. Contents' = Contents
  BY DEF dumpFile, list, Contents, Live
<1>2. IsDump(List, dumpStr') /\ DumpOK'
  BY DumpKeeps DEF SkipListInv
<1>3. /\ dumpStr' \in Seq([key : Key, value : Value])
      /\ \A j, k \in DOMAIN dumpStr' :
           dumpStr'[j].key = dumpStr'[k].key => dumpStr'[j].value = dumpStr'[k].value
  BY <1>2 DEF DumpOK
<1>4. Saved' = SavedBy(dumpStr')
  BY DEF Saved, SavedBy
<1>5. ASSUME NEW key \in Key
      PROVE  Saved'[key] = Contents[key]
  <2>1. CASE key \in Live
    <3>1. PICK j \in DOMAIN dumpStr' : dumpStr'[j].key = key
      BY <1>2, <2>1, ListIs DEF IsDump
    <3>2. dumpStr'[j].value = node[key].value
      BY <1>2, <3>1, ListIs DEF IsDump
    <3>3. Saved'[key] = dumpStr'[j].value
      BY <1>3, <1>4, <3>1, SavedIs
    <3> QED BY <2>1, <3>2, <3>3 DEF Contents
  <2>2. CASE key \notin Live
    <3>1. \A j \in DOMAIN dumpStr' : dumpStr'[j].key # key
      BY <1>2, <2>2, ListIs DEF IsDump
    <3>2. Saved'[key] = null
      BY <1>3, <1>4, <3>1, SavedIs
    <3> QED BY <2>2, <3>2 DEF Contents
  <2> QED BY <2>1, <2>2
<1>6. Saved' = Contents
  BY <1>5 DEF Saved, SavedBy, Contents
<1> QED BY <1>1, <1>6 DEF Map!Save, Saved, SavedBy

LEMMA StepLoads ==
    ASSUME SkipListInv, NEW t \in Thread,
           NEW levels \in [1 .. Len(dumpStr) -> RandomLevel], loadFile(t, levels)
    PROVE  Map!Load
<1>0. /\ Live' = Live \cup {dumpStr[j].key : j \in DOMAIN dumpStr}
      /\ \A n \in Live : node'[n].value = node[n].value
      /\ \A j \in DOMAIN dumpStr :
           dumpStr[j].key \notin Live => node'[dumpStr[j].key].value = dumpStr[j].value
  BY LoadKeeps
<1>1. Saved' = Saved
  BY DEF Saved, SavedBy, loadFile
<1>2. ASSUME NEW key \in Key
      PROVE  Contents'[key] = IF Contents[key] = null THEN Saved[key] ELSE Contents[key]
  <2>1. CASE key \in Live
    <3>1. Contents'[key] = Contents[key]
      BY <1>0, <2>1 DEF Contents
    <3>2. Contents[key] # null
      BY <2>1, SearchIs
    <3> QED BY <3>1, <3>2
  <2>2. CASE key \notin Live
    <3>1. Contents[key] = null
      BY <2>2 DEF Contents
    <3>2. CASE \E j \in DOMAIN dumpStr : dumpStr[j].key = key
      <4>1. PICK j \in DOMAIN dumpStr : dumpStr[j].key = key
        BY <3>2
      <4>2. key \in Live' /\ node'[key].value = dumpStr[j].value
        BY <1>0, <2>2, <4>1
      <4>3. Saved[key] = dumpStr[j].value
        BY <4>1, SavedIs DEF SkipListInv, DumpOK, Saved
      <4> QED BY <3>1, <4>2, <4>3 DEF Contents
    <3>3. CASE \A j \in DOMAIN dumpStr : dumpStr[j].key # key
      <4>1. key \notin Live'
        BY <1>0, <2>2, <3>3
      <4>2. Saved[key] = null
        BY <3>3, SavedIs DEF SkipListInv, DumpOK, Saved
      <4> QED BY <3>1, <4>1, <4>2 DEF Contents
    <3> QED BY <3>2, <3>3
  <2> QED BY <2>1, <2>2
<1>3. Contents' = [key \in Key |-> IF Contents[key] = null THEN Saved[key] ELSE Contents[key]]
  BY <1>2 DEF Contents
<1> QED BY <1>1, <1>3 DEF Map!Load, Saved, SavedBy

LEMMA StepRenews ==
    ASSUME SkipListInv, Construct
    PROVE  Map!Renew
<1>1. Live' = {} /\ dumpStr' = dumpStr
  BY ConstructKeeps DEF Construct
<1>2. Contents' = [key \in Key |-> null] /\ Saved' = Saved
  BY <1>1 DEF Contents, Saved, SavedBy
<1> QED BY <1>2 DEF Map!Renew, Saved, SavedBy

\* The list is the map of KeyMap as its users see it: insertElement, deleteElement,
\* dumpFile, loadFile and the steps of insertSetElement (skipList.h:176-347) are the
\* operations of the map or leave it as it is.
THEOREM ListRefinesMap == Spec => MapRefinement
<1>1. Init => Map!Init
  <2> SUFFICES ASSUME Init
               PROVE  Map!Init
    OBVIOUS
  <2>1. Live = {} /\ DOMAIN dumpStr = {}
    BY DEF Init, EmptyList, Live
  <2>2. Contents = [key \in Key |-> null] /\ Saved = [key \in Key |-> null]
    BY <2>1 DEF Contents, Saved, SavedBy
  <2> QED BY <2>2 DEF Map!Init, Saved, SavedBy
<1>2. SkipListInv /\ [Next]_vars => [Map!Next]_<<Contents, Saved>>
  <2> SUFFICES ASSUME SkipListInv, [Next]_vars
               PROVE  Map!Next \/ UNCHANGED <<Contents, Saved>>
    OBVIOUS
  <2>1. CASE \E t \in Thread, key \in Key, value \in Value, level \in RandomLevel :
               insertElement(t, key, value, level)
    <3>1. PICK t \in Thread, key \in Key, value \in Value, level \in RandomLevel :
            insertElement(t, key, value, level)
      BY <2>1
    <3>2. Map!Insert(key, value) \/ UNCHANGED <<Contents, Saved>>
      BY <3>1, InsertKeeps, StepInserts DEF insertElement
    <3> QED BY <3>2 DEF Map!Next
  <2>2. CASE \E t \in Thread, key \in Key, value \in Value : SetSearch(t, key, value)
    BY <2>2 DEF SetSearch, list, Contents, Live, Saved, SavedBy
  <2>3. CASE \E t \in Thread, key \in Key : deleteElement(t, key)
    <3>1. PICK t \in Thread, key \in Key : deleteElement(t, key)
      BY <2>3
    <3>2. Map!Remove(key)
      BY <3>1, DeleteKeeps, StepRemoves DEF deleteElement
    <3> QED BY <3>2 DEF Map!Next
  <2>4. CASE \E t \in Thread : SetDelete(t)
    <3>1. PICK t \in Thread : SetDelete(t)
      BY <2>4
    <3>2. call[t].key \in Key /\ Map!Remove(call[t].key)
      BY <3>1, SetDeleteKeeps, StepRemoves DEF SetDelete
    <3> QED BY <3>2 DEF Map!Next
  <2>5. CASE \E t \in Thread, level \in RandomLevel : SetInsert(t, level)
    <3>1. PICK t \in Thread, level \in RandomLevel : SetInsert(t, level)
      BY <2>5
    <3>2. /\ call[t].key \in Key /\ call[t].value \in Value
          /\ Map!Insert(call[t].key, call[t].value) \/ UNCHANGED <<Contents, Saved>>
      BY <3>1, SetInsertKeeps, StepInserts DEF SetInsert
    <3> QED BY <3>2 DEF Map!Next
  <2>6. CASE \E t \in Thread : dumpFile(t)
    BY <2>6, StepSaves DEF Map!Next
  <2>7. CASE \E t \in Thread : \E levels \in [1 .. Len(dumpStr) -> RandomLevel] :
               loadFile(t, levels)
    BY <2>7, StepLoads DEF Map!Next
  <2>8. CASE Construct
    BY <2>8, StepRenews DEF Map!Next
  <2>9. CASE UNCHANGED vars
    BY <2>9 DEF vars, Contents, Live, Saved, SavedBy
  <2> QED BY <2>1, <2>2, <2>3, <2>4, <2>5, <2>6, <2>7, <2>8, <2>9 DEF Next
<1> QED BY <1>1, <1>2, SkipListInvariant, PTL DEF Spec, MapRefinement, Map!Spec, Saved, SavedBy

=============================================================================
