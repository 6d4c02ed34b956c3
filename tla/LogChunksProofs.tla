-------------------------- MODULE LogChunksProofs --------------------------
(***************************************************************************)
(* Proofs about the chunked eth_getLogs of LogChunks, for every filter,    *)
(* list of upstreams, set of logs and limit.  First the arithmetic of the  *)
(* cut: the chunks begin Step blocks apart, and their windows are a        *)
(* partition of the range.  Then lists in increasing order, which is what  *)
(* the sort of the reply makes.  Then the invariant: the limiter's queue   *)
(* holds each waiting chunk once, its counter is the number of chunks      *)
(* under way, both are related to the limit, and what is kept was counted  *)
(* before.  A second invariant relates the answers kept to the chunks that *)
(* are done; with it and the partition the reply is complete.  Last, what  *)
(* the asker sees implements the abstract request of LogQuery.             *)
(***************************************************************************)
EXTENDS LogChunks, FiniteSetTheorems, WellFoundedInduction, TLAPS

(***************************************************************************)
(* How a range is cut.                                                     *)
(***************************************************************************)

\* The first block of the i-th chunk, and how many chunks there are.
Nth(from, i)       == from + (i - 1) * Step
Count(from, to)    == (to - from) \div Step + 1

LEMMA StepType == Step \in Nat /\ MaxParallel \in Nat /\ MaxUserRange \in Nat /\ MaxLogs \in Nat
  BY LimitsAssumption

LEMMA DivMod ==
    ASSUME NEW b \in Nat, Step > 0
    PROVE  /\ b = Step * (b \div Step) + (b % Step)
           /\ b % Step \in 0..(Step - 1) /\ b \div Step \in Nat
  BY StepType

LEMMA MultipleMod ==
    ASSUME NEW k \in Nat, Step > 0
    PROVE  (k * Step) % Step = 0 /\ (k * Step) \div Step = k
  BY StepType

\* The chunks begin Step blocks apart.
LEMMA NthOrder ==
    ASSUME Step > 0, NEW from \in Nat, NEW i \in Int, NEW j \in Int
    PROVE  /\ Nth(from, i) \in Int
           /\ i < j <=> Nth(from, i) < Nth(from, j)
           /\ i <= j <=> Nth(from, i) <= Nth(from, j)
           /\ i = j <=> Nth(from, i) = Nth(from, j)
           /\ i < j => Nth(from, i) + Step <= Nth(from, j)
<1>1. Step \in Nat /\ Step >= 1
  BY StepType
<1>2. Nth(from, i) \in Int /\ Nth(from, j) \in Int
  BY <1>1 DEF Nth
<1>3. \A a, b \in Int : a < b => Nth(from, a) + Step <= Nth(from, b)
  <2> SUFFICES ASSUME NEW a \in Int, NEW b \in Int, a < b
      PROVE  Nth(from, a) + Step <= Nth(from, b)
    OBVIOUS
  <2>1. (b - 1) * Step - (a - 1) * Step = (b - a) * Step
    BY <1>1
  <2>2. (b - a) * Step >= Step
    BY <1>1
  <2> QED BY <1>1, <2>1, <2>2 DEF Nth
<1> QED BY <1>1, <1>2, <1>3

LEMMA CountType ==
    ASSUME Step > 0, NEW from \in Nat, NEW to \in Nat, from <= to
    PROVE  /\ Count(from, to) \in Nat /\ Count(from, to) >= 1
           /\ Nth(from, Count(from, to)) <= to
           /\ to < Nth(from, Count(from, to) + 1)
<1> DEFINE x == to - from
<1>1. x \in Nat /\ Step \in Nat
  BY StepType
<1> DEFINE q == x \div Step
<1>2. x = Step * q + (x % Step) /\ x % Step \in 0..(Step - 1) /\ q \in Nat
  BY <1>1, DivMod
<1>3. Count(from, to) = q + 1
  BY DEF Count
<1> HIDE DEF q
<1>4. Nth(from, q + 1) = from + q * Step /\ Nth(from, q + 2) = from + q * Step + Step
  BY <1>1, <1>2 DEF Nth
<1>5. Nth(from, q + 1) <= to /\ to < Nth(from, q + 2)
  BY <1>1, <1>2, <1>4
<1>6. Count(from, to) + 1 = q + 2
  BY <1>2, <1>3
<1> QED BY <1>2, <1>3, <1>5, <1>6

LEMMA StartsAre ==
    ASSUME Step > 0, NEW from \in Nat, NEW to \in Nat, from <= to
    PROVE  Starts(from, to, Step) = {Nth(from, i) : i \in 1..Count(from, to)}
<1>1. Step \in Nat
  BY StepType
<1>2. Count(from, to) \in Nat /\ to < Nth(from, Count(from, to) + 1)
      /\ Nth(from, Count(from, to)) <= to
  BY CountType
<1>3. ASSUME NEW c \in Starts(from, to, Step)
      PROVE  \E i \in 1..Count(from, to) : c = Nth(from, i)
  <2>1. c \in from..to /\ (c - from) % Step = 0
    BY <1>1, <1>3 DEF Starts
  <2> DEFINE k == (c - from) \div Step
  <2>2. c - from \in Nat
    BY <2>1
  <2>3. k \in Nat /\ c - from = Step * k
    BY <1>1, <2>1, <2>2, DivMod
  <2> HIDE DEF k
  <2>4. c = Nth(from, k + 1)
    <3>1. (k + 1) - 1 = k /\ k * Step = Step * k
      BY <1>1, <2>3
    <3> QED BY <2>1, <2>3, <3>1 DEF Nth
  <2>5. Nth(from, k + 1) < Nth(from, Count(from, to) + 1)
    <3>1. Count(from, to) + 1 \in Int
      BY <1>2
    <3>2. Nth(from, Count(from, to) + 1) \in Int
      BY <3>1, NthOrder
    <3> HIDE DEF Count, Nth
    <3> QED BY <1>2, <2>1, <2>4, <3>2
  <2>6. k + 1 < Count(from, to) + 1
    <3>1. k + 1 \in Int /\ Count(from, to) + 1 \in Int
      BY <1>2, <2>3
    <3> HIDE DEF Count, Nth
    <3> QED BY <2>5, <3>1, NthOrder
  <2>7. k + 1 \in 1..Count(from, to)
    BY <1>2, <2>3, <2>6
  <2> QED BY <2>4, <2>7
<1>4. ASSUME NEW i \in 1..Count(from, to) PROVE Nth(from, i) \in Starts(from, to, Step)
  <2>1. i - 1 \in Nat /\ i \in Int /\ 1 <= i /\ i <= Count(from, to)
    BY <1>2
  <2>2. Nth(from, i) - from = (i - 1) * Step
    BY <1>1, <2>1 DEF Nth
  <2>3. (Nth(from, i) - from) % Step = 0
    BY <2>1, <2>2, MultipleMod
  <2>4. Nth(from, 1) <= Nth(from, i) /\ Nth(from, i) <= Nth(from, Count(from, to))
        /\ Nth(from, i) \in Int /\ Nth(from, Count(from, to)) \in Int
    <3>1. 1 \in Int /\ Count(from, to) \in Int
      BY <1>2
    <3> HIDE DEF Count, Nth
    <3> QED BY <2>1, <3>1, NthOrder
  <2>5. Nth(from, 1) = from
    BY <1>1 DEF Nth
  <2> QED BY <1>1, <1>2, <2>3, <2>4, <2>5 DEF Starts
<1> QED BY <1>3, <1>4

\* A window ends within the range and within Step blocks.
LEMMA WindowShape ==
    ASSUME Step > 0, NEW from \in Nat, NEW to \in Nat, NEW c \in Starts(from, to, Step)
    PROVE  /\ c \in from..to /\ c \in Nat
           /\ ChunkEnd(c, to, Step) \in c..to
           /\ ChunkEnd(c, to, Step) <= c + Step - 1
           /\ ChunkBlocks(c, to, Step) \subseteq from..to
<1>1. c \in from..to /\ Step \in Nat /\ Step >= 1
  BY StepType DEF Starts
<1> QED BY <1>1 DEF ChunkEnd, ChunkBlocks

\* The windows cut the range into disjoint pieces.
LEMMA WindowsPartition ==
    ASSUME Step > 0, NEW from \in Nat, NEW to \in Nat, from <= to
    PROVE  LET Window(c) == ChunkBlocks(c, to, Step)
               Cs == Starts(from, to, Step)
           IN  /\ \A c \in Cs : Cardinality(Window(c)) \in 1..Step
               /\ \A c, d \in Cs : c # d => Window(c) \intersect Window(d) = {}
               /\ UNION {Window(c) : c \in Cs} = from..to
<1> DEFINE Window(c) == ChunkBlocks(c, to, Step)
           Cs == Starts(from, to, Step)
<1>s. Step \in Nat /\ Step >= 1
  BY StepType
<1>1. ASSUME NEW c \in Cs PROVE Cardinality(Window(c)) \in 1..Step
  <2> DEFINE e == ChunkEnd(c, to, Step)
  <2>1. c \in Nat /\ e \in c..to /\ e <= c + Step - 1
    BY WindowShape
  <2> HIDE DEF e
  <2>2. e \in Int /\ c \in Int /\ c <= e
    BY <2>1
  <2>3. Cardinality(c..e) = e - c + 1
    BY <2>2, FS_Interval
  <2>4. e - c + 1 \in 1..Step
    BY <1>s, <2>1, <2>2
  <2> QED BY <2>3, <2>4 DEF ChunkBlocks, e
<1>2. ASSUME NEW c \in Cs, NEW d \in Cs, c < d PROVE Window(c) \intersect Window(d) = {}
  <2>1. PICK i \in 1..Count(from, to) : c = Nth(from, i)
    BY StartsAre
  <2>2. PICK j \in 1..Count(from, to) : d = Nth(from, j)
    BY StartsAre
  <2>3. i \in Int /\ j \in Int
    OBVIOUS
  <2>4. c + Step <= d
    BY <1>2, <2>1, <2>2, <2>3, NthOrder
  <2>5. c \in Nat /\ ChunkEnd(c, to, Step) \in c..to /\ ChunkEnd(c, to, Step) <= c + Step - 1 /\ d \in Nat
    BY WindowShape
  <2> QED BY <1>s, <2>4, <2>5 DEF ChunkBlocks
<1>3. ASSUME NEW c \in Cs, NEW d \in Cs, c # d PROVE Window(c) \intersect Window(d) = {}
  <2>1. c \in Nat /\ d \in Nat
    BY WindowShape
  <2>2. c < d \/ d < c
    BY <1>3, <2>1
  <2>3. ASSUME NEW x \in Window(c), x \in Window(d) PROVE FALSE
    BY <1>2, <2>2, <2>3
  <2> QED BY <2>3
<1>4. ASSUME NEW b \in from..to PROVE \E c \in Cs : b \in Window(c)
  <2> DEFINE x == b - from
             k == x \div Step
             c == from + Step * k
  <2>1. x \in Nat /\ b \in Nat /\ b = from + x
    OBVIOUS
  <2>2. x = Step * k + (x % Step) /\ x % Step \in 0..(Step - 1) /\ k \in Nat
    BY <1>s, <2>1, DivMod
  <2> HIDE DEF k, x
  <2>3. c \in Nat /\ c <= b /\ b <= c + Step - 1 /\ from <= c
    BY <1>s, <2>1, <2>2
  <2>4. (c - from) % Step = 0
    <3>1. c - from = k * Step
      BY <1>s, <2>2
    <3> QED BY <2>2, <3>1, MultipleMod
  <2>5. c \in Cs
    BY <1>s, <2>3, <2>4 DEF Starts
  <2>6. b \in Window(c)
    BY <1>s, <2>1, <2>3 DEF ChunkBlocks, ChunkEnd
  <2> QED BY <2>5, <2>6
<1>5. UNION {Window(c) : c \in Cs} \subseteq from..to
  BY WindowShape
<1>6. UNION {Window(c) : c \in Cs} = from..to
  BY <1>4, <1>5
<1> QED BY <1>1, <1>3, <1>6

\* Later windows hold later blocks.
LEMMA WindowsOrdered ==
    ASSUME Step > 0, NEW from \in Nat, NEW to \in Nat, from <= to,
           NEW c \in Starts(from, to, Step), NEW d \in Starts(from, to, Step), c < d,
           NEW x \in ChunkBlocks(c, to, Step), NEW y \in ChunkBlocks(d, to, Step)
    PROVE  x < y
<1>1. PICK i \in 1..Count(from, to) : c = Nth(from, i)
  BY StartsAre
<1>2. PICK j \in 1..Count(from, to) : d = Nth(from, j)
  BY StartsAre
<1>3. i \in Int /\ j \in Int
  OBVIOUS
<1>4. c + Step <= d
  BY <1>1, <1>2, <1>3, NthOrder
<1>5. /\ c \in Nat /\ ChunkEnd(c, to, Step) \in c..to
      /\ ChunkEnd(c, to, Step) <= c + Step - 1 /\ d \in Nat
      /\ ChunkEnd(d, to, Step) \in d..to
  BY WindowShape
<1>6. Step \in Nat
  BY StepType
<1> QED BY <1>4, <1>5, <1>6 DEF ChunkBlocks
-----------------------------------------------------------------------------
(***************************************************************************)
(* Lists in increasing order, and what it means to put one after another.  *)
(* tlapm cannot instantiate an induction theorem with a predicate; where a *)
(* fact holds for every index, the least index at which it fails is        *)
(* picked, and refuted.                                                    *)
(***************************************************************************)

\* The least-number principle: every non-empty set of numbers has a least one.
LEMMA LeastNumber ==
    ASSUME NEW T, T \subseteq Nat, T # {}
    PROVE  \E x \in T : \A y \in T : x <= y
<1> DEFINE R == OpToRel(<, Nat)
<1>1. IsWellFoundedOn(R, Nat)
  BY NatLessThanWellFounded
<1>2. \A x, y \in Nat : y < x => <<y, x>> \in R
  BY DEF OpToRel
<1> HIDE DEF R
<1>3. PICK x \in T : \A y \in T : ~(<<y, x>> \in R)
  BY <1>1, WFMin
<1>4. ASSUME NEW y \in T PROVE x <= y
  <2>1. x \in Nat /\ y \in Nat
    OBVIOUS
  <2>2. ~(y < x)
    BY <1>2, <1>3, <2>1
  <2> QED BY <2>1, <2>2
<1> QED BY <1>4

\* s lists the elements of S by increasing key.
Lists(s, S, key) ==
    /\ s \in [1..Cardinality(S) -> S]
    /\ \A i, j \in 1..Cardinality(S) : i < j => key[s[i]] < key[s[j]]

Keyed(S, key) ==
    /\ IsFiniteSet(S)
    /\ \A x \in S : key[x] \in Int
    /\ \A x, y \in S : key[x] = key[y] => x = y

\* A list reaches every element, and no element twice.
LEMMA ListsAll ==
    ASSUME NEW S, NEW key, Keyed(S, key), NEW s, Lists(s, S, key)
    PROVE  /\ \A x \in S : \E i \in 1..Cardinality(S) : s[i] = x
           /\ \A i, j \in 1..Cardinality(S) : s[i] = s[j] => i = j
<1> DEFINE n == Cardinality(S)
<1>1. n \in Nat /\ IsFiniteSet(1..n) /\ Cardinality(1..n) = n
  <2>1. n \in Nat
    BY FS_CardinalityType DEF Keyed
  <2> HIDE DEF n
  <2> QED BY <2>1, FS_Interval
<1>2. \A i, j \in 1..n : s[i] = s[j] => i = j
  <2> SUFFICES ASSUME NEW i \in 1..n, NEW j \in 1..n, s[i] = s[j], i # j PROVE FALSE
    OBVIOUS
  <2>1. i < j \/ j < i
    BY <1>1
  <2>2. key[s[i]] \in Int
    BY DEF Lists, Keyed
  <2> QED BY <2>1, <2>2 DEF Lists
<1>3. s \in Injection(1..n, S)
  BY <1>2 DEF Lists, Injection, IsInjective
<1>4. s \in Surjection(1..n, S)
  BY <1>1, <1>3, FS_Injection DEF Keyed
<1> QED BY <1>2, <1>4 DEF Surjection

\* The number of elements up to x is the place of x.
LEMMA ListExists ==
    ASSUME NEW S, NEW key, Keyed(S, key)
    PROVE  \E s : Lists(s, S, key)
<1> DEFINE n == Cardinality(S)
           UpTo(x) == {y \in S : key[y] <= key[x]}
           rank == [x \in S |-> Cardinality(UpTo(x))]
<1>1. n \in Nat /\ IsFiniteSet(1..n) /\ Cardinality(1..n) = n /\ IsFiniteSet(S)
  <2>1. n \in Nat
    BY FS_CardinalityType DEF Keyed
  <2> HIDE DEF n
  <2> QED BY <2>1, FS_Interval DEF Keyed
<1>2. ASSUME NEW x \in S
      PROVE  IsFiniteSet(UpTo(x)) /\ rank[x] \in 1..n
  <2>1. UpTo(x) \subseteq S /\ x \in UpTo(x)
    BY DEF Keyed
  <2> HIDE DEF UpTo
  <2>2. IsFiniteSet(UpTo(x)) /\ Cardinality(UpTo(x)) <= n
    BY <1>1, <2>1, FS_Subset
  <2>3. Cardinality(UpTo(x)) \in Nat /\ Cardinality(UpTo(x)) # 0
    BY <2>1, <2>2, FS_CardinalityType, FS_EmptySet
  <2> HIDE DEF n
  <2> QED BY <1>1, <2>2, <2>3
<1>3. ASSUME NEW x \in S, NEW y \in S, key[x] < key[y]
      PROVE  rank[x] < rank[y]
  <2>1. UpTo(x) \subseteq UpTo(y) /\ y \in UpTo(y) /\ y \notin UpTo(x)
    BY <1>3 DEF Keyed
  <2>2. IsFiniteSet(UpTo(y)) /\ rank[x] \in 1..n /\ rank[y] \in 1..n
        /\ rank[x] = Cardinality(UpTo(x)) /\ rank[y] = Cardinality(UpTo(y))
    BY <1>2
  <2> HIDE DEF UpTo, n, rank
  <2>3. Cardinality(UpTo(x)) <= Cardinality(UpTo(y)) /\ UpTo(x) # UpTo(y)
    BY <2>1, <2>2, FS_Subset
  <2>4. Cardinality(UpTo(x)) # Cardinality(UpTo(y))
    BY <2>1, <2>2, <2>3, FS_Subset
  <2> QED BY <1>1, <2>2, <2>3, <2>4
<1> HIDE DEF n, UpTo
<1>4. rank \in [S -> 1..n]
  BY <1>2
<1> HIDE DEF rank
<1>5. rank \in Injection(S, 1..n)
  <2> SUFFICES ASSUME NEW x \in S, NEW y \in S, rank[x] = rank[y], x # y PROVE FALSE
    BY <1>4 DEF Injection, IsInjective
  <2>1. key[x] < key[y] \/ key[y] < key[x]
    BY DEF Keyed
  <2>2. rank[x] \in Int /\ rank[y] \in Int
    BY <1>1, <1>4
  <2> QED BY <1>3, <2>1, <2>2
<1>6. rank \in Surjection(S, 1..n)
  BY <1>1, <1>5, FS_Injection DEF n
<1> DEFINE s == [i \in 1..n |-> CHOOSE x \in S : rank[x] = i]
<1>7. \A i \in 1..n : s[i] \in S /\ rank[s[i]] = i
  BY <1>6 DEF Surjection
<1>8. ASSUME NEW i \in 1..n, NEW j \in 1..n, i < j
      PROVE  key[s[i]] < key[s[j]]
  <2>1. s[i] \in S /\ s[j] \in S /\ rank[s[i]] = i /\ rank[s[j]] = j
    BY <1>7
  <2> HIDE DEF s
  <2>2. key[s[i]] \in Int /\ key[s[j]] \in Int
    BY <2>1 DEF Keyed
  <2>3. ~(key[s[j]] < key[s[i]])
    BY <1>1, <1>3, <1>8, <2>1
  <2>4. key[s[i]] # key[s[j]]
    BY <1>8, <2>1 DEF Keyed
  <2> QED BY <2>2, <2>3, <2>4
<1>9. s \in [1..n -> S]
  BY <1>7
<1> HIDE DEF s
<1> QED BY <1>8, <1>9 DEF Lists, n

\* There is but one such list.
LEMMA ListUnique ==
    ASSUME NEW S, NEW key, Keyed(S, key), NEW s, Lists(s, S, key), NEW t, Lists(t, S, key)
    PROVE  s = t
<1> DEFINE n == Cardinality(S)
           D == {i \in 1..n : s[i] # t[i]}
<1>1. n \in Nat
  BY FS_CardinalityType DEF Keyed
<1>2. s \in [1..n -> S] /\ t \in [1..n -> S]
  BY DEF Lists
<1>3. ASSUME NEW u, Lists(u, S, key), NEW v, Lists(v, S, key), NEW i \in 1..n,
             \A j \in 1..n : j < i => u[j] = v[j]
      PROVE  ~(key[u[i]] < key[v[i]])
  <2> SUFFICES ASSUME key[u[i]] < key[v[i]] PROVE FALSE
    OBVIOUS
  <2>1. u[i] \in S /\ v[i] \in S
    BY <1>3 DEF Lists
  <2>2. PICK j \in 1..n : v[j] = u[i]
    BY <1>3, <2>1, ListsAll
  <2>3. key[u[i]] \in Int /\ key[v[i]] \in Int
    BY <2>1 DEF Keyed
  <2>4. CASE j < i
    <3>1. u[j] = u[i]
      BY <1>3, <2>2, <2>4
    <3>2. j = i
      BY <1>3, <3>1, ListsAll
    <3> QED BY <1>1, <2>4, <3>2
  <2>5. CASE i < j
    BY <1>3, <2>2, <2>3, <2>5 DEF Lists
  <2>6. CASE i = j
    BY <2>2, <2>3, <2>6
  <2> QED BY <1>1, <2>4, <2>5, <2>6
<1>4. ASSUME D # {} PROVE FALSE
  <2>1. D \subseteq Nat
    BY <1>1
  <2>2. PICK i \in D : \A j \in D : i <= j
    BY <1>4, <2>1, LeastNumber
  <2>3. i \in 1..n /\ s[i] # t[i] /\ s[i] \in S /\ t[i] \in S
    BY <1>2, <2>2
  <2>4. \A j \in 1..n : j < i => s[j] = t[j]
    BY <1>1, <2>2
  <2> HIDE DEF D, n
  <2>5. ~(key[s[i]] < key[t[i]]) /\ ~(key[t[i]] < key[s[i]])
    BY <1>3, <2>3, <2>4
  <2>6. key[s[i]] \in Int /\ key[t[i]] \in Int /\ key[s[i]] # key[t[i]]
    BY <2>3 DEF Keyed
  <2> QED BY <2>5, <2>6
<1>5. \A i \in 1..n : s[i] = t[i]
  BY <1>4
<1>6. s = [i \in 1..n |-> s[i]] /\ t = [i \in 1..n |-> t[i]]
  BY <1>2
<1> HIDE DEF n
<1> QED BY <1>5, <1>6

\* What Ascending chooses.
LEMMA AscendingIs ==
    ASSUME NEW S, NEW key, Keyed(S, key)
    PROVE  /\ Lists(Ascending(S, key), S, key)
           /\ \A s : Lists(s, S, key) => s = Ascending(S, key)
<1> DEFINE P(s) == s \in [1..Cardinality(S) -> S]
                   /\ \A i, j \in DOMAIN s : i < j => key[s[i]] < key[s[j]]
<1>1. \A s : Lists(s, S, key) <=> P(s)
  BY DEF Lists
<1>2. PICK s : P(s)
  BY <1>1, ListExists
<1>3. Ascending(S, key) = CHOOSE u : P(u)
  BY DEF Ascending
<1>4. P(Ascending(S, key))
  BY <1>2, <1>3
<1>5. Lists(Ascending(S, key), S, key)
  BY <1>1, <1>4
<1> QED BY <1>5, ListUnique

\* The list of one set, then that of another whose keys are all larger.
LEMMA AscendingConcat ==
    ASSUME NEW A, NEW B, NEW key, Keyed(A \union B, key),
           \A x \in A, y \in B : key[x] < key[y]
    PROVE  Ascending(A, key) \o Ascending(B, key) = Ascending(A \union B, key)
<1> DEFINE s == Ascending(A, key)
           t == Ascending(B, key)
           m == Cardinality(A)
           n == Cardinality(B)
           C == A \union B
<1>1. Keyed(A, key) /\ Keyed(B, key) /\ IsFiniteSet(A) /\ IsFiniteSet(B)
  BY FS_Subset DEF Keyed
<1>2. m \in Nat /\ n \in Nat
  BY <1>1, FS_CardinalityType
<1>3. A \cap B = {}
  BY DEF Keyed
<1>4. Cardinality(C) = m + n
  <2>1. Cardinality(A \cap B) = 0
    BY <1>3, FS_EmptySet
  <2>2. Cardinality(A \union B)
          = Cardinality(A) + Cardinality(B) - Cardinality(A \cap B)
    BY <1>1, FS_Union
  <2> QED BY <1>2, <2>1, <2>2
<1>5. /\ s \in [1..m -> A] /\ \A i, j \in 1..m : i < j => key[s[i]] < key[s[j]]
      /\ t \in [1..n -> B] /\ \A i, j \in 1..n : i < j => key[t[i]] < key[t[j]]
  BY <1>1, AscendingIs DEF Lists
<1> DEFINE u == s \o t
<1> HIDE DEF m, n, s, t
<1>6. s \in Seq(A) /\ t \in Seq(B) /\ Len(s) = m /\ Len(t) = n
  BY <1>2, <1>5
<1>7. /\ DOMAIN u = 1..(m + n) /\ u \in [1..(m + n) -> C]
      /\ \A i \in 1..(m + n) : u[i] = IF i <= m THEN s[i] ELSE t[i - m]
  <2>1. s \in Seq(C) /\ t \in Seq(C)
    BY <1>2, <1>5
  <2>2. u \in Seq(C) /\ Len(u) = m + n
    BY <1>2, <1>6, <2>1
  <2>3. \A i \in 1..(m + n) : u[i] = IF i <= m THEN s[i] ELSE t[i - m]
    BY <1>2, <1>6, <2>1
  <2> HIDE DEF u, C
  <2> QED BY <1>2, <2>2, <2>3
<1>8. ASSUME NEW i \in 1..(m + n), NEW j \in 1..(m + n), i < j
      PROVE  key[u[i]] < key[u[j]]
  <2> HIDE DEF u
  <2>1. CASE j <= m
    <3>1. i \in 1..m /\ j \in 1..m /\ u[i] = s[i] /\ u[j] = s[j]
      BY <1>2, <1>7, <1>8, <2>1
    <3> QED BY <1>5, <1>8, <3>1
  <2>2. CASE i <= m /\ j > m
    <3>1. i \in 1..m /\ j - m \in 1..n /\ u[i] = s[i] /\ u[j] = t[j - m]
      BY <1>2, <1>7, <1>8, <2>2
    <3>2. s[i] \in A /\ t[j - m] \in B
      BY <1>5, <3>1
    <3> QED BY <3>1, <3>2
  <2>3. CASE i > m
    <3>1. /\ i - m \in 1..n /\ j - m \in 1..n /\ i - m < j - m
          /\ u[i] = t[i - m] /\ u[j] = t[j - m]
      BY <1>2, <1>7, <1>8, <2>3
    <3> QED BY <1>5, <3>1
  <2> QED BY <1>2, <2>1, <2>2, <2>3
<1>9. Lists(u, C, key)
  <2> HIDE DEF u, C
  <2> QED BY <1>4, <1>7, <1>8 DEF Lists
<1>10. u = Ascending(C, key)
  <2> HIDE DEF u
  <2> QED BY <1>9, AscendingIs
<1> QED BY <1>10 DEF s, t

\* Lists of sets that follow one another, one after the other, are the list of all.
LEMMA AscendingFlatten ==
    ASSUME NEW n \in Nat, NEW L, NEW key, Keyed(UNION {L[i] : i \in 1..n}, key),
           \A i, j \in 1..n : i < j => \A x \in L[i], y \in L[j] : key[x] < key[y]
    PROVE  FlattenSeq([i \in 1..n |-> Ascending(L[i], key)])
              = Ascending(UNION {L[i] : i \in 1..n}, key)
<1> DEFINE U(k) == UNION {L[i] : i \in 1..k}
           p == [i \in 1..n |-> Ascending(L[i], key)]
           f == [k \in 1..n |-> Ascending(U(k), key)]
           Rec(g) == g = [i \in 1..n |-> IF i = 1 THEN p[i] ELSE g[i - 1] \o p[i]]
<1>1. \A k \in 1..n : Keyed(U(k), key) /\ Keyed(L[k], key)
  <2> SUFFICES ASSUME NEW k \in 1..n PROVE Keyed(U(k), key) /\ Keyed(L[k], key)
    OBVIOUS
  <2>1. U(k) \subseteq U(n) /\ L[k] \subseteq U(n)
    OBVIOUS
  <2>2. Keyed(U(n), key)
    OBVIOUS
  <2> HIDE DEF U
  <2>3. ASSUME NEW V, V \subseteq U(n) PROVE Keyed(V, key)
    BY <2>2, <2>3, FS_Subset DEF Keyed
  <2> QED BY <2>1, <2>3
<1>2. ASSUME NEW k \in 1..n, k # 1
      PROVE  f[k] = f[k - 1] \o p[k]
  <2>1. k - 1 \in 1..n /\ U(k) = U(k - 1) \union L[k]
    <3>1. k - 1 \in 1..n /\ 1..k = 1..(k - 1) \union {k}
      BY <1>2
    <3> QED BY <3>1
  <2>2. \A x \in U(k - 1), y \in L[k] : key[x] < key[y]
    <3> SUFFICES ASSUME NEW x \in U(k - 1), NEW y \in L[k] PROVE key[x] < key[y]
      OBVIOUS
    <3>1. PICK i \in 1..(k - 1) : x \in L[i]
      OBVIOUS
    <3>2. i \in 1..n /\ i < k
      BY <3>1
    <3> QED BY <3>1, <3>2
  <2>3. f[k] = Ascending(U(k), key) /\ f[k - 1] = Ascending(U(k - 1), key)
        /\ p[k] = Ascending(L[k], key)
    BY <2>1
  <2>4. Keyed(U(k - 1) \union L[k], key)
    BY <1>1, <2>1
  <2> DEFINE A == U(k - 1)
             B == L[k]
  <2>5. /\ f[k] = Ascending(A \union B, key)
        /\ f[k - 1] = Ascending(A, key) /\ p[k] = Ascending(B, key)
    BY <2>1, <2>3
  <2> HIDE DEF U, f, p, A, B
  <2>6. Keyed(A \union B, key) /\ \A x \in A, y \in B : key[x] < key[y]
    BY <2>2, <2>4 DEF A, B
  <2>7. Ascending(A, key) \o Ascending(B, key) = Ascending(A \union B, key)
    BY <2>6, AscendingConcat
  <2> QED BY <2>5, <2>7
<1>3. n > 0 => f[1] = p[1]
  <2>1. U(1) = L[1]
    BY 1..1 = {1}
  <2> QED BY <2>1
<1>4. p \in [1..n -> {p[i] : i \in 1..n}] /\ f = [i \in 1..n |-> f[i]]
  OBVIOUS
<1>5. n > 0 => f[n] = Ascending(U(n), key)
  OBVIOUS
<1>6. n = 0 => U(n) = {}
  OBVIOUS
<1> HIDE DEF p, f
<1>7. Rec(f)
  <2>1. \A k \in 1..n : f[k] = IF k = 1 THEN p[k] ELSE f[k - 1] \o p[k]
    <3> SUFFICES ASSUME NEW k \in 1..n
                 PROVE  f[k] = IF k = 1 THEN p[k] ELSE f[k - 1] \o p[k]
      OBVIOUS
    <3>1. CASE k = 1
      <4>1. n > 0
        BY <3>1
      <4> QED BY <1>3, <3>1, <4>1
    <3>2. CASE k # 1
      <4>1. f[k] = f[k - 1] \o p[k]
        BY <1>2, <3>2
      <4> QED BY <3>2, <4>1
    <3> QED BY <3>1, <3>2
  <2> QED BY <1>4, <2>1
<1>8. ASSUME NEW g, Rec(g), n > 0 PROVE g[n] = f[n]
  <2> DEFINE D == {k \in 1..n : g[k] # f[k]}
  <2>1. \A k \in 1..n : g[k] = IF k = 1 THEN p[k] ELSE g[k - 1] \o p[k]
    BY <1>8
  <2>2. ASSUME D # {} PROVE FALSE
    <3>1. D \subseteq Nat
      OBVIOUS
    <3>2. PICK k \in D : \A j \in D : k <= j
      BY <2>2, <3>1, LeastNumber
    <3>3. k \in 1..n /\ g[k] # f[k]
      BY <3>2
    <3>4. k # 1
      BY <1>3, <1>8, <2>1, <3>3
    <3>5. k - 1 \in 1..n /\ k - 1 \notin D
      BY <3>2, <3>3, <3>4
    <3>6. g[k - 1] = f[k - 1]
      BY <3>5
    <3> HIDE DEF D
    <3> QED BY <1>2, <2>1, <3>3, <3>4, <3>6
  <2>3. n \in 1..n
    BY <1>8
  <2> QED BY <2>2, <2>3
<1>9. Len(p) = n
  BY <1>4
<1>10. CASE n > 0
  <2>1. FlattenSeq(p) = (CHOOSE g : Rec(g))[n]
    BY <1>9, <1>10 DEF FlattenSeq
  <2> DEFINE g == CHOOSE h : Rec(h)
  <2>2. Rec(g)
    BY <1>7
  <2> HIDE DEF g, Rec, U
  <2>3. g[n] = f[n]
    BY <1>8, <1>10, <2>2
  <2> QED BY <1>5, <1>10, <2>1, <2>3 DEF g, U, p
<1>11. CASE n = 0
  <2>1. FlattenSeq(p) = p /\ p = <<>>
    BY <1>9, <1>11 DEF FlattenSeq, p
  <2>2. Keyed({}, key)
    BY FS_EmptySet DEF Keyed
  <2>3. Ascending({}, key) \in [1..0 -> {}]
    <3>1. Lists(Ascending({}, key), {}, key)
      BY <2>2, AscendingIs
    <3> QED BY <3>1, FS_EmptySet DEF Lists
  <2>4. Ascending({}, key) = <<>>
    BY <2>3
  <2> QED BY <1>6, <1>11, <2>1, <2>4 DEF p
<1> QED BY <1>10, <1>11
-----------------------------------------------------------------------------
(***************************************************************************)
(* The inductive invariant.                                                *)
(***************************************************************************)

\* A range is known before there is a chunk, an answer or a place in the limiter.
SpanOK ==
    /\ span # NoSpan => span.from \in Nat /\ span.to \in Nat /\ span.from <= span.to
    /\ span = NoSpan => /\ chunk = <<>> /\ active = 0 /\ waiting = <<>>
                        /\ results = <<>> /\ totalLogs = 0
    /\ asked \in 0..Len(Upstreams)
    /\ asked > 0 => span = NoSpan

ChunkStates ==
    {Queued, Done}
    \union [at : {"calling", "failed"}, upstream : DOMAIN Upstreams, attempt : 0..MaxRetries]
    \union [at : {"backoff"}, upstream : DOMAIN Upstreams, attempt : 0..(MaxRetries - 1)]

ChunksOK ==
    /\ DOMAIN chunk = Chunks
    /\ \A c \in Chunks : chunk[c] \in ChunkStates

\* The limiter is full when a chunk waits.
LimiterOK ==
    /\ waiting \in Seq(Chunks) /\ IsInjective(waiting)
    /\ Range(waiting) = {c \in Chunks : chunk[c] = Queued}
    /\ IsFiniteSet(Running) /\ active = Cardinality(Running)
    /\ active <= MaxParallel
    /\ waiting # <<>> => active = MaxParallel

\* What is kept is counted, and counted before it is kept.
Answers  == [chunk : Chunks, head : Heads \union {NoBlock}]
KeptLogs == UNION {LogsIn(results[i]) : i \in DOMAIN results}
KeptOK ==
    /\ results \in Seq(Answers)
    /\ totalLogs \in Nat
    /\ IsFiniteSet(KeptLogs)
    /\ Cardinality(KeptLogs) <= totalLogs /\ Cardinality(KeptLogs) <= MaxLogs

RequestOK == query \in Queries /\ outcome \in Outcomes

LInv == SpanOK /\ ChunksOK /\ LimiterOK /\ KeptOK /\ RequestOK
-----------------------------------------------------------------------------
(* The states of a chunk.                                                  *)

LEMMA StateKinds ==
    /\ Queued.at = "queued" /\ Done.at = "done"
    /\ \A u, n : Calling(u, n).at = "calling" /\ BackingOff(u, n).at = "backoff"
                /\ Failed(u, n).at = "failed"
    /\ \A u, n : Calling(u, n).upstream = u /\ Calling(u, n).attempt = n
    /\ \A u, n : BackingOff(u, n).upstream = u /\ BackingOff(u, n).attempt = n
  BY DEF Queued, Done, Calling, BackingOff, Failed

LEMMA StateCases ==
    ASSUME NEW s \in ChunkStates
    PROVE  /\ s.at \in {"queued", "done", "calling", "backoff", "failed"}
           /\ s.at = "queued" => s = Queued
           /\ s.at \in {"calling", "backoff"} =>
                s.upstream \in DOMAIN Upstreams /\ s.attempt \in 0..MaxRetries
           /\ s.at = "backoff" => s.attempt < MaxRetries
  BY StateKinds DEF ChunkStates, MaxRetries

LEMMA StatesOf ==
    /\ Queued \in ChunkStates /\ Done \in ChunkStates
    /\ \A u \in DOMAIN Upstreams, n \in 0..MaxRetries :
         /\ Calling(u, n) \in ChunkStates /\ Failed(u, n) \in ChunkStates
         /\ n < MaxRetries => BackingOff(u, n) \in ChunkStates
BY DEF ChunkStates, Calling, Failed, BackingOff, MaxRetries

\* Dropping the head of the queue drops it from the set of those who wait.
LEMMA TailOfWaiting ==
    ASSUME NEW S, NEW q \in Seq(S), IsInjective(q), q # <<>>
    PROVE  /\ Head(q) \in S /\ Tail(q) \in Seq(S) /\ IsInjective(Tail(q))
           /\ Head(q) \in Range(q)
           /\ Range(Tail(q)) = Range(q) \ {Head(q)}
<1>1. /\ DOMAIN q = 1..Len(q) /\ Len(q) \in Nat /\ Len(q) >= 1
      /\ \A i, j \in 1..Len(q) : q[i] = q[j] => i = j
  BY DEF IsInjective
<1>2. /\ Tail(q) \in Seq(S) /\ Len(Tail(q)) = Len(q) - 1 /\ Head(q) = q[1] /\ Head(q) \in S
      /\ DOMAIN Tail(q) = 1..(Len(q) - 1)
      /\ \A i \in 1..(Len(q) - 1) : Tail(q)[i] = q[i + 1]
  BY <1>1
<1>3. IsInjective(Tail(q))
  BY <1>1, <1>2 DEF IsInjective
<1>4. Range(Tail(q)) \subseteq Range(q) \ {Head(q)}
  BY <1>1, <1>2 DEF Range
<1>5. ASSUME NEW x \in Range(q), x # Head(q) PROVE x \in Range(Tail(q))
  <2>1. PICK i \in 1..Len(q) : x = q[i]
    BY <1>1 DEF Range
  <2>2. i - 1 \in 1..(Len(q) - 1) /\ (i - 1) + 1 = i
    BY <1>1, <1>2, <1>5, <2>1
  <2>3. Tail(q)[i - 1] = x
    BY <1>2, <2>1, <2>2
  <2> QED BY <1>2, <2>2, <2>3 DEF Range
<1>6. Head(q) \in Range(q)
  BY <1>1, <1>2 DEF Range
<1> QED BY <1>2, <1>3, <1>4, <1>5, <1>6
-----------------------------------------------------------------------------
(* What an action does to the limiter.                                     *)

IsRunning(s) == s.at \in {"calling", "backoff"}

\* A chunk that goes on leaves the limiter as it is.
LEMMA ChunkGoesOn ==
    ASSUME ChunksOK, LimiterOK, NEW c \in Running, NEW s \in ChunkStates, IsRunning(s),
           chunk' = [chunk EXCEPT ![c] = s],
           UNCHANGED <<span, active, waiting>>
    PROVE  ChunksOK' /\ LimiterOK'
<1>1. c \in Chunks /\ DOMAIN chunk = Chunks /\ Chunks' = Chunks
  BY DEF Running, ChunksOK, Chunks
<1>2. DOMAIN chunk' = Chunks /\ chunk'[c] = s
      /\ \A d \in Chunks \ {c} : chunk'[d] = chunk[d]
  BY <1>1
<1>3. Running' = Running
  BY <1>1, <1>2 DEF Running, IsRunning
<1>4. s # Queued /\ chunk[c] # Queued
  BY StateKinds DEF Running, IsRunning
<1>5. {d \in Chunks : chunk'[d] = Queued} = {d \in Chunks : chunk[d] = Queued}
  BY <1>1, <1>2, <1>4
<1>6. ChunksOK'
  BY <1>1, <1>2 DEF ChunksOK
<1>7. LimiterOK'
  BY <1>1, <1>3, <1>5 DEF LimiterOK, Range
<1> QED BY <1>6, <1>7

\* One that ends makes room for the next.
LEMMA ChunkEnds ==
    ASSUME ChunksOK, LimiterOK, NEW c \in Running, NEW s \in ChunkStates, ~IsRunning(s),
           s # Queued, Free(c, s), UNCHANGED span
    PROVE  ChunksOK' /\ LimiterOK'
<1>1. c \in Chunks /\ DOMAIN chunk = Chunks /\ Chunks' = Chunks /\ chunk[c] # Queued
      /\ IsRunning(chunk[c])
  BY StateKinds DEF Running, ChunksOK, Chunks, IsRunning
<1>2. IsFiniteSet(Running) /\ Cardinality(Running) \in Nat /\ active = Cardinality(Running)
  BY FS_CardinalityType DEF LimiterOK
<1>r. /\ IsFiniteSet(Running \ {c}) /\ Cardinality(Running \ {c}) = active - 1
  BY <1>2, FS_RemoveElement
<1>m. MaxParallel \in Nat
  BY StepType
<1>3. CASE waiting = <<>>
  <2>1. active' = active - 1 /\ chunk' = [chunk EXCEPT ![c] = s] /\ waiting' = waiting
    BY <1>3 DEF Free
  <2>2. DOMAIN chunk' = Chunks /\ chunk'[c] = s /\ \A d \in Chunks \ {c} : chunk'[d] = chunk[d]
    BY <1>1, <2>1
  <2>3. Running' = Running \ {c}
    BY <1>1, <2>2 DEF Running, IsRunning
  <2>4. {d \in Chunks : chunk'[d] = Queued} = {d \in Chunks : chunk[d] = Queued}
    BY <1>1, <2>2
  <2>5. ChunksOK'
    BY <1>1, <2>2 DEF ChunksOK
  <2>6. active' <= MaxParallel
    BY <1>2, <1>m, <2>1 DEF LimiterOK
  <2>7. LimiterOK'
    BY <1>1, <1>3, <1>r, <2>1, <2>3, <2>4, <2>6 DEF LimiterOK, Range
  <2> QED BY <2>5, <2>7
<1>4. CASE waiting # <<>>
  <2> DEFINE h == Head(waiting)
  <2>1. /\ chunk' = [chunk EXCEPT ![c] = s, ![h] = Calling(1, 0)]
        /\ waiting' = Tail(waiting) /\ active' = active
    BY <1>4 DEF Free
  <2>2. /\ h \in Chunks /\ Tail(waiting) \in Seq(Chunks) /\ IsInjective(Tail(waiting))
        /\ h \in Range(waiting) /\ Range(Tail(waiting)) = Range(waiting) \ {h}
    BY <1>4, TailOfWaiting DEF LimiterOK
  <2>3. chunk[h] = Queued /\ h # c
    BY <1>1, <2>2 DEF LimiterOK
  <2> HIDE DEF h
  <2>4. Calling(1, 0) \in ChunkStates /\ IsRunning(Calling(1, 0)) /\ Calling(1, 0) # Queued
    <3>1. 1 \in DOMAIN Upstreams /\ 0 \in 0..MaxRetries
      BY UpstreamsAssumption DEF MaxRetries
    <3> QED BY <3>1, StatesOf, StateKinds DEF IsRunning
  <2>5. /\ DOMAIN chunk' = Chunks /\ chunk'[c] = s /\ chunk'[h] = Calling(1, 0)
        /\ \A d \in Chunks \ {c, h} : chunk'[d] = chunk[d]
    BY <1>1, <2>1, <2>2, <2>3
  <2>6. Running' = (Running \ {c}) \union {h}
    BY <1>1, <2>2, <2>4, <2>5 DEF Running, IsRunning
  <2>7. h \notin Running \ {c}
    BY <2>3, StateKinds DEF Running
  <2>8. IsFiniteSet(Running') /\ Cardinality(Running') = active
    <3>1. Cardinality((Running \ {c}) \union {h}) = (active - 1) + 1
      BY <1>r, <2>7, FS_AddElement
    <3> QED BY <1>2, <1>r, <2>6, <3>1, FS_AddElement
  <2>9. {d \in Chunks : chunk'[d] = Queued} = {d \in Chunks : chunk[d] = Queued} \ {h}
    BY <1>1, <2>2, <2>4, <2>5
  <2>10. ChunksOK'
    BY <1>1, <2>4, <2>5 DEF ChunksOK
  <2>11. Range(waiting)' = {d \in Chunks' : chunk'[d] = Queued}
    <3>1. Range(waiting)' = Range(waiting) \ {h}
      <4>1. Range(waiting)' = Range(Tail(waiting))
        BY <2>1 DEF Range
      <4> QED BY <2>2, <4>1
    <3>2. Range(waiting) = {d \in Chunks : chunk[d] = Queued}
      BY DEF LimiterOK
    <3> QED BY <1>1, <2>9, <3>1, <3>2
  <2>12. active' <= MaxParallel /\ active' = MaxParallel
    BY <1>4, <2>1 DEF LimiterOK
  <2>13. LimiterOK'
    BY <1>1, <2>1, <2>2, <2>8, <2>11, <2>12 DEF LimiterOK
  <2> QED BY <2>10, <2>13
<1> QED BY <1>3, <1>4

\* The first chunks run, as many as there is room for, and the others queue.
LEMMA LaunchFills ==
    ASSUME NEW from \in Nat, NEW to \in Nat, from <= to, Launch(from, to)
    PROVE  ChunksOK' /\ LimiterOK'
<1> DEFINE C == Starts(from, to, Step)
<1>1. /\ Chunks' = C /\ DOMAIN chunk' = C
      /\ Step \in Nat /\ MaxParallel \in Nat
  BY StepType DEF Launch, Chunks
<1>c. Calling(1, 0) \in ChunkStates /\ Queued \in ChunkStates
      /\ IsRunning(Calling(1, 0)) /\ Calling(1, 0) # Queued /\ ~IsRunning(Queued)
  <2>1. 1 \in DOMAIN Upstreams /\ 0 \in 0..MaxRetries
    BY UpstreamsAssumption DEF MaxRetries
  <2> QED BY <2>1, StatesOf, StateKinds DEF IsRunning
<1>2. CASE Step = 0
  <2>1. C = {}
    BY <1>2 DEF Starts
  <2>2. StartedAtOnce(0) = 0
    BY <1>1 DEF StartedAtOnce
  <2>3. active' = 0 /\ waiting' = <<>>
    BY <1>2, <2>2 DEF Launch
  <2>4. Running' = {}
    BY <1>1, <2>1 DEF Running
  <2>5. ChunksOK'
    BY <1>1, <2>1 DEF ChunksOK
  <2>6. waiting' \in Seq({}) /\ IsInjective(waiting') /\ Range(waiting') = {}
    BY <2>3 DEF IsInjective, Range
  <2>7. LimiterOK'
    BY <1>1, <2>1, <2>3, <2>4, <2>6, FS_EmptySet DEF LimiterOK, Range
  <2> QED BY <2>5, <2>7
<1>3. CASE Step > 0
  <2> DEFINE n == Count(from, to)
             first == StartedAtOnce(n)
             N == [i \in Int |-> Nth(from, i)]
  <2>1. n \in Nat /\ first \in 0..n /\ first <= MaxParallel /\ (first < n => first = MaxParallel)
    <3>1. n \in Nat
      BY <1>3, CountType
    <3> HIDE DEF n
    <3> QED BY <1>1, <3>1 DEF StartedAtOnce
  <2>N. \A i \in Int : N[i] = Nth(from, i)
    OBVIOUS
  <2>2. C = {N[i] : i \in 1..n}
    <3>1. C = {Nth(from, i) : i \in 1..n}
      BY <1>3, StartsAre
    <3> HIDE DEF N, C, n
    <3> QED BY <2>1, <2>N, <3>1
  <2>3. /\ chunk' = [c \in C |-> IF c <= N[first] THEN Calling(1, 0) ELSE Queued]
        /\ active' = first
        /\ waiting' = [i \in 1..(n - first) |-> N[first + i]]
    <3>1. /\ chunk' = [c \in C |-> IF c <= Nth(from, first) THEN Calling(1, 0) ELSE Queued]
          /\ active' = first
          /\ waiting' = [i \in 1..(n - first) |-> Nth(from, first + i)]
      BY <1>1, <1>3 DEF Launch, Nth, Count
    <3> HIDE DEF N, C, n, first
    <3>2. Nth(from, first) = N[first]
      BY <2>1, <2>N
    <3>3. \A i \in 1..(n - first) : Nth(from, first + i) = N[first + i]
      BY <2>1, <2>N
    <3> QED BY <3>1, <3>2, <3>3
  <2>4. \A i, j \in Int :
          /\ N[i] \in Int
          /\ i <= j <=> N[i] <= N[j]
          /\ i = j <=> N[i] = N[j]
    <3> HIDE DEF N
    <3> SUFFICES ASSUME NEW i \in Int, NEW j \in Int
                 PROVE  /\ N[i] \in Int
                        /\ i <= j <=> N[i] <= N[j]
                        /\ i = j <=> N[i] = N[j]
      OBVIOUS
    <3>1. N[i] = Nth(from, i) /\ N[j] = Nth(from, j)
      BY <2>N
    <3> QED BY <1>3, <3>1, NthOrder
  <2> HIDE DEF C, n, first, N
  <2>5. ASSUME NEW i \in 1..n
        PROVE  /\ N[i] \in C
               /\ i <= first => chunk'[N[i]] = Calling(1, 0)
               /\ i > first => chunk'[N[i]] = Queued
    <3>1. i \in Int /\ first \in Int
      BY <2>1
    <3>2. N[i] \in C /\ (i <= first <=> N[i] <= N[first])
      BY <2>2, <2>4, <3>1
    <3>3. chunk'[N[i]] = IF N[i] <= N[first] THEN Calling(1, 0) ELSE Queued
      BY <2>3, <3>2
    <3> QED BY <3>1, <3>2, <3>3
  <2>6. Running' = {N[i] : i \in 1..first}
    <3>1. ASSUME NEW c \in Running' PROVE c \in {N[i] : i \in 1..first}
      <4>1. c \in C /\ IsRunning(chunk'[c])
        BY <1>1 DEF Running, IsRunning
      <4>2. PICK i \in 1..n : c = N[i]
        BY <2>2, <4>1
      <4>3. i <= first
        BY <1>c, <2>1, <2>5, <4>1, <4>2
      <4> QED BY <2>1, <4>2, <4>3
    <3>2. ASSUME NEW i \in 1..first PROVE N[i] \in Running'
      <4>1. i \in 1..n /\ i <= first
        BY <2>1
      <4> QED BY <1>1, <1>c, <2>5, <4>1 DEF Running, IsRunning
    <3> QED BY <3>1, <3>2
  <2>7. IsFiniteSet(Running') /\ Cardinality(Running') = first
    <3> DEFINE f == [i \in 1..first |-> N[i]]
    <3>1. f \in [1..first -> Running']
      BY <2>6
    <3>2. IsInjective(f)
      BY <2>1, <2>4 DEF IsInjective
    <3>3. \A t \in Running' : \E i \in 1..first : f[i] = t
      BY <2>6
    <3>4. ExistsBijection(1..first, Running')
      BY <3>1, <3>2, <3>3 DEF ExistsBijection, Bijection, Injection, Surjection
    <3>5. IsFiniteSet(1..first) /\ Cardinality(1..first) = first
      BY <2>1, FS_Interval
    <3> QED BY <3>4, <3>5, FS_Bijection
  <2>8. /\ DOMAIN waiting' = 1..(n - first) /\ n - first \in Nat
        /\ \A i \in 1..(n - first) : waiting'[i] = N[first + i] /\ first + i \in 1..n /\ first + i > first
    BY <2>1, <2>3
  <2>9. waiting' \in Seq(C)
    <3>1. \A i \in 1..(n - first) : waiting'[i] \in C
      BY <2>5, <2>8
    <3>2. waiting' \in [1..(n - first) -> C]
      BY <2>3, <2>8, <3>1
    <3> QED BY <2>8, <3>2
  <2>10. IsInjective(waiting')
    <3> SUFFICES ASSUME NEW i \in 1..(n - first), NEW j \in 1..(n - first), waiting'[i] = waiting'[j]
                 PROVE i = j
      BY <2>8 DEF IsInjective
    <3>1. N[first + i] = N[first + j] /\ first + i \in Int /\ first + j \in Int
      BY <2>1, <2>8
    <3>2. first + i = first + j
      BY <2>4, <3>1
    <3> QED BY <2>1, <3>2
  <2>11. Range(waiting') = {c \in C : chunk'[c] = Queued}
    <3>1. ASSUME NEW i \in 1..(n - first) PROVE waiting'[i] \in C /\ chunk'[waiting'[i]] = Queued
      BY <2>5, <2>8
    <3>2. ASSUME NEW c \in C, chunk'[c] = Queued PROVE \E i \in 1..(n - first) : waiting'[i] = c
      <4>1. PICK j \in 1..n : c = N[j]
        BY <2>2
      <4>2. j > first
        BY <1>c, <2>1, <2>5, <3>2, <4>1
      <4>3. j - first \in 1..(n - first) /\ first + (j - first) = j
        BY <2>1, <4>2
      <4> QED BY <2>8, <4>1, <4>3
    <3> QED BY <2>8, <3>1, <3>2 DEF Range
  <2>12. waiting' # <<>> => active' = MaxParallel
    <3>1. waiting' # <<>> => n - first # 0
      BY <2>3
    <3> QED BY <2>1, <2>3, <3>1
  <2>13. ChunksOK'
    <3>1. \A c \in C : chunk'[c] \in ChunkStates
      BY <1>c, <2>3
    <3> QED BY <1>1, <3>1 DEF ChunksOK, C
  <2>14. LimiterOK'
    <3>1. Range(waiting)' = Range(waiting')
      BY DEF Range
    <3>2. Chunks' = C
      BY <1>1 DEF C
    <3> QED BY <2>1, <2>3, <2>7, <2>9, <2>10, <2>11, <2>12, <3>1, <3>2 DEF LimiterOK
  <2> QED BY <2>13, <2>14
<1> QED BY <1>1, <1>2, <1>3
-----------------------------------------------------------------------------
(* The actions.                                                            *)

\* The two ends of a filter, as numbers or not at all.
LEMMA EndsOfQuery ==
    ASSUME RequestOK, NEW latest \in Nat \union {NoBlock}
    PROVE  LET from == NormalizeBlockTag(query.from, latest)
               to   == NormalizeBlockTag(query.to, latest)
           IN  from \in Nat \union {NoBlock} /\ to \in Nat \union {NoBlock}
<1>1. query.from \in Tags /\ query.to \in Tags
  BY QueriesAssumption DEF RequestOK
<1> QED BY <1>1 DEF Tags, Latest, Other, Absent, NoBlock, NormalizeBlockTag

\* Until there is a range, all that changes is whom the latest block is asked of.
LEMMA Idle ==
    ASSUME LInv, span = NoSpan, UNCHANGED <<query, span, fetchVars>>,
           asked' \in 0..Len(Upstreams), RequestOK'
    PROVE  LInv'
<1>1. UNCHANGED <<chunk, active, waiting, results, totalLogs>>
  BY DEF fetchVars
<1>2. SpanOK'
  <2>1. /\ chunk = <<>> /\ active = 0 /\ waiting = <<>>
        /\ results = <<>> /\ totalLogs = 0
    BY DEF LInv, SpanOK
  <2> QED BY <1>1, <2>1 DEF SpanOK
<1>3. ChunksOK'
  BY <1>1 DEF LInv, ChunksOK, Chunks
<1>4. LimiterOK'
  <2>1. Running' = Running /\ Chunks' = Chunks /\ Range(waiting)' = Range(waiting)
    BY <1>1 DEF Running, Chunks, Range
  <2> QED BY <1>1, <2>1 DEF LInv, LimiterOK
<1>5. KeptOK'
  <2>1. KeptLogs' = KeptLogs /\ Answers' = Answers
    BY <1>1 DEF KeptLogs, LogsIn, Answers, Chunks
  <2> QED BY <1>1, <2>1 DEF LInv, KeptOK
<1> QED BY <1>2, <1>3, <1>4, <1>5 DEF LInv

\* The handler decides once, before there is any chunk.
LEMMA PlanKeeps ==
    ASSUME LInv, span = NoSpan, NEW latest \in Nat \union {NoBlock}, Plan(latest),
           UNCHANGED query, asked' = 0
    PROVE  LInv'
<1> DEFINE from == NormalizeBlockTag(query.from, latest)
           to   == NormalizeBlockTag(query.to, latest)
<1>1. from \in Nat \union {NoBlock} /\ to \in Nat \union {NoBlock}
  BY EndsOfQuery DEF LInv
<1>2. /\ chunk = <<>> /\ active = 0 /\ waiting = <<>> /\ results = <<>> /\ totalLogs = 0
  BY DEF LInv, SpanOK
<1>3. query \in Queries
  BY DEF LInv, RequestOK
<1>4. ASSUME NEW how \in {"whole", "400"}, Conclude(how)
      PROVE  LInv'
  <2>1. outcome' = how /\ UNCHANGED <<query, span, fetchVars>>
    BY <1>4 DEF Conclude
  <2>2. RequestOK'
    BY <1>3, <2>1 DEF RequestOK, Outcomes
  <2>3. asked' \in 0..Len(Upstreams)
    BY UpstreamsAssumption
  <2> QED BY <2>1, <2>2, <2>3, Idle
<1>5. ASSUME from \in Nat, to \in Nat, from <= to, Launch(from, to)
      PROVE  LInv'
  <2>1. ChunksOK' /\ LimiterOK'
    BY <1>2, <1>5, LaunchFills
  <2>2. /\ span' = [from |-> from, to |-> to]
        /\ outcome' \in {"answered", "pending"}
        /\ UNCHANGED <<results, totalLogs>>
    BY <1>5 DEF Launch
  <2> HIDE DEF from, to
  <2>3. SpanOK'
    <3>1. span' # NoSpan /\ span'.from = from /\ span'.to = to
      BY <1>5, <2>2 DEF NoSpan
    <3> QED BY <1>5, <3>1 DEF SpanOK
  <2>4. KeptOK'
    <3>1. results' = <<>> /\ totalLogs' = 0
      BY <1>2, <2>2
    <3>2. KeptLogs' = {}
      BY <3>1 DEF KeptLogs
    <3> QED BY <3>1, <3>2, FS_EmptySet, StepType DEF KeptOK
  <2>5. RequestOK'
    BY <1>3, <2>2 DEF RequestOK, Outcomes
  <2> QED BY <2>1, <2>3, <2>4, <2>5 DEF LInv
<1>6. CASE from = NoBlock \/ to = NoBlock \/ to < from
  <2>1. Conclude("whole")
    BY <1>6 DEF Plan
  <2> QED BY <1>4, <2>1
<1>7. CASE ~(from = NoBlock \/ to = NoBlock \/ to < from)
  <2>1. from \in Nat /\ to \in Nat /\ from <= to
    BY <1>1, <1>7
  <2>2. \/ Conclude("400")
        \/ Conclude("whole")
        \/ Launch(from, to)
    BY <1>7 DEF Plan
  <2> HIDE DEF from, to
  <2> QED BY <1>4, <1>5, <2>1, <2>2
<1> QED BY <1>6, <1>7

LEMMA BeginKeeps ==
    ASSUME LInv, Begin \/ HeadAnswers \/ HeadFails
    PROVE  LInv'
<1>1. CASE Begin
  <2>1. span = NoSpan /\ asked = 0 /\ query' = query
    BY <1>1 DEF Begin, Fresh
  <2>2. CASE Absent \in {query.from, query.to} /\ Conclude("whole") /\ UNCHANGED asked
    <3>1. outcome' = "whole" /\ UNCHANGED <<query, span, fetchVars>>
      BY <2>1, <2>2 DEF Conclude
    <3>3. RequestOK'
      BY <3>1 DEF LInv, RequestOK, Outcomes
    <3>4. asked' \in 0..Len(Upstreams)
      BY <2>2 DEF LInv, SpanOK
    <3> QED BY <2>1, <3>1, <3>3, <3>4, Idle
  <2>3. CASE asked' = 1 /\ UNCHANGED <<outcome, span, fetchVars>>
    <3>1. asked' \in 0..Len(Upstreams)
      BY <2>3, UpstreamsAssumption
    <3>2. RequestOK'
      BY <2>1, <2>3 DEF LInv, RequestOK
    <3> QED BY <2>1, <2>3, <3>1, <3>2, Idle
  <2>4. CASE Plan(NoBlock) /\ UNCHANGED asked
    BY <2>1, <2>4, PlanKeeps
  <2> QED BY <1>1, <2>2, <2>3, <2>4 DEF Begin
<1>2. CASE HeadAnswers
  <2>1. span = NoSpan /\ query' = query /\ asked' = 0
    BY <1>2 DEF HeadAnswers, LInv, SpanOK
  <2>2. PICK head \in Nat : Plan(head)
    BY <1>2, BlocksAssumption DEF HeadAnswers
  <2> QED BY <2>1, <2>2, PlanKeeps
<1>3. CASE HeadFails
  <2>1. span = NoSpan /\ query' = query /\ asked \in Nat /\ asked > 0 /\ Len(Upstreams) \in Nat
    BY <1>3, UpstreamsAssumption DEF HeadFails, LInv, SpanOK
  <2>2. UNCHANGED <<span, fetchVars>> /\ asked' \in 0..Len(Upstreams)
        /\ (outcome' = outcome \/ outcome' = "400")
    BY <1>3, <2>1 DEF HeadFails, Conclude
  <2>3. RequestOK'
    BY <2>1, <2>2 DEF LInv, RequestOK, Outcomes
  <2> QED BY <2>1, <2>2, <2>3, Idle
<1> QED BY <1>1, <1>2, <1>3

\* Chunks run only after the range is known.
LEMMA RunningChunk ==
    ASSUME LInv, NEW c \in DOMAIN chunk, chunk[c].at \in {"calling", "backoff"}
    PROVE  /\ c \in Running /\ c \in Chunks /\ span # NoSpan /\ asked = 0
           /\ span.from \in Nat /\ span.to \in Nat /\ chunk[c] \in ChunkStates
           /\ chunk[c].upstream \in DOMAIN Upstreams /\ chunk[c].attempt \in 0..MaxRetries
           /\ chunk[c].at = "backoff" => chunk[c].attempt < MaxRetries
<1>1. c \in Chunks /\ chunk[c] \in ChunkStates
  BY DEF LInv, ChunksOK
<1>2. span # NoSpan
  BY DEF LInv, SpanOK
<1>3. asked = 0
  BY <1>2, UpstreamsAssumption DEF LInv, SpanOK
<1> QED BY <1>1, <1>2, <1>3, StateCases DEF Running, LInv, SpanOK

\* A step that keeps the range and the kept logs.
LEMMA ChunkStepKeeps ==
    ASSUME LInv, span # NoSpan, UNCHANGED <<query, asked, span, results, totalLogs>>,
           ChunksOK', LimiterOK', outcome' = outcome \/ outcome' \in {"400", "502", "503"}
    PROVE  LInv'
<1>1. SpanOK'
  BY DEF LInv, SpanOK
<1>2. KeptOK'
  BY DEF LInv, KeptOK, Answers, KeptLogs, Chunks, LogsIn
<1>3. RequestOK'
  BY DEF LInv, RequestOK, Outcomes
<1> QED BY <1>1, <1>2, <1>3 DEF LInv

\* What is kept of one answer, next to what is kept already.
LEMMA AnswerCounts ==
    ASSUME KeptOK, span.to \in Nat, NEW c \in Chunks, c \in Nat, Step \in Nat, NEW head
    PROVE  /\ IsFiniteSet(LogsIn(AnswerFor(c, head)))
           /\ Cardinality(LogsIn(AnswerFor(c, head))) \in Nat
           /\ IsFiniteSet(KeptLogs \union LogsIn(AnswerFor(c, head)))
           /\ Cardinality(KeptLogs \union LogsIn(AnswerFor(c, head)))
                <= totalLogs + Cardinality(LogsIn(AnswerFor(c, head)))
<1> DEFINE L == LogsIn(AnswerFor(c, head))
           W == ChunkBlocks(c, span.to, Step)
<1>1. ChunkEnd(c, span.to, Step) \in Int
  BY DEF ChunkEnd
<1>2. IsFiniteSet(W)
  <2> DEFINE e == ChunkEnd(c, span.to, Step)
  <2> HIDE DEF e
  <2>1. e \in Int /\ c \in Int
    BY <1>1 DEF e
  <2>2. IsFiniteSet(c..e)
    BY <2>1, FS_Interval
  <2> QED BY <2>2 DEF ChunkBlocks, e
<1>3. L \subseteq W
  BY DEF LogsIn, AnswerFor
<1> HIDE DEF L, W
<1>4. IsFiniteSet(L)
  BY <1>2, <1>3, FS_Subset
<1>5. IsFiniteSet(KeptLogs) /\ Cardinality(KeptLogs) \in Nat /\ Cardinality(L) \in Nat
  BY <1>4, FS_CardinalityType DEF KeptOK
<1>6. /\ IsFiniteSet(KeptLogs \union L) /\ IsFiniteSet(KeptLogs \cap L)
      /\ Cardinality(KeptLogs \union L)
            = Cardinality(KeptLogs) + Cardinality(L) - Cardinality(KeptLogs \cap L)
  BY <1>4, <1>5, FS_Union, FS_Intersection
<1>7. Cardinality(KeptLogs \cap L) \in Nat
  BY <1>6, FS_CardinalityType
<1>8. Cardinality(KeptLogs \union L) <= totalLogs + Cardinality(L)
  BY <1>5, <1>6, <1>7 DEF KeptOK
<1> QED BY <1>4, <1>5, <1>6, <1>8 DEF L

\* An answer is kept, or the request refused; both end the chunk.
LEMMA AnswerKeeps ==
    ASSUME LInv, NEW c \in DOMAIN chunk, NEW head \in Heads \union {NoBlock}, Answer(c, head)
    PROVE  LInv'
<1> DEFINE a == AnswerFor(c, head)
           more == Cardinality(LogsIn(a))
<1>1. /\ c \in Running /\ c \in Chunks /\ span # NoSpan /\ span.from \in Nat /\ span.to \in Nat
      /\ chunk[c].upstream \in DOMAIN Upstreams /\ chunk[c].attempt \in 0..MaxRetries
  BY RunningChunk DEF Answer
<1>2. c \in Nat /\ Step \in Nat
  BY <1>1, StepType DEF Chunks, Starts
<1>3. /\ more \in Nat
      /\ IsFiniteSet(KeptLogs \union LogsIn(a))
      /\ Cardinality(KeptLogs \union LogsIn(a)) <= totalLogs + more
  BY <1>1, <1>2, AnswerCounts DEF LInv
<1>4. totalLogs' = totalLogs + more /\ UNCHANGED <<query, asked, span>>
  BY DEF Answer
<1>5. UNCHANGED Chunks /\ \A r : LogsIn(r)' = LogsIn(r)
  BY <1>4 DEF Chunks, LogsIn
<1> HIDE DEF more
<1>6. SpanOK'
  BY <1>1, <1>4 DEF LInv, SpanOK
<1>7. ChunksOK' /\ LimiterOK'
  <2>1. \E s \in {Done, GivenUp(c)} : Free(c, s)
    BY DEF Answer
  <2>2. Done \in ChunkStates /\ GivenUp(c) \in ChunkStates
    BY <1>1, StatesOf DEF GivenUp
  <2>3. \A s \in {Done, GivenUp(c)} : ~IsRunning(s) /\ s # Queued
    BY StateKinds DEF GivenUp, IsRunning
  <2> QED BY <1>1, <1>4, <2>1, <2>2, <2>3, ChunkEnds DEF LInv
<1>8. KeptOK'
  <2>1. totalLogs \in Nat /\ totalLogs' \in Nat /\ totalLogs' >= totalLogs /\ MaxLogs \in Nat
    BY <1>3, <1>4, StepType DEF LInv, KeptOK
  <2>2. CASE totalLogs' > MaxLogs
    <3>1. results' = results
      BY <2>2 DEF Answer, Keep
    <3>2. KeptLogs' = KeptLogs /\ Answers' = Answers
      BY <1>5, <3>1 DEF KeptLogs, Answers
    <3>3. Cardinality(KeptLogs) \in Nat
      BY FS_CardinalityType DEF LInv, KeptOK
    <3> QED BY <2>1, <3>1, <3>2, <3>3 DEF LInv, KeptOK
  <2>3. CASE ~(totalLogs' > MaxLogs)
    <3>1. results' = Append(results, a) /\ results \in Seq(Answers) /\ a \in Answers
      BY <1>1, <2>3 DEF Answer, Keep, LInv, KeptOK, Answers, AnswerFor
    <3>2. /\ results' \in Seq(Answers)' /\ DOMAIN results' = 1..(Len(results) + 1)
          /\ Len(results) \in Nat /\ DOMAIN results = 1..Len(results)
          /\ \A i \in DOMAIN results : results'[i] = results[i]
          /\ results'[Len(results) + 1] = a
      BY <1>5, <3>1 DEF Answers
    <3>3. KeptLogs' = KeptLogs \union LogsIn(a)
      <4> HIDE DEF a
      <4>1. KeptLogs' = UNION {LogsIn(results'[i]) : i \in DOMAIN results'}
        BY <1>5 DEF KeptLogs
      <4>2. DOMAIN results' = DOMAIN results \union {Len(results) + 1}
        BY <3>2
      <4>3. ASSUME NEW b PROVE b \in KeptLogs' <=> b \in KeptLogs \union LogsIn(a)
        <5>1. b \in KeptLogs' <=> \E i \in DOMAIN results' : b \in LogsIn(results'[i])
          BY <4>1
        <5>2. b \in KeptLogs <=> \E i \in DOMAIN results : b \in LogsIn(results[i])
          BY DEF KeptLogs
        <5>3. (\E i \in DOMAIN results' : b \in LogsIn(results'[i]))
              <=> \/ \E i \in DOMAIN results : b \in LogsIn(results'[i])
                  \/ b \in LogsIn(results'[Len(results) + 1])
          BY <4>2
        <5>4. \A i \in DOMAIN results : b \in LogsIn(results'[i]) <=> b \in LogsIn(results[i])
          BY <3>2
        <5>5. b \in LogsIn(results'[Len(results) + 1]) <=> b \in LogsIn(a)
          BY <3>2
        <5> QED BY <5>1, <5>2, <5>3, <5>4, <5>5
      <4> QED BY <4>3
    <3>4. Cardinality(KeptLogs') \in Nat
      BY <1>3, <3>3, FS_CardinalityType
    <3>5. Cardinality(KeptLogs') <= totalLogs' /\ Cardinality(KeptLogs') <= MaxLogs
      BY <1>3, <1>4, <2>1, <2>3, <3>3, <3>4
    <3> QED BY <1>3, <2>1, <3>2, <3>3, <3>5 DEF KeptOK
  <2> QED BY <2>2, <2>3
<1>9. RequestOK'
  <2>1. outcome' \in {outcome, "400", "answered"}
    BY DEF Answer, Reject
  <2> QED BY <1>4, <2>1 DEF LInv, RequestOK, Outcomes
<1> QED BY <1>6, <1>7, <1>8, <1>9 DEF LInv

\* A chunk that fails for good ends, and may end the request.
LEMMA FailKeeps ==
    ASSUME LInv, NEW c \in DOMAIN chunk, chunk[c].at = "calling", NEW how \in {"502", "503"},
           Fail(c, how)
    PROVE  LInv'
<1>1. /\ c \in Running /\ c \in Chunks /\ span # NoSpan
      /\ chunk[c].upstream \in DOMAIN Upstreams /\ chunk[c].attempt \in 0..MaxRetries
  BY RunningChunk
<1>2. GivenUp(c) \in ChunkStates /\ ~IsRunning(GivenUp(c)) /\ GivenUp(c) # Queued
  BY <1>1, StatesOf, StateKinds DEF GivenUp, IsRunning
<1>4. ChunksOK' /\ LimiterOK'
  BY <1>1, <1>2, ChunkEnds DEF LInv, Fail
<1>5. outcome' = outcome \/ outcome' = how
  BY DEF Fail, Reject
<1> QED BY <1>1, <1>4, <1>5, ChunkStepKeeps DEF Fail

\* A chunk waits, is tried again, or goes to the next upstream of the list.
LEMMA GoingOnKeeps ==
    ASSUME LInv, NEW c \in DOMAIN chunk, chunk[c].at \in {"calling", "backoff"},
           NEW s \in ChunkStates, IsRunning(s), chunk' = [chunk EXCEPT ![c] = s],
           UNCHANGED <<query, outcome, asked, span, active, waiting, results, totalLogs>>
    PROVE  LInv'
<1>1. c \in Running /\ span # NoSpan
  BY RunningChunk
<1>2. ChunksOK' /\ LimiterOK'
  BY <1>1, ChunkGoesOn DEF LInv
<1> QED BY <1>1, <1>2, ChunkStepKeeps

LEMMA CallKeeps ==
    ASSUME LInv, NEW c \in DOMAIN chunk, CallEnds(c) \/ BackoffEnds(c)
    PROVE  LInv'
<1> DEFINE u == chunk[c].upstream
           n == chunk[c].attempt
<1>1. ASSUME NEW error \in Errors, CallFails(c, error) PROVE LInv'
  <2>1. chunk[c].at = "calling"
    BY <1>1 DEF CallFails
  <2>2. u \in DOMAIN Upstreams /\ n \in 0..MaxRetries
    BY <2>1, RunningChunk
  <2>3. CASE ~Exhausted(n) /\ chunk' = [chunk EXCEPT ![c] = BackingOff(u, n)]
             /\ UNCHANGED <<query, outcome, asked, span, active, waiting, results, totalLogs>>
    <3>1. BackingOff(u, n) \in ChunkStates
      <4>1. n < MaxRetries
        BY <2>2, <2>3 DEF Exhausted, MaxRetries
      <4> QED BY <2>2, <4>1, StatesOf
    <3>2. IsRunning(BackingOff(u, n))
      BY StateKinds DEF IsRunning
    <3> QED BY <2>1, <2>3, <3>1, <3>2, GoingOnKeeps
  <2>4. CASE ~IsLast(u) /\ chunk' = [chunk EXCEPT ![c] = Calling(u + 1, 0)]
             /\ UNCHANGED <<query, outcome, asked, span, active, waiting, results, totalLogs>>
    <3>1. u + 1 \in DOMAIN Upstreams
      BY <2>2, <2>4, UpstreamsAssumption DEF IsLast
    <3>2. Calling(u + 1, 0) \in ChunkStates
      BY <3>1, StatesOf DEF MaxRetries
    <3>3. IsRunning(Calling(u + 1, 0))
      BY StateKinds DEF IsRunning
    <3> QED BY <2>1, <2>4, <3>2, <3>3, GoingOnKeeps
  <2>5. CASE Fail(c, "503")
    BY <2>1, <2>5, FailKeeps
  <2> QED BY <1>1, <2>3, <2>4, <2>5 DEF CallFails
<1>2. ASSUME BackoffEnds(c) PROVE LInv'
  <2>1. chunk[c].at = "backoff" /\ chunk' = [chunk EXCEPT ![c] = Calling(u, n + 1)]
        /\ UNCHANGED <<query, outcome, asked, span, active, waiting, results, totalLogs>>
    BY <1>2 DEF BackoffEnds
  <2>2. u \in DOMAIN Upstreams /\ n \in 0..MaxRetries /\ n < MaxRetries
    BY <2>1, RunningChunk
  <2>3. n + 1 \in 0..MaxRetries
    BY <2>2 DEF MaxRetries
  <2>4. Calling(u, n + 1) \in ChunkStates /\ IsRunning(Calling(u, n + 1))
    BY <2>2, <2>3, StatesOf, StateKinds DEF IsRunning
  <2> QED BY <2>1, <2>4, GoingOnKeeps
<1>3. ASSUME Malformed(c) PROVE LInv'
  BY <1>3, FailKeeps DEF Malformed
<1> QED BY <1>1, <1>2, <1>3, AnswerKeeps DEF CallEnds
-----------------------------------------------------------------------------
(* Initially, and after every step.                                        *)

LEMMA InitLInv == Init => LInv
<1> SUFFICES ASSUME Init PROVE LInv
  OBVIOUS
<1>1. /\ query \in Queries /\ outcome = "pending" /\ asked = 0 /\ span = NoSpan
      /\ chunk = <<>> /\ active = 0 /\ waiting = <<>>
      /\ results = <<>> /\ totalLogs = 0
  BY DEF Init
<1>2. Chunks = {}
  <2>1. span.from = 0 /\ span.to = -1
    BY <1>1 DEF NoSpan
  <2>2. 0..(-1) = {}
    OBVIOUS
  <2> QED BY <2>1, <2>2 DEF Chunks, Starts
<1>3. SpanOK
  BY <1>1, UpstreamsAssumption DEF SpanOK
<1>4. ChunksOK
  BY <1>1, <1>2 DEF ChunksOK
<1>5. LimiterOK
  <2>1. Running = {}
    BY <1>1 DEF Running
  <2>2. Range(waiting) = {} /\ IsInjective(waiting) /\ waiting \in Seq(Chunks)
    BY <1>1 DEF Range, IsInjective
  <2> QED BY <1>1, <1>2, <2>1, <2>2, FS_EmptySet, StepType DEF LimiterOK
<1>6. KeptOK
  <2>1. KeptLogs = {}
    BY <1>1 DEF KeptLogs
  <2> QED BY <1>1, <2>1, FS_EmptySet, StepType DEF KeptOK
<1>7. RequestOK
  BY <1>1 DEF RequestOK, Outcomes
<1> QED BY <1>3, <1>4, <1>5, <1>6, <1>7 DEF LInv

LEMMA NextLInv == LInv /\ [Next]_vars => LInv'
<1> SUFFICES ASSUME LInv, [Next]_vars PROVE LInv'
  OBVIOUS
<1>1. CASE Begin \/ HeadAnswers \/ HeadFails
  BY <1>1, BeginKeeps
<1>2. ASSUME NEW c \in DOMAIN chunk, CallEnds(c) \/ BackoffEnds(c) PROVE LInv'
  BY <1>2, CallKeeps
<1>3. CASE UNCHANGED vars
  <2>1. UNCHANGED <<query, outcome, asked, span, chunk, active, waiting, results, totalLogs>>
    BY <1>3 DEF vars, fetchVars
  <2>2. /\ Running' = Running /\ Chunks' = Chunks /\ Range(waiting)' = Range(waiting)
        /\ KeptLogs' = KeptLogs /\ Answers' = Answers
    BY <2>1 DEF Running, Chunks, Range, KeptLogs, LogsIn, Answers
  <2>3. SpanOK' /\ RequestOK'
    BY <2>1 DEF LInv, SpanOK, RequestOK
  <2>4. ChunksOK' /\ KeptOK'
    BY <2>1, <2>2 DEF LInv, ChunksOK, KeptOK
  <2>5. LimiterOK'
    BY <2>1, <2>2 DEF LInv, LimiterOK
  <2> QED BY <2>3, <2>4, <2>5 DEF LInv
<1> QED BY <1>1, <1>2, <1>3 DEF Next

LEMMA SpecLInv == Spec => []LInv
<1>1. Init => LInv
  BY InitLInv
<1>2. LInv /\ [Next]_vars => LInv'
  BY NextLInv
<1> QED BY <1>1, <1>2, PTL DEF Spec
-----------------------------------------------------------------------------
(***************************************************************************)
(* The answers: a second invariant, that rests on the first.               *)
(***************************************************************************)

\* An answer is kept for every chunk that is done, and once; the request is
\* answered when all are.
AnswersOK ==
    /\ \A i, j \in DOMAIN results : results[i].chunk = results[j].chunk => i = j
    /\ \A i \in DOMAIN results : chunk[results[i].chunk] = Done
    /\ \A c \in Chunks : chunk[c] = Done => \E i \in DOMAIN results : results[i].chunk = c
    /\ outcome = "answered" => span # NoSpan /\ \A c \in Chunks : chunk[c] = Done

\* A chunk that ends starts at most one that was queued: no other is done by it.
LEMMA OthersStay ==
    ASSUME LInv, NEW c \in Chunks, chunk[c].at = "calling", NEW end, Free(c, end)
    PROVE  /\ DOMAIN chunk' = Chunks /\ chunk'[c] = end
           /\ \A d \in Chunks \ {c} : chunk'[d] = Done <=> chunk[d] = Done
<1>1. DOMAIN chunk = Chunks
  BY DEF LInv, ChunksOK
<1>2. CASE waiting = <<>>
  BY <1>1, <1>2 DEF Free
<1>3. CASE waiting # <<>>
  <2> DEFINE h == Head(waiting)
  <2>1. h \in Range(waiting)
    BY <1>3, TailOfWaiting DEF LInv, LimiterOK
  <2>2. h \in Chunks /\ chunk[h] = Queued
    BY <2>1 DEF LInv, LimiterOK
  <2>3. h # c
    BY <2>2, StateKinds
  <2>4. chunk' = [chunk EXCEPT ![c] = end, ![h] = Calling(1, 0)]
    BY <1>3 DEF Free
  <2> HIDE DEF h
  <2>5. Calling(1, 0) # Done /\ Queued # Done
    BY StateKinds
  <2> QED BY <1>1, <2>2, <2>3, <2>4, <2>5
<1> QED BY <1>2, <1>3

LEMMA AnswersAre ==
    ASSUME LInv
    PROVE  /\ results \in Seq(Answers) /\ DOMAIN results = 1..Len(results) /\ Len(results) \in Nat
           /\ \A i \in DOMAIN results : results[i] \in Answers /\ results[i].chunk \in Chunks
<1>1. results \in Seq(Answers)
  BY DEF LInv, KeptOK
<1>2. \A i \in DOMAIN results : results[i] \in Answers
  BY <1>1
<1>3. \A a \in Answers : a.chunk \in Chunks
  BY DEF Answers
<1> QED BY <1>1, <1>2, <1>3

\* A step by which no chunk comes to be done, or ceases to be, and that does not answer.
LEMMA SameAnswers ==
    ASSUME LInv, AnswersOK, UNCHANGED <<span, results>>,
           \A d \in Chunks : chunk'[d] = Done <=> chunk[d] = Done,
           outcome' = "answered" => outcome = "answered"
    PROVE  AnswersOK'
<1>1. Chunks' = Chunks
  BY DEF Chunks
<1>2. \A i \in DOMAIN results : results[i].chunk \in Chunks
  BY AnswersAre
<1> QED BY <1>1, <1>2 DEF AnswersOK

LEMMA PlanAnswers ==
    ASSUME LInv, AnswersOK, span = NoSpan, NEW latest \in Nat \union {NoBlock}, Plan(latest),
           UNCHANGED query
    PROVE  AnswersOK'
<1> DEFINE from == NormalizeBlockTag(query.from, latest)
           to   == NormalizeBlockTag(query.to, latest)
<1>1. from \in Nat \union {NoBlock} /\ to \in Nat \union {NoBlock}
  BY EndsOfQuery DEF LInv
<1>2. ASSUME NEW how \in {"whole", "400"}, Conclude(how) PROVE AnswersOK'
  BY <1>2, SameAnswers DEF Conclude, fetchVars
<1>3. ASSUME Launch(from, to), from \in Nat, to \in Nat, from <= to PROVE AnswersOK'
  <2>1. /\ results' = results /\ results = <<>>
        /\ span' = [from |-> from, to |-> to]
        /\ Chunks' = Starts(from, to, Step)
    BY <1>3 DEF Launch, LInv, SpanOK, Chunks
  <2>2. \A c \in Chunks' : chunk'[c] # Done
    <3>1. \A c \in Chunks' : chunk'[c] \in {Calling(1, 0), Queued}
      BY <1>3, <2>1 DEF Launch
    <3>2. Calling(1, 0) # Done /\ Queued # Done
      BY StateKinds
    <3> QED BY <3>1, <3>2
  <2>3. outcome' = "answered" => Chunks' = {}
    <3>1. CASE Step = 0
      BY <2>1, <3>1 DEF Starts
    <3>2. CASE Step > 0
      <4>1. Count(from, to) # 0
        <5> HIDE DEF from, to
        <5>1. Count(from, to) >= 1 /\ Count(from, to) \in Nat
          BY <1>3, <3>2, CountType
        <5> QED BY <5>1
      <4>2. outcome' = "pending"
        BY <1>3, <3>2, <4>1, StepType DEF Launch, Count
      <4> QED BY <4>2
    <3> QED BY <3>1, <3>2, StepType
  <2> HIDE DEF from, to
  <2>4. span' # NoSpan
    <3>1. span'.from = from /\ span'.to = to /\ NoSpan.from = 0 /\ NoSpan.to = -1
      BY <2>1 DEF NoSpan
    <3> QED BY <1>3, <3>1
  <2> QED BY <2>1, <2>2, <2>3, <2>4 DEF AnswersOK
<1>4. CASE from = NoBlock \/ to = NoBlock \/ to < from
  <2>1. Conclude("whole")
    BY <1>4 DEF Plan
  <2> QED BY <1>2, <2>1
<1>5. CASE ~(from = NoBlock \/ to = NoBlock \/ to < from)
  <2>1. from \in Nat /\ to \in Nat /\ from <= to
    BY <1>1, <1>5
  <2>2. Conclude("400") \/ Conclude("whole") \/ Launch(from, to)
    BY <1>5 DEF Plan
  <2> HIDE DEF from, to
  <2> QED BY <1>2, <1>3, <2>1, <2>2
<1> QED BY <1>4, <1>5

LEMMA BeginAnswers ==
    ASSUME LInv, AnswersOK, Begin \/ HeadAnswers \/ HeadFails
    PROVE  AnswersOK'
<1>1. span = NoSpan /\ query' = query
  BY DEF Begin, Fresh, HeadAnswers, HeadFails, LInv, SpanOK
<1>2. ASSUME UNCHANGED <<span, fetchVars>>, outcome' = outcome \/ outcome' \in {"whole", "400"}
      PROVE  AnswersOK'
  BY <1>2, SameAnswers DEF fetchVars
<1>3. CASE Begin
  <2>1. \/ UNCHANGED <<span, fetchVars>> /\ (outcome' = outcome \/ outcome' \in {"whole", "400"})
        \/ Plan(NoBlock)
    BY <1>3 DEF Begin, Conclude
  <2> QED BY <1>1, <1>2, <2>1, PlanAnswers
<1>4. CASE HeadAnswers
  <2>1. PICK head \in Nat : Plan(head)
    BY <1>4, BlocksAssumption DEF HeadAnswers
  <2> QED BY <1>1, <2>1, PlanAnswers
<1>5. CASE HeadFails
  <2>1. UNCHANGED <<span, fetchVars>> /\ (outcome' = outcome \/ outcome' \in {"whole", "400"})
    BY <1>5 DEF HeadFails, Conclude
  <2> QED BY <1>2, <2>1
<1> QED BY <1>3, <1>4, <1>5

LEMMA AnswerAnswers ==
    ASSUME LInv, AnswersOK, NEW c \in DOMAIN chunk, NEW head \in Heads \union {NoBlock},
           Answer(c, head)
    PROVE  AnswersOK'
<1> DEFINE a == AnswerFor(c, head)
<1>1. chunk[c].at = "calling" /\ c \in Chunks /\ span # NoSpan /\ chunk[c] # Done /\ span' = span
  BY RunningChunk, StateKinds DEF Answer
<1>2. outcome # "answered" /\ Chunks' = Chunks
  BY <1>1 DEF AnswersOK, Chunks
<1>3. a.chunk = c
  BY DEF AnswerFor
<1>4. CASE totalLogs' > MaxLogs
  <2>1. results' = results /\ Free(c, GivenUp(c)) /\ Reject("400")
    BY <1>4 DEF Answer, Keep
  <2>2. GivenUp(c) # Done
    BY StateKinds DEF GivenUp
  <2>3. \A d \in Chunks : chunk'[d] = Done <=> chunk[d] = Done
    BY <1>1, <2>1, <2>2, OthersStay
  <2>4. outcome' # "answered"
    BY <1>2, <2>1 DEF Reject
  <2> QED BY <1>1, <2>1, <2>3, <2>4, SameAnswers
<1>5. CASE ~(totalLogs' > MaxLogs)
  <2>1. /\ results' = Append(results, a) /\ Free(c, Done)
        /\ outcome' = IF outcome = "pending" /\ \A d \in Chunks \ {c} : chunk[d] = Done
                      THEN "answered" ELSE outcome
    BY <1>5 DEF Answer, Keep
  <2>2. results \in Seq(Answers)
    BY DEF LInv, KeptOK
  <2> HIDE DEF a
  <2>3. /\ DOMAIN results' = DOMAIN results \union {Len(results) + 1}
        /\ Len(results) + 1 \notin DOMAIN results
        /\ \A i \in DOMAIN results : results'[i] = results[i]
        /\ results'[Len(results) + 1] = a
    <3>1. Len(results) \in Nat /\ DOMAIN results = 1..Len(results)
      BY <2>2
    <3>2. a \in {a}
      OBVIOUS
    <3>3. results \in Seq(Answers \union {a})
      BY <2>2
    <3> QED BY <2>1, <3>1, <3>3
  <2> DEFINE k == Len(results) + 1
  <2>4. \A i \in DOMAIN results : results[i].chunk \in Chunks /\ results[i].chunk # c
    <3>1. \A i \in DOMAIN results : results[i].chunk \in Chunks
      BY AnswersAre
    <3> QED BY <1>1, <3>1 DEF AnswersOK
  <2>5. chunk'[c] = Done /\ \A d \in Chunks \ {c} : chunk'[d] = Done <=> chunk[d] = Done
    BY <1>1, <2>1, OthersStay
  <2> HIDE DEF k
  <2>6. /\ DOMAIN results' = DOMAIN results \union {k} /\ k \notin DOMAIN results
        /\ \A i \in DOMAIN results : results'[i].chunk = results[i].chunk
        /\ results'[k].chunk = c
    BY <1>3, <2>3 DEF k
  <2>7. \A i, j \in DOMAIN results' : results'[i].chunk = results'[j].chunk => i = j
    BY <2>4, <2>6 DEF AnswersOK
  <2>8. \A i \in DOMAIN results' : chunk'[results'[i].chunk] = Done
    BY <2>4, <2>5, <2>6 DEF AnswersOK
  <2>9. \A d \in Chunks' : chunk'[d] = Done => \E i \in DOMAIN results' : results'[i].chunk = d
    BY <1>2, <2>5, <2>6 DEF AnswersOK
  <2>10. outcome' = "answered" => span' # NoSpan /\ \A d \in Chunks' : chunk'[d] = Done
    BY <1>1, <1>2, <2>1, <2>5
  <2> QED BY <2>7, <2>8, <2>9, <2>10 DEF AnswersOK
<1> QED BY <1>4, <1>5

\* A step of a chunk that does not end it well.
LEMMA CallAnswers ==
    ASSUME LInv, AnswersOK, NEW c \in DOMAIN chunk, CallEnds(c) \/ BackoffEnds(c)
    PROVE  AnswersOK'
<1> DEFINE u == chunk[c].upstream
           n == chunk[c].attempt
<1>1. c \in Chunks /\ DOMAIN chunk = Chunks
  BY DEF LInv, ChunksOK
<1>2. ASSUME NEW how \in {"502", "503"}, chunk[c].at = "calling", Fail(c, how)
      PROVE  AnswersOK'
  <2>1. Free(c, GivenUp(c)) /\ Reject(how) /\ UNCHANGED <<span, results>>
    BY <1>2 DEF Fail
  <2>2. GivenUp(c) # Done /\ chunk[c] # Done
    BY <1>2, StateKinds DEF GivenUp
  <2>3. \A d \in Chunks : chunk'[d] = Done <=> chunk[d] = Done
    BY <1>1, <1>2, <2>1, <2>2, OthersStay
  <2>4. outcome' = "answered" => outcome = "answered"
    BY <2>1 DEF Reject
  <2> QED BY <2>1, <2>3, <2>4, SameAnswers
<1>3. /\ \A v, m : BackingOff(v, m) # Done /\ Calling(v, m) # Done
      /\ chunk[c].at \in {"calling", "backoff"} => chunk[c] # Done
  BY StateKinds
<1>4. ASSUME NEW error \in Errors, CallFails(c, error)
      PROVE  AnswersOK'
  <2>1. chunk[c].at = "calling"
    BY <1>4 DEF CallFails
  <2>2. CASE chunk' \in {[chunk EXCEPT ![c] = BackingOff(u, n)], [chunk EXCEPT ![c] = Calling(u + 1, 0)]}
             /\ UNCHANGED <<outcome, span, results>>
    <3>1. \A d \in Chunks : chunk'[d] = Done <=> chunk[d] = Done
      BY <1>1, <2>1, <2>2, <1>3
    <3> QED BY <2>2, <3>1, SameAnswers
  <2>3. CASE Fail(c, "503")
    BY <1>2, <2>1, <2>3
  <2> QED BY <1>4, <2>2, <2>3 DEF CallFails
<1>5. CASE BackoffEnds(c)
  <2>1. chunk[c].at = "backoff" /\ chunk' = [chunk EXCEPT ![c] = Calling(u, n + 1)]
        /\ UNCHANGED <<outcome, span, results>>
    BY <1>5 DEF BackoffEnds
  <2>2. \A d \in Chunks : chunk'[d] = Done <=> chunk[d] = Done
    BY <1>1, <1>3, <2>1
  <2> QED BY <2>1, <2>2, SameAnswers
<1>6. CASE Malformed(c)
  BY <1>2, <1>6 DEF Malformed
<1> QED BY <1>4, <1>5, <1>6, AnswerAnswers DEF CallEnds

LEMMA SpecAnswers == Spec => []AnswersOK
<1>1. Init => AnswersOK
  <2> SUFFICES ASSUME Init PROVE AnswersOK
    OBVIOUS
  <2>1. results = <<>> /\ outcome = "pending" /\ chunk = <<>> /\ span = NoSpan
    BY DEF Init
  <2>2. Chunks = {}
    BY <2>1, InitLInv DEF LInv, ChunksOK
  <2> QED BY <2>1, <2>2 DEF AnswersOK
<1>2. LInv /\ AnswersOK /\ [Next]_vars => AnswersOK'
  <2> SUFFICES ASSUME LInv, AnswersOK, [Next]_vars PROVE AnswersOK'
    OBVIOUS
  <2>1. CASE UNCHANGED vars
    BY <2>1, SameAnswers DEF vars, fetchVars
  <2> QED BY <2>1, BeginAnswers, CallAnswers DEF Next
<1> QED BY <1>1, <1>2, SpecLInv, PTL DEF Spec

\* What an answered request has kept: one answer for every chunk.
LEMMA AnswersOfAll ==
    ASSUME LInv, AnswersOK, outcome = "answered"
    PROVE  /\ Keyed(Range(results), ByChunk)
           /\ \A a \in Range(results) : a \in Answers /\ a.chunk \in Chunks /\ ByChunk[a] = a.chunk
           /\ \A c \in Chunks : \E a \in Range(results) : a.chunk = c
           /\ span.from \in Nat /\ span.to \in Nat /\ span.from <= span.to
<1>1. /\ results \in Seq(Answers) /\ DOMAIN results = 1..Len(results) /\ Len(results) \in Nat
      /\ \A i \in DOMAIN results : results[i] \in Answers /\ results[i].chunk \in Chunks
  BY AnswersAre
<1>2. span # NoSpan /\ span.from \in Nat /\ span.to \in Nat /\ span.from <= span.to
  BY DEF AnswersOK, LInv, SpanOK
<1>3. Chunks \subseteq Int
  BY <1>2 DEF Chunks, Starts
<1>4. IsFiniteSet(Range(results))
  <2> DEFINE n == Len(results)
             R == Range(results)
  <2>1. results \in [1..n -> R] /\ \A a \in R : \E i \in 1..n : results[i] = a
    BY <1>1 DEF Range
  <2> HIDE DEF n, R
  <2>2. IsFiniteSet(1..n)
    BY <1>1, FS_Interval DEF n
  <2>3. results \in Surjection(1..n, R)
    BY <2>1 DEF Surjection
  <2>4. IsFiniteSet(R)
    BY <2>2, <2>3, FS_Surjection
  <2> QED BY <2>4 DEF R
<1>5. \A a \in Range(results) : ByChunk[a] = a.chunk /\ a \in Answers /\ a.chunk \in Chunks
  BY <1>1 DEF Range, ByChunk
<1>6. \A a, b \in Range(results) : a.chunk = b.chunk => a = b
  BY DEF Range, AnswersOK
<1>7. \A c \in Chunks : \E a \in Range(results) : a.chunk = c
  BY DEF Range, AnswersOK
<1> QED BY <1>2, <1>3, <1>4, <1>5, <1>6, <1>7 DEF Keyed

\* What an answered request has kept, in the order of its reply: the logs kept, by
\* block.
ReplyOK ==
    outcome = "answered" =>
        /\ KeptLogs \subseteq LogBlocks \intersect (span.from..span.to)
        /\ Combined = Ascending(KeptLogs, ByBlock)

LEMMA ReplySorted == LInv /\ AnswersOK => ReplyOK
<1> SUFFICES ASSUME LInv, AnswersOK, outcome = "answered"
             PROVE  /\ KeptLogs \subseteq LogBlocks \intersect (span.from..span.to)
                    /\ Combined = Ascending(KeptLogs, ByBlock)
  BY DEF ReplyOK
<1> DEFINE from == span.from
           to == span.to
           R == Range(results)
           n == Cardinality(R)
           inOrder == Ascending(R, ByChunk)
           L == [i \in 1..n |-> LogsIn(inOrder[i])]
           Window(c) == ChunkBlocks(c, to, Step)
           T == KeptLogs
<1>1. /\ Keyed(R, ByChunk)
      /\ \A a \in R : a \in Answers /\ a.chunk \in Chunks /\ ByChunk[a] = a.chunk
      /\ from \in Nat /\ to \in Nat /\ from <= to
  BY AnswersOfAll
<1>2. Lists(inOrder, R, ByChunk) /\ n \in Nat
  BY <1>1, AscendingIs, FS_CardinalityType DEF Keyed
<1>3. /\ inOrder \in [1..n -> R]
      /\ \A i, j \in 1..n : i < j => inOrder[i].chunk < inOrder[j].chunk
      /\ \A a \in R : \E i \in 1..n : inOrder[i] = a
  <2>1. inOrder \in [1..n -> R]
    BY <1>2 DEF Lists
  <2>2. \A i, j \in 1..n : i < j => ByChunk[inOrder[i]] < ByChunk[inOrder[j]]
    BY <1>2 DEF Lists
  <2>3. \A a \in R : \E i \in 1..n : inOrder[i] = a
    BY <1>1, <1>2, ListsAll
  <2> HIDE DEF inOrder, n, R
  <2> QED BY <1>1, <2>1, <2>2, <2>3
<1>4. \A a : LogsIn(a) = {b \in LogBlocks : b \in Window(a.chunk) /\ b <= a.head}
  BY DEF LogsIn
<1>5. Chunks = Starts(from, to, Step) /\ (Step = 0 => Chunks = {})
  BY DEF Chunks, Starts
<1>6. \A c, d \in Chunks : c < d => \A x \in Window(c), y \in Window(d) : x < y
  BY <1>1, <1>5, StepType, WindowsOrdered
<1>7. \A c \in Chunks : Window(c) \subseteq from..to
  BY <1>1, <1>5, StepType, WindowShape
<1>8. DOMAIN inOrder = 1..n
  BY <1>3
<1>9. Combined = FlattenSeq([i \in 1..n |-> Ascending(L[i], ByBlock)])
  <2>1. \A i \in 1..n : L[i] = LogsIn(inOrder[i])
    OBVIOUS
  <2>2. Combined = FlattenSeq([i \in DOMAIN inOrder |-> Ascending(LogsIn(inOrder[i]), ByBlock)])
    BY DEF Combined
  <2> HIDE DEF L, inOrder, n, R
  <2> QED BY <1>8, <2>1, <2>2
<1>10. \A b : b \in T <=> \E a \in R : b \in LogsIn(a)
  BY DEF KeptLogs, Range
<1>11. \A i \in 1..n : L[i] = LogsIn(inOrder[i])
  OBVIOUS
<1>12. \A b \in LogBlocks : ByBlock[b] = b
  BY DEF ByBlock
<1>13. IsFiniteSet(T)
  BY DEF LInv, KeptOK
<1> HIDE DEF L, T, inOrder, n, R, from, to, Window
<1>14. T \subseteq LogBlocks /\ T \subseteq from..to
  <2> SUFFICES ASSUME NEW b \in T PROVE b \in LogBlocks /\ b \in from..to
    OBVIOUS
  <2>1. PICK a \in R : b \in LogsIn(a)
    BY <1>10
  <2> QED BY <1>1, <1>4, <1>7, <2>1
<1>15. Keyed(T, ByBlock)
  <2>1. \A b \in T : b \in Int /\ ByBlock[b] = b
    BY <1>1, <1>12, <1>14
  <2> QED BY <1>13, <2>1 DEF Keyed
<1>16. UNION {L[i] : i \in 1..n} = T
  <2>1. ASSUME NEW i \in 1..n, NEW b \in L[i] PROVE b \in T
    BY <1>3, <1>10, <1>11, <2>1
  <2>2. ASSUME NEW b \in T PROVE \E i \in 1..n : b \in L[i]
    <3>1. PICK a \in R : b \in LogsIn(a)
      BY <1>10
    <3>2. PICK i \in 1..n : inOrder[i] = a
      BY <1>3
    <3> QED BY <1>11, <3>1, <3>2
  <2> QED BY <2>1, <2>2
<1>17. \A i, j \in 1..n : i < j => \A x \in L[i], y \in L[j] : ByBlock[x] < ByBlock[y]
  <2> SUFFICES ASSUME NEW i \in 1..n, NEW j \in 1..n, i < j, NEW x \in L[i], NEW y \in L[j]
               PROVE  ByBlock[x] < ByBlock[y]
    OBVIOUS
  <2>1. inOrder[i].chunk \in Chunks /\ inOrder[j].chunk \in Chunks
        /\ inOrder[i].chunk < inOrder[j].chunk
    BY <1>1, <1>3
  <2>2. /\ x \in LogBlocks /\ x \in Window(inOrder[i].chunk)
        /\ y \in LogBlocks /\ y \in Window(inOrder[j].chunk)
    BY <1>4, <1>11
  <2>3. x < y
    BY <1>6, <2>1, <2>2
  <2> QED BY <1>12, <2>2, <2>3
<1>18. FlattenSeq([i \in 1..n |-> Ascending(L[i], ByBlock)])
          = Ascending(UNION {L[i] : i \in 1..n}, ByBlock)
  <2>1. Keyed(UNION {L[i] : i \in 1..n}, ByBlock)
    BY <1>15, <1>16
  <2> QED BY <1>2, <1>17, <2>1, AscendingFlatten
<1> QED BY <1>9, <1>14, <1>16, <1>18 DEF T, from, to

(***************************************************************************)
(* The request and its reply, as whoever asked sees them: what the         *)
(* refinement of LogQuery rests on.                                        *)
(***************************************************************************)

\* The range is that of the filter, for some latest block, and within the user's;
\* who still asks for the latest block has no reply.
AskedOK ==
    /\ asked > 0 => outcome = "pending"
    /\ span # NoSpan =>
        /\ span.to - span.from <= MaxUserRange
        /\ \E latest \in Heads \union {NoBlock} :
              /\ span.from = NormalizeBlockTag(query.from, latest)
              /\ span.to = NormalizeBlockTag(query.to, latest)

\* What every step does to the request and its reply.
Moves ==
    /\ UNCHANGED query
    /\ outcome' # outcome => outcome = "pending"
    /\ outcome = "answered" => UNCHANGED <<span, results>>

LEMMA PlanAsks ==
    ASSUME LInv, span = NoSpan, NEW latest \in Heads \union {NoBlock}, Plan(latest),
           UNCHANGED query, asked' = 0
    PROVE  AskedOK'
<1> DEFINE from == NormalizeBlockTag(query.from, latest)
           to   == NormalizeBlockTag(query.to, latest)
<1>1. \/ span' = span
      \/ /\ span' = [from |-> from, to |-> to]
         /\ to - from <= MaxUserRange
  BY DEF Plan, Conclude, Launch
<1> HIDE DEF from, to
<1>2. CASE span' = span
  BY <1>2 DEF AskedOK
<1>3. CASE span' = [from |-> from, to |-> to] /\ to - from <= MaxUserRange
  <2>1. span'.from = from /\ span'.to = to
    BY <1>3
  <2> QED BY <1>3, <2>1 DEF AskedOK, from, to
<1> QED BY <1>1, <1>2, <1>3

LEMMA BeginAsks ==
    ASSUME LInv, AskedOK, Begin \/ HeadAnswers \/ HeadFails
    PROVE  AskedOK' /\ Moves
<1>1. span = NoSpan /\ outcome = "pending" /\ query' = query
  BY DEF Begin, Fresh, HeadAnswers, HeadFails, LInv, SpanOK, AskedOK
<1>2. ASSUME span' = span, outcome' = "pending" \/ asked' = 0
      PROVE  AskedOK'
  BY <1>1, <1>2 DEF AskedOK
<1>3. ASSUME Begin PROVE AskedOK'
  <2>1. asked = 0
    BY <1>3 DEF Begin, Fresh
  <2>2. CASE asked' = asked /\ Conclude("whole")
    BY <1>2, <2>1, <2>2 DEF Conclude
  <2>3. CASE UNCHANGED <<outcome, span, fetchVars>>
    BY <1>1, <1>2, <2>3
  <2>4. CASE asked' = asked /\ Plan(NoBlock)
    BY <1>1, <2>1, <2>4, PlanAsks
  <2> QED BY <1>3, <2>2, <2>3, <2>4 DEF Begin
<1>4. ASSUME HeadAnswers PROVE AskedOK'
  <2>1. PICK head \in Heads : Plan(head)
    BY <1>4 DEF HeadAnswers
  <2>2. asked' = 0
    BY <1>4 DEF HeadAnswers
  <2> QED BY <1>1, <2>1, <2>2, PlanAsks
<1>5. ASSUME HeadFails PROVE AskedOK'
  <2>1. CASE UNCHANGED <<outcome, span, fetchVars>>
    BY <1>1, <1>2, <2>1
  <2>2. CASE asked' = 0 /\ Conclude("400")
    BY <1>2, <2>2 DEF Conclude
  <2> QED BY <1>5, <2>1, <2>2 DEF HeadFails
<1>6. Moves
  BY <1>1 DEF Moves
<1> QED BY <1>3, <1>4, <1>5, <1>6

\* A chunk's step comes too late to change a reply.
LEMMA CallAsks ==
    ASSUME LInv, AnswersOK, AskedOK, NEW c \in DOMAIN chunk, CallEnds(c) \/ BackoffEnds(c)
    PROVE  AskedOK' /\ Moves
<1>1. /\ chunk[c].at \in {"calling", "backoff"}
      /\ UNCHANGED <<query, asked, span>>
      /\ outcome' # outcome => outcome = "pending"
  BY DEF CallEnds, BackoffEnds, Answer, Malformed, CallFails, Fail, Reject
<1>2. outcome # "answered"
  <2>1. c \in Chunks
    BY DEF LInv, ChunksOK
  <2> QED BY <1>1, <2>1, StateKinds DEF AnswersOK
<1>3. asked = 0
  BY <1>1, RunningChunk
<1> QED BY <1>1, <1>2, <1>3 DEF AskedOK, Moves

LEMMA NextAsks == LInv /\ AnswersOK /\ AskedOK /\ [Next]_vars => AskedOK' /\ Moves
<1> SUFFICES ASSUME LInv, AnswersOK, AskedOK, [Next]_vars PROVE AskedOK' /\ Moves
  OBVIOUS
<1>1. CASE UNCHANGED vars
  BY <1>1 DEF vars, fetchVars, AskedOK, Moves
<1> QED BY <1>1, BeginAsks, CallAsks DEF Next

LEMMA SpecAsks == Spec => []AskedOK
<1>1. Init => AskedOK
  BY DEF Init, AskedOK
<1> QED BY <1>1, NextAsks, SpecLInv, SpecAnswers, PTL DEF Spec

\* The logs of a reply are a list of blocks of the range in increasing order, no
\* longer than the cap.
ReplyFits ==
    outcome = "answered" =>
        \E n \in 0..MaxLogs :
            /\ Combined \in [1..n -> LogBlocks \intersect (span.from..span.to)]
            /\ \A i, j \in 1..n : i < j => Combined[i] < Combined[j]

LEMMA ReplyInOrder == LInv /\ AnswersOK => ReplyFits
<1> SUFFICES ASSUME LInv, AnswersOK, outcome = "answered" PROVE ReplyFits
  BY DEF ReplyFits
<1> DEFINE n == Cardinality(KeptLogs)
           B == LogBlocks \intersect (span.from..span.to)
<1>1. KeptLogs \subseteq B /\ Combined = Ascending(KeptLogs, ByBlock)
  BY ReplySorted DEF ReplyOK
<1>2. IsFiniteSet(KeptLogs) /\ n \in 0..MaxLogs
  BY FS_CardinalityType, StepType DEF LInv, KeptOK
<1>3. span.from \in Nat /\ span.to \in Nat
  BY AnswersOfAll
<1>4. \A b \in B : b \in Int /\ ByBlock[b] = b
  BY <1>3 DEF ByBlock
<1> HIDE DEF n, B
<1>5. Keyed(KeptLogs, ByBlock)
  BY <1>1, <1>2, <1>4 DEF Keyed
<1>6. Lists(Combined, KeptLogs, ByBlock)
  BY <1>1, <1>5, AscendingIs
<1>7. /\ Combined \in [1..n -> KeptLogs]
      /\ \A i, j \in 1..n : i < j => ByBlock[Combined[i]] < ByBlock[Combined[j]]
  BY <1>6 DEF Lists, n
<1>8. \A i \in 1..n : Combined[i] \in B /\ ByBlock[Combined[i]] = Combined[i]
  BY <1>1, <1>4, <1>7
<1>9. Combined \in [1..n -> B]
  BY <1>7, <1>8
<1>10. \A i, j \in 1..n : i < j => Combined[i] < Combined[j]
  BY <1>7, <1>8
<1> QED BY <1>2, <1>9, <1>10 DEF ReplyFits, B

(***************************************************************************)
(* Why a request does not stall.                                           *)
(***************************************************************************)

\* Until there is a reply, no chunk has failed, and one of them is not done.
PendingOK ==
    outcome = "pending" =>
        /\ \A c \in Chunks : chunk[c].at # "failed"
        /\ span # NoSpan => \E c \in Chunks : chunk[c] # Done

\* A range that is cut has a first chunk, and it has not come to an end.
LEMMA PlanPends ==
    ASSUME LInv, PendingOK, span = NoSpan, NEW latest \in Nat \union {NoBlock}, Plan(latest)
    PROVE  PendingOK'
<1> DEFINE from == NormalizeBlockTag(query.from, latest)
           to   == NormalizeBlockTag(query.to, latest)
<1>1. from \in Nat \union {NoBlock} /\ to \in Nat \union {NoBlock}
  BY EndsOfQuery DEF LInv
<1>2. \/ outcome' \in {"whole", "400"}
      \/ from \in Nat /\ to \in Nat /\ from <= to /\ Launch(from, to)
  <2>1. \/ outcome' \in {"whole", "400"}
        \/ from # NoBlock /\ to # NoBlock /\ ~(to < from) /\ Launch(from, to)
    BY DEF Plan, Conclude
  <2> HIDE DEF from, to
  <2> QED BY <1>1, <2>1 DEF NoBlock
<1> HIDE DEF from, to
<1>3. CASE outcome' \in {"whole", "400"}
  BY <1>3 DEF PendingOK
<1>4. CASE from \in Nat /\ to \in Nat /\ from <= to /\ Launch(from, to) /\ outcome' = "pending"
  <2>1. Chunks' = Starts(from, to, Step) /\ \A c \in Chunks' : chunk'[c] \in {Calling(1, 0), Queued}
    BY <1>4 DEF Launch, Chunks
  <2>2. \A s \in {Calling(1, 0), Queued} : s.at # "failed" /\ s # Done
    BY StateKinds
  <2>3. Step > 0
    BY <1>4, StepType DEF Launch
  <2>4. from \in Starts(from, to, Step)
    <3>1. (from - from) % Step = 0
      BY <1>4, <2>3, StepType
    <3> QED BY <1>4, <2>3, <3>1, StepType DEF Starts
  <2> QED BY <2>1, <2>2, <2>4 DEF PendingOK
<1>5. CASE Launch(from, to) /\ outcome' # "pending"
  BY <1>5 DEF PendingOK
<1> QED BY <1>2, <1>3, <1>4, <1>5

LEMMA BeginPends ==
    ASSUME LInv, PendingOK, Begin \/ HeadAnswers \/ HeadFails
    PROVE  PendingOK'
<1>1. span = NoSpan
  BY DEF Begin, Fresh, HeadAnswers, HeadFails, LInv, SpanOK
<1>2. ASSUME UNCHANGED <<outcome, span, fetchVars>> \/ outcome' # "pending"
      PROVE  PendingOK'
  BY <1>2 DEF PendingOK, Chunks, fetchVars
<1>3. CASE Begin
  <2>1. \/ UNCHANGED <<outcome, span, fetchVars>> \/ outcome' # "pending"
        \/ Plan(NoBlock)
    BY <1>3 DEF Begin, Conclude
  <2> QED BY <1>1, <1>2, <2>1, PlanPends
<1>4. CASE HeadAnswers
  <2>1. PICK head \in Nat : Plan(head)
    BY <1>4, BlocksAssumption DEF HeadAnswers
  <2> QED BY <1>1, <2>1, PlanPends
<1>5. CASE HeadFails
  <2>1. UNCHANGED <<outcome, span, fetchVars>> \/ outcome' # "pending"
    BY <1>5 DEF HeadFails, Conclude
  <2> QED BY <1>2, <2>1
<1> QED BY <1>3, <1>4, <1>5

\* A step by which no chunk comes to an end.
LEMMA GoingOnPends ==
    ASSUME PendingOK, UNCHANGED <<outcome, span>>,
           \A d \in Chunks : chunk'[d] = chunk[d] \/ chunk'[d].at \in {"calling", "backoff"}
    PROVE  PendingOK'
<1>1. Chunks' = Chunks
  BY DEF Chunks
<1> QED BY <1>1, StateKinds DEF PendingOK

\* The last answer is the reply; before it another chunk is still to come.
LEMMA AnswerPends ==
    ASSUME LInv, PendingOK, NEW c \in Chunks, chunk[c].at = "calling", Free(c, Done),
           outcome = "pending", UNCHANGED span,
           \E d \in Chunks \ {c} : chunk[d] # Done
    PROVE  PendingOK'
<1>1. Chunks' = Chunks /\ DOMAIN chunk = Chunks
  BY DEF Chunks, LInv, ChunksOK
<1>2. chunk'[c] = Done /\ \A d \in Chunks \ {c} : chunk'[d] = Done <=> chunk[d] = Done
  BY OthersStay
<1>3. \A d \in Chunks \ {c} : chunk'[d] = chunk[d] \/ chunk'[d] = Calling(1, 0)
  BY <1>1 DEF Free
<1> QED BY <1>1, <1>2, <1>3, StateKinds DEF PendingOK

LEMMA CallPends ==
    ASSUME LInv, PendingOK, NEW c \in DOMAIN chunk, CallEnds(c) \/ BackoffEnds(c)
    PROVE  PendingOK'
<1> DEFINE u == chunk[c].upstream
           n == chunk[c].attempt
<1>1. c \in Chunks /\ DOMAIN chunk = Chunks
  BY DEF LInv, ChunksOK
<1>2. ASSUME outcome' # "pending" PROVE PendingOK'
  BY <1>2 DEF PendingOK
<1>3. ASSUME NEW head \in Heads \union {NoBlock}, Answer(c, head) PROVE PendingOK'
  <2>1. CASE totalLogs' > MaxLogs
    <3>1. outcome' # "pending"
      BY <1>3, <2>1 DEF Answer, Reject
    <3> QED BY <1>2, <3>1
  <2>2. CASE ~(totalLogs' > MaxLogs) /\ outcome' = "pending"
    <3>1. /\ chunk[c].at = "calling" /\ Free(c, Done) /\ outcome = "pending" /\ span' = span
          /\ \E d \in Chunks \ {c} : chunk[d] # Done
      BY <1>3, <2>2 DEF Answer
    <3> QED BY <1>1, <3>1, AnswerPends
  <2> QED BY <1>2, <2>1, <2>2
<1>4. ASSUME NEW how \in {"502", "503"}, Fail(c, how) PROVE PendingOK'
  <2>1. outcome' # "pending"
    BY <1>4 DEF Fail, Reject
  <2> QED BY <1>2, <2>1
<1>5. ASSUME NEW error \in Errors, CallFails(c, error) PROVE PendingOK'
  <2>1. chunk[c].at = "calling"
    BY <1>5 DEF CallFails
  <2>2. CASE chunk' \in {[chunk EXCEPT ![c] = BackingOff(u, n)], [chunk EXCEPT ![c] = Calling(u + 1, 0)]}
             /\ UNCHANGED <<outcome, span>>
    <3>1. chunk'[c].at \in {"calling", "backoff"}
      BY <1>1, <2>2, StateKinds
    <3>2. \A d \in Chunks \ {c} : chunk'[d] = chunk[d]
      BY <1>1, <2>2
    <3> QED BY <2>2, <3>1, <3>2, GoingOnPends
  <2>3. CASE Fail(c, "503")
    BY <1>4, <2>3
  <2> QED BY <1>5, <2>2, <2>3 DEF CallFails
<1>6. ASSUME BackoffEnds(c) PROVE PendingOK'
  <2>1. chunk[c].at = "backoff" /\ chunk' = [chunk EXCEPT ![c] = Calling(u, n + 1)]
        /\ UNCHANGED <<outcome, span>>
    BY <1>6 DEF BackoffEnds
  <2>2. chunk'[c].at = "calling"
    BY <1>1, <2>1, StateKinds
  <2>3. \A d \in Chunks \ {c} : chunk'[d] = chunk[d]
    BY <1>1, <2>1
  <2> QED BY <2>1, <2>2, <2>3, GoingOnPends
<1>7. ASSUME Malformed(c) PROVE PendingOK'
  BY <1>4, <1>7 DEF Malformed
<1> QED BY <1>3, <1>5, <1>6, <1>7 DEF CallEnds

LEMMA SpecPends == Spec => []PendingOK
<1>1. Init => PendingOK
  <2> SUFFICES ASSUME Init PROVE PendingOK
    OBVIOUS
  <2>1. Chunks = {} /\ span = NoSpan
    BY InitLInv DEF Init, LInv, ChunksOK
  <2> QED BY <2>1 DEF PendingOK
<1>2. LInv /\ PendingOK /\ [Next]_vars => PendingOK'
  <2> SUFFICES ASSUME LInv, PendingOK, [Next]_vars PROVE PendingOK'
    OBVIOUS
  <2>1. CASE UNCHANGED vars
    BY <2>1 DEF vars, fetchVars, PendingOK, Chunks
  <2> QED BY <2>1, BeginPends, CallPends DEF Next
<1> QED BY <1>1, <1>2, SpecLInv, PTL DEF Spec

-----------------------------------------------------------------------------
(***************************************************************************)
(* The theorems.                                                           *)
(***************************************************************************)

\* Every variable holds a value of its kind, and the limiter's counter and queue
\* are what the states of the chunks say, whatever the limits, the upstreams and
\* the filter: `active` and `queue` of the limiter are kept apart from the
\* promises they stand for, and never drift from them.
THEOREM ChunksTypeCorrect == Spec => []TypeOK
<1>1. LInv => TypeOK
  <2> SUFFICES ASSUME LInv PROVE TypeOK
    OBVIOUS
  <2>1. query \in Queries /\ outcome \in Outcomes
    BY DEF LInv, RequestOK
  <2>2. asked \in 0..Len(Upstreams) /\ (span = NoSpan \/ (span.from \in Nat /\ span.to \in Nat))
    BY DEF LInv, SpanOK
  <2>3. DOMAIN chunk = Chunks
    BY DEF LInv, ChunksOK
  <2>4. ASSUME NEW c \in Chunks
        PROVE  \/ chunk[c] \in {Queued, Done}
               \/ \E u \in DOMAIN Upstreams, n \in 0..MaxRetries :
                     chunk[c] \in {Calling(u, n), BackingOff(u, n), Failed(u, n)}
    <3>1. chunk[c] \in ChunkStates
      BY DEF LInv, ChunksOK
    <3>2. ASSUME NEW s \in ChunkStates, s \notin {Queued, Done}
          PROVE  \E u \in DOMAIN Upstreams, n \in 0..MaxRetries :
                    s \in {Calling(u, n), BackingOff(u, n), Failed(u, n)}
      <4>1. s.upstream \in DOMAIN Upstreams /\ s.attempt \in 0..MaxRetries
        BY <3>2 DEF ChunkStates, MaxRetries
      <4>2. s \in {Calling(s.upstream, s.attempt), BackingOff(s.upstream, s.attempt),
                   Failed(s.upstream, s.attempt)}
        BY <3>2 DEF ChunkStates, Calling, BackingOff, Failed
      <4> QED BY <4>1, <4>2
    <3> QED BY <3>1, <3>2
  <2>5. Range(waiting) = {c \in Chunks : chunk[c] = Queued} /\ active = Cardinality(Running)
    BY DEF LInv, LimiterOK
  <2>6. Range(results) \subseteq [chunk : Chunks, head : Heads \union {NoBlock}] /\ totalLogs \in Nat
    <3>1. results \in Seq(Answers) /\ totalLogs \in Nat
      BY DEF LInv, KeptOK
    <3>2. DOMAIN results = 1..Len(results) /\ \A i \in 1..Len(results) : results[i] \in Answers
      BY <3>1
    <3>3. Range(results) \subseteq Answers
      BY <3>2 DEF Range
    <3> QED BY <3>1, <3>3 DEF Answers
  <2> QED BY <2>1, <2>2, <2>3, <2>4, <2>5, <2>6 DEF TypeOK
<1> QED BY <1>1, SpecLInv, PTL

\* The limiter never lets more than UPSTREAM_MAX_PARALLEL chunks run, the ones that
\* outlive the reply included, and no chunk waits while there is room: every end
\* of a chunk, good or bad, takes the next one in.
THEOREM LimiterHolds == Spec => []ParallelBound
<1>1. LInv => ParallelBound
  BY DEF LInv, LimiterOK, ParallelBound
<1> QED BY <1>1, SpecLInv, PTL

\* What one request keeps never passes OPENRPC_MAX_LOGS_IN_MEMORY, for every set of
\* logs, cut and order of answers, not even while chunks still answer after the
\* request was refused.
THEOREM MemoryHolds == Spec => []MemoryBound
<1>1. LInv => MemoryBound
  <2> SUFFICES ASSUME LInv PROVE MemoryBound
    OBVIOUS
  <2>1. UNION {LogsIn(a) : a \in Range(results)} = KeptLogs
    BY DEF Range, KeptLogs
  <2> QED BY <2>1 DEF LInv, KeptOK, MemoryBound
<1> QED BY <1>1, SpecLInv, PTL

\* Whatever the range and the limits, a range that is cut reaches the upstreams as
\* a partition into pieces of at most UPSTREAM_MAX_LOG_RANGE blocks.  With a limit
\* of zero no piece is made at all: splitInclusiveRange gives an empty list.
THEOREM WindowsCut == Step > 0 => (Spec => []WindowsFit)
<1> SUFFICES ASSUME Step > 0 PROVE Spec => []WindowsFit
  OBVIOUS
<1>1. LInv => WindowsFit
  <2> SUFFICES ASSUME LInv PROVE WindowsFit
    OBVIOUS
  <2> DEFINE Window(c) == ChunkBlocks(c, span.to, Step)
  <2>1. /\ \A c \in Chunks : Cardinality(Window(c)) \in 1..Step
        /\ \A c, d \in Chunks : c # d => Window(c) \intersect Window(d) = {}
        /\ UNION {Window(c) : c \in Chunks} = span.from..span.to
    <3>1. CASE span = NoSpan
      <4>1. span.from = 0 /\ span.to = -1
        BY <3>1 DEF NoSpan
      <4>2. span.from..span.to = {}
        BY <4>1
      <4>3. Chunks = {}
        BY <4>2 DEF Chunks, Starts
      <4> QED BY <4>2, <4>3
    <3>2. CASE span # NoSpan
      <4>1. span.from \in Nat /\ span.to \in Nat /\ span.from <= span.to
        BY <3>2 DEF LInv, SpanOK
      <4> QED BY <4>1, WindowsPartition DEF Chunks
    <3> QED BY <3>1, <3>2
  <2> QED BY <2>1 DEF WindowsFit
<1> QED BY <1>1, SpecLInv, PTL

\* However the range is cut and in whatever order, after whatever retries and from
\* whichever upstreams the chunks come back, the reply holds the log of every block
\* asked for that the upstream of its chunk had, once and in block order.  With a
\* limit of zero the range is cut into nothing, and the reply is empty.
THEOREM AnswerComplete == Step > 0 => (Spec => []CompleteAnswer)
<1> SUFFICES ASSUME Step > 0 PROVE Spec => []CompleteAnswer
  OBVIOUS
<1>1. LInv /\ AnswersOK => CompleteAnswer
  <2> SUFFICES ASSUME LInv, AnswersOK, outcome = "answered" PROVE CompleteAnswer
    BY DEF CompleteAnswer
  <2> DEFINE Window(c) == ChunkBlocks(c, span.to, Step)
             R == Range(results)
             T == {b \in LogBlocks \intersect (span.from..span.to) :
                     \A a \in R : b \in Window(a.chunk) => b <= a.head}
  <2>1. /\ \A a \in R : a.chunk \in Chunks
        /\ \A a, b \in R : a.chunk = b.chunk => a = b
        /\ \A c \in Chunks : \E a \in R : a.chunk = c
        /\ span.from \in Nat /\ span.to \in Nat /\ span.from <= span.to
    BY AnswersOfAll DEF Keyed
  <2>2. /\ \A c, d \in Chunks : c # d => Window(c) \intersect Window(d) = {}
        /\ UNION {Window(c) : c \in Chunks} = span.from..span.to
    BY <2>1, WindowsPartition DEF Chunks
  <2>3. \A b : b \in KeptLogs <=> \E a \in R : b \in LogBlocks /\ b \in Window(a.chunk) /\ b <= a.head
    BY DEF KeptLogs, Range, LogsIn
  <2>4. CompleteAnswer <=> Combined = Ascending(T, ByBlock)
    BY DEF CompleteAnswer
  <2>5. /\ KeptLogs \subseteq LogBlocks \intersect (span.from..span.to)
        /\ Combined = Ascending(KeptLogs, ByBlock)
    BY ReplySorted DEF ReplyOK
  <2>6. \A b : b \in T <=> /\ b \in LogBlocks /\ b \in span.from..span.to
                           /\ \A a \in R : b \in Window(a.chunk) => b <= a.head
    OBVIOUS
  <2> HIDE DEF T, R, Window
  <2>7. ASSUME NEW b \in KeptLogs PROVE b \in T
    <3>1. PICK a \in R : b \in LogBlocks /\ b \in Window(a.chunk) /\ b <= a.head
      BY <2>3
    <3>2. \A d \in R : b \in Window(d.chunk) => d = a
      BY <2>1, <2>2, <3>1
    <3> QED BY <2>5, <2>6, <3>1, <3>2
  <2>8. ASSUME NEW b \in T PROVE b \in KeptLogs
    <3>1. PICK c \in Chunks : b \in Window(c)
      BY <2>2, <2>6
    <3>2. PICK a \in R : a.chunk = c
      BY <2>1
    <3> QED BY <2>3, <2>6, <3>1, <3>2
  <2>9. T = KeptLogs
    BY <2>7, <2>8
  <2> QED BY <2>4, <2>5, <2>9
<1> QED BY <1>1, SpecLInv, SpecAnswers, PTL

\* With room for at least one chunk, a request that awaits its chunks never stalls:
\* a call or a back-off is under way, whatever has failed and whoever waits.  With
\* UPSTREAM_MAX_PARALLEL at zero, which the code accepts, no chunk would ever start.
THEOREM RequestNeverStalls == MaxParallel > 0 => (Spec => []NeverStalled)
<1> SUFFICES ASSUME MaxParallel > 0 PROVE Spec => []NeverStalled
  OBVIOUS
<1>1. LInv /\ PendingOK => NeverStalled
  <2> SUFFICES ASSUME LInv, PendingOK, outcome = "pending", span # NoSpan PROVE Running # {}
    BY DEF NeverStalled
  <2>1. PICK c \in Chunks : chunk[c] # Done /\ chunk[c].at # "failed"
    BY DEF PendingOK
  <2>2. DOMAIN chunk = Chunks /\ chunk[c] \in ChunkStates
    BY DEF LInv, ChunksOK
  <2>3. chunk[c].at \in {"calling", "backoff"} \/ chunk[c] = Queued
    BY <2>1, <2>2 DEF ChunkStates
  <2>4. CASE chunk[c].at \in {"calling", "backoff"}
    BY <2>2, <2>4 DEF Running
  <2>5. CASE chunk[c] = Queued
    <3>1. waiting # <<>>
      BY <2>5 DEF LInv, LimiterOK, Range
    <3>2. Cardinality(Running) = MaxParallel
      BY <3>1 DEF LInv, LimiterOK
    <3> QED BY <3>2, FS_EmptySet
  <2> QED BY <2>3, <2>4, <2>5
<1> QED BY <1>1, SpecLInv, SpecPends, PTL

\* The chunked request implements the abstract one: it is replied to at most once,
\* with logs of the range asked for, each once, in block order and within the cap,
\* or by passing it on or refusing it; and nothing the chunks left behind still do
\* changes the reply.
THEOREM ChunksImplementPromise == Spec => PromiseSpec
<1> DEFINE All == LInv /\ AnswersOK /\ AskedOK /\ ReplyFits
<1>1. Init => Promise!Init
  BY DEF Init, Promise!Init, replied
<1>2. All /\ All' /\ [Next]_vars => [Promise!Next]_<<query, replied>>
  <2> SUFFICES ASSUME All, All', [Next]_vars PROVE [Promise!Next]_<<query, replied>>
    OBVIOUS
  <2>1. Moves
    BY NextAsks
  <2>2. query' = query
    BY <2>1 DEF Moves
  <2>3. CASE outcome' = outcome /\ outcome # "answered"
    <3>1. replied' = replied
      BY <2>3 DEF replied
    <3> QED BY <2>2, <3>1
  <2>4. CASE outcome' = outcome /\ outcome = "answered"
    <3>1. results' = results /\ span' = span
      BY <2>1, <2>4 DEF Moves
    <3>2. Combined' = Combined
      BY <3>1 DEF Combined, ByChunk, LogsIn
    <3>3. replied' = replied
      BY <2>4, <3>2 DEF replied
    <3> QED BY <2>2, <3>3
  <2>5. CASE outcome' # outcome
    <3>1. outcome = "pending" /\ replied = [kind |-> "pending"]
      BY <2>1, <2>5 DEF Moves, replied
    <3>2. outcome' \in {"whole", "answered", "400", "502", "503"}
      BY <2>5, <3>1 DEF LInv, RequestOK, Outcomes
    <3>3. CASE outcome' = "whole"
      <4>1. replied' = [kind |-> "whole"]
        BY <3>3 DEF replied
      <4>2. Promise!PassOn
        BY <2>2, <3>1, <4>1 DEF Promise!PassOn, Promise!Reply
      <4> QED BY <4>2 DEF Promise!Next
    <3>4. CASE outcome' \in {"400", "502", "503"}
      <4>1. replied' = [kind |-> outcome']
        BY <3>4 DEF replied
      <4>2. Promise!Refuse
        BY <2>2, <3>1, <3>4, <4>1 DEF Promise!Refuse, Promise!Reply
      <4> QED BY <4>2 DEF Promise!Next
    <3>5. CASE outcome' = "answered"
      <4> DEFINE f == span'.from
                 t == span'.to
                 B == LogBlocks \intersect (f..t)
      <4>1. replied' = [kind |-> "logs", logs |-> Combined']
        BY <3>5 DEF replied
      <4>2. PICK n \in 0..MaxLogs :
               /\ Combined' \in [1..n -> B]
               /\ \A i, j \in 1..n : i < j => Combined'[i] < Combined'[j]
        BY <3>5 DEF ReplyFits
      <4>3. f \in Nat /\ t \in Nat /\ f <= t /\ t - f <= MaxUserRange
        BY <3>5 DEF AnswersOK, LInv, SpanOK, AskedOK
      <4>4. PICK latest \in Heads \union {NoBlock} :
               f = NormalizeBlockTag(query.from, latest) /\ t = NormalizeBlockTag(query.to, latest)
        BY <2>2, <3>5 DEF AnswersOK, AskedOK
      <4>5. /\ Promise!NormalizeBlockTag(query.from, latest) = f
            /\ Promise!NormalizeBlockTag(query.to, latest) = t
            /\ Promise!NoBlock = NoBlock /\ NoBlock \notin {f, t}
        BY <4>3, <4>4 DEF Promise!NormalizeBlockTag, NormalizeBlockTag, Promise!NoBlock, NoBlock
      <4> HIDE DEF f, t
      <4>6. Promise!Reply([kind |-> "logs", logs |-> Combined'])
        BY <2>2, <3>1, <4>1 DEF Promise!Reply
      <4>7. Promise!Deliver
        BY <4>2, <4>3, <4>5, <4>6 DEF Promise!Deliver
      <4> QED BY <4>7 DEF Promise!Next
    <3> QED BY <3>2, <3>3, <3>4, <3>5
  <2> QED BY <2>3, <2>4, <2>5
<1>3. LInv /\ AnswersOK => ReplyFits
  BY ReplyInOrder
<1> QED BY <1>1, <1>2, <1>3, SpecLInv, SpecAnswers, SpecAsks, PTL DEF Spec, PromiseSpec, Promise!Spec
=============================================================================
