---------------------------- MODULE BillingProofs ----------------------------
(***************************************************************************)
(* Proofs about Billing, for any keys, quotas, months and any number of    *)
(* overlapping cycles.  The first invariant is about the bills.  The       *)
(* second, for the types, rests on what a sum over a set is: the number of *)
(* things counted, one set of them for each element.                       *)
(***************************************************************************)
EXTENDS Billing, FiniteSetTheorems, WellFoundedInduction, TLAPS

Summing == {"summed", "written"}

\* The shape of a cycle, but for the sum that it has read.
Shaped(c) ==
    \/ cycle[c] = Idle
    \/ cycle[c].at \in {"connecting", "committed"} /\ cycle[c].period \in Months
    \/ /\ cycle[c].at \in Summing
       /\ cycle[c].period \in Months
       /\ DOMAIN cycle[c].totals \subseteq Keys
       /\ \A k \in DOMAIN cycle[c].totals : cycle[c].totals[k] \in Nat
    \/ cycle[c].at = "read"

Typed ==
    /\ month \in Months
    /\ usage \in [Keys -> [Months -> Nat]]
    /\ live \subseteq Keys
    /\ record \in [Keys -> [Months -> Nat \union {NoRecord}]]
    /\ cycle \in [Cycles -> {cycle[c] : c \in Cycles}]
    /\ \A c \in Cycles : Shaped(c)
    /\ overtaken \subseteq Cycles

\* A snapshot is never ahead of the usage it was taken from.
SnapshotsBehind ==
    \A c \in Cycles : cycle[c].at \in Summing =>
        \A k \in DOMAIN cycle[c].totals : cycle[c].totals[k] <= usage[k][cycle[c].period]

\* Only a snapshot that was overtaken is behind the bill it is going to replace.
BillsBehind ==
    \A c \in Cycles \ overtaken : cycle[c].at \in Summing =>
        \A k \in DOMAIN cycle[c].totals : record[k][cycle[c].period] <= cycle[c].totals[k]

BillInv == Typed /\ SnapshotsBehind /\ BillsBehind /\ NeverOverbilled

LEMMA MonthsAreNumbers == Months \subseteq Nat
BY BoundsAssumption DEF Months

LEMMA BillInit == Init => BillInv
BY BoundsAssumption
DEF Init, BillInv, Typed, Shaped, SnapshotsBehind, BillsBehind, NeverOverbilled, Idle, Summing,
    Months, NoRecord

\* A step that touches neither usage nor records, and leaves every snapshot as it
\* is or drops it.
LEMMA KeepInv ==
    ASSUME BillInv, UNCHANGED <<usage, record>>, month' \in Months, live' \subseteq Keys,
           DOMAIN cycle' = Cycles, cycle' \in [Cycles -> {cycle'[c] : c \in Cycles}],
           \A c \in Cycles : Shaped(c)',
           overtaken' = overtaken,
           \A c \in Cycles : cycle'[c].at \in Summing =>
                /\ cycle[c].at \in Summing
                /\ cycle'[c].totals = cycle[c].totals
                /\ cycle'[c].period = cycle[c].period
    PROVE  BillInv'
<1>1. Typed'
  BY DEF BillInv, Typed
<1>2. SnapshotsBehind'
  BY DEF BillInv, SnapshotsBehind
<1>3. BillsBehind'
  BY DEF BillInv, BillsBehind
<1>4. NeverOverbilled'
  BY DEF BillInv, NeverOverbilled
<1>. QED  BY <1>1, <1>2, <1>3, <1>4 DEF BillInv

\* A cycle goes on to w.
LEMMA ReachInv ==
    ASSUME BillInv, NEW c \in Cycles, NEW w, Reach(c, w), UNCHANGED <<record, overtaken>>,
           \/ w = Idle
           \/ w.at \in {"connecting", "committed"} /\ w.period \in Months
           \/ w.at = "read"
           \/ /\ w.at \in Summing /\ cycle[c].at \in Summing
              /\ w.totals = cycle[c].totals /\ w.period = cycle[c].period
    PROVE  BillInv'
<1>1. cycle'[c] = w /\ \A d \in Cycles \ {c} : cycle'[d] = cycle[d]
  BY DEF Reach, BillInv, Typed
<1>2. DOMAIN cycle' = Cycles /\ cycle' \in [Cycles -> {cycle'[d] : d \in Cycles}]
  BY DEF Reach, BillInv, Typed
<1>3. \A d \in Cycles \ {c} : Shaped(d)'
  BY <1>1 DEF BillInv, Typed, Shaped
<1>4. Shaped(c)'
  BY <1>1 DEF BillInv, Typed, Shaped, Idle, Summing
<1>5. \A d \in Cycles : cycle'[d].at \in Summing =>
          /\ cycle[d].at \in Summing
          /\ cycle'[d].totals = cycle[d].totals
          /\ cycle'[d].period = cycle[d].period
  BY <1>1 DEF Idle, Summing
<1>6. UNCHANGED <<usage, record, month, live, overtaken>>
  BY DEF Reach
<1>. QED  BY <1>2, <1>3, <1>4, <1>5, <1>6, KeepInv DEF BillInv, Typed

LEMMA SnapshotInv ==
    ASSUME BillInv, NEW c \in Cycles, Snapshot(c)
    PROVE  BillInv'
<1>. DEFINE totals == [k \in live |-> usage[k][cycle[c].period]]
            w == [at |-> "summed", period |-> cycle[c].period, totals |-> totals]
<1>1. /\ cycle[c].at = "connecting" /\ cycle' = [cycle EXCEPT ![c] = w]
      /\ overtaken' = overtaken \ {c}
      /\ UNCHANGED <<month, usage, live, record>>
  BY DEF Snapshot, Reach
<1>2. /\ w.at = "summed" /\ w.period = cycle[c].period /\ w.totals = totals
      /\ DOMAIN totals = live /\ cycle[c].period \in Months
      /\ \A k \in live : totals[k] = usage[k][cycle[c].period] /\ totals[k] \in Nat
  BY <1>1 DEF BillInv, Typed, Shaped, Idle, Summing
<1>. HIDE DEF w, totals
<1>3. cycle'[c] = w /\ \A d \in Cycles \ {c} : cycle'[d] = cycle[d]
  BY <1>1 DEF BillInv, Typed
<1>4. cycle' \in [Cycles -> {cycle'[d] : d \in Cycles}]
  BY <1>1 DEF BillInv, Typed
<1>5. \A d \in Cycles \ {c} : Shaped(d)'
  BY <1>3 DEF BillInv, Typed, Shaped
<1>6. Shaped(c)'
  BY <1>2, <1>3 DEF BillInv, Typed, Shaped, Summing
<1>7. Typed'
  BY <1>1, <1>4, <1>5, <1>6 DEF BillInv, Typed
<1>8. SnapshotsBehind'
  <2>. SUFFICES ASSUME NEW d \in Cycles, cycle'[d].at \in Summing,
                       NEW k \in DOMAIN cycle'[d].totals
                PROVE  cycle'[d].totals[k] <= usage[k][cycle'[d].period]
    BY <1>1 DEF SnapshotsBehind
  <2>1. CASE d = c
    BY <2>1, <1>2, <1>3
  <2>2. CASE d # c
    BY <2>2, <1>3 DEF BillInv, SnapshotsBehind
  <2>. QED  BY <2>1, <2>2
<1>9. BillsBehind'
  <2>. SUFFICES ASSUME NEW d \in Cycles \ overtaken', cycle'[d].at \in Summing,
                       NEW k \in DOMAIN cycle'[d].totals
                PROVE  record[k][cycle'[d].period] <= cycle'[d].totals[k]
    BY <1>1 DEF BillsBehind
  <2>1. CASE d = c
    <3>1. k \in Keys
      BY <2>1, <1>2, <1>3 DEF BillInv, Typed
    <3>. QED  BY <2>1, <3>1, <1>2, <1>3 DEF BillInv, NeverOverbilled
  <2>2. CASE d # c
    BY <2>2, <1>1, <1>3 DEF BillInv, BillsBehind
  <2>. QED  BY <2>1, <2>2
<1>10. NeverOverbilled'
  BY <1>1 DEF BillInv, NeverOverbilled
<1>. QED  BY <1>7, <1>8, <1>9, <1>10 DEF BillInv

\* What a commit leaves in the records.
LEMMA CommitRecords ==
    ASSUME BillInv, NEW c \in Cycles, cycle[c].at = "written", record' = Recorded(c)
    PROVE  /\ record' \in [Keys -> [Months -> Nat \union {NoRecord}]]
           /\ \A k \in Keys, m \in Months :
                record'[k][m] = IF m = cycle[c].period /\ k \in DOMAIN cycle[c].totals
                                THEN cycle[c].totals[k] ELSE record[k][m]
<1>1. \A k \in DOMAIN cycle[c].totals : cycle[c].totals[k] \in Nat
  BY DEF BillInv, Typed, Shaped, Idle, Summing
<1>2. \A k \in Keys, m \in Months : record[k][m] \in Nat \union {NoRecord}
  BY DEF BillInv, Typed
<1>3. \A k \in Keys, m \in Months :
        record'[k][m] = IF m = cycle[c].period /\ k \in DOMAIN cycle[c].totals
                        THEN cycle[c].totals[k] ELSE record[k][m]
  BY DEF Recorded
<1>. QED  BY <1>1, <1>2, <1>3 DEF Recorded

LEMMA CommitInv ==
    ASSUME BillInv, NEW c \in Cycles, cycle[c].at = "written", NEW w,
           w = Idle \/ (w.at = "committed" /\ w.period \in Months), CommitTo(c, w)
    PROVE  BillInv'
<1>1. /\ record' = Recorded(c) /\ cycle' = [cycle EXCEPT ![c] = w]
      /\ overtaken' = overtaken \union {d \in Cycles \ {c} : cycle[d].at \in Summing}
      /\ UNCHANGED <<month, usage, live>>
  BY DEF CommitTo, Reach, Summing
<1>2. cycle'[c] = w /\ \A d \in Cycles \ {c} : cycle'[d] = cycle[d]
  BY <1>1 DEF BillInv, Typed
<1>3. w.at \notin Summing
  BY DEF Idle, Summing
<1>4. Typed'
  <2>1. \A d \in Cycles \ {c} : Shaped(d)'
    BY <1>2 DEF BillInv, Typed, Shaped
  <2>2. Shaped(c)'
    BY <1>2 DEF Shaped
  <2>3. cycle' \in [Cycles -> {cycle'[d] : d \in Cycles}]
    BY <1>1 DEF BillInv, Typed
  <2>. QED  BY <1>1, <2>1, <2>2, <2>3, CommitRecords DEF BillInv, Typed
<1>5. SnapshotsBehind'
  BY <1>1, <1>2, <1>3 DEF BillInv, SnapshotsBehind
<1>6. BillsBehind'
  BY <1>1, <1>2, <1>3 DEF BillInv, BillsBehind
<1>7. NeverOverbilled'
  <2>. SUFFICES ASSUME NEW k \in Keys, NEW m \in Months
                PROVE  record'[k][m] <= usage[k][m]
    BY <1>1 DEF NeverOverbilled
  <2>1. CASE m = cycle[c].period /\ k \in DOMAIN cycle[c].totals
    BY <1>1, <2>1, CommitRecords DEF BillInv, SnapshotsBehind, Summing
  <2>2. CASE ~(m = cycle[c].period /\ k \in DOMAIN cycle[c].totals)
    BY <1>1, <2>2, CommitRecords DEF BillInv, NeverOverbilled
  <2>. QED  BY <2>1, <2>2
<1>. QED  BY <1>4, <1>5, <1>6, <1>7 DEF BillInv

\* Every step of a cycle.
LEMMA CycleInv ==
    ASSUME BillInv, NEW c \in Cycles, Start(c) \/ Step(c) \/ Fail(c)
    PROVE  BillInv'
<1>. DEFINE p == cycle[c].period
<1>a. cycle[c].at \in {"connecting", "committed", "summed", "written"} => p \in Months
  BY DEF BillInv, Typed, Shaped, Idle, Summing
<1>1. CASE Start(c)
  <2>. DEFINE w == [at |-> "connecting", period |-> month]
  <2>1. w.at = "connecting" /\ w.period \in Months
    BY DEF BillInv, Typed
  <2>2. Reach(c, w) /\ UNCHANGED <<record, overtaken>>
    BY <1>1 DEF Start
  <2>. HIDE DEF w
  <2>. QED  BY <2>1, <2>2, ReachInv
<1>2. CASE Snapshot(c)
  BY <1>2, SnapshotInv
<1>3. CASE Upsert(c)
  <2>. DEFINE w == [cycle[c] EXCEPT !.at = "written"]
  <2>1. cycle[c].at = "summed" /\ Reach(c, w) /\ UNCHANGED <<record, overtaken>>
    BY <1>3 DEF Upsert
  <2>2. w.at \in {"written", cycle[c].at} /\ w.totals = cycle[c].totals /\ w.period = p
    OBVIOUS
  <2>3. w.at \in Summing /\ cycle[c].at \in Summing
    BY <2>1, <2>2 DEF Summing
  <2>. HIDE DEF w
  <2>. QED  BY <2>1, <2>2, <2>3, ReachInv
<1>4. CASE Commit(c)
  <2>. DEFINE w == [at |-> "committed", period |-> p]
  <2>1. cycle[c].at = "written" /\ CommitTo(c, w)
    BY <1>4 DEF Commit
  <2>2. w.at = "committed" /\ w.period \in Months
    BY <2>1, <1>a
  <2>. HIDE DEF w
  <2>. QED  BY <2>1, <2>2, CommitInv
<1>5. CASE ReadDue(c)
  <2>. DEFINE w == [at |-> "read", due |-> Due(p)]
  <2>1. w.at = "read"
    OBVIOUS
  <2>2. Reach(c, w) /\ UNCHANGED <<record, overtaken>>
    BY <1>5 DEF ReadDue
  <2>. HIDE DEF w
  <2>. QED  BY <2>1, <2>2, ReachInv
<1>6. CASE Publish(c)
  BY <1>6, ReachInv DEF Publish
<1>7. CASE Fail(c)
  <2>1. CASE Reach(c, Idle) /\ UNCHANGED <<record, overtaken>>
    BY <2>1, ReachInv
  <2>2. CASE cycle[c].at = "written" /\ CommitTo(c, Idle)
    BY <2>2, CommitInv
  <2>. QED  BY <1>7, <2>1, <2>2 DEF Fail
<1>. QED  BY <1>1, <1>2, <1>3, <1>4, <1>5, <1>6, <1>7 DEF Step

\* Requests, revocations, the calendar and a restart of the engine.
LEMMA WorldInv ==
    ASSUME BillInv, (\E k \in Keys : Use(k) \/ Revoke(k)) \/ MonthEnds \/ Restart
    PROVE  BillInv'
<1>1. ASSUME NEW k \in Keys, Use(k)
      PROVE  BillInv'
  <2>1. /\ usage' = [usage EXCEPT ![k][month] = usage[k][month] + 1]
        /\ UNCHANGED <<month, live, record, cycle, overtaken>>
    BY <1>1 DEF Use, cycleVars
  <2>2. \A j \in Keys, m \in Months :
          usage'[j][m] \in Nat /\ usage[j][m] <= usage'[j][m]
    <3>1. month \in Months /\ usage \in [Keys -> [Months -> Nat]]
      BY DEF BillInv, Typed
    <3>. QED  BY <2>1, <3>1
  <2>3. usage' \in [Keys -> [Months -> Nat]]
    BY <2>1 DEF BillInv, Typed
  <2>4. Typed'
    BY <2>1, <2>3 DEF BillInv, Typed, Shaped
  <2>5. SnapshotsBehind'
    <3>. SUFFICES ASSUME NEW c \in Cycles, cycle[c].at \in Summing,
                         NEW j \in DOMAIN cycle[c].totals
                  PROVE  cycle[c].totals[j] <= usage'[j][cycle[c].period]
      BY <2>1 DEF SnapshotsBehind
    <3>1. cycle[c].period \in Months /\ j \in Keys /\ cycle[c].totals[j] \in Nat
      BY DEF BillInv, Typed, Shaped, Idle, Summing
    <3>2. cycle[c].totals[j] <= usage[j][cycle[c].period]
      BY DEF BillInv, SnapshotsBehind
    <3>3. usage[j][cycle[c].period] \in Nat
      BY <3>1 DEF BillInv, Typed
    <3>. QED  BY <2>2, <3>1, <3>2, <3>3
  <2>6. NeverOverbilled'
    <3>. SUFFICES ASSUME NEW j \in Keys, NEW m \in Months
                  PROVE  record[j][m] <= usage'[j][m]
      BY <2>1 DEF NeverOverbilled
    <3>1. record[j][m] <= usage[j][m]
      BY DEF BillInv, NeverOverbilled
    <3>2. record[j][m] \in Int /\ usage[j][m] \in Nat
      BY DEF BillInv, Typed, NoRecord
    <3>. QED  BY <2>2, <3>1, <3>2
  <2>7. BillsBehind'
    BY <2>1 DEF BillInv, BillsBehind
  <2>. QED  BY <2>4, <2>5, <2>6, <2>7 DEF BillInv
<1>2. ASSUME UNCHANGED <<usage, record, overtaken>>, month' \in Months, live' \subseteq Keys,
             UNCHANGED cycle \/ cycle' = [c \in Cycles |-> Idle]
      PROVE  BillInv'
  <2>1. DOMAIN cycle' = Cycles /\ cycle' \in [Cycles -> {cycle'[c] : c \in Cycles}]
    BY <1>2 DEF BillInv, Typed
  <2>2. \A c \in Cycles : Shaped(c)'
    BY <1>2 DEF BillInv, Typed, Shaped
  <2>3. \A c \in Cycles : cycle'[c].at \in Summing =>
          /\ cycle[c].at \in Summing
          /\ cycle'[c].totals = cycle[c].totals
          /\ cycle'[c].period = cycle[c].period
    BY <1>2 DEF Idle, Summing
  <2>. QED  BY <1>2, <2>1, <2>2, <2>3, KeepInv
<1>3. ASSUME NEW k \in Keys, Revoke(k)
      PROVE  BillInv'
  BY <1>2, <1>3 DEF Revoke, cycleVars, BillInv, Typed
<1>4. CASE MonthEnds
  BY <1>2, <1>4, BoundsAssumption DEF MonthEnds, cycleVars, BillInv, Typed, Months
<1>5. CASE Restart
  BY <1>2, <1>5 DEF Restart, BillInv, Typed
<1>. QED  BY <1>1, <1>3, <1>4, <1>5

LEMMA BillStep == BillInv /\ [Next]_vars => BillInv'
<1>1. BillInv /\ UNCHANGED vars => BillInv'
  BY DEF vars, cycleVars, BillInv, Typed, Shaped, SnapshotsBehind, BillsBehind, NeverOverbilled
<1>. QED  BY <1>1, CycleInv, WorldInv DEF Next

\* However cycles overlap, fail and restart, no record ever has more requests
\* than were recorded for its key and month.
THEOREM NothingBilledTwice == Spec => []NeverOverbilled
BY BillInit, BillStep, PTL DEF Spec, BillInv

\* A bill goes back only when a cycle commits a snapshot that another cycle's
\* commit has overtaken.
THEOREM BackWhenOvertaken == Spec => BackOnlyIfOvertaken
<1>. DEFINE A == GoesBack => \E c \in overtaken : cycle[c].at = "written" /\ cycle'[c] # cycle[c]
<1>1. ASSUME BillInv, [Next]_vars
      PROVE  A
  <2>. USE <1>1
  <2>1. CASE UNCHANGED record
    <3>1. \A k \in Keys, m \in Months : record[k][m] \in Int
      BY DEF BillInv, Typed, NoRecord
    <3>. QED  BY <2>1, <3>1 DEF GoesBack
  <2>2. ASSUME NEW c \in Cycles, NEW w, cycle[c].at = "written", CommitTo(c, w),
               w.at \in {"committed", "idle"}
        PROVE  A
    <3>. SUFFICES ASSUME NEW k \in Keys, NEW m \in Months, record'[k][m] < record[k][m]
                  PROVE  \E d \in overtaken : cycle[d].at = "written" /\ cycle'[d] # cycle[d]
      BY DEF GoesBack
    <3>1. record' = Recorded(c) /\ cycle'[c] = w
      BY <2>2 DEF CommitTo, Reach, BillInv, Typed
    <3>2. record[k][m] \in Int
      BY DEF BillInv, Typed, NoRecord
    <3>3. m = cycle[c].period /\ k \in DOMAIN cycle[c].totals /\ record'[k][m] = cycle[c].totals[k]
      BY <2>2, <3>1, <3>2, CommitRecords
    <3>4. cycle[c].totals[k] \in Nat
      BY <2>2, <3>3 DEF BillInv, Typed, Shaped, Idle, Summing
    <3>5. c \in overtaken
      BY <2>2, <3>2, <3>3, <3>4 DEF BillInv, BillsBehind, Summing
    <3>. QED  BY <2>2, <3>1, <3>5
  <2>3. ASSUME NEW c \in Cycles, Commit(c)
        PROVE  A
    <3>. DEFINE w == [at |-> "committed", period |-> cycle[c].period]
    <3>1. w.at = "committed" /\ cycle[c].at = "written" /\ CommitTo(c, w)
      BY <2>3 DEF Commit
    <3>. HIDE DEF w
    <3>. QED  BY <2>2, <3>1
  <2>4. ASSUME NEW c \in Cycles, Fail(c)
        PROVE  A
    <3>1. Idle.at = "idle"
      BY DEF Idle
    <3>. QED  BY <2>1, <2>2, <2>4, <3>1 DEF Fail
  <2>. QED
    BY <2>1, <2>3, <2>4
    DEF Next, vars, Start, Step, Snapshot, Upsert, ReadDue, Publish, Use, Revoke, MonthEnds, Restart
<1>. QED  BY <1>1, BillInit, BillStep, PTL DEF Spec, BackOnlyIfOvertaken
-----------------------------------------------------------------------------
(***************************************************************************)
(* Sums over a set.  The function MapThenSumSet chooses exists, since the  *)
(* number of units of a set satisfies its recursion, and there is no other *)
(* value for S: the smallest subset at which two such functions differ     *)
(* would not be smallest.                                                  *)
(***************************************************************************)

\* Every non-empty set of numbers has a least one.
LEMMA LeastNumber ==
    ASSUME NEW T, T \subseteq Nat, T # {}
    PROVE  \E x \in T : \A y \in T : x <= y
<1> DEFINE R == OpToRel(<, Nat)
<1>1. IsWellFoundedOn(R, Nat)
  BY NatLessThanWellFounded
<1>2. \A x, y \in Nat : y < x => <<y, x>> \in R
  BY DEF OpToRel
<1> HIDE DEF R
<1>3. PICK x \in T : \A y \in T : ~(<<y, x>> \in R)
  BY <1>1, WFMin
<1>4. ASSUME NEW y \in T PROVE x <= y
  <2>1. x \in Nat /\ y \in Nat
    OBVIOUS
  <2>2. ~(y < x)
    BY <1>2, <1>3, <2>1
  <2> QED BY <2>1, <2>2
<1> QED BY <1>4

\* f[k] things for every k of s.
Units(f, s) == UNION {{k} \X (1..f[k]) : k \in s}

LEMMA UnitsOfOne ==
    ASSUME NEW x, NEW n \in Nat
    PROVE  IsFiniteSet({x} \X (1..n)) /\ Cardinality({x} \X (1..n)) = n
<1> DEFINE T == {x} \X (1..n)
           f == [i \in 1..n |-> <<x, i>>]
<1>1. IsFiniteSet(1..n) /\ Cardinality(1..n) = n
  BY FS_Interval
<1>2. f \in [1..n -> T] /\ IsInjective(f) /\ \A t \in T : \E i \in 1..n : f[i] = t
  BY DEF IsInjective
<1>3. ExistsBijection(1..n, T)
  BY <1>2 DEF ExistsBijection, Bijection, Injection, Surjection
<1> HIDE DEF T
<1>4. IsFiniteSet(T) /\ Cardinality(T) = n
  BY <1>1, <1>3, FS_Bijection
<1> QED BY <1>4 DEF T

LEMMA UnitsFinite ==
    ASSUME NEW s, IsFiniteSet(s), NEW f, \A k \in s : f[k] \in Nat
    PROVE  IsFiniteSet(Units(f, s)) /\ Cardinality(Units(f, s)) \in Nat
<1> DEFINE P == {{k} \X (1..f[k]) : k \in s}
           g == [k \in s |-> {k} \X (1..f[k])]
<1>1. g \in [s -> P] /\ \A t \in P : \E k \in s : g[k] = t
  OBVIOUS
<1>2. g \in Surjection(s, P)
  BY <1>1 DEF Surjection
<1>3. ASSUME NEW t \in P PROVE IsFiniteSet(t)
  <2>1. PICK k \in s : t = {k} \X (1..f[k])
    OBVIOUS
  <2>2. f[k] \in Nat
    OBVIOUS
  <2> QED BY <2>1, <2>2, UnitsOfOne
<1> HIDE DEF P, g
<1>4. IsFiniteSet(P)
  BY <1>2, FS_Surjection
<1>5. IsFiniteSet(UNION P)
  BY <1>3, <1>4, FS_UNION
<1> QED BY <1>5, FS_CardinalityType DEF P, Units

LEMMA UnitsWithout ==
    ASSUME NEW s, IsFiniteSet(s), NEW f, \A k \in s : f[k] \in Nat, NEW x \in s
    PROVE  Cardinality(Units(f, s)) = f[x] + Cardinality(Units(f, s \ {x}))
<1> DEFINE A == {x} \X (1..f[x])
           B == Units(f, s \ {x})
<1>1. IsFiniteSet(A) /\ Cardinality(A) = f[x] /\ f[x] \in Nat
  BY UnitsOfOne
<1>2. IsFiniteSet(s \ {x})
  BY FS_Subset
<1>3. IsFiniteSet(B) /\ Cardinality(B) \in Nat
  BY <1>2, UnitsFinite
<1>4. A \cap B = {}
  BY DEF Units
<1>5. Units(f, s) = A \union B
  BY DEF Units
<1> HIDE DEF A, B
<1>6. Cardinality(A \cap B) = 0
  BY <1>4, FS_EmptySet
<1>7. Cardinality(A \union B) = Cardinality(A) + Cardinality(B) - Cardinality(A \cap B)
  BY <1>1, <1>3, FS_Union
<1> QED BY <1>1, <1>3, <1>5, <1>6, <1>7 DEF B

\* What MapThenSumSet recurs on.
SumsUp(h, f, S) ==
    h = [s \in SUBSET S |->
            IF s = {} THEN 0
            ELSE f[CHOOSE x \in s : TRUE] + h[s \ {CHOOSE x \in s : TRUE}]]

LEMMA CountSumsUp ==
    ASSUME NEW S, IsFiniteSet(S), NEW f, \A k \in S : f[k] \in Nat
    PROVE  SumsUp([s \in SUBSET S |-> Cardinality(Units(f, s))], f, S)
<1> DEFINE c == [s \in SUBSET S |-> Cardinality(Units(f, s))]
<1>1. ASSUME NEW s \in SUBSET S
      PROVE  c[s] = IF s = {} THEN 0
                    ELSE f[CHOOSE x \in s : TRUE] + c[s \ {CHOOSE x \in s : TRUE}]
  <2>1. IsFiniteSet(s)
    BY FS_Subset
  <2>2. CASE s = {}
    <3>1. Units(f, s) = {}
      BY <2>2 DEF Units
    <3> QED BY <2>2, <3>1, FS_EmptySet
  <2>3. CASE s # {}
    <3> DEFINE x == CHOOSE x \in s : TRUE
    <3>1. x \in s
      BY <2>3
    <3>2. c[s] = Cardinality(Units(f, s)) /\ c[s \ {x}] = Cardinality(Units(f, s \ {x}))
      OBVIOUS
    <3> HIDE DEF x, c
    <3>3. c[s] = f[x] + c[s \ {x}]
      BY <2>1, <3>1, <3>2, UnitsWithout
    <3> QED BY <2>3, <3>3 DEF x
  <2> QED BY <2>2, <2>3
<1>2. c = [s \in SUBSET S |-> c[s]]
  OBVIOUS
<1> HIDE DEF c
<1>3. SumsUp(c, f, S)
  BY <1>1, <1>2 DEF SumsUp
<1> QED BY <1>3 DEF c

LEMMA OneSum ==
    ASSUME NEW S, IsFiniteSet(S), NEW f, NEW g, SumsUp(g, f, S), NEW h, SumsUp(h, f, S)
    PROVE  g[S] = h[S]
<1> DEFINE Bad == {s \in SUBSET S : g[s] # h[s]}
           D == {Cardinality(s) : s \in Bad}
<1>1. \A s \in SUBSET S : IsFiniteSet(s) /\ Cardinality(s) \in Nat
  BY FS_Subset, FS_CardinalityType
<1>2. ASSUME NEW s \in SUBSET S, s # {}
      PROVE  LET x == CHOOSE x \in s : TRUE
             IN  g[s] = f[x] + g[s \ {x}] /\ h[s] = f[x] + h[s \ {x}]
  BY <1>2 DEF SumsUp
<1>3. g[{}] = h[{}]
  BY DEF SumsUp
<1>4. ASSUME Bad # {} PROVE FALSE
  <2>1. D \subseteq Nat /\ D # {}
    BY <1>1, <1>4
  <2>2. PICK n \in D : \A m \in D : n <= m
    BY <2>1, LeastNumber
  <2>3. PICK s \in Bad : n = Cardinality(s)
    OBVIOUS
  <2>4. s \in SUBSET S /\ g[s] # h[s] /\ s # {}
    BY <1>3, <2>3
  <2> DEFINE x == CHOOSE x \in s : TRUE
  <2>5. x \in s
    BY <2>4
  <2>6. g[s] = f[x] + g[s \ {x}] /\ h[s] = f[x] + h[s \ {x}]
    BY <1>2, <2>4
  <2> HIDE DEF x
  <2>7. Cardinality(s \ {x}) = n - 1 /\ n \in Nat
    BY <1>1, <2>3, <2>4, <2>5, FS_RemoveElement
  <2>8. s \ {x} \in Bad
    BY <2>4, <2>6
  <2>9. n - 1 \in D
    BY <2>7, <2>8
  <2> HIDE DEF D
  <2> QED BY <2>2, <2>7, <2>9
<1> QED BY <1>4

LEMMA OverageType ==
    ASSUME NEW k \in Keys, NEW total \in Nat
    PROVE  Overage(k, total) \in Nat
<1>1. MonthlyQuota[k] \in Nat
  BY QuotaAssumption
<1> QED BY <1>1 DEF Overage

\* What is due is a number of requests: those above the quota, counted.
LEMMA DueCounts ==
    ASSUME BillInv, NEW m \in Months
    PROVE  LET above == [k \in Billed(m) |-> Overage(k, record[k][m])]
           IN  /\ Due(m) = Cardinality(Units(above, Billed(m)))
               /\ Due(m) \in Nat
<1> DEFINE B == Billed(m)
           above == [k \in B |-> Overage(k, record[k][m])]
           Sum(h) == h = [s \in SUBSET B |->
                            IF s = {} THEN 0
                            ELSE LET x == CHOOSE x \in s : TRUE
                                 IN  Overage(x, record[x][m]) + h[s \ {x}]]
           c == [s \in SUBSET B |-> Cardinality(Units(above, s))]
<1>1. B \subseteq Keys /\ IsFiniteSet(B)
  BY KeysAssumption, FS_Subset DEF Billed
<1>2. \A k \in B : above[k] \in Nat /\ above[k] = Overage(k, record[k][m])
  <2>1. \A k \in B : record[k][m] \in Nat
    BY DEF BillInv, Typed, Billed
  <2> QED BY <1>1, <2>1, OverageType
<1>3. Due(m) = (CHOOSE h : Sum(h))[B]
  BY DEF Due, MapThenSumSet, MapThenFoldSet
<1>4. ASSUME NEW h PROVE Sum(h) <=> SumsUp(h, above, B)
  <2>1. \A s \in SUBSET B : s # {} =>
            Overage(CHOOSE x \in s : TRUE, record[CHOOSE x \in s : TRUE][m])
              = above[CHOOSE x \in s : TRUE]
    OBVIOUS
  <2> HIDE DEF above, B
  <2>2. [s \in SUBSET B |-> IF s = {} THEN 0
                            ELSE LET x == CHOOSE x \in s : TRUE
                                 IN  Overage(x, record[x][m]) + h[s \ {x}]]
        = [s \in SUBSET B |-> IF s = {} THEN 0
                              ELSE above[CHOOSE x \in s : TRUE] + h[s \ {CHOOSE x \in s : TRUE}]]
    BY <2>1
  <2> QED BY <2>2 DEF SumsUp
<1> HIDE DEF B, above
<1>5. SumsUp(c, above, B)
  BY <1>1, <1>2, CountSumsUp
<1>6. c[B] = Cardinality(Units(above, B))
  OBVIOUS
<1>7. Cardinality(Units(above, B)) \in Nat
  BY <1>1, <1>2, UnitsFinite
<1> HIDE DEF c, Sum
<1> DEFINE g == CHOOSE h : Sum(h)
<1>8. Sum(g)
  BY <1>4, <1>5
<1> HIDE DEF g
<1>9. g[B] = c[B]
  BY <1>1, <1>4, <1>5, <1>8, OneSum
<1> QED BY <1>3, <1>6, <1>7, <1>9 DEF g, B, above

-----------------------------------------------------------------------------
(***************************************************************************)
(* The types.                                                              *)
(***************************************************************************)

\* The gauge, and the sum a cycle has read on its way there; the row locks; the rest.
RestOK ==
    /\ outstanding \in Nat
    /\ \A c \in Cycles : cycle[c].at = "read" => cycle[c].due \in Nat
    /\ \A c \in Cycles : cycle[c].at \in Summing =>
          \E S \in SUBSET Keys : cycle[c].totals \in [S -> Nat]
    /\ \A c, d \in Cycles : cycle[c].at = "written" /\ cycle[d].at = "written" => c = d
    /\ timer \in BOOLEAN
    /\ faults \in 0..MaxFaults

\* A cycle goes on to w, which is not yet, or still, in possession of the rows.
LEMMA ReachRest ==
    ASSUME BillInv, RestOK, NEW c \in Cycles, NEW w, cycle' = [cycle EXCEPT ![c] = w],
           w.at = "read" => w.due \in Nat,
           w.at \in Summing => \E S \in SUBSET Keys : w.totals \in [S -> Nat],
           w.at = "written" => \A d \in Cycles : cycle[d].at # "written",
           outstanding' \in Nat, timer' \in BOOLEAN, faults' \in 0..MaxFaults
    PROVE  RestOK'
<1>1. cycle'[c] = w /\ \A d \in Cycles \ {c} : cycle'[d] = cycle[d]
  BY DEF BillInv, Typed
<1>2. \A d \in Cycles : cycle'[d].at = "read" => cycle'[d].due \in Nat
  BY <1>1 DEF RestOK
<1>3. \A d \in Cycles : cycle'[d].at \in Summing =>
          \E S \in SUBSET Keys : cycle'[d].totals \in [S -> Nat]
  BY <1>1 DEF RestOK
<1>4. \A d, e \in Cycles : cycle'[d].at = "written" /\ cycle'[e].at = "written" => d = e
  BY <1>1 DEF RestOK
<1> QED BY <1>2, <1>3, <1>4 DEF RestOK

LEMMA CycleRest ==
    ASSUME BillInv, RestOK, NEW c \in Cycles, Start(c) \/ Step(c) \/ Fail(c)
    PROVE  RestOK'
<1> DEFINE p == cycle[c].period
<1>0. /\ outstanding \in Nat /\ timer \in BOOLEAN /\ faults \in 0..MaxFaults
      /\ Idle.at = "idle" /\ TRUE \in BOOLEAN
      /\ cycle[c].at \in {"connecting", "committed", "summed", "written"} => p \in Months
  BY DEF RestOK, Idle, BillInv, Typed, Shaped, Summing
<1>1. CASE Start(c)
  <2> DEFINE w == [at |-> "connecting", period |-> month]
  <2>1. w.at = "connecting"
    OBVIOUS
  <2>2. cycle' = [cycle EXCEPT ![c] = w] /\ UNCHANGED <<outstanding, timer, faults>>
    BY <1>1 DEF Start, Reach
  <2> HIDE DEF w
  <2> QED BY <1>0, <2>1, <2>2, ReachRest DEF Summing
<1>2. CASE Snapshot(c)
  <2> DEFINE totals == [k \in live |-> usage[k][p]]
             w == [at |-> "summed", period |-> p, totals |-> totals]
  <2>1. w.at = "summed" /\ w.totals = totals
    OBVIOUS
  <2>2. /\ cycle' = [cycle EXCEPT ![c] = w] /\ UNCHANGED <<outstanding, timer, faults>>
        /\ cycle[c].at = "connecting"
    BY <1>2 DEF Snapshot, Reach
  <2>3. live \in SUBSET Keys /\ totals \in [live -> Nat]
    BY <1>0, <2>2 DEF BillInv, Typed
  <2> HIDE DEF w, totals
  <2> QED BY <1>0, <2>1, <2>2, <2>3, ReachRest DEF Summing
<1>3. CASE Upsert(c)
  <2> DEFINE w == [cycle[c] EXCEPT !.at = "written"]
  <2>1. /\ cycle[c].at = "summed" /\ cycle' = [cycle EXCEPT ![c] = w]
        /\ \A d \in Cycles : cycle[d].at # "written"
        /\ UNCHANGED <<outstanding, timer, faults>>
    BY <1>3 DEF Upsert, Reach
  <2>2. w.at \in {"written", "summed"} /\ w.totals = cycle[c].totals
    BY <2>1
  <2>3. \E S \in SUBSET Keys : w.totals \in [S -> Nat]
    BY <2>1, <2>2 DEF RestOK, Summing
  <2> HIDE DEF w
  <2> QED BY <1>0, <2>1, <2>2, <2>3, ReachRest DEF Summing
<1>4. CASE Commit(c)
  <2> DEFINE w == [at |-> "committed", period |-> p]
  <2>1. w.at = "committed"
    OBVIOUS
  <2>2. cycle' = [cycle EXCEPT ![c] = w] /\ UNCHANGED <<outstanding, timer, faults>>
    BY <1>4 DEF Commit, CommitTo, Reach
  <2> HIDE DEF w
  <2> QED BY <1>0, <2>1, <2>2, ReachRest DEF Summing
<1>5. CASE ReadDue(c)
  <2> DEFINE w == [at |-> "read", due |-> Due(p)]
  <2>1. w.at = "read" /\ w.due = Due(p)
    OBVIOUS
  <2>2. /\ cycle' = [cycle EXCEPT ![c] = w] /\ UNCHANGED <<outstanding, timer, faults>>
        /\ cycle[c].at = "committed"
    BY <1>5 DEF ReadDue, Reach
  <2>3. Due(p) \in Nat
    BY <1>0, <2>2, DueCounts
  <2> HIDE DEF w
  <2> QED BY <1>0, <2>1, <2>2, <2>3, ReachRest DEF Summing
<1>6. CASE Publish(c)
  <2>1. /\ cycle' = [cycle EXCEPT ![c] = Idle] /\ outstanding' = cycle[c].due
        /\ timer' = TRUE /\ faults' = faults /\ cycle[c].at = "read"
    BY <1>6 DEF Publish, Reach
  <2>2. cycle[c].due \in Nat
    BY <2>1 DEF RestOK
  <2> QED BY <1>0, <2>1, <2>2, ReachRest DEF Summing
<1>7. CASE Fail(c)
  <2>1. /\ cycle' = [cycle EXCEPT ![c] = Idle] /\ outstanding' = outstanding
        /\ timer' = TRUE /\ faults' = faults + 1 /\ faults < MaxFaults
    BY <1>7 DEF Fail, CommitTo, Reach
  <2>2. faults' \in 0..MaxFaults
    BY <1>0, <2>1, BoundsAssumption
  <2> QED BY <1>0, <2>1, <2>2, ReachRest DEF Summing
<1> QED BY <1>1, <1>2, <1>3, <1>4, <1>5, <1>6, <1>7 DEF Step

LEMMA SpecRest == Spec => []RestOK
<1>1. Init => RestOK
  <2> SUFFICES ASSUME Init PROVE RestOK
    OBVIOUS
  <2>1. outstanding = 0 /\ timer = FALSE /\ faults = 0 /\ \A c \in Cycles : cycle[c] = Idle
    BY DEF Init
  <2>2. Idle.at = "idle" /\ 0 \in 0..MaxFaults
    BY BoundsAssumption DEF Idle
  <2> QED BY <2>1, <2>2 DEF RestOK, Summing
<1>2. BillInv /\ RestOK /\ [Next]_vars => RestOK'
  <2> SUFFICES ASSUME BillInv, RestOK, [Next]_vars PROVE RestOK'
    OBVIOUS
  <2>1. CASE UNCHANGED <<outstanding, cycle, timer, faults>>
    BY <2>1 DEF RestOK
  <2>2. CASE Restart
    <3>1. /\ outstanding' = 0 /\ timer' = FALSE /\ faults' = faults + 1 /\ faults < MaxFaults
          /\ \A c \in Cycles : cycle'[c] = Idle
      BY <2>2 DEF Restart
    <3>2. faults' \in 0..MaxFaults
      BY <3>1, BoundsAssumption DEF RestOK
    <3>3. Idle.at = "idle"
      BY DEF Idle
    <3> QED BY <3>1, <3>2, <3>3 DEF RestOK, Summing
  <2>3. CASE (\E k \in Keys : Use(k) \/ Revoke(k)) \/ MonthEnds \/ UNCHANGED vars
    BY <2>1, <2>3 DEF Use, Revoke, MonthEnds, vars, cycleVars
  <2> QED BY <2>2, <2>3, CycleRest DEF Next
<1> QED BY <1>1, <1>2, BillInit, BillStep, PTL DEF Spec

\* Every variable holds a value of its kind, for any keys, quotas and number of
\* overlapping cycles; what the gauge shows is a number; and the rows a cycle wrote
\* keep every other cycle from writing until it commits or fails.
THEOREM BillingTypeCorrect == Spec => []TypeOK
<1>1. BillInv /\ RestOK => TypeOK
  <2> SUFFICES ASSUME BillInv, RestOK PROVE TypeOK
    OBVIOUS
  <2>1. ASSUME NEW c \in Cycles
        PROVE  \/ cycle[c] = Idle
               \/ cycle[c].at \in {"connecting", "committed"} /\ cycle[c].period \in Months
               \/ /\ cycle[c].at \in {"summed", "written"}
                  /\ cycle[c].period \in Months
                  /\ \E S \in SUBSET Keys : cycle[c].totals \in [S -> Nat]
               \/ cycle[c].at = "read" /\ cycle[c].due \in Nat
    BY DEF BillInv, Typed, Shaped, RestOK, Summing
  <2> QED BY <2>1 DEF BillInv, Typed, RestOK, TypeOK
<1> QED BY <1>1, SpecRest, BillInit, BillStep, PTL DEF Spec
=============================================================================
