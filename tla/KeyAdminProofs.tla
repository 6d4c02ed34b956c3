-------------------------- MODULE KeyAdminProofs ----------------------------
(***************************************************************************)
(* Theorems about KeyAdmin, for any number of instances, admin requests,   *)
(* keys and secrets.                                                       *)
(***************************************************************************)
EXTENDS KeyAdmin, FiniteSetTheorems, TLAPS

\* What makes the seeding happen once: the key is committed with the
\* administrator, and whoever adds a key has added the administrator too.
SeedInv ==
    /\ SeededOnce
    /\ seeded # {} => user
    /\ user => SeedRows # {}
    /\ \A i \in Instances : phase[i] = "addKey" => wrote[i]
    /\ \A i \in Instances : phase[i] = "findKey" => wrote[i] \/ user

IInv == TypeOK /\ SeedInv

\* A count c, taken when there had been c.asOf changes, is right as long as
\* there have been no others.
UpToDate(c) == c.asOf <= Changes /\ (c.asOf = Changes => c.count = ActiveCount)

\* Job r of instance i has counted all changes, or is going to count.
Fresh(r, i) ==
    /\ job[r] # Free
    /\ job[r].at = i
    /\ job[r].step = "wrote" \/ job[r].asOf = Changes

\* What makes the gauge settle: it has seen all changes, or somebody is on the
\* way who has, unless something went wrong that behind[i] remembers.
GaugeInv ==
    /\ \A i \in Instances : phase[i] = "up" => UpToDate(gauge[i])
    /\ \A r \in Jobs : job[r].step = "counted" => UpToDate(job[r])
    /\ \A i \in Instances :
        phase[i] = "up" /\ ~behind[i] =>
            gauge[i].asOf = Changes \/ \E r \in Jobs : Fresh(r, i)
-----------------------------------------------------------------------------
\* The database counts a finite table, whatever it holds (the two SELECT
\* COUNT(*) of index.ts and apiKeyRoutes.ts).
LEMMA CountsAreNumbers == ActiveCount \in Nat /\ Changes \in Nat
<1>1. IsFiniteSet(Existing)
  BY KeysAssumption, FS_Subset DEF Existing
<1>2. \A S \in SUBSET Existing : Cardinality(S) \in Nat
  BY <1>1, FS_Subset, FS_CardinalityType
<1>3. Revoked \in SUBSET Existing
  BY DEF Revoked
<1> QED  BY <1>2, <1>3 DEF ActiveCount, Changes

\* The rows that the service inserts, and those it finds in an old database,
\* have the type of a row (apiKeyRepository.ts, createApiKey; 001_init.sql).
LEMMA RowsHaveType ==
    ASSUME NEW s \in Secrets
    PROVE  /\ \A n \in Names : NewRow(n, s) \in RowType /\ NewRow(n, s).name = n
           /\ OldRow(s) \in RowType /\ OldRow(s).name = "seed"
BY DEF NewRow, OldRow, RowType, Names

\* Filling in or revoking a row leaves a row of the same name (startup.ts,
\* UPDATE api_keys; apiKeyRepository.ts, revokeApiKey).
LEMMA UpdatesHaveType ==
    ASSUME NEW w \in RowType
    PROVE  /\ \A s \in Secrets \union {None} :
                /\ [w EXCEPT !.plain = s] \in RowType
                /\ [w EXCEPT !.plain = s].name = w.name
           /\ [w EXCEPT !.revoked = TRUE] \in RowType
           /\ [w EXCEPT !.revoked = TRUE].name = w.name
BY DEF RowType
-----------------------------------------------------------------------------
\* The initial states of both databases, the new and the old one, satisfy the
\* invariant.
LEMMA InitIInv == Init => IInv
<1> SUFFICES ASSUME Init PROVE IInv
  OBVIOUS
<1>1. CASE row = [k \in Keys |-> None] /\ user = FALSE /\ seeded = {}
  <2>1. row \in [Keys -> RowType \union {None}]
    BY <1>1
  <2>2. TypeOK
    BY <1>1, <2>1 DEF Init, TypeOK, JobType, Free, Unset
  <2>3. SeedInv
    BY <1>1 DEF Init, SeedInv, SeededOnce
  <2> QED  BY <2>2, <2>3 DEF IInv
<1>2. CASE /\ \E s \in Secrets :
                row = [k \in Keys |-> IF k = Legacy THEN OldRow(s) ELSE None]
           /\ user = TRUE
           /\ seeded = {Legacy}
  <2>1. PICK s \in Secrets :
          row = [k \in Keys |-> IF k = Legacy THEN OldRow(s) ELSE None]
    BY <1>2
  <2>2. OldRow(s) \in RowType /\ OldRow(s).name = "seed"
    BY RowsHaveType
  <2>3. row \in [Keys -> RowType \union {None}]
    BY <2>1, <2>2
  <2>4. TypeOK
    BY <1>2, <2>3, LegacyAssumption DEF Init, TypeOK, JobType, Free, Unset
  <2>5. Legacy \in SeedRows
    BY <2>1, <2>2, LegacyAssumption, NoneAssumption DEF SeedRows, Existing
  <2>6. SeedInv
    BY <1>2, <2>5 DEF Init, SeedInv, SeededOnce
  <2> QED  BY <2>4, <2>6 DEF IInv
<1> QED  BY <1>1, <1>2 DEF Init
-----------------------------------------------------------------------------
\* The rows stay rows, and no seeded row loses its name, whatever one of them
\* turns into.
LEMMA SeedRowsStay ==
    ASSUME TypeOK, NEW k \in Keys, NEW w \in RowType,
           row' = [row EXCEPT ![k] = w],
           k \in SeedRows => w.name = "seed"
    PROVE  /\ row' \in [Keys -> RowType \union {None}]
           /\ SeedRows \subseteq SeedRows'
           /\ w.name = "seed" => k \in SeedRows'
BY NoneAssumption DEF TypeOK, SeedRows, Existing
-----------------------------------------------------------------------------
\* Every step of a bootstrap keeps the invariant (startup.ts; index.ts, init).
LEMMA BootIInv == ASSUME IInv, NEW i \in Instances, Boot(i) PROVE IInv'
<1> USE DEF IInv
<1>1. CASE Start(i)
  <2>1. TypeOK'
    BY <1>1, NoneAssumption DEF Start, Enter, TypeOK, gaugeVars
  <2>2. SeedInv'
    BY <1>1 DEF Start, Enter, TypeOK, SeedInv, SeededOnce, SeedRows, Existing
  <2> QED  BY <2>1, <2>2
<1>2. CASE FindUser(i)
  <2>1. TypeOK'
    BY <1>2 DEF FindUser, Enter, TypeOK, gaugeVars
  <2>2. SeedInv'
    BY <1>2 DEF FindUser, Enter, TypeOK, SeedInv, SeededOnce, SeedRows, Existing
  <2> QED  BY <2>1, <2>2
<1>3. CASE AddUser(i)
  <2>1. TypeOK'
    BY <1>3 DEF AddUser, Enter, TypeOK, gaugeVars
  <2>2. SeedInv'
    BY <1>3 DEF AddUser, Enter, TypeOK, SeedInv, SeededOnce, SeedRows, Existing
  <2> QED  BY <2>1, <2>2
<1>4. CASE FindNoKey(i)
  <2>1. TypeOK'
    BY <1>4 DEF FindNoKey, Enter, TypeOK, gaugeVars
  <2>2. wrote[i]
    BY <1>4 DEF FindNoKey, SeedInv
  <2>3. SeedInv'
    BY <1>4, <2>2 DEF FindNoKey, Enter, TypeOK, SeedInv, SeededOnce, SeedRows, Existing
  <2> QED  BY <2>1, <2>3
<1>5. CASE KeepKey(i)
  <2>1. PICK k \in SeedRows :
          row' = [row EXCEPT ![k].plain = IF @ = None THEN env[i] ELSE @]
    BY <1>5 DEF KeepKey
  <2>2. k \in Keys /\ row[k] \in RowType /\ row[k].name = "seed"
    BY DEF SeedRows, Existing, TypeOK
  <2>3. env[i] \in Secrets
    BY <1>5 DEF KeepKey, TypeOK
  <2> DEFINE filled == IF row[k].plain = None THEN env[i] ELSE row[k].plain
             w == [row[k] EXCEPT !.plain = filled]
  <2>4. filled \in Secrets \union {None}
    BY <2>2, <2>3 DEF RowType
  <2>5. w \in RowType /\ w.name = "seed"
    BY <2>2, <2>4, UpdatesHaveType
  <2>6. row' = [row EXCEPT ![k] = w]
    BY <2>1, <2>2 DEF TypeOK
  <2> HIDE DEF w
  <2>7. /\ row' \in [Keys -> RowType \union {None}]
        /\ SeedRows \subseteq SeedRows'
    BY <2>2, <2>5, <2>6, SeedRowsStay
  <2>8. TypeOK'
    BY <1>5, <2>7 DEF KeepKey, CommitUser, Enter, TypeOK, gaugeVars
  <2>9. SeedInv'
    BY <1>5, <2>7 DEF KeepKey, CommitUser, Enter, TypeOK, SeedInv, SeededOnce
  <2> QED  BY <2>8, <2>9
<1>6. CASE AddKey(i)
  <2>1. PICK k \in Keys \ (Existing \union {Legacy}) :
          /\ row' = [row EXCEPT ![k] = NewRow("seed", env[i])]
          /\ seeded' = seeded \union {k}
    BY <1>6 DEF AddKey
  <2>2. env[i] \in Secrets
    BY <1>6 DEF AddKey, TypeOK
  <2>3. NewRow("seed", env[i]) \in RowType /\ NewRow("seed", env[i]).name = "seed"
    BY <2>2, RowsHaveType DEF Names
  <2>4. /\ row' \in [Keys -> RowType \union {None}]
        /\ k \in SeedRows'
    BY <2>1, <2>3, SeedRowsStay
  <2>5. wrote[i] /\ ~user
    BY <1>6 DEF AddKey, SeedInv, TypeOK
  <2>6. seeded' = {k} /\ user' = TRUE
    BY <1>6, <2>1, <2>5 DEF AddKey, CommitUser, SeedInv
  <2>7. \A j \in Instances : wrote'[j] = FALSE
    BY <1>6, <2>5 DEF AddKey, CommitUser, TypeOK
  <2>8. \A j \in Instances : phase'[j] # "addKey"
    BY <1>6, <2>5 DEF AddKey, CommitUser, Enter, TypeOK, SeedInv
  <2>9. TypeOK'
    BY <1>6, <2>4, <2>6, <2>7 DEF AddKey, CommitUser, Enter, BehindOthers, TypeOK
  <2>10. SeedInv'
    BY <2>4, <2>6, <2>8 DEF SeedInv, SeededOnce
  <2> QED  BY <2>9, <2>10
<1>7. CASE Serve(i)
  <2>1. TypeOK'
    BY <1>7, CountsAreNumbers DEF Serve, Enter, TypeOK
  <2>2. SeedInv'
    BY <1>7 DEF Serve, Enter, TypeOK, SeedInv, SeededOnce, SeedRows, Existing
  <2> QED  BY <2>1, <2>2
<1>8. CASE Crash(i)
  <2>1. job' \in [Jobs -> JobType]
    BY <1>8 DEF Crash, TypeOK, JobType, Free
  <2>2. TypeOK'
    BY <1>8, <2>1 DEF Crash, Enter, TypeOK, Unset
  <2>3. SeedInv'
    BY <1>8 DEF Crash, Enter, TypeOK, SeedInv, SeededOnce, SeedRows, Existing
  <2> QED  BY <2>2, <2>3
<1> QED
  BY <1>1, <1>2, <1>3, <1>4, <1>5, <1>6, <1>7, <1>8 DEF Boot
-----------------------------------------------------------------------------
\* A write has the row it writes, and leaves the bootstrap alone.
LEMMA WrittenIInv ==
    ASSUME IInv, NEW r \in Jobs, NEW i \in Instances, Written(r, i),
           row' \in [Keys -> RowType \union {None}],
           SeedRows \subseteq SeedRows',
           behind' \in [Instances -> BOOLEAN]
    PROVE  IInv'
<1>1. job' \in [Jobs -> JobType]
  BY DEF Written, IInv, TypeOK, JobType
<1>2. TypeOK'
  BY <1>1 DEF Written, IInv, TypeOK, bootVars
<1>3. SeedInv'
  BY DEF Written, IInv, SeedInv, SeededOnce, bootVars
<1> QED  BY <1>2, <1>3 DEF IInv

\* Every step of an admin request keeps the invariant (apiKeyRoutes.ts).
LEMMA AdministerIInv == ASSUME IInv, NEW r \in Jobs, Administer(r) PROVE IInv'
<1> USE DEF IInv
<1>1. ASSUME NEW i \in Instances, CreateKey(r, i) PROVE IInv'
  <2>1. PICK k \in Keys \ (Existing \union {Legacy}), name \in Names, s \in Secrets :
          row' = [row EXCEPT ![k] = NewRow(name, s)]
    BY <1>1 DEF CreateKey
  <2>2. NewRow(name, s) \in RowType
    BY RowsHaveType
  <2>3. k \notin SeedRows
    BY DEF SeedRows
  <2>4. row' \in [Keys -> RowType \union {None}] /\ SeedRows \subseteq SeedRows'
    BY <2>1, <2>2, <2>3, SeedRowsStay
  <2> QED
    BY <1>1, <2>4, WrittenIInv DEF CreateKey, BehindOthers, TypeOK
<1>2. ASSUME NEW i \in Instances, NEW k \in Keys, RevokeKey(r, i, k) PROVE IInv'
  <2>1. behind' \in [Instances -> BOOLEAN]
    BY <1>2 DEF RevokeKey, BehindOthers, TypeOK
  <2>2. CASE k \in Existing /\ ~row[k].revoked
    <3> DEFINE w == [row[k] EXCEPT !.revoked = TRUE]
    <3>1. row[k] \in RowType
      BY <2>2 DEF Existing, TypeOK
    <3>2. w \in RowType /\ w.name = row[k].name
      BY <3>1, UpdatesHaveType
    <3>3. row' = [row EXCEPT ![k] = w]
      BY <1>2, <2>2 DEF RevokeKey, TypeOK
    <3>4. k \in SeedRows => w.name = "seed"
      BY <3>2 DEF SeedRows
    <3> HIDE DEF w
    <3>5. row' \in [Keys -> RowType \union {None}] /\ SeedRows \subseteq SeedRows'
      BY <3>2, <3>3, <3>4, SeedRowsStay
    <3> QED  BY <1>2, <2>1, <3>5, WrittenIInv DEF RevokeKey
  <2>3. CASE ~(k \in Existing /\ ~row[k].revoked)
    <3>1. row' = row
      BY <1>2, <2>3 DEF RevokeKey
    <3>2. row' \in [Keys -> RowType \union {None}] /\ SeedRows \subseteq SeedRows'
      BY <3>1 DEF TypeOK, SeedRows, Existing
    <3> QED  BY <1>2, <2>1, <3>2, WrittenIInv DEF RevokeKey
  <2> QED  BY <2>2, <2>3
<1>3. CASE Count(r)
  <2>1. job[r].at \in Instances
    BY <1>3 DEF Count, TypeOK, JobType
  <2>2. job' \in [Jobs -> JobType]
    BY <1>3, <2>1, CountsAreNumbers DEF Count, TypeOK, JobType
  <2>3. TypeOK'
    BY <1>3, <2>2 DEF Count, TypeOK, bootVars
  <2>4. SeedInv'
    BY <1>3 DEF Count, SeedInv, SeededOnce, SeedRows, Existing, bootVars
  <2> QED  BY <2>3, <2>4
<1>4. CASE SetGauge(r)
  <2>1. job[r].at \in Instances /\ job[r].count \in Nat /\ job[r].asOf \in Nat
    BY <1>4 DEF SetGauge, TypeOK, JobType
  <2>2. gauge' \in [Instances -> [count : Nat, asOf : Nat]]
    BY <1>4, <2>1 DEF SetGauge, TypeOK
  <2>3. behind' \in [Instances -> BOOLEAN]
    BY <1>4, <2>1 DEF SetGauge, TypeOK
  <2>4. job' \in [Jobs -> JobType]
    BY <1>4 DEF SetGauge, TypeOK, JobType, Free
  <2>5. TypeOK'
    BY <1>4, <2>2, <2>3, <2>4 DEF SetGauge, TypeOK, bootVars
  <2>6. SeedInv'
    BY <1>4 DEF SetGauge, SeedInv, SeededOnce, SeedRows, Existing, bootVars
  <2> QED  BY <2>5, <2>6
<1>5. CASE JobFails(r)
  <2>1. behind' \in [Instances -> BOOLEAN] /\ job' \in [Jobs -> JobType]
    BY <1>5 DEF JobFails, TypeOK, JobType, Free
  <2>2. TypeOK'
    BY <1>5, <2>1 DEF JobFails, TypeOK, bootVars
  <2>3. SeedInv'
    BY <1>5 DEF JobFails, SeedInv, SeededOnce, SeedRows, Existing, bootVars
  <2> QED  BY <2>2, <2>3
<1> QED
  BY <1>1, <1>2, <1>3, <1>4, <1>5 DEF Administer
-----------------------------------------------------------------------------
\* The inductive invariant holds throughout, in every run of the service.
THEOREM Inductive == Spec => []IInv
<1>1. Init => IInv
  BY InitIInv
<1>2. IInv /\ [Next]_vars => IInv'
  <2> SUFFICES ASSUME IInv, [Next]_vars PROVE IInv'
    OBVIOUS
  <2>1. CASE Next
    BY <2>1, BootIInv, AdministerIInv DEF Next
  <2>2. CASE UNCHANGED vars
    BY <2>2 DEF vars, bootVars, gaugeVars, IInv, TypeOK, SeedInv, SeededOnce,
                SeedRows, Existing
  <2> QED  BY <2>1, <2>2
<1> QED  BY <1>1, <1>2, PTL DEF Spec

\* Every variable keeps its type, and the administrator is added by one open
\* transaction at a time (startup.ts, ensureAdminBootstrap).
THEOREM TypeCorrect == Spec => []TypeOK
BY Inductive, PTL DEF IInv

\* All bootstraps of all instances together seed one key, whenever they start,
\* overlap, crash or meet a revoked key (startup.ts, ensureAdminApiKey).
THEOREM OneSeededKey == Spec => []SeededOnce
<1>1. IInv => SeededOnce
  BY DEF IInv, SeedInv
<1> QED  BY <1>1, Inductive, PTL

-----------------------------------------------------------------------------
(* The gauge of active keys.                                               *)

\* A new row is one change (POST /api/keys, ensureAdminApiKey).
LEMMA AddingCounts ==
    ASSUME TypeOK, NEW k \in Keys \ Existing, NEW w \in RowType, w.revoked = FALSE,
           row' = [row EXCEPT ![k] = w]
    PROVE  Changes' = Changes + 1
<1>1. Existing' = Existing \union {k}
  BY NoneAssumption DEF Existing, TypeOK
<1>2. Revoked' = Revoked
  BY <1>1 DEF Revoked, Existing, TypeOK
<1>3. IsFiniteSet(Existing) /\ IsFiniteSet(Revoked)
  BY KeysAssumption, FS_Subset DEF Existing, Revoked
<1>4. Cardinality(Existing') = Cardinality(Existing) + 1
  BY <1>1, <1>3, FS_AddElement
<1>5. Cardinality(Existing) \in Nat /\ Cardinality(Revoked) \in Nat
  BY <1>3, FS_CardinalityType
<1> QED  BY <1>2, <1>4, <1>5 DEF Changes

\* A first revocation is one change (DELETE /api/keys/:id).
LEMMA RevokingCounts ==
    ASSUME TypeOK, NEW k \in Existing, ~row[k].revoked,
           row' = [row EXCEPT ![k].revoked = TRUE]
    PROVE  Changes' = Changes + 1
<1> DEFINE w == [row[k] EXCEPT !.revoked = TRUE]
<1>1. k \in Keys /\ row[k] \in RowType
  BY DEF Existing, TypeOK
<1>2. w \in RowType /\ w.revoked = TRUE
  BY <1>1 DEF RowType
<1>3. row' = [row EXCEPT ![k] = w]
  BY <1>1 DEF TypeOK
<1> HIDE DEF w
<1>4. Existing' = Existing
  BY <1>1, <1>2, <1>3, NoneAssumption DEF Existing, TypeOK
<1>5. Revoked' = Revoked \union {k}
  BY <1>1, <1>2, <1>3, <1>4 DEF Revoked, Existing, TypeOK
<1>6. IsFiniteSet(Existing) /\ IsFiniteSet(Revoked)
  BY KeysAssumption, FS_Subset DEF Existing, Revoked
<1>7. Cardinality(Revoked') = Cardinality(Revoked) + 1
  BY <1>5, <1>6, FS_AddElement DEF Revoked
<1>8. Cardinality(Existing) \in Nat /\ Cardinality(Revoked) \in Nat
  BY <1>6, FS_CardinalityType
<1> QED  BY <1>4, <1>7, <1>8 DEF Changes

\* Filling in a plaintext is none (startup.ts, COALESCE).
LEMMA FillingCountsNot ==
    ASSUME TypeOK, NEW k \in Existing, NEW w \in RowType, w.revoked = row[k].revoked,
           row' = [row EXCEPT ![k] = w]
    PROVE  Changes' = Changes /\ ActiveCount' = ActiveCount
<1>1. Existing' = Existing
  BY NoneAssumption DEF Existing, TypeOK
<1>2. Revoked' = Revoked
  BY <1>1 DEF Revoked, Existing, TypeOK
<1> QED  BY <1>1, <1>2 DEF Changes, ActiveCount

\* A step that counts for nothing and starts no instance keeps GaugeInv.
LEMMA GaugeKept ==
    ASSUME GaugeInv, UNCHANGED <<Changes, ActiveCount, gaugeVars>>,
           \A j \in Instances : phase'[j] = "up" => phase[j] = "up"
    PROVE  GaugeInv'
BY DEF GaugeInv, UpToDate, Fresh, gaugeVars

\* A change by instance i outdates every count, and every gauge but its own.
LEMMA GaugeOutdated ==
    ASSUME TypeOK, GaugeInv, NEW i \in Instances, Changes' = Changes + 1,
           BehindOthers(i), gauge' = gauge,
           \A j \in Instances : phase'[j] = "up" => phase[j] = "up",
           \A r \in Jobs : job'[r].step = "counted" => job'[r] = job[r],
           phase'[i] = "up" => \E r \in Jobs : Fresh(r, i)'
    PROVE  GaugeInv'
<1>1. Changes \in Nat
  BY CountsAreNumbers
<1>2. \A j \in Instances : gauge[j].asOf \in Nat
  BY DEF TypeOK
<1>3. \A r \in Jobs : job[r].step = "counted" => job[r].asOf \in Nat
  BY DEF TypeOK, JobType
<1>4. \A j \in Instances : phase'[j] = "up" => UpToDate(gauge[j])'
  BY <1>1, <1>2 DEF GaugeInv, UpToDate
<1>5. \A r \in Jobs : job'[r].step = "counted" => UpToDate(job[r])'
  BY <1>1, <1>3 DEF GaugeInv, UpToDate
<1>6. \A j \in Instances : j # i => behind'[j] = TRUE
  BY DEF BehindOthers
<1> QED  BY <1>4, <1>5, <1>6 DEF GaugeInv
-----------------------------------------------------------------------------
\* The bootstrap keeps the gauges' invariant.
LEMMA BootGauge ==
    ASSUME IInv, GaugeInv, NEW i \in Instances, Boot(i)
    PROVE  GaugeInv'
<1> USE DEF IInv
<1>1. CASE Start(i) \/ FindUser(i) \/ AddUser(i) \/ FindNoKey(i)
  <2>1. row' = row /\ UNCHANGED gaugeVars
    BY <1>1 DEF Start, FindUser, AddUser, FindNoKey
  <2>2. \A j \in Instances : phase'[j] = "up" => phase[j] = "up"
    BY <1>1 DEF Start, FindUser, AddUser, FindNoKey, Enter, TypeOK
  <2>3. Changes' = Changes /\ ActiveCount' = ActiveCount
    BY <2>1 DEF Changes, ActiveCount, Revoked, Existing
  <2> QED  BY <2>1, <2>2, <2>3, GaugeKept
<1>2. CASE KeepKey(i)
  <2>1. PICK k \in SeedRows :
          row' = [row EXCEPT ![k].plain = IF @ = None THEN env[i] ELSE @]
    BY <1>2 DEF KeepKey
  <2>2. k \in Existing /\ k \in Keys /\ row[k] \in RowType
    BY DEF SeedRows, Existing, TypeOK
  <2>3. env[i] \in Secrets
    BY <1>2 DEF KeepKey, TypeOK
  <2> DEFINE filled == IF row[k].plain = None THEN env[i] ELSE row[k].plain
             w == [row[k] EXCEPT !.plain = filled]
  <2>4. filled \in Secrets \union {None}
    BY <2>2, <2>3 DEF RowType
  <2>5. w \in RowType /\ w.revoked = row[k].revoked
    BY <2>2, <2>4 DEF RowType
  <2>6. row' = [row EXCEPT ![k] = w]
    BY <2>1, <2>2 DEF TypeOK
  <2> HIDE DEF w
  <2>7. Changes' = Changes /\ ActiveCount' = ActiveCount
    BY <2>2, <2>5, <2>6, FillingCountsNot
  <2>8. UNCHANGED gaugeVars /\ \A j \in Instances : phase'[j] = "up" => phase[j] = "up"
    BY <1>2 DEF KeepKey, CommitUser, Enter, TypeOK
  <2> QED  BY <2>7, <2>8, GaugeKept
<1>3. CASE AddKey(i)
  <2>1. PICK k \in Keys \ (Existing \union {Legacy}) :
          row' = [row EXCEPT ![k] = NewRow("seed", env[i])]
    BY <1>3 DEF AddKey
  <2>2. env[i] \in Secrets
    BY <1>3 DEF AddKey, TypeOK
  <2>3. NewRow("seed", env[i]) \in RowType /\ NewRow("seed", env[i]).revoked = FALSE
    BY <2>2, RowsHaveType DEF Names, NewRow
  <2>4. Changes' = Changes + 1
    BY <2>1, <2>3, AddingCounts
  <2>5. phase'[i] # "up" /\ \A j \in Instances : phase'[j] = "up" => phase[j] = "up"
    BY <1>3 DEF AddKey, CommitUser, Enter, TypeOK
  <2>6. BehindOthers(i) /\ gauge' = gauge /\ job' = job
    BY <1>3 DEF AddKey
  <2> QED  BY <2>4, <2>5, <2>6, GaugeOutdated
<1>4. CASE Serve(i)
  <2>1. row' = row /\ job' = job
    BY <1>4 DEF Serve
  <2>2. Changes' = Changes /\ ActiveCount' = ActiveCount
    BY <2>1 DEF Changes, ActiveCount, Revoked, Existing
  <2>3. Changes \in Nat
    BY CountsAreNumbers
  <2>4. gauge'[i] = [count |-> ActiveCount, asOf |-> Changes]
    BY <1>4 DEF Serve, TypeOK
  <2>5. \A j \in Instances \ {i} :
          gauge'[j] = gauge[j] /\ phase'[j] = phase[j] /\ (behind'[j] <=> behind[j])
    BY <1>4 DEF Serve, Enter, TypeOK
  <2>6. \A j \in Instances : phase'[j] = "up" => UpToDate(gauge[j])'
    BY <2>2, <2>3, <2>4, <2>5 DEF GaugeInv, UpToDate
  <2>7. \A r \in Jobs : job'[r].step = "counted" => UpToDate(job[r])'
    BY <2>1, <2>2 DEF GaugeInv, UpToDate
  <2>8. \A j \in Instances : phase'[j] = "up" /\ ~behind'[j] =>
            gauge'[j].asOf = Changes' \/ \E r \in Jobs : Fresh(r, j)'
    BY <2>1, <2>2, <2>4, <2>5 DEF GaugeInv, Fresh
  <2> QED  BY <2>6, <2>7, <2>8 DEF GaugeInv
<1>5. CASE Crash(i)
  <2>1. row' = row
    BY <1>5 DEF Crash
  <2>2. Changes' = Changes /\ ActiveCount' = ActiveCount
    BY <2>1 DEF Changes, ActiveCount, Revoked, Existing
  <2>3. phase'[i] # "up" /\ \A j \in Instances \ {i} :
          gauge'[j] = gauge[j] /\ phase'[j] = phase[j] /\ (behind'[j] <=> behind[j])
    BY <1>5 DEF Crash, Enter, TypeOK
  <2>4. \A r \in Jobs : job'[r] = job[r] \/ (job'[r] = Free /\ job[r].at = i)
    BY <1>5 DEF Crash
  <2>5. \A j \in Instances : phase'[j] = "up" => UpToDate(gauge[j])'
    BY <2>2, <2>3 DEF GaugeInv, UpToDate
  <2>6. \A r \in Jobs : job'[r].step = "counted" => UpToDate(job[r])'
    BY <2>2, <2>4 DEF GaugeInv, UpToDate, Free
  <2>7. \A j \in Instances : phase'[j] = "up" /\ ~behind'[j] =>
            gauge'[j].asOf = Changes' \/ \E r \in Jobs : Fresh(r, j)'
    BY <2>2, <2>3, <2>4 DEF GaugeInv, Fresh
  <2> QED  BY <2>5, <2>6, <2>7 DEF GaugeInv
<1> QED
  BY <1>1, <1>2, <1>3, <1>4, <1>5 DEF Boot
-----------------------------------------------------------------------------
\* A job that has just written will count.
LEMMA WrittenFresh ==
    ASSUME IInv, NEW r \in Jobs, NEW i \in Instances, Written(r, i)
    PROVE  /\ Fresh(r, i)'
           /\ \A q \in Jobs : job'[q].step = "counted" => job'[q] = job[q]
           /\ \A q \in Jobs : q # r => job'[q] = job[q]
           /\ job[r] = Free /\ gauge' = gauge /\ phase' = phase
BY DEF Written, Fresh, Free, IInv, TypeOK, bootVars

\* Administration keeps the gauges' invariant.
LEMMA AdministerGauge ==
    ASSUME IInv, GaugeInv, NEW r \in Jobs, Administer(r)
    PROVE  GaugeInv'
<1> USE DEF IInv
<1>1. ASSUME NEW i \in Instances, CreateKey(r, i) PROVE GaugeInv'
  <2>1. PICK k \in Keys \ (Existing \union {Legacy}), name \in Names, s \in Secrets :
          row' = [row EXCEPT ![k] = NewRow(name, s)]
    BY <1>1 DEF CreateKey
  <2>2. NewRow(name, s) \in RowType /\ NewRow(name, s).revoked = FALSE
    BY RowsHaveType DEF NewRow
  <2>3. Changes' = Changes + 1
    BY <2>1, <2>2, AddingCounts
  <2> QED
    BY <1>1, <2>3, WrittenFresh, GaugeOutdated DEF CreateKey
<1>2. ASSUME NEW i \in Instances, NEW k \in Keys, RevokeKey(r, i, k) PROVE GaugeInv'
  <2>1. Written(r, i)
    BY <1>2 DEF RevokeKey
  <2>2. CASE k \in Existing /\ ~row[k].revoked
    <3>1. Changes' = Changes + 1 /\ BehindOthers(i)
      BY <1>2, <2>2, RevokingCounts DEF RevokeKey
    <3> QED  BY <2>1, <3>1, WrittenFresh, GaugeOutdated
  <2>3. CASE ~(k \in Existing /\ ~row[k].revoked)
    <3>1. row' = row /\ behind' = behind
      BY <1>2, <2>3 DEF RevokeKey
    <3>2. Changes' = Changes /\ ActiveCount' = ActiveCount
      BY <3>1 DEF Changes, ActiveCount, Revoked, Existing
    <3>3. \A q \in Jobs, j \in Instances : Fresh(q, j) => Fresh(q, j)'
      BY <2>1, <3>2, WrittenFresh DEF Fresh
    <3>4. gauge' = gauge /\ phase' = phase
      BY <2>1, WrittenFresh
    <3>5. \A q \in Jobs : job'[q].step = "counted" => UpToDate(job[q])'
      BY <2>1, <3>2, WrittenFresh DEF GaugeInv, UpToDate
    <3> QED  BY <3>1, <3>2, <3>3, <3>4, <3>5 DEF GaugeInv, UpToDate
  <2> QED  BY <2>2, <2>3
<1>3. CASE Count(r)
  <2>1. row' = row /\ gauge' = gauge /\ phase' = phase /\ behind' = behind
    BY <1>3 DEF Count, bootVars
  <2>2. Changes' = Changes /\ ActiveCount' = ActiveCount
    BY <2>1 DEF Changes, ActiveCount, Revoked, Existing
  <2>3. /\ job'[r] = [step |-> "counted", at |-> job[r].at,
                      count |-> ActiveCount, asOf |-> Changes]
        /\ \A q \in Jobs : q # r => job'[q] = job[q]
    BY <1>3 DEF Count, TypeOK
  <2>4. Changes \in Nat
    BY CountsAreNumbers
  <2>5. \A q \in Jobs : job'[q].step = "counted" => UpToDate(job[q])'
    BY <2>2, <2>3, <2>4 DEF GaugeInv, UpToDate
  <2>6. \A q \in Jobs, j \in Instances : Fresh(q, j) => Fresh(q, j)'
    BY <2>2, <2>3 DEF Fresh, Free
  <2> QED  BY <2>1, <2>2, <2>5, <2>6 DEF GaugeInv, UpToDate
<1>4. CASE SetGauge(r)
  <2> DEFINE i == job[r].at
  <2>1. /\ i \in Instances /\ job[r].asOf \in Nat
        /\ job[r].step = "counted"
    BY <1>4 DEF SetGauge, TypeOK, JobType
  <2>2. row' = row /\ phase' = phase
    BY <1>4 DEF SetGauge, bootVars
  <2>3. Changes' = Changes /\ ActiveCount' = ActiveCount /\ Changes \in Nat
    BY <2>2, CountsAreNumbers DEF Changes, ActiveCount, Revoked, Existing
  <2>4. /\ gauge'[i] = [count |-> job[r].count, asOf |-> job[r].asOf]
        /\ behind'[i] <=> job[r].asOf # Changes /\ (behind[i] \/ job[r].asOf < gauge[i].asOf)
        /\ \A j \in Instances \ {i} : gauge'[j] = gauge[j] /\ (behind'[j] <=> behind[j])
    BY <1>4, <2>1 DEF SetGauge, TypeOK
  <2>5. job'[r] = Free /\ \A q \in Jobs : q # r => job'[q] = job[q]
    BY <1>4 DEF SetGauge, TypeOK
  <2>6. UpToDate(job[r])
    BY <2>1 DEF GaugeInv
  <2>7. \A j \in Instances : phase'[j] = "up" => UpToDate(gauge[j])'
    BY <2>2, <2>3, <2>4, <2>6 DEF GaugeInv, UpToDate
  <2>8. \A q \in Jobs : job'[q].step = "counted" => UpToDate(job[q])'
    BY <2>3, <2>5 DEF GaugeInv, UpToDate, Free
  <2>9. ASSUME NEW j \in Instances, phase'[j] = "up", ~behind'[j]
        PROVE  gauge'[j].asOf = Changes' \/ \E q \in Jobs : Fresh(q, j)'
    <3>1. \A q \in Jobs : q # r /\ Fresh(q, j) => Fresh(q, j)'
      BY <2>3, <2>5 DEF Fresh
    <3>2. CASE j # i
      <4>1. gauge[j].asOf = Changes \/ \E q \in Jobs : Fresh(q, j)
        BY <2>2, <2>4, <2>9, <3>2 DEF GaugeInv
      <4>2. ~Fresh(r, j)
        BY <3>2 DEF Fresh
      <4> QED  BY <2>3, <2>4, <3>1, <3>2, <4>1, <4>2
    <3>3. CASE j = i /\ job[r].asOf = Changes
      BY <2>3, <2>4, <3>3
    <3>4. CASE j = i /\ job[r].asOf # Changes
      <4>1. ~behind[i] /\ ~(job[r].asOf < gauge[i].asOf) /\ phase[i] = "up"
        BY <2>2, <2>4, <2>9, <3>4
      <4>2. gauge[i].asOf \in Nat
        BY <2>1 DEF TypeOK
      <4>3. gauge[i].asOf # Changes
        BY <2>1, <2>3, <2>6, <3>4, <4>1, <4>2 DEF UpToDate
      <4>4. PICK q \in Jobs : Fresh(q, i)
        BY <2>1, <4>1, <4>3 DEF GaugeInv
      <4>5. q # r
        BY <2>1, <3>4, <4>4 DEF Fresh
      <4> QED  BY <3>1, <3>4, <4>4, <4>5
    <3> QED  BY <3>2, <3>3, <3>4
  <2> QED  BY <2>7, <2>8, <2>9 DEF GaugeInv
<1>5. CASE JobFails(r)
  <2> DEFINE i == job[r].at
  <2>1. i \in Instances
    BY <1>5 DEF JobFails, TypeOK, JobType, Free
  <2>2. row' = row /\ phase' = phase /\ gauge' = gauge
    BY <1>5 DEF JobFails, bootVars
  <2>3. Changes' = Changes /\ ActiveCount' = ActiveCount
    BY <2>2 DEF Changes, ActiveCount, Revoked, Existing
  <2>4. behind'[i] = TRUE /\ \A j \in Instances \ {i} : (behind'[j] <=> behind[j])
    BY <1>5, <2>1 DEF JobFails, TypeOK
  <2>5. job'[r] = Free /\ \A q \in Jobs : q # r => job'[q] = job[q]
    BY <1>5 DEF JobFails, TypeOK
  <2>6. \A q \in Jobs : job'[q].step = "counted" => UpToDate(job[q])'
    BY <2>3, <2>5 DEF GaugeInv, UpToDate, Free
  <2>7. \A j \in Instances : phase'[j] = "up" /\ ~behind'[j] =>
            gauge'[j].asOf = Changes' \/ \E q \in Jobs : Fresh(q, j)'
    BY <2>2, <2>3, <2>4, <2>5 DEF GaugeInv, Fresh
  <2> QED  BY <2>2, <2>3, <2>6, <2>7 DEF GaugeInv, UpToDate
<1> QED
  BY <1>1, <1>2, <1>3, <1>4, <1>5 DEF Administer

\* When all jobs of an instance are answered, its gauge is right, unless
\* something it could not see or lost track of came in between
\* (apiKeyRoutes.ts, updateActiveApiKeys), for any number of overlapping jobs.
THEOREM GaugeRight == Spec => []GaugeSettles
<1>1. Init => GaugeInv
  BY DEF Init, GaugeInv, Free
<1>2. IInv /\ GaugeInv /\ [Next]_vars => GaugeInv'
  <2> SUFFICES ASSUME IInv, GaugeInv, [Next]_vars PROVE GaugeInv'
    OBVIOUS
  <2>1. CASE Next
    BY <2>1, BootGauge, AdministerGauge DEF Next
  <2>2. CASE UNCHANGED vars
    BY <2>2 DEF vars, bootVars, gaugeVars, GaugeInv, UpToDate, Fresh, Changes,
                ActiveCount, Revoked, Existing
  <2> QED  BY <2>1, <2>2
<1>3. GaugeInv /\ IInv => GaugeSettles
  <2> SUFFICES ASSUME GaugeInv, NEW i \in Instances, phase[i] = "up",
                      \A r \in Jobs : job[r] = Free \/ job[r].at # i,
                      ~behind[i]
               PROVE  gauge[i].count
                        = Cardinality({k \in Keys : row[k] # None /\ ~row[k].revoked})
    BY DEF GaugeSettles
  <2>1. gauge[i].count = ActiveCount
    BY DEF GaugeInv, UpToDate, Fresh
  <2>2. Existing \ Revoked = {k \in Keys : row[k] # None /\ ~row[k].revoked}
    BY DEF Existing, Revoked
  <2> QED  BY <2>1, <2>2 DEF ActiveCount
<1> QED  BY <1>1, <1>2, <1>3, Inductive, PTL DEF Spec
-----------------------------------------------------------------------------
(* The secret that is shown.                                               *)

\* Until a bootstrap has committed there is at most the legacy row, which is
\* seeded, and nobody creates keys; whoever commits has the administrator.
SecretInv ==
    /\ ShownSecretWorks
    /\ Legacy \in Existing => Legacy \in seeded
    /\ first # None => user
    /\ first = None => /\ Existing \subseteq {Legacy}
                       /\ \A i \in Instances : phase[i] \notin {"count", "up"}

\* Nothing is written, and no instance is past its bootstrap that was not.
LEMMA SecretsUntouched ==
    ASSUME TypeOK, SecretInv, UNCHANGED <<row, seeded, first>>, user => user',
           \A i \in Instances : phase'[i] \in {"count", "up"} => phase[i] \in {"count", "up"}
    PROVE  SecretInv'
BY DEF SecretInv, ShownSecretWorks, Existing

\* A row that comes in with the secret it was hashed from shows the right one
\* (createApiKey).
LEMMA NewSecretWorks ==
    ASSUME TypeOK, SecretInv, first # None, NEW k \in Keys \ (Existing \union {Legacy}),
           NEW n \in Names, NEW s \in Secrets,
           row' = [row EXCEPT ![k] = NewRow(n, s)], UNCHANGED <<seeded, first, user>>
    PROVE  SecretInv'
<1>1. row'[k] = NewRow(n, s) /\ \A j \in Keys \ {k} : row'[j] = row[j]
  BY DEF TypeOK
<1>2. k \notin seeded /\ seeded \subseteq Keys
  BY DEF SecretInv, ShownSecretWorks, Existing, TypeOK
<1>3. ShownSecretWorks'
  BY <1>1, <1>2 DEF SecretInv, ShownSecretWorks, NewRow
<1>4. Legacy \in Existing' => Legacy \in Existing
  BY <1>1, LegacyAssumption DEF Existing
<1> QED  BY <1>3, <1>4 DEF SecretInv

\* The first bootstrap to commit fills in the legacy row, a later one nothing
\* (startup.ts, COALESCE).
LEMMA KeepSecret ==
    ASSUME IInv, SecretInv, NEW i \in Instances, KeepKey(i)
    PROVE  SecretInv'
<1>1. PICK k \in SeedRows :
        row' = [row EXCEPT ![k].plain = IF @ = None THEN env[i] ELSE @]
  BY DEF KeepKey
<1>2. k \in Keys /\ k \in Existing /\ row[k] # None /\ row[k] \in RowType
  BY DEF SeedRows, Existing, IInv, TypeOK
<1>3. \A j \in Keys \ {k} : row'[j] = row[j]
  BY <1>1 DEF IInv, TypeOK
<1>4. /\ first' = IF first = None THEN env[i] ELSE first
      /\ UNCHANGED seeded /\ seeded \subseteq Keys
      /\ phase[i] = "findKey" /\ env[i] \in Secrets /\ env[i] # None
  BY NoneAssumption DEF KeepKey, CommitUser, IInv, TypeOK
<1>5. user' /\ first' # None
  <2>1. wrote[i] \/ user
    BY <1>4 DEF IInv, SeedInv
  <2> QED  BY <1>4, <2>1 DEF KeepKey, CommitUser
<1>6. /\ row'[k] = [row[k] EXCEPT !.plain = IF @ = None THEN env[i] ELSE @]
      /\ row'[k] # None
  <2>1. row'[k] = [row[k] EXCEPT !.plain = IF @ = None THEN env[i] ELSE @]
    BY <1>1, <1>2 DEF IInv, TypeOK
  <2>2. row'[k] \in RowType
    BY <1>2, <1>4, <2>1 DEF RowType
  <2> QED  BY <2>1, <2>2, NoneAssumption
<1>7. Existing' = Existing
  BY <1>2, <1>3, <1>6 DEF Existing
<1>8. ShownSecretWorks'
  <2>1. CASE first = None
    <3>1. k = Legacy /\ k \in seeded
      BY <1>2, <2>1 DEF SecretInv
    <3>2. seeded = {k} /\ row[k].plain = None
      BY <2>1, <3>1 DEF SecretInv, ShownSecretWorks, IInv, SeedInv, SeededOnce
    <3>3. row'[k].plain = env[i]
      BY <1>2, <1>6, <3>2 DEF RowType
    <3>4. \A j \in Keys \ {Legacy} : row'[j] # None => row'[j].plain = row'[j].hash
      BY <1>3, <3>1 DEF SecretInv, ShownSecretWorks
    <3>5. seeded' = {k} /\ first' = env[i]
      BY <1>4, <2>1, <3>2
    <3> QED  BY <1>6, <3>3, <3>4, <3>5 DEF ShownSecretWorks
  <2>2. CASE first # None
    <3>1. row[k].plain # None
      <4>1. row[k].hash # None
        BY <1>2, NoneAssumption DEF RowType
      <4>2. k = Legacy => row[k].plain = first
        BY <1>2 DEF SecretInv, ShownSecretWorks
      <4> QED  BY <1>2, <2>2, <4>1, <4>2 DEF SecretInv, ShownSecretWorks
    <3>2. row'[k] = row[k]
      BY <1>2, <1>6, <3>1 DEF RowType
    <3>3. \A j \in Keys : row'[j] = row[j]
      BY <1>3, <3>2
    <3> QED  BY <1>4, <2>2, <3>3 DEF SecretInv, ShownSecretWorks
  <2> QED  BY <2>1, <2>2
<1> QED  BY <1>4, <1>5, <1>7, <1>8 DEF SecretInv

\* A bootstrap that adds a key is the first to commit.
LEMMA AddSecret ==
    ASSUME IInv, SecretInv, NEW i \in Instances, AddKey(i)
    PROVE  SecretInv'
<1>1. wrote[i] /\ ~user /\ env[i] \in Secrets /\ env[i] # None
  BY NoneAssumption DEF AddKey, IInv, SeedInv, TypeOK
<1>2. first = None /\ seeded = {}
  BY <1>1 DEF SecretInv, IInv, SeedInv
<1>3. PICK k \in Keys \ (Existing \union {Legacy}) :
        row' = [row EXCEPT ![k] = NewRow("seed", env[i])] /\ seeded' = seeded \union {k}
  BY DEF AddKey
<1>4. row'[k] = NewRow("seed", env[i]) /\ \A j \in Keys \ {k} : row'[j] = row[j]
  BY <1>3 DEF IInv, TypeOK
<1>5. first' = env[i] /\ user' /\ seeded' = {k}
  BY <1>1, <1>2, <1>3 DEF AddKey, CommitUser
<1>6. row'[k] # None /\ row'[k].plain = env[i] /\ row'[k].hash = env[i]
  <2>1. row'[k] \in RowType
    BY <1>1, <1>4, RowsHaveType DEF Names
  <2>2. row'[k] # None
    BY <2>1, NoneAssumption
  <2> QED  BY <1>4, <2>2 DEF NewRow
<1>7. ShownSecretWorks'
  BY <1>4, <1>5, <1>6 DEF SecretInv, ShownSecretWorks
<1>8. Legacy \notin Existing'
  BY <1>2, <1>3, <1>4 DEF SecretInv, Existing
<1> QED  BY <1>1, <1>5, <1>7, <1>8 DEF SecretInv

\* No step of any instance or request makes the shown secret another one.
LEMMA SecretsKept ==
    ASSUME IInv, SecretInv, Next
    PROVE  SecretInv'
<1> USE DEF IInv
<1>1. ASSUME NEW i \in Instances, Boot(i) PROVE SecretInv'
  <2>1. CASE Start(i) \/ FindUser(i) \/ AddUser(i) \/ FindNoKey(i) \/ Crash(i)
    <3>1. UNCHANGED <<row, seeded, first, user>>
      BY <2>1 DEF Start, FindUser, AddUser, FindNoKey, Crash
    <3>2. \A j \in Instances : phase'[j] \in {"count", "up"} => phase[j] \in {"count", "up"}
      BY <2>1 DEF Start, FindUser, AddUser, FindNoKey, Crash, Enter, TypeOK
    <3> QED  BY <3>1, <3>2, SecretsUntouched
  <2>2. CASE Serve(i)
    <3>1. UNCHANGED <<row, seeded, first, user>>
      BY <2>2 DEF Serve
    <3>2. \A j \in Instances : phase'[j] \in {"count", "up"} => phase[j] \in {"count", "up"}
      BY <2>2 DEF Serve, Enter, TypeOK
    <3> QED  BY <3>1, <3>2, SecretsUntouched
  <2> QED  BY <1>1, <2>1, <2>2, KeepSecret, AddSecret DEF Boot
<1>2. ASSUME NEW r \in Jobs, Administer(r) PROVE SecretInv'
  <2>1. ASSUME NEW i \in Instances, CreateKey(r, i) PROVE SecretInv'
    <3>1. first # None /\ UNCHANGED <<seeded, first, user>>
      BY <2>1 DEF CreateKey, Written, SecretInv
    <3> QED  BY <2>1, <3>1, NewSecretWorks DEF CreateKey
  <2>2. ASSUME NEW i \in Instances, NEW k \in Keys, RevokeKey(r, i, k)
        PROVE  SecretInv'
    <3>0. UNCHANGED <<seeded, first, user, phase>> /\ seeded \subseteq Keys
      BY <2>2 DEF RevokeKey, Written, bootVars, TypeOK
    <3>1. CASE k \in Existing /\ ~row[k].revoked
      <4>1. row' = [row EXCEPT ![k].revoked = TRUE]
        BY <2>2, <3>1 DEF RevokeKey
      <4>2. row[k] \in RowType /\ row[k] # None
        BY <3>1 DEF Existing, TypeOK
      <4>3. row'[k].plain = row[k].plain /\ row'[k].hash = row[k].hash
        BY <4>1, <4>2 DEF TypeOK, RowType
      <4>4. \A j \in Keys \ {k} : row'[j] = row[j]
        BY <4>1 DEF TypeOK
      <4>5. row'[k] # None
        <5>1. row'[k] = [row[k] EXCEPT !.revoked = TRUE]
          BY <4>1 DEF TypeOK
        <5> QED  BY <4>2, <5>1, UpdatesHaveType, NoneAssumption
      <4>6. Existing' = Existing
        BY <4>2, <4>4, <4>5 DEF Existing
      <4>7. ShownSecretWorks'
        BY <3>0, <4>2, <4>3, <4>4, <4>5 DEF SecretInv, ShownSecretWorks
      <4> QED  BY <3>0, <4>6, <4>7 DEF SecretInv
    <3>2. CASE ~(k \in Existing /\ ~row[k].revoked)
      <4>1. UNCHANGED row
        BY <2>2, <3>2 DEF RevokeKey
      <4> QED  BY <3>0, <4>1, SecretsUntouched
    <3> QED  BY <3>1, <3>2
  <2>3. CASE Count(r) \/ SetGauge(r) \/ JobFails(r)
    <3>1. UNCHANGED <<row, seeded, first, user, phase>>
      BY <2>3 DEF Count, SetGauge, JobFails, bootVars
    <3> QED  BY <3>1, SecretsUntouched
  <2> QED  BY <1>2, <2>1, <2>2, <2>3 DEF Administer
<1> QED  BY <1>1, <1>2 DEF Next

\* The secret an administrator is shown authenticates the key, but for that of a
\* legacy row; and the seeded row, legacy or not, goes on showing the secret of
\* the first bootstrap after any number of restarts with any environment.
THEOREM SecretRight == Spec => []ShownSecretWorks
<1>1. Init => SecretInv
  <2>1. ASSUME Init, row = [k \in Keys |-> None], seeded = {}
        PROVE  SecretInv
    BY <2>1 DEF Init, SecretInv, ShownSecretWorks, Existing
  <2>2. ASSUME Init, NEW s \in Secrets, seeded = {Legacy},
               row = [k \in Keys |-> IF k = Legacy THEN OldRow(s) ELSE None]
        PROVE  SecretInv
    <3>1. row[Legacy] = OldRow(s) /\ \A k \in Keys \ {Legacy} : row[k] = None
      BY <2>2, LegacyAssumption
    <3>2. OldRow(s).plain = None /\ OldRow(s) # None
      BY RowsHaveType, NoneAssumption DEF OldRow, NewRow
    <3> QED  BY <2>2, <3>1, <3>2, LegacyAssumption DEF Init, SecretInv, ShownSecretWorks, Existing
  <2> QED  BY <2>1, <2>2 DEF Init
<1>2. IInv /\ SecretInv /\ [Next]_vars => SecretInv'
  BY SecretsKept, SecretsUntouched DEF vars, bootVars, IInv
<1>3. SecretInv => ShownSecretWorks
  BY DEF SecretInv
<1> QED  BY <1>1, <1>2, <1>3, Inductive, PTL DEF Spec
=============================================================================
