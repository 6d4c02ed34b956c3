------------------------------ MODULE KeyAdmin ------------------------------
(***************************************************************************)
(* auth-service: the bootstrap that seeds the administrator and a first    *)
(* API key (ensureAdminBootstrap), creation and revocation of keys, and    *)
(* the gauge of active keys that each of them refreshes.  Several          *)
(* instances may run on one database, or one may start while the COMMIT of *)
(* a crashed one is still on its way.  A job is an admin request that has  *)
(* written and has not been answered yet.  Assumed: all instances have the *)
(* same ADMIN_EMAIL, the one of docker-compose.yml; with two, each may add *)
(* its administrator and seed a key of its own.                            *)
(***************************************************************************)
EXTENDS Naturals, FiniteSets

CONSTANTS
    Instances,          \* processes of auth-service
    Keys,               \* ids that rows of api_keys can have
    Legacy,             \* the seeded row of a database older than the
                        \* column api_key_plaintext, if there is one
    Jobs,               \* admin requests that can be under way at once
    Secrets,            \* the secrets keys are made of
    MaxRows,            \* bound: rows there may be when one is created
    None

Names == {"seed", "other"}      \* ADMIN_KEY_NAME, and any other name

\* A row of api_keys, as far as the service reads it.
RowType ==
    [name : Names, hash : Secrets, plain : Secrets \union {None}, revoked : BOOLEAN]

ASSUME LegacyAssumption == Legacy \in Keys
ASSUME KeysAssumption == IsFiniteSet(Keys)
ASSUME NoneAssumption == None \notin Secrets \union RowType
ASSUME BoundAssumption == MaxRows \in Nat

VARIABLES
    row,                \* api_keys: row[k], None when absent
    user,               \* users holds the administrator, committed
    phase,              \* phase[i]: where instance i is in init()
    wrote,              \* wrote[i]: i's open transaction added the administrator
    env,                \* env[i]: its ADMIN_DEFAULT_API_KEY, None when down
    job,                \* job[r]: the await the handler of r is at
    gauge,              \* gauge[i]: activeApiKeysGauge
    seeded,             \* history: keys a bootstrap inserted
    first,              \* history: ADMIN_DEFAULT_API_KEY of the first bootstrap
                        \* to commit, None before
    behind              \* history: behind[i], a change that i's gauge may miss,
                        \* of another instance, or with its count lost or
                        \* overwritten by an older one

bootVars == <<phase, wrote, env>>
gaugeVars == <<job, gauge, behind>>
vars == <<row, user, bootVars, gaugeVars, seeded, first>>

Free == [step |-> "free"]
Unset == [count |-> 0, asOf |-> 0]

NewRow(name, secret) ==
    [name |-> name, hash |-> secret, plain |-> secret, revoked |-> FALSE]

\* A row of 001_init.sql, to which 002 has added a column without a value.
OldRow(secret) == [NewRow("seed", secret) EXCEPT !.plain = None]

Existing == {k \in Keys : row[k] # None}
SeedRows == {k \in Existing : row[k].name = "seed"}
Revoked  == {k \in Existing : row[k].revoked}

\* Mutant of ActiveCount: revoked keys are counted too.
RowCount == Cardinality(Existing)

\* SELECT COUNT(*) FROM api_keys WHERE revoked_at IS NULL.
ActiveCount == Cardinality(Existing \ Revoked)

\* How many changes of that number there have been: one per row, one more per
\* revoked row.
Changes == Cardinality(Existing) + Cardinality(Revoked)

Init ==
    /\ \/ row = [k \in Keys |-> None] /\ user = FALSE /\ seeded = {}
       \/ /\ \E s \in Secrets :
                row = [k \in Keys |-> IF k = Legacy THEN OldRow(s) ELSE None]
          /\ user = TRUE
          /\ seeded = {Legacy}
    /\ phase = [i \in Instances |-> "down"]
    /\ wrote = [i \in Instances |-> FALSE]
    /\ env = [i \in Instances |-> None]
    /\ first = None
    /\ job = [r \in Jobs |-> Free]
    /\ gauge = [i \in Instances |-> Unset]
    /\ behind = [i \in Instances |-> FALSE]
-----------------------------------------------------------------------------
(* Bootstrap: one transaction, then the first count.                       *)

Enter(i, where) == phase' = [phase EXCEPT ![i] = where]

\* Every instance but i, or all, learn of a change only when they count again.
BehindOthers(i) == behind' = [j \in Instances |-> behind[j] \/ j # i]

\* The process starts; ADMIN_DEFAULT_API_KEY may have been edited, ADMIN_EMAIL
\* not.
Start(i) ==
    /\ phase[i] = "down"
    /\ Enter(i, "findUser")
    /\ \E s \in Secrets : env' = [env EXCEPT ![i] = s]
    /\ UNCHANGED <<row, user, wrote, gaugeVars, seeded, first>>

FindUser(i) ==
    /\ phase[i] = "findUser"
    /\ Enter(i, IF user THEN "findKey" ELSE "addUser")
    /\ UNCHANGED <<row, user, wrote, env, gaugeVars, seeded, first>>

\* Mutant of AddUser: nothing makes users.email unique.
AddUserAnyway(i) ==
    /\ phase[i] = "addUser"
    /\ wrote' = [wrote EXCEPT ![i] = TRUE]
    /\ Enter(i, "findKey")
    /\ UNCHANGED <<row, user, env, gaugeVars, seeded, first>>

\* users.email is unique: the INSERT waits for a transaction that has added the
\* administrator and not ended, and fails if it has committed; then the process
\* exits.
AddUser(i) ==
    /\ phase[i] = "addUser"
    /\ \A j \in Instances : ~wrote[j]
    /\ wrote' = [wrote EXCEPT ![i] = ~user]
    /\ Enter(i, IF user THEN "down" ELSE "findKey")
    /\ env' = IF user THEN [env EXCEPT ![i] = None] ELSE env
    /\ UNCHANGED <<row, user, gaugeVars, seeded, first>>

FindNoKey(i) ==
    /\ phase[i] = "findKey"
    /\ SeedRows = {}
    /\ Enter(i, "addKey")
    /\ UNCHANGED <<row, user, wrote, env, gaugeVars, seeded, first>>

CommitUser(i) ==
    /\ user' = (user \/ wrote[i])
    /\ first' = IF first = None THEN env[i] ELSE first
    /\ wrote' = [wrote EXCEPT ![i] = FALSE]
    /\ Enter(i, "count")

\* Mutant of KeepKey: the secret of the environment replaces the stored one.
RenewKey(i) ==
    /\ phase[i] = "findKey"
    /\ \E k \in SeedRows : row' = [row EXCEPT ![k].plain = env[i]]
    /\ CommitUser(i)
    /\ UNCHANGED <<env, gaugeVars, seeded>>

\* A row of that name is found (LIMIT 1: any), its missing plaintext is filled
\* in, COMMIT.  The row lock and the re-evaluated COALESCE make it one step.
KeepKey(i) ==
    /\ phase[i] = "findKey"
    /\ \E k \in SeedRows :
        row' = [row EXCEPT ![k].plain = IF @ = None THEN env[i] ELSE @]
    /\ CommitUser(i)
    /\ UNCHANGED <<env, gaugeVars, seeded>>

\* createApiKey with the secret of the environment, COMMIT.
AddKey(i) ==
    /\ phase[i] = "addKey"
    /\ \E k \in Keys \ (Existing \union {Legacy}) :
        /\ row' = [row EXCEPT ![k] = NewRow("seed", env[i])]
        /\ seeded' = seeded \union {k}
    /\ CommitUser(i)
    /\ BehindOthers(i)
    /\ UNCHANGED <<env, job, gauge>>

\* The count of init(), then listen.
Serve(i) ==
    /\ phase[i] = "count"
    /\ Enter(i, "up")
    /\ gauge' = [gauge EXCEPT ![i] = [count |-> ActiveCount, asOf |-> Changes]]
    /\ behind' = [behind EXCEPT ![i] = FALSE]
    /\ UNCHANGED <<row, user, wrote, env, job, seeded, first>>

\* A crash, or a rejected query of init(): the database rolls the open
\* transaction back, and whoever waits for an answer gets none.
Crash(i) ==
    /\ phase[i] # "down"
    /\ Enter(i, "down")
    /\ wrote' = [wrote EXCEPT ![i] = FALSE]
    /\ job' = [r \in Jobs |-> IF job[r] # Free /\ job[r].at = i THEN Free ELSE job[r]]
    /\ gauge' = [gauge EXCEPT ![i] = Unset]
    /\ behind' = [behind EXCEPT ![i] = FALSE]
    /\ env' = [env EXCEPT ![i] = None]
    /\ UNCHANGED <<row, user, seeded, first>>
-----------------------------------------------------------------------------
(* Administration.  A request that is refused, or fails before its write,  *)
(* changes nothing.                                                        *)

\* Job r of instance i has written: another await, and then the count.
Written(r, i) ==
    /\ phase[i] = "up"
    /\ job[r] = Free
    /\ job' = [job EXCEPT ![r] = [step |-> "wrote", at |-> i]]
    /\ UNCHANGED <<user, bootVars, gauge, seeded, first>>

\* POST /api/keys up to its COMMIT: any name, a secret given or generated.
CreateKey(r, i) ==
    /\ Cardinality(Existing) < MaxRows
    /\ \E k \in Keys \ (Existing \union {Legacy}), name \in Names, s \in Secrets :
        row' = [row EXCEPT ![k] = NewRow(name, s)]
    /\ BehindOthers(i)
    /\ Written(r, i)

\* DELETE /api/keys/:id up to its UPDATE, which a key that does not exist or is
\* revoked already answers just as well.
RevokeKey(r, i, k) ==
    /\ IF k \in Existing /\ ~row[k].revoked
       THEN row' = [row EXCEPT ![k].revoked = TRUE] /\ BehindOthers(i)
       ELSE UNCHANGED <<row, behind>>
    /\ Written(r, i)

\* The database runs the count of job r.
Count(r) ==
    /\ job[r].step = "wrote"
    /\ job' = [job EXCEPT ![r] =
                  [step |-> "counted", at |-> job[r].at,
                   count |-> ActiveCount, asOf |-> Changes]]
    /\ UNCHANGED <<row, user, bootVars, gauge, behind, seeded, first>>

\* Its answer arrives, later than that of a younger count perhaps: gauge, reply.
SetGauge(r) ==
    /\ job[r].step = "counted"
    /\ LET i == job[r].at IN
        /\ gauge' = [gauge EXCEPT ![i] = [count |-> job[r].count, asOf |-> job[r].asOf]]
        /\ behind' = [behind EXCEPT ![i] =
                         job[r].asOf # Changes /\ (@ \/ job[r].asOf < gauge[i].asOf)]
    /\ job' = [job EXCEPT ![r] = Free]
    /\ UNCHANGED <<row, user, bootVars, seeded, first>>

\* The answer to the write is lost, or the count rejects: the reply is 500.
JobFails(r) ==
    /\ job[r] # Free
    /\ behind' = [behind EXCEPT ![job[r].at] = TRUE]
    /\ job' = [job EXCEPT ![r] = Free]
    /\ UNCHANGED <<row, user, bootVars, gauge, seeded, first>>
-----------------------------------------------------------------------------
Boot(i) ==
    \/ Start(i) \/ FindUser(i) \/ AddUser(i) \/ FindNoKey(i)
    \/ KeepKey(i) \/ AddKey(i) \/ Serve(i) \/ Crash(i)

Administer(r) ==
    \/ \E i \in Instances : CreateKey(r, i) \/ \E k \in Keys : RevokeKey(r, i, k)
    \/ Count(r) \/ SetGauge(r) \/ JobFails(r)

Next ==
    \/ \E i \in Instances : Boot(i)
    \/ \E r \in Jobs : Administer(r)

Spec == Init /\ [][Next]_vars
-----------------------------------------------------------------------------
JobType ==
    [step : {"free"}]
    \union [step : {"wrote"}, at : Instances]
    \union [step : {"counted"}, at : Instances, count : Nat, asOf : Nat]

\* Every variable holds a value of its kind, and only one open transaction has
\* added the administrator, before anybody has.
TypeOK ==
    /\ row \in [Keys -> RowType \union {None}]
    /\ user \in BOOLEAN
    /\ phase \in [Instances -> {"down", "findUser", "addUser", "findKey", "addKey",
                                "count", "up"}]
    /\ wrote \in [Instances -> BOOLEAN]
    /\ env \in [Instances -> Secrets \union {None}]
    /\ \A i \in Instances : env[i] = None <=> phase[i] = "down"
    /\ job \in [Jobs -> JobType]
    /\ gauge \in [Instances -> [count : Nat, asOf : Nat]]
    /\ seeded \in SUBSET Keys
    /\ first \in Secrets \union {None}
    /\ behind \in [Instances -> BOOLEAN]
    /\ \A i, j \in Instances : wrote[i] /\ (wrote[j] \/ user) => i = j /\ ~user

\* Whatever the overlap of starts, crashes and revocations, the bootstraps
\* together seed one key: a seeded key that was revoked does not come back with
\* the next start (startup.ts, ensureAdminApiKey).  What keeps two overlapping
\* starts apart is the administrator's one e-mail, unique in users.
SeededOnce == \A k, l \in seeded : k = l

\* The secret an administrator is shown is one that the key is authenticated
\* by, and for the seeded key, legacy or not, it stays the one of the first
\* bootstrap, after any starts with another ADMIN_DEFAULT_API_KEY.  So a legacy
\* key, which had been hashed before, is shown with a secret that works only if
\* that bootstrap had the environment of old (startup.ts, COALESCE).
ShownSecretWorks ==
    /\ \A k \in Keys \ {Legacy} : row[k] # None => row[k].plain = row[k].hash
    /\ \A k \in seeded : row[k] # None /\ row[k].plain = first

\* When the jobs of an instance have all been answered, its gauge is the number
\* of active keys, unless another instance has changed it, a count failed or an
\* older count was answered last (apiKeyRoutes.ts, updateActiveApiKeys).
GaugeSettles ==
    \A i \in Instances :
        /\ phase[i] = "up"
        /\ \A r \in Jobs : job[r] = Free \/ job[r].at # i
        /\ ~behind[i]
        => gauge[i].count = Cardinality({k \in Keys : row[k] # None /\ ~row[k].revoked})
=============================================================================
