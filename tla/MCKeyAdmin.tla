---------------------------- MODULE MCKeyAdmin ------------------------------
(***************************************************************************)
(* Instances of KeyAdmin for TLC.  Instances, jobs, secrets and the keys   *)
(* other than the legacy one are interchangeable.                          *)
(***************************************************************************)
EXTENDS KeyAdmin, TLC

CONSTANTS old, key1, key2, auth1, auth2, job1, job2, secret1, secret2

ThreeKeys    == {old, key1, key2}
TwoInstances == {auth1, auth2}
TwoJobs      == {job1, job2}
TwoSecrets   == {secret1, secret2}

Symmetry ==
    Permutations({key1, key2}) \union Permutations(TwoInstances)
    \union Permutations(TwoJobs) \union Permutations(TwoSecrets)
=============================================================================
