---------------------------- MODULE MCRateLimit ----------------------------
(***************************************************************************)
(* Instances of RateLimit for TLC: a tight and a roomier key over three    *)
(* windows of two ticks.                                                   *)
(***************************************************************************)
EXTENDS RateLimit, TLC

CONSTANTS c1, c2, c3, tight, roomy

TwoCallers   == {c1, c2}
ThreeCallers == {c1, c2, c3}
BothKeys     == {tight, roomy}
OneKey       == {tight}
PlanLimits   == [k \in Keys |-> IF k = tight THEN 1 ELSE 2]

\* Calls differ only in what they carry, so callers are interchangeable.
CallerSymmetry == Permutations(Callers)
=============================================================================
