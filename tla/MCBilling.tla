----------------------------- MODULE MCBilling ------------------------------
(***************************************************************************)
(* Instances of Billing for TLC: one key with a free quota of one request. *)
(***************************************************************************)
EXTENDS Billing

CONSTANTS free, cycle1, cycle2

OneKey    == {free}
TwoCycles == {cycle1, cycle2}
OneFree   == [k \in Keys |-> 1]
=============================================================================
