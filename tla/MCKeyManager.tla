---------------------------- MODULE MCKeyManager ----------------------------
(***************************************************************************)
(* Instances of KeyManager for TLC.                                        *)
(***************************************************************************)
EXTENDS KeyManager

CONSTANTS c1, c2, c3

TwoCalls   == {c1, c2}
ThreeCalls == {c1, c2, c3}
=============================================================================
