----------------------------- MODULE MCWsBridge -----------------------------
(***************************************************************************)
(* Instances of WsBridge for TLC.                                          *)
(***************************************************************************)
EXTENDS WsBridge

CONSTANTS c1, c2, c3

ThreeConns == {c1, c2, c3}
=============================================================================
