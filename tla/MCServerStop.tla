---------------------------- MODULE MCServerStop ----------------------------
(* Instances of ServerStop for TLC.                                         *)
EXTENDS ServerStop, TLC

CONSTANTS w1, w2

Workers == {w1, w2}
=============================================================================
