------------------------- MODULE MCSessionLifecycle -------------------------
(***************************************************************************)
(* SessionLifecycle for TLC; the workers are interchangeable.              *)
(***************************************************************************)
EXTENDS SessionLifecycle, TLC

Symmetry == Permutations(Worker)
=============================================================================
