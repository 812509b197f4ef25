-------------------------- MODULE MCServerThreads --------------------------
(***************************************************************************)
(* ServerThreads for TLC: the bound on what the workers queue is enough.   *)
(***************************************************************************)
EXTENDS ServerThreads
=============================================================================
