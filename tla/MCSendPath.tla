----------------------------- MODULE MCSendPath -----------------------------
(***************************************************************************)
(* SendPath for TLC; see the configurations for the bounds.                *)
(***************************************************************************)
EXTENDS SendPath
=============================================================================
