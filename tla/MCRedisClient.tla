--------------------------- MODULE MCRedisClient ---------------------------
(***************************************************************************)
(* RedisClient for TLC; see the configurations for the bounds.             *)
(***************************************************************************)
EXTENDS RedisReplies
=============================================================================
