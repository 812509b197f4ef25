--------------------------- MODULE MCAsyncContext ---------------------------
(***************************************************************************)
(* AsyncContext for TLC: two channels, one of which is subscribed alone or *)
(* with the other, and a pattern of the same name as a channel.            *)
(***************************************************************************)
EXTENDS AsyncContext

ChA == <<97>>
ChB == <<98>>

MCSubscription == {[pat |-> FALSE, names |-> <<ChB, ChA>>], [pat |-> TRUE, names |-> <<ChA>>]}
=============================================================================
