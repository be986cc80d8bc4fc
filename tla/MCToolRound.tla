---------------------------- MODULE MCToolRound ----------------------------
(* The first and the last call work on the same resource.                   *)
EXTENDS ToolRound

MCClash == {<<1, CallCount>>}
=============================================================================
