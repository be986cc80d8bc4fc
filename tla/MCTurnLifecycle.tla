-------------------------- MODULE MCTurnLifecycle --------------------------
(* Turns of one session, or each of a session of its own.                   *)
EXTENDS TurnLifecycle

MCShared == [t \in Turns |-> "s"]
MCApart == [t \in Turns |-> t]
=============================================================================
