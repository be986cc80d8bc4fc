----------------------------- MODULE TurnPromise -----------------------------
(***************************************************************************)
(* What the database promises about the turns of a session: a turn is      *)
(* begun while no other turn of its session is open, it ends at most once, *)
(* and the outcome written for it then is never replaced.                  *)
(***************************************************************************)
CONSTANTS Turns, SessionOf, Endings

VARIABLES phase, ending    \* of each turn: "unknown", "open", "over"; how it ended

vars == <<phase, ending>>

NoEnding == "none"

Init ==
  /\ phase = [t \in Turns |-> "unknown"]
  /\ ending = [t \in Turns |-> NoEnding]

Begin(t) ==
  /\ phase[t] = "unknown"
  /\ \A u \in Turns : SessionOf[u] = SessionOf[t] => phase[u] # "open"
  /\ phase' = [phase EXCEPT ![t] = "open"]
  /\ UNCHANGED ending

\* One recovery may end several turns in one step.
End(S) ==
  /\ \A t \in S : phase[t] = "open"
  /\ phase' = [t \in Turns |-> IF t \in S THEN "over" ELSE phase[t]]
  /\ \E e \in [S -> Endings] : ending' = [t \in Turns |-> IF t \in S THEN e[t] ELSE ending[t]]

Next == (\E t \in Turns : Begin(t)) \/ (\E S \in SUBSET Turns : End(S))

Spec == Init /\ [][Next]_vars
=============================================================================
