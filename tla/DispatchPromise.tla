--------------------------- MODULE DispatchPromise ---------------------------
(***************************************************************************)
(* What the dispatch path promises about a tool call, with no permits,     *)
(* fences or leases: it asks under some policy version, and either is      *)
(* refused without having run, or runs once, entered while its tool was    *)
(* granted and its version current. Revocations and policy changes come at *)
(* any time.                                                               *)
(***************************************************************************)
EXTENDS Naturals

CONSTANTS Calls, Tools, ToolOf

VARIABLES phase, asked, revoked, version

vars == <<phase, asked, revoked, version>>

Init ==
  /\ phase = [c \in Calls |-> "asking"]
  /\ asked = [c \in Calls |-> 0]
  /\ revoked = {}
  /\ version = 0

\* The call is prepared (again) under the current policy.
Ask(c) ==
  /\ phase[c] = "asking"
  /\ asked' = [asked EXCEPT ![c] = version]
  /\ UNCHANGED <<phase, revoked, version>>

Refuse(c) ==
  /\ phase[c] = "asking"
  /\ phase' = [phase EXCEPT ![c] = "refused"]
  /\ \/ UNCHANGED asked
     \/ asked' = [asked EXCEPT ![c] = version]
  /\ UNCHANGED <<revoked, version>>

Enter(c) ==
  /\ phase[c] = "asking"
  /\ ToolOf[c] \notin revoked /\ asked[c] = version
  /\ phase' = [phase EXCEPT ![c] = "entered"]
  /\ UNCHANGED <<asked, revoked, version>>

Answer(c) ==
  /\ phase[c] = "entered"
  /\ phase' = [phase EXCEPT ![c] = "answered"]
  /\ UNCHANGED <<asked, revoked, version>>

Revoke(t) ==
  /\ revoked' = revoked \cup {t}
  /\ UNCHANGED <<phase, asked, version>>

ChangePolicy ==
  /\ version' = version + 1
  /\ UNCHANGED <<phase, asked, revoked>>

Next ==
  \/ \E c \in Calls : Ask(c) \/ Refuse(c) \/ Enter(c) \/ Answer(c)
  \/ \E t \in Tools : Revoke(t)
  \/ ChangePolicy

Spec == Init /\ [][Next]_vars
=============================================================================
