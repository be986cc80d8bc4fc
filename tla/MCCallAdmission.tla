-------------------------- MODULE MCCallAdmission --------------------------
(* Two lanes: three requests of the desktop, interactive, one of which      *)
(* cannot wait, and two of automation, in the background.                   *)
EXTENDS CallAdmission, TLC

CONSTANTS d1, d2, d3, a1, a2

MCLane == (d1 :> "desktop") @@ (d2 :> "desktop") @@ (d3 :> "desktop")
            @@ (a1 :> "automation") @@ (a2 :> "automation")
MCPriority == (d1 :> "interactive") @@ (d2 :> "interactive") @@ (d3 :> "interactive")
                @@ (a1 :> "background") @@ (a2 :> "background")
MCLaneMax == ("desktop" :> 1) @@ ("automation" :> 2)
=============================================================================
