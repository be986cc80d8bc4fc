--------------------------- MODULE MCToolDispatch ---------------------------
(* A small instance of ToolDispatch: sibling calls, each of its own tool,   *)
(* that share one invocation and its fences.                                *)
EXTENDS ToolDispatch, TLC

CONSTANTS c1, c2, i1, t1, t2

Shared == (c1 :> i1) @@ (c2 :> i1)
OwnTool == (c1 :> t1) @@ (c2 :> t2)

=============================================================================
