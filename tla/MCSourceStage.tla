--------------------------- MODULE MCSourceStage ---------------------------
(* Two blocks, and a fork above them of which one branch is longer. *)
EXTENDS SourceStage

CONSTANTS g0, p1, a2, b2, c3

MCBlocks == {g0, p1, a2, b2, c3}
MCHeight == (g0 :> 0) @@ (p1 :> 1) @@ (a2 :> 2) @@ (b2 :> 2) @@ (c3 :> 3)
MCParent == (p1 :> g0) @@ (a2 :> p1) @@ (b2 :> p1) @@ (c3 :> b2)
MCInitial == <<g0, p1>>
=============================================================================
