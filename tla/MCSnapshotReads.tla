-------------------------- MODULE MCSnapshotReads --------------------------
(* A chain with a fork of one block, and two instances in one dataplane, of *)
(* which one is catching up.                                               *)
EXTENDS SnapshotReads

CONSTANTS g0, a1, b1, b2, x, y

MCBlocks == {g0, a1, b1, b2}
MCHeight == (g0 :> 0) @@ (a1 :> 1) @@ (b1 :> 1) @@ (b2 :> 2)
MCParent == (a1 :> g0) @@ (b1 :> g0) @@ (b2 :> b1)

MCInstances == {0, 1}
MCReducers == {x, y}
SameDataplane == [i \in MCInstances |-> 0]
OneEach == (x :> {0}) @@ (y :> {1})
=============================================================================
