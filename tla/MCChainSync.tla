---------------------------- MODULE MCChainSync ----------------------------
(* A main chain and a branch that leaves it after the first block. *)
EXTENDS ChainSync

MCHeight == [b \in Blocks |-> b % 10]
MCParent ==
  [b \in Blocks \ {Genesis} |->
     IF b \in Blocks /\ b > 10 /\ (b - 1) \notin Blocks THEN b - 11 ELSE b - 1]
=============================================================================
