---------------------------- MODULE AtomicIndex ----------------------------
(***************************************************************************)
(* What an index instance promises its readers, with no transactions,      *)
(* locks, buffers or crashes: it is always at some block, it moves to a    *)
(* child of that block or back to an ancestor, and what it publishes for a *)
(* block is exactly the state that the chain up to that block produces.    *)
(***************************************************************************)
EXTENDS Integers

CONSTANTS Points, Origin, height, parent, ideal, StartPoint

VARIABLES
  tip,         \* the block the instance is at
  published    \* [point, snap]: what readers are shown for which block

ivars == <<tip, published>>

\* p is a proper ancestor of q: some set of blocks is closed under parent from
\* q down to p.
Ancestor(p, q) ==
  /\ p # q
  /\ \E S \in SUBSET Points :
       /\ {p, q} \subseteq S
       /\ \A r \in S \ {p} : parent[r] \in S /\ height[r] > height[p]

Init == tip = StartPoint /\ published = {}

Advance ==
  /\ \E p \in Points : parent[p] = tip /\ tip' = p
  /\ UNCHANGED published

Retreat ==
  /\ \E p \in Points : Ancestor(p, tip) /\ tip' = p
  /\ UNCHANGED published

Publish ==
  /\ published' = published \cup {[point |-> tip, snap |-> ideal[tip]]}
  /\ UNCHANGED tip

Next == Advance \/ Retreat \/ Publish

Spec == Init /\ [][Next]_ivars

=============================================================================
