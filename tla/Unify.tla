------------------------------- MODULE Unify -------------------------------
(***************************************************************************)
(* How mapi finds one point of the chain that several polyphony instances  *)
(* have all indexed, and how tikv-gc chooses the safepoint that keeps such *)
(* a point readable.  Both work on the timestamp entries that the          *)
(* instances publish to Redis: the commit timestamp ts of a state of TiKV, *)
(* the block tip it holds, and the mempool view above the block, if any.   *)
(* An entry map gives the entries of each member: of each reducer in mapi, *)
(* of each instance in tikv-gc.                                            *)
(***************************************************************************)
EXTENDS Naturals, FiniteSets, FiniteSetsExt

CONSTANTS
  Blocks, height,   \* the blocks of every fork and their heights
  NoBlock,          \* no block was found
  NoView,           \* an entry of the chain itself; real views are above it
  Ticks             \* TSO timestamps per millisecond, the unit of Redis scores

ASSUME UnifyAssumption ==
  /\ height \in [Blocks -> Nat]
  /\ NoBlock \notin Blocks
  /\ NoView = 0
  /\ Ticks \in Nat \ {0}

Physical(ts) == ts \div Ticks

OnChain(es) == {e \in es : e.view = NoView}

\* A mutant of At: mempool entries pass for entries of their chain tip.
AtAny(es, b) == {e \in es : e.tip = b}

At(es, b) == {e \in OnChain(es) : e.tip = b}

OnView(es, b, v) == {e \in es : e.view = v /\ e.tip = b /\ v # NoView}

Later(e, f) ==
  \/ height[e.tip] > height[f.tip]
  \/ height[e.tip] = height[f.tip] /\ e.ts >= f.ts

Last(es) == CHOOSE e \in es : \A f \in es : Later(e, f)

Newest(es) == CHOOSE e \in es : \A f \in es : e.ts >= f.ts

Oldest(es) == CHOOSE e \in es : \A f \in es : e.ts <= f.ts

Common(em) == {b \in Blocks : \A r \in DOMAIN em : At(em[r], b) # {}}

Shared(em, r) == LET common == Common(em) IN {e \in OnChain(em[r]) : e.tip \in common}

-----------------------------------------------------------------------------
(* mapi; r is the member that the iteration of the hash map yields first. *)

FindBestCommonBlock(em, r) ==
  LET es == Shared(em, r) IN IF es = {} THEN NoBlock ELSE Last(es).tip

CommonViews(em, b) ==
  {v \in UNION {{e.view : e \in em[r]} : r \in DOMAIN em} :
     \A r \in DOMAIN em : OnView(em[r], b, v) # {}}

FindBestCommonMempoolView(em, b) ==
  IF CommonViews(em, b) = {} THEN NoView ELSE Max(CommonViews(em, b))

FindCommonBlockAtHeight(em, r, h) ==
  LET es == {e \in Shared(em, r) : height[e.tip] = h}
  IN  IF es = {} THEN NoBlock ELSE Oldest(es).tip

\* The entries of a block that the snapshots of one request are taken from.
Plan(em, b, v) ==
  [tip |-> b, view |-> v,
   snap |-> [r \in DOMAIN em |->
               IF v = NoView THEN Newest(At(em[r], b)).ts ELSE Newest(OnView(em[r], b, v)).ts]]

TipPlans(em) ==
  {Plan(em, b, NoView) : b \in {FindBestCommonBlock(em, r) : r \in DOMAIN em} \ {NoBlock}}

Below(b) == IF height[b] = 0 THEN 0 ELSE height[b] - 1

FallbackPlan(em, r, b) ==
  LET c == FindCommonBlockAtHeight(em, r, Below(b))
      v == IF c = NoBlock THEN NoView ELSE FindBestCommonMempoolView(em, c)
  IN  IF v = NoView THEN Plan(em, b, NoView) ELSE Plan(em, c, v)

MempoolPlan(em, r, b) ==
  LET v == FindBestCommonMempoolView(em, b)
  IN  IF v # NoView THEN Plan(em, b, v) ELSE FallbackPlan(em, r, b)

MempoolPlans(em) ==
  {MempoolPlan(em, r, FindBestCommonBlock(em, r)) :
     r \in {q \in DOMAIN em : FindBestCommonBlock(em, q) # NoBlock}}

-----------------------------------------------------------------------------
(* tikv-gc; i is the network's first instance. *)

EarliestChaintip(em) == Min({Last(OnChain(em[i])).ts : i \in DOMAIN em})

Previous(em, i, b) ==
  LET es == {e \in Shared(em, i) : height[b] > 0 /\ height[e.tip] = height[b] - 1}
  IN  IF es = {} THEN b ELSE Last(es).tip

NetworkIntersection(em, i) ==
  LET b == Previous(em, i, FindBestCommonBlock(em, i))
  IN  Min({Newest(At(em[j], b)).ts : j \in DOMAIN em})

\* The job panics on an instance without a block entry, or without a common block.
CanChoose(em) ==
  DOMAIN em # {} /\ (\A i \in DOMAIN em : OnChain(em[i]) # {}) /\ Common(em) # {}

SafeZone(now, zone) == IF Physical(now) < zone THEN 0 ELSE (Physical(now) - zone) * Ticks

Safepoint(em, i, now, zone) ==
  Min({EarliestChaintip(em), SafeZone(now, zone), NetworkIntersection(em, i)})

\* A mutant of Kept: the entry at the safepoint is deleted with the older ones.
KeptAbove(es, sp) == {e \in es : Physical(e.ts) > Physical(sp)}

\* The entries that deleting by score up to the millisecond before sp leaves.
Kept(es, sp) == {e \in es : Physical(e.ts) >= Physical(sp)}

=============================================================================
