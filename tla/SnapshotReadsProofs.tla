------------------------ MODULE SnapshotReadsProofs -------------------------
(***************************************************************************)
(* Proofs about the reads of mapi, for every chain, every number of        *)
(* instances, reducers and dataplanes and without a bound on time: the     *)
(* snapshots of a request all show the block and the mempool view that it  *)
(* reports, and what a request picks has not been collected by tikv-gc.    *)
(***************************************************************************)
EXTENDS SnapshotReads, WellFoundedInduction, TLAPS

\* Most steps are first-order; those that need arithmetic or functions cite SMT.
USE ZenonT(60)

Entry == [ts : Nat, tip : Blocks, view : Nat]

-----------------------------------------------------------------------------
(* The greatest and the least of what the operators of Unify choose from. *)

\* A set of natural numbers has a least element.
LEMMA LeastNatural ==
  ASSUME NEW T \in SUBSET Nat, T # {}
  PROVE  \E x \in T : \A y \in T : x <= y
<1> DEFINE R == {z \in Nat \X Nat : z[1] < z[2]}
<1>1. IsWellFoundedOn(R, Nat)
  BY NatLessThanWellFounded DEF OpToRel
<1>2. PICK x \in T : \A y \in T : ~ (<<y, x>> \in R)
  <2> HIDE DEF R
  <2> QED
    BY <1>1, WFMin
<1>3. ASSUME NEW y \in T PROVE x <= y
  <2>1. <<y, x>> \in Nat \X Nat /\ ~ (<<y, x>> \in R)
    BY <1>2
  <2>2. ~ (y < x)
    BY <2>1
  <2> QED
    BY SMTT(60), <2>2
<1> QED
  BY <1>3

\* A bounded set of natural numbers has a greatest element.
LEMMA GreatestNatural ==
  ASSUME NEW T \in SUBSET Nat, T # {}, NEW n \in Nat, \A x \in T : x <= n
  PROVE  \E x \in T : \A y \in T : y <= x
<1> DEFINE D == {n - x : x \in T}
<1>1. D \in SUBSET Nat /\ D # {}
  <2>1. \A x \in T : n - x \in Nat
    BY SMTT(60)
  <2> QED
    BY <2>1
<1>2. PICK d \in D : \A e \in D : d <= e
  <2> HIDE DEF D
  <2> QED
    BY <1>1, LeastNatural
<1>3. PICK x \in T : d = n - x
  OBVIOUS
<1>4. ASSUME NEW y \in T PROVE y <= x
  <2>1. d <= n - y
    BY <1>2
  <2> QED
    BY SMTT(60), <1>3, <2>1
<1> QED
  BY <1>4

\* The entries have bounded timestamps, heights and views, as every set of
\* entries that instances have published has.
Bounded(es, n) ==
  /\ es \in SUBSET Entry
  /\ \A e \in es : e.ts <= n /\ height[e.tip] <= n /\ e.view <= n

\* Newest yields the entry with the latest timestamp.
LEMMA NewestIs ==
  ASSUME NEW es, NEW n \in Nat, Bounded(es, n), es # {}
  PROVE  Newest(es) \in es /\ \A e \in es : e.ts <= Newest(es).ts
<1> DEFINE T == {e.ts : e \in es}
<1>1. T \in SUBSET Nat /\ T # {} /\ \A x \in T : x <= n
  BY DEF Bounded, Entry
<1>2. PICK x \in T : \A y \in T : y <= x
  <2> HIDE DEF T
  <2> QED
    BY <1>1, GreatestNatural
<1>3. PICK e \in es : e.ts = x
  OBVIOUS
<1>4. \A f \in es : e.ts >= f.ts
  BY <1>1, <1>2, <1>3
<1> QED
  BY <1>4, <1>1 DEF Newest

\* Last yields the latest of the highest entries.
LEMMA LastIs ==
  ASSUME NEW es, NEW n \in Nat, Bounded(es, n), es # {}
  PROVE  Last(es) \in es /\ \A e \in es : Later(Last(es), e)
<1> DEFINE T == {height[e.tip] : e \in es}
<1>1. T \in SUBSET Nat /\ T # {} /\ \A x \in T : x <= n
  BY SMTT(60), UnifyAssumption DEF Bounded, Entry
<1>2. PICK h \in T : \A y \in T : y <= h
  <2> HIDE DEF T
  <2> QED
    BY <1>1, GreatestNatural
<1> DEFINE top == {e \in es : height[e.tip] = h}
<1>3. Bounded(top, n) /\ top # {}
  BY DEF Bounded
<1>4. Newest(top) \in top /\ \A e \in top : e.ts <= Newest(top).ts
  <2> HIDE DEF top
  <2> QED
    BY <1>3, NewestIs
<1>5. ASSUME NEW f \in es PROVE Later(Newest(top), f)
  <2>1. height[f.tip] <= h /\ height[f.tip] \in Nat /\ h \in Nat
    BY <1>1, <1>2
  <2>2. f.ts \in Nat /\ Newest(top).ts \in Nat
    BY <1>4 DEF Bounded, Entry
  <2> QED
    BY SMTT(60), <1>4, <2>1, <2>2 DEF Later
<1> QED
  BY <1>4, <1>5 DEF Last

\* A sorted set of Redis has a first member.
LEMMA FirstIs ==
  ASSUME NEW S \in SUBSET Nat, S # {}, NEW f, \A i \in S : f[i] \in Nat
  PROVE  First(f, S) \in S
<1> DEFINE T == {f[i] : i \in S}
<1>1. T \in SUBSET Nat /\ T # {}
  OBVIOUS
<1>2. PICK x \in T : \A y \in T : x <= y
  <2> HIDE DEF T
  <2> QED
    BY <1>1, LeastNatural
<1> DEFINE I == {i \in S : f[i] = x}
<1>3. PICK i \in I : \A j \in I : i <= j
  <2>1. I \in SUBSET Nat /\ I # {}
    BY <1>2
  <2> HIDE DEF I
  <2> QED
    BY <2>1, LeastNatural
<1>4. \A j \in S : f[i] < f[j] \/ (f[i] = f[j] /\ i <= j)
  <2> SUFFICES ASSUME NEW j \in S, ~ (f[i] < f[j]) PROVE f[i] = f[j] /\ i <= j
    OBVIOUS
  <2>1. f[i] <= f[j] /\ f[i] \in Nat /\ f[j] \in Nat
    BY <1>2, <1>3
  <2>2. j \in I
    BY SMTT(60), <1>3, <2>1
  <2> QED
    BY <1>3, <2>2
<1> QED
  BY <1>3, <1>4 DEF First

-----------------------------------------------------------------------------
(* What a plan is made of. *)

\* Part of a bounded set of entries is bounded.
LEMMA BoundedPart ==
  ASSUME NEW es, NEW n, Bounded(es, n), NEW fs \in SUBSET es
  PROVE  Bounded(fs, n)
BY DEF Bounded

\* The snapshots of a plan belong to entries of its block and view, one for
\* each member of the map.
Exact(em, p) ==
  /\ DOMAIN p.snap = DOMAIN em
  /\ \A r \in DOMAIN em : \E e \in em[r] :
       e.ts = p.snap[r] /\ e.tip = p.tip /\ e.view = p.view

\* A plan for what all members have is exact.
LEMMA PlanExact ==
  ASSUME NEW em, NEW n \in Nat, \A r \in DOMAIN em : Bounded(em[r], n),
         NEW b, NEW v,
         \A r \in DOMAIN em : IF v = NoView THEN At(em[r], b) # {} ELSE OnView(em[r], b, v) # {}
  PROVE  Exact(em, Plan(em, b, v))
<1> SUFFICES ASSUME NEW r \in DOMAIN em
             PROVE  \E e \in em[r] : e.ts = Plan(em, b, v).snap[r] /\ e.tip = b /\ e.view = v
  BY DEF Exact, Plan
<1>1. CASE v = NoView
  <2>1. At(em[r], b) \in SUBSET em[r] /\ \A e \in At(em[r], b) : e.tip = b /\ e.view = NoView
    BY DEF At, OnChain
  <2>2. Newest(At(em[r], b)) \in At(em[r], b)
    BY <1>1, <2>1, BoundedPart, NewestIs
  <2>3. Plan(em, b, v).snap[r] = Newest(At(em[r], b)).ts
    BY <1>1 DEF Plan
  <2> QED
    BY <1>1, <2>1, <2>2, <2>3
<1>2. CASE v # NoView
  <2>1. OnView(em[r], b, v) \in SUBSET em[r] /\ \A e \in OnView(em[r], b, v) : e.tip = b /\ e.view = v
    BY DEF OnView
  <2>2. Newest(OnView(em[r], b, v)) \in OnView(em[r], b, v)
    BY <1>2, <2>1, BoundedPart, NewestIs
  <2>3. Plan(em, b, v).snap[r] = Newest(OnView(em[r], b, v)).ts
    BY <1>2 DEF Plan
  <2> QED
    BY <2>1, <2>2, <2>3
<1> QED
  BY <1>1, <1>2

\* The best common block is one that all members have; there is one if they
\* have any block in common.
LEMMA BestIsCommon ==
  ASSUME NEW em, NEW n \in Nat, \A r \in DOMAIN em : Bounded(em[r], n), NEW r \in DOMAIN em
  PROVE  /\ FindBestCommonBlock(em, r) # NoBlock => FindBestCommonBlock(em, r) \in Common(em)
         /\ Common(em) # {} => FindBestCommonBlock(em, r) # NoBlock
<1>1. Shared(em, r) \in SUBSET em[r] /\ \A e \in Shared(em, r) : e.tip \in Common(em)
  BY DEF Shared, OnChain
<1>2. Common(em) # {} => Shared(em, r) # {}
  BY SMTT(60) DEF Common, Shared, At
<1>3. Shared(em, r) # {} => Last(Shared(em, r)) \in Shared(em, r)
  BY <1>1, BoundedPart, LastIs
<1>4. NoBlock \notin Common(em)
  BY UnifyAssumption DEF Common
<1> QED
  BY <1>1, <1>2, <1>3, <1>4 DEF FindBestCommonBlock

\* The best common view is one that all members have on the block.
LEMMA ViewIsCommon ==
  ASSUME NEW em, NEW n \in Nat, \A r \in DOMAIN em : Bounded(em[r], n), NEW b,
         FindBestCommonMempoolView(em, b) # NoView
  PROVE  \A r \in DOMAIN em : OnView(em[r], b, FindBestCommonMempoolView(em, b)) # {}
<1> DEFINE V == CommonViews(em, b)
<1>1. V # {} /\ FindBestCommonMempoolView(em, b) = Max(V)
  BY DEF FindBestCommonMempoolView
<1>2. V \in SUBSET Nat /\ \A v \in V : v <= n
  BY SMTT(60) DEF CommonViews, Bounded, Entry
<1>3. PICK v \in V : \A w \in V : w <= v
  <2> HIDE DEF V
  <2> QED
    BY <1>1, <1>2, GreatestNatural
<1>4. \A w \in V : v >= w
  BY <1>2, <1>3
<1>5. Max(V) \in V
  <2> HIDE DEF V
  <2> QED
    BY <1>3, <1>4 DEF Max
<1> QED
  BY <1>1, <1>5 DEF CommonViews

\* Whatever unification chooses is exact.
LEMMA PlansExact ==
  ASSUME NEW em, NEW n \in Nat, \A r \in DOMAIN em : Bounded(em[r], n),
         NEW kind, NEW p \in Plans(kind, em)
  PROVE  Exact(em, p)
<1>1. ASSUME NEW b \in Common(em) PROVE Exact(em, Plan(em, b, NoView))
  BY PlanExact DEF Common
<1>2. ASSUME NEW b, FindBestCommonMempoolView(em, b) # NoView
      PROVE  Exact(em, Plan(em, b, FindBestCommonMempoolView(em, b)))
  BY <1>2, ViewIsCommon, PlanExact
<1>3. CASE p \in TipPlans(em)
  BY <1>1, <1>3, BestIsCommon DEF TipPlans
<1>4. CASE p \in MempoolPlans(em)
  <2>1. PICK r \in DOMAIN em : /\ FindBestCommonBlock(em, r) # NoBlock
                               /\ p = MempoolPlan(em, r, FindBestCommonBlock(em, r))
    BY <1>4 DEF MempoolPlans
  <2>2. FindBestCommonBlock(em, r) \in Common(em)
    BY <2>1, BestIsCommon
  <2> QED
    BY <1>1, <1>2, <2>1, <2>2 DEF MempoolPlan, FallbackPlan
<1> QED
  BY <1>3, <1>4 DEF Plans

\* Members with a block in common get a plan.
LEMMA PlansExist ==
  ASSUME NEW em, NEW n \in Nat, \A r \in DOMAIN em : Bounded(em[r], n),
         DOMAIN em # {}, Common(em) # {}, NEW kind
  PROVE  Plans(kind, em) # {}
<1>1. PICK r \in DOMAIN em : FindBestCommonBlock(em, r) # NoBlock
  BY BestIsCommon
<1>2. Plan(em, FindBestCommonBlock(em, r), NoView) \in TipPlans(em)
  BY <1>1 DEF TipPlans
<1>3. MempoolPlan(em, r, FindBestCommonBlock(em, r)) \in MempoolPlans(em)
  BY <1>1 DEF MempoolPlans
<1> QED
  BY <1>2, <1>3 DEF Plans

-----------------------------------------------------------------------------
(* Which instances a request is given. *)

\* A sorted set of Redis: instances and their scores.
Registry(f) == DOMAIN f \subseteq Instances /\ \A i \in DOMAIN f : f[i] \in Nat

\* The first of some members of a registry is one of them.
LEMMA FirstMember ==
  ASSUME NEW f, Registry(f), NEW S \in SUBSET DOMAIN f, S # {}
  PROVE  First(f, S) \in S
BY FirstIs, ReadsAssumption DEF Registry

\* A dataplane that was chosen serves some reducer, each by one of its instances.
LEMMA DataplaneInstances ==
  ASSUME NEW f, Registry(f), NEW d \in BestDataplanes(f)
  PROVE  /\ DOMAIN InDataplane(f, d) # {}
         /\ \A r \in DOMAIN InDataplane(f, d) : InDataplane(f, d)[r] \in Instances
<1>1. PICK i \in UNION {Members(f, r) : r \in Reducers} : d = dataplane[i]
  BY DEF BestDataplanes
<1>2. DOMAIN InDataplane(f, d) # {}
  BY <1>1 DEF InDataplane
<1>3. ASSUME NEW r \in DOMAIN InDataplane(f, d) PROVE InDataplane(f, d)[r] \in Instances
  <2> DEFINE S == {j \in Members(f, r) : dataplane[j] = d}
  <2>1. InDataplane(f, d)[r] = First(f, S) /\ S # {} /\ S \in SUBSET DOMAIN f
    BY DEF InDataplane, Members
  <2>2. First(f, S) \in S
    <3> HIDE DEF S
    <3> QED
      BY <2>1, FirstMember
  <2> QED
    BY <2>1, <2>2 DEF Registry
<1> QED
  BY <1>2, <1>3

\* The instances that a request is given exist, and there is at least one.
LEMMA ResolvedInstances ==
  ASSUME Registry(scores), Registry(mempoolView), NEW kind, NEW inst \in Resolve(kind)
  PROVE  DOMAIN inst # {} /\ \A r \in DOMAIN inst : inst[r] \in Instances
<1>1. CASE inst \in ResolveTip
  <2>1. /\ inst = [r \in Reducers |-> First(scores, Members(scores, r))]
        /\ \A r \in Reducers : Members(scores, r) # {}
    BY <1>1 DEF ResolveTip
  <2>2. ASSUME NEW r \in Reducers PROVE First(scores, Members(scores, r)) \in Instances
    <3>1. Members(scores, r) \in SUBSET DOMAIN scores
      BY DEF Members
    <3> QED
      BY <2>1, <3>1, FirstMember DEF Registry
  <2> QED
    BY <2>1, <2>2, ReadsAssumption
<1>2. CASE inst \in ResolveSameDataplane
  BY <1>2, DataplaneInstances DEF ResolveSameDataplane
<1>3. CASE inst \in ResolveByMempoolView
  BY <1>3, DataplaneInstances DEF ResolveByMempoolView
<1> QED
  BY <1>1, <1>2, <1>3 DEF Resolve, ResolveMempool

-----------------------------------------------------------------------------
(* The inductive invariant. *)

IsJob(g) == g = [pc |-> g.pc, map |-> g.map, sp |-> g.sp]
IsRequest(q) ==
  q = [pc |-> q.pc, kind |-> q.kind, inst |-> q.inst, map |-> q.map, plan |-> q.plan]

TypeInv ==
  /\ now \in Nat /\ best \in Blocks /\ views \in Seq(Blocks)
  /\ hist \in [Instances -> SUBSET Entry]
  /\ entries \in [Instances -> SUBSET Entry]
  /\ pend \in [Instances -> Entry \cup {Nothing}]
  /\ Registry(scores) /\ Registry(mempoolView)
  /\ IsJob(gc) /\ gc.pc \in {"idle", "fetch", "delete"} /\ gc.sp \in Nat
  /\ IsRequest(req) /\ req.pc \in {"idle", "fetch", "read"}
  /\ safe \in Nat

\* The states of an instance have different timestamps; the published ones are
\* among them, and the one that is still to be published is the last.
HistInv ==
  \A i \in Instances :
    /\ hist[i] # {}
    /\ \A s \in hist[i] : s.ts <= now
    /\ \A s, t \in hist[i] : s.ts = t.ts => s = t
    /\ entries[i] \subseteq hist[i]
    /\ pend[i] # Nothing => pend[i] \in hist[i] /\ \A s \in hist[i] : s.ts <= pend[i].ts

BoundInv == \E n \in Nat : \A i \in Instances : Bounded(hist[i], n)

\* A request has read entries of its instances, and its plan is made of them.
ReqInv ==
  req.pc # "idle" =>
    /\ \A r \in DOMAIN req.inst : req.inst[r] \in Instances
    /\ DOMAIN req.map \subseteq DOMAIN req.inst
    /\ \A r \in DOMAIN req.map : req.map[r] \subseteq hist[req.inst[r]]
    /\ req.pc = "read" => DOMAIN req.map = DOMAIN req.inst /\ Exact(req.map, req.plan)

\* Nothing that is published, or will be, is older than the safepoint.
NotBefore(e, sp) == Physical(e.ts) >= Physical(sp)

Safe(i, sp) ==
  /\ \A e \in entries[i] : NotBefore(e, sp)
  /\ pend[i] # Nothing => NotBefore(pend[i], sp)

\* All instances have published a block that the safepoint leaves.
Anchored(sp) == \E b \in Blocks : \A i \in Instances : \E e \in At(entries[i], b) : NotBefore(e, sp)

GcInv ==
  /\ safe <= now /\ gc.sp <= now
  /\ \A i \in Instances : Safe(i, safe)
  /\ Anchored(0)
  /\ gc.pc = "idle" => gc.map = <<>>
  /\ gc.pc # "idle" => DOMAIN gc.map \subseteq Instances
  /\ gc.pc = "fetch" => \A i \in DOMAIN gc.map : gc.map[i] \subseteq entries[i]
  /\ gc.pc = "delete" =>
       /\ Anchored(gc.sp)
       /\ \A i \in Instances :
            /\ pend[i] # Nothing => NotBefore(pend[i], gc.sp)
            /\ i \notin DOMAIN gc.map => Safe(i, gc.sp)

Inv == TypeInv /\ HistInv /\ BoundInv /\ ReqInv /\ GcInv

\* Division by the ticks of a millisecond is monotone.
LEMMA PhysicalFacts ==
  ASSUME NEW x \in Nat, NEW y \in Nat
  PROVE  Physical(x) \in Nat /\ Physical(0) = 0 /\ (x <= y => Physical(x) <= Physical(y))
<1>1. Ticks \in Nat /\ Ticks > 0
  BY SMTT(60), UnifyAssumption
<1>2. /\ x \div Ticks \in Nat /\ y \div Ticks \in Nat /\ 0 \div Ticks = 0
      /\ Ticks * (x \div Ticks) <= x /\ y < Ticks * ((y \div Ticks) + 1)
  BY SMTT(60), <1>1
<1>3. ASSUME NEW p \in Nat, NEW q \in Nat, p > q PROVE Ticks * p >= Ticks * (q + 1)
  BY SMTT(60), <1>1, <1>3
<1> QED
  BY SMTT(60), <1>1, <1>2, <1>3 DEF Physical

\* The invariant holds when every instance is at the first block.
LEMMA InitInv == Init => Inv
<1> SUFFICES ASSUME Init PROVE Inv
  OBVIOUS
<1> DEFINE first == [ts |-> 1, tip |-> Genesis, view |-> NoView]
<1>1. first \in Entry /\ first.ts = 1 /\ first.tip = Genesis /\ first.view = NoView
  BY UnifyAssumption, ReadsAssumption DEF Entry
<1>2. /\ now = 1 /\ best = Genesis /\ views = <<>> /\ hist = [i \in Instances |-> {first}]
      /\ entries = hist /\ pend = [i \in Instances |-> Nothing]
      /\ scores = [i \in Instances \ Late |-> height[Genesis]] /\ mempoolView = <<>>
      /\ gc = NoJob /\ safe = 0 /\ req = NoRequest
  BY DEF Init
<1> HIDE DEF first
<1>3. TypeInv
  <2>1. Registry(scores) /\ Registry(mempoolView)
    BY SMTT(60), <1>2, UnifyAssumption, ReadsAssumption DEF Registry
  <2>2. IsJob(gc) /\ gc.pc = "idle" /\ gc.sp = 0
    BY <1>2 DEF IsJob, NoJob
  <2>3. IsRequest(req) /\ req.pc = "idle"
    BY <1>2 DEF IsRequest, NoRequest
  <2> QED
    BY SMTT(60), <1>1, <1>2, <2>1, <2>2, <2>3, ReadsAssumption DEF TypeInv
<1>4. HistInv
  BY SMTT(60), <1>1, <1>2 DEF HistInv
<1>5. BoundInv
  <2>1. height[Genesis] \in Nat /\ NoView = 0
    BY UnifyAssumption, ReadsAssumption
  <2>2. \A i \in Instances : Bounded(hist[i], height[Genesis] + 1)
    BY SMTT(60), <1>1, <1>2, <2>1 DEF Bounded
  <2> QED
    BY SMTT(60), <2>1, <2>2 DEF BoundInv
<1>6. ReqInv
  BY <1>2 DEF ReqInv, NoRequest
<1>7. GcInv
  <2>1. NotBefore(first, 0)
    BY SMTT(60), <1>1, PhysicalFacts DEF NotBefore
  <2>2. Anchored(0)
    BY <1>1, <1>2, <2>1, ReadsAssumption DEF Anchored, At, OnChain
  <2> QED
    BY SMTT(60), <1>2, <2>1, <2>2 DEF GcInv, Safe, NoJob
<1> QED
  BY <1>3, <1>4, <1>5, <1>6, <1>7 DEF Inv

-----------------------------------------------------------------------------
(* One lemma for each action. *)

\* Time and the chain go on.
LEMMA QuietInv ==
  ASSUME Inv, Tick \/ NewBlock \/ NewView \/ UNCHANGED vars
  PROVE  Inv'
<1>1. /\ UNCHANGED <<hist, pend, joined>> /\ UNCHANGED <<entries, scores, mempoolView>>
      /\ UNCHANGED <<gc, safe, req>>
      /\ now' \in Nat /\ now' >= now /\ best' \in Blocks /\ views' \in Seq(Blocks)
  <2>1. now \in Nat /\ best \in Blocks /\ views \in Seq(Blocks)
    BY DEF Inv, TypeInv
  <2> QED
    BY SMTT(60), <2>1 DEF Tick, NewBlock, NewView, vars, chain, workers, redis
<1>2. TypeInv' /\ BoundInv' /\ ReqInv'
  BY <1>1 DEF Inv, TypeInv, BoundInv, ReqInv
<1>3. HistInv'
  <2>1. \A i \in Instances : \A s \in hist[i] : s.ts \in Nat
    BY SMTT(60) DEF Inv, TypeInv, Entry
  <2> QED
    BY SMTT(60), <1>1, <2>1 DEF Inv, TypeInv, HistInv
<1>4. GcInv'
  <2>1. safe' <= now' /\ gc'.sp <= now'
    BY SMTT(60), <1>1 DEF Inv, TypeInv, GcInv
  <2>2. (\A i \in Instances : \A sp : Safe(i, sp)' <=> Safe(i, sp)) /\ \A sp : Anchored(sp)' <=> Anchored(sp)
    BY <1>1 DEF Safe, Anchored
  <2> QED
    BY <1>1, <2>1, <2>2 DEF Inv, GcInv
<1> QED
  BY <1>2, <1>3, <1>4 DEF Inv

\* The last state of an instance is one of its states.
LEMMA CurrentIs ==
  ASSUME Inv, NEW i \in Instances
  PROVE  Current(i) \in hist[i] /\ Current(i) \in Entry
<1>1. PICK n \in Nat : Bounded(hist[i], n)
  BY DEF Inv, BoundInv
<1>2. hist[i] # {} /\ hist[i] \in SUBSET Entry
  BY DEF Inv, HistInv, TypeInv
<1> QED
  BY <1>1, <1>2, NewestIs DEF Current

\* An instance commits a state at a new timestamp.
LEMMA CommitInv ==
  ASSUME Inv, NEW i \in Instances, NEW b \in Blocks, NEW v \in Nat, Commit(i, b, v)
  PROVE  Inv'
<1> DEFINE s == [ts |-> now + 1, tip |-> b, view |-> v]
<1>1. /\ pend[i] = Nothing /\ now' = s.ts
      /\ hist' = [hist EXCEPT ![i] = @ \cup {s}] /\ pend' = [pend EXCEPT ![i] = s]
      /\ UNCHANGED <<best, views, entries, scores, mempoolView>> /\ UNCHANGED <<gc, safe, req>>
  BY DEF Commit, chain, redis
<1>2. s \in Entry /\ s.ts = now + 1 /\ s.tip = b /\ s.view = v /\ now \in Nat
  BY SMTT(60) DEF Inv, TypeInv, Entry
<1> HIDE DEF s
<1>3. TypeInv /\ HistInv /\ ReqInv /\ GcInv
  BY DEF Inv
<1>4. /\ hist'[i] = hist[i] \cup {s} /\ pend'[i] = s
      /\ \A j \in Instances : j # i => hist'[j] = hist[j] /\ pend'[j] = pend[j]
      /\ \A j \in Instances : hist[j] \subseteq hist'[j]
  BY <1>1, <1>3 DEF TypeInv
<1>5. TypeInv'
  BY SMTT(60), <1>1, <1>2, <1>3 DEF TypeInv
<1>6. HistInv'
  <2> SUFFICES ASSUME NEW j \in Instances
               PROVE  /\ hist'[j] # {}
                      /\ \A x \in hist'[j] : x.ts <= now'
                      /\ \A x, y \in hist'[j] : x.ts = y.ts => x = y
                      /\ entries'[j] \subseteq hist'[j]
                      /\ pend'[j] # Nothing =>
                           pend'[j] \in hist'[j] /\ \A x \in hist'[j] : x.ts <= pend'[j].ts
    BY DEF HistInv
  <2>1. \A x \in hist[j] : x.ts \in Nat /\ x.ts <= now
    BY SMTT(60), <1>3 DEF HistInv, TypeInv, Entry
  <2>2. CASE j = i
    BY SMTT(60), <1>1, <1>2, <1>3, <1>4, <2>1, <2>2 DEF HistInv
  <2>3. CASE j # i
    BY SMTT(60), <1>1, <1>2, <1>3, <1>4, <2>1, <2>3 DEF HistInv
  <2> QED
    BY <2>2, <2>3
<1>7. BoundInv'
  <2>1. PICK n \in Nat : \A j \in Instances : Bounded(hist[j], n)
    BY DEF Inv, BoundInv
  <2>2. height[b] \in Nat
    BY UnifyAssumption
  <2> DEFINE m == n + s.ts + height[b] + v
  <2>3. m \in Nat /\ m >= n /\ s.ts <= m /\ height[s.tip] <= m /\ s.view <= m
    BY SMTT(60), <1>2, <2>2
  <2> HIDE DEF m
  <2>4. ASSUME NEW j \in Instances PROVE Bounded(hist'[j], m)
    <3>1. hist[j] \in SUBSET Entry /\ \A e \in hist[j] : e.ts <= n /\ height[e.tip] <= n /\ e.view <= n
      BY <2>1 DEF Bounded
    <3>2. \A e \in Entry : e.ts \in Nat /\ height[e.tip] \in Nat /\ e.view \in Nat
      BY UnifyAssumption DEF Entry
    <3>3. \A e \in hist[j] : e.ts <= m /\ height[e.tip] <= m /\ e.view <= m
      BY SMTT(60), <2>3, <3>1, <3>2
    <3> QED
      BY <1>2, <1>4, <2>3, <3>1, <3>3 DEF Bounded
  <2> QED
    BY <2>3, <2>4 DEF BoundInv
<1>8. ReqInv'
  BY <1>1, <1>3, <1>4 DEF ReqInv
<1>9. GcInv'
  <2>1. safe' <= now' /\ gc'.sp <= now' /\ NotBefore(s, safe) /\ NotBefore(s, gc.sp)
    <3>1. /\ safe \in Nat /\ gc.sp \in Nat /\ s.ts \in Nat /\ gc' = gc /\ safe' = safe /\ now' = s.ts
          /\ safe <= s.ts /\ gc.sp <= s.ts
      BY SMTT(60), <1>1, <1>2, <1>3 DEF TypeInv, GcInv
    <3>2. Physical(safe) <= Physical(s.ts) /\ Physical(gc.sp) <= Physical(s.ts)
          /\ Physical(safe) \in Nat /\ Physical(gc.sp) \in Nat /\ Physical(s.ts) \in Nat
      BY <3>1, PhysicalFacts
    <3> QED
      BY <3>1, <3>2 DEF NotBefore
  <2>2. \A sp : Anchored(sp)' <=> Anchored(sp)
    BY <1>1 DEF Anchored
  <2>3. /\ \A j \in Instances : Safe(j, safe) => Safe(j, safe)'
        /\ \A j \in Instances : Safe(j, gc.sp) => Safe(j, gc.sp)'
    <3>1. \A j \in Instances : pend'[j] = s \/ pend'[j] = pend[j]
      BY <1>4
    <3>2. \A e, sp : NotBefore(e, sp)' <=> NotBefore(e, sp)
      BY DEF NotBefore
    <3> QED
      BY <1>1, <2>1, <3>1, <3>2 DEF Safe
  <2>4. gc.pc = "delete" => \A j \in Instances : pend'[j] # Nothing => NotBefore(pend'[j], gc.sp)
    BY <1>3, <1>4, <2>1 DEF GcInv
  <2> QED
    BY <1>1, <1>3, <2>1, <2>2, <2>3, <2>4 DEF GcInv
<1> QED
  BY <1>5, <1>6, <1>7, <1>8, <1>9 DEF Inv

\* A block, a rollback or a mempool view is applied.
LEMMA WorkerInv ==
  ASSUME Inv, NEW i \in Instances, RollForward(i) \/ RollBack(i) \/ MempoolRefresh(i)
  PROVE  Inv'
<1>1. NoView \in Nat /\ Current(i).tip \in Blocks /\ Len(views) \in Nat
  BY SMTT(60), CurrentIs, UnifyAssumption DEF Entry, Inv, TypeInv
<1>2. CASE RollForward(i)
  BY <1>1, <1>2, CommitInv DEF RollForward
<1>3. CASE RollBack(i)
  BY <1>1, <1>3, CommitInv DEF RollBack
<1>4. CASE MempoolRefresh(i)
  BY <1>1, <1>4, CommitInv DEF MempoolRefresh
<1> QED
  BY <1>2, <1>3, <1>4

\* The state that was committed last is published.
LEMMA PublishInv ==
  ASSUME Inv, NEW i \in Instances, InsertTimestampEntry(i)
  PROVE  Inv'
<1> DEFINE e == pend[i]
<1>1. /\ e # Nothing /\ entries' = [entries EXCEPT ![i] = @ \cup {e}]
      /\ pend' = [pend EXCEPT ![i] = Nothing]
      /\ UNCHANGED <<now, best, views, hist>> /\ UNCHANGED <<gc, safe, req>>
      /\ scores' \in {Put(scores, i, height[e.tip]), scores}
      /\ e.view # NoView => mempoolView' = Put(mempoolView, i, e.view)
      /\ e.view = NoView => mempoolView' = mempoolView
  BY DEF InsertTimestampEntry, chain
<1>2. TypeInv /\ HistInv /\ ReqInv /\ GcInv /\ BoundInv
  BY DEF Inv
<1>3. e \in hist[i] /\ e \in Entry /\ height[e.tip] \in Nat /\ e.view \in Nat
  BY <1>1, <1>2, UnifyAssumption DEF TypeInv, HistInv, Entry
<1> HIDE DEF e
<1>4. /\ entries'[i] = entries[i] \cup {e} /\ pend'[i] = Nothing
      /\ \A j \in Instances : j # i => entries'[j] = entries[j] /\ pend'[j] = pend[j]
      /\ \A j \in Instances : entries[j] \subseteq entries'[j]
  BY <1>1, <1>2 DEF TypeInv
<1>5. TypeInv'
  <2>1. ASSUME NEW f, NEW x \in Nat, Registry(f) PROVE Registry(Put(f, i, x))
    <3>1. DOMAIN Put(f, i, x) = DOMAIN f \cup {i} /\ Put(f, i, x)[i] = x
          /\ \A j \in DOMAIN f : j # i => Put(f, i, x)[j] = f[j]
      BY DEF Put
    <3> QED
      BY <2>1, <3>1 DEF Registry
  <2>2. Registry(scores') /\ Registry(mempoolView')
    BY <1>1, <1>2, <1>3, <2>1 DEF TypeInv
  <2>3. entries' \in [Instances -> SUBSET Entry] /\ pend' \in [Instances -> Entry \cup {Nothing}]
    BY <1>1, <1>2, <1>3 DEF TypeInv
  <2> QED
    BY <1>1, <1>2, <2>2, <2>3 DEF TypeInv, Registry
<1>6. HistInv'
  BY SMTT(60), <1>1, <1>2, <1>3, <1>4 DEF HistInv
<1>7. BoundInv' /\ ReqInv'
  BY <1>1, <1>2 DEF BoundInv, ReqInv
<1>8. GcInv'
  <2>1. \A j \in Instances : \A sp : Safe(j, sp) => Safe(j, sp)'
    <3> SUFFICES ASSUME NEW j \in Instances, NEW sp, Safe(j, sp)
                 PROVE  /\ \A x \in entries'[j] : NotBefore(x, sp)
                        /\ pend'[j] # Nothing => NotBefore(pend'[j], sp)
      BY DEF Safe, NotBefore
    <3>1. CASE j = i
      BY <1>1, <1>4, <3>1 DEF Safe, e
    <3>2. CASE j # i
      BY <1>4, <3>2 DEF Safe
    <3> QED
      BY <3>1, <3>2
  <2>2. \A sp : Anchored(sp) => Anchored(sp)'
    BY <1>4 DEF Anchored, At, OnChain, NotBefore
  <2>3. \A j \in Instances : pend'[j] # Nothing => pend'[j] = pend[j]
    BY <1>4
  <2> QED
    BY <1>1, <1>2, <1>4, <2>1, <2>2, <2>3 DEF GcInv, NotBefore
<1> QED
  BY <1>5, <1>6, <1>7, <1>8 DEF Inv

\* A process dies with its unpublished state.
LEMMA RestartInv ==
  ASSUME Inv, NEW i \in Instances, Restart(i)
  PROVE  Inv'
<1>1. /\ pend' = [pend EXCEPT ![i] = Nothing]
      /\ UNCHANGED <<now, best, views, hist, entries, scores, mempoolView>> /\ UNCHANGED <<gc, safe, req>>
  BY DEF Restart, chain, redis
<1>2. TypeInv /\ HistInv /\ ReqInv /\ GcInv /\ BoundInv
  BY DEF Inv
<1>3. \A j \in Instances : pend'[j] # Nothing => pend'[j] = pend[j]
  BY <1>1, <1>2 DEF TypeInv
<1>4. TypeInv' /\ BoundInv' /\ ReqInv'
  BY <1>1, <1>2 DEF TypeInv, BoundInv, ReqInv
<1>5. HistInv'
  BY <1>1, <1>2, <1>3 DEF HistInv
<1>6. GcInv'
  <2>1. (\A j \in Instances : \A sp : Safe(j, sp) => Safe(j, sp)') /\ \A sp : Anchored(sp) => Anchored(sp)'
    BY <1>1, <1>3 DEF Safe, Anchored, NotBefore
  <2> QED
    BY <1>1, <1>2, <1>3, <2>1 DEF GcInv, NotBefore
<1> QED
  BY <1>4, <1>5, <1>6 DEF Inv

-----------------------------------------------------------------------------
(* tikv-gc. *)

\* The least of a set of natural numbers.
LEMMA MinIs ==
  ASSUME NEW T \in SUBSET Nat, T # {}
  PROVE  Min(T) \in T /\ \A x \in T : Min(T) <= x
<1>1. PICK x \in T : \A y \in T : x <= y
  BY LeastNatural
<1> QED
  BY <1>1 DEF Min

\* The job reads the entries of one more instance.
LEMMA GcFetchInv ==
  ASSUME Inv, NEW i \in Instances, GcFetch(i)
  PROVE  Inv'
<1>1. /\ gc.pc \in {"idle", "fetch"} /\ gc' = [gc EXCEPT !.pc = "fetch", !.map = Put(@, i, entries[i])]
      /\ UNCHANGED <<now, best, views, hist, pend, entries, scores, mempoolView>> /\ UNCHANGED <<safe, req>>
  BY DEF GcFetch, chain, workers, redis
<1>2. TypeInv /\ HistInv /\ ReqInv /\ GcInv /\ BoundInv
  BY DEF Inv
<1>3. IsJob(gc') /\ gc'.pc = "fetch" /\ gc'.sp = gc.sp /\ gc'.map = Put(gc.map, i, entries[i])
  BY <1>1, <1>2 DEF TypeInv, IsJob
<1>4. /\ DOMAIN gc'.map = DOMAIN gc.map \cup {i} /\ gc'.map[i] = entries[i]
      /\ \A j \in DOMAIN gc.map : j # i => gc'.map[j] = gc.map[j]
  BY <1>3 DEF Put
<1>5. DOMAIN gc.map \subseteq Instances /\ \A j \in DOMAIN gc.map : gc.map[j] \subseteq entries[j]
  <2>1. CASE gc.pc = "idle"
    BY SMTT(60), <1>2, <2>1 DEF GcInv
  <2>2. CASE gc.pc = "fetch"
    BY <1>2, <2>2 DEF GcInv
  <2> QED
    BY <1>1, <2>1, <2>2
<1>6. TypeInv' /\ HistInv' /\ BoundInv' /\ ReqInv'
  BY <1>1, <1>2, <1>3 DEF TypeInv, HistInv, BoundInv, ReqInv
<1>7. GcInv'
  <2>1. (\A j \in Instances : \A sp : Safe(j, sp)' <=> Safe(j, sp)) /\ \A sp : Anchored(sp)' <=> Anchored(sp)
    BY <1>1 DEF Safe, Anchored, NotBefore
  <2> QED
    BY <1>1, <1>2, <1>3, <1>4, <1>5, <2>1 DEF GcInv
<1> QED
  BY <1>6, <1>7 DEF Inv

\* The safepoint is not after the last state of an instance, and there is a
\* block of which every instance has an entry at or after the safepoint.
LEMMA SafepointFacts ==
  ASSUME NEW em, NEW n \in Nat, \A j \in DOMAIN em : Bounded(em[j], n), CanChoose(em),
         NEW k \in DOMAIN em, NEW t \in Nat
  PROVE  /\ Safepoint(em, k, t, Zone) \in Nat
         /\ \A j \in DOMAIN em : \E e \in em[j] : Safepoint(em, k, t, Zone) <= e.ts
         /\ \E b \in Blocks : \A j \in DOMAIN em : \E e \in At(em[j], b) : Safepoint(em, k, t, Zone) <= e.ts
<1> DEFINE T == {Last(OnChain(em[j])).ts : j \in DOMAIN em}
           b == Previous(em, k, FindBestCommonBlock(em, k))
           U == {Newest(At(em[j], b)).ts : j \in DOMAIN em}
           sp == Safepoint(em, k, t, Zone)
<1>1. \A j \in DOMAIN em : em[j] \in SUBSET Entry /\ \A e \in em[j] : e.ts \in Nat
  BY DEF Bounded, Entry
<1>2. \A j \in DOMAIN em : Last(OnChain(em[j])) \in em[j]
  <2> SUFFICES ASSUME NEW j \in DOMAIN em PROVE Last(OnChain(em[j])) \in em[j]
    OBVIOUS
  <2>1. OnChain(em[j]) \in SUBSET em[j] /\ OnChain(em[j]) # {}
    BY DEF OnChain, CanChoose
  <2> QED
    BY <2>1, BoundedPart, LastIs
<1>3. b \in Common(em)
  <2>1. FindBestCommonBlock(em, k) \in Common(em)
    BY BestIsCommon DEF CanChoose
  <2> DEFINE es == {e \in Shared(em, k) : /\ height[FindBestCommonBlock(em, k)] > 0
                                          /\ height[e.tip] = height[FindBestCommonBlock(em, k)] - 1}
  <2>2. es \in SUBSET em[k] /\ \A e \in es : e.tip \in Common(em)
    BY DEF Shared, OnChain
  <2>3. es # {} => Last(es) \in es
    <3> HIDE DEF es
    <3> QED
      BY <2>2, BoundedPart, LastIs
  <2>4. b = IF es = {} THEN FindBestCommonBlock(em, k) ELSE Last(es).tip
    BY DEF Previous
  <2> HIDE DEF es, b
  <2> QED
    BY <2>1, <2>2, <2>3, <2>4
<1> HIDE DEF b
<1>4. \A j \in DOMAIN em : Newest(At(em[j], b)) \in At(em[j], b) /\ Newest(At(em[j], b)) \in em[j]
  <2> SUFFICES ASSUME NEW j \in DOMAIN em
               PROVE  Newest(At(em[j], b)) \in At(em[j], b) /\ Newest(At(em[j], b)) \in em[j]
    OBVIOUS
  <2>1. At(em[j], b) \in SUBSET em[j] /\ At(em[j], b) # {}
    BY <1>3 DEF At, OnChain, Common
  <2> QED
    BY <2>1, BoundedPart, NewestIs
<1>5. T \in SUBSET Nat /\ T # {} /\ U \in SUBSET Nat /\ U # {}
  BY <1>1, <1>2, <1>4
<1>6. EarliestChaintip(em) = Min(T) /\ NetworkIntersection(em, k) = Min(U)
  BY DEF EarliestChaintip, NetworkIntersection, b
<1> HIDE DEF T, U
<1>7. /\ Min(T) \in Nat /\ Min(U) \in Nat
      /\ (\A x \in T : Min(T) <= x) /\ \A x \in U : Min(U) <= x
  BY <1>5, MinIs
<1>8. SafeZone(t, Zone) \in Nat
  <2>1. Physical(t) \in Nat /\ Zone \in Nat /\ Ticks \in Nat
    BY PhysicalFacts, ReadsAssumption, UnifyAssumption
  <2>2. \A x, y \in Nat : x * y \in Nat
    BY SMTT(60)
  <2>3. ~ (Physical(t) < Zone) => Physical(t) - Zone \in Nat
    BY SMTT(60), <2>1
  <2> QED
    BY <2>1, <2>2, <2>3 DEF SafeZone
<1>9. sp \in Nat /\ sp <= Min(T) /\ sp <= Min(U)
  <2>1. sp = Min({Min(T), SafeZone(t, Zone), Min(U)})
    BY <1>6 DEF Safepoint
  <2>2. {Min(T), SafeZone(t, Zone), Min(U)} \in SUBSET Nat
    BY <1>7, <1>8
  <2> QED
    BY <2>1, <2>2, MinIs
<1> HIDE DEF sp
<1>10. ASSUME NEW j \in DOMAIN em PROVE \E e \in em[j] : sp <= e.ts
  <2>1. Min(T) <= Last(OnChain(em[j])).ts /\ Last(OnChain(em[j])).ts \in Nat
    BY <1>1, <1>2, <1>7 DEF T
  <2> QED
    BY SMTT(60), <1>2, <1>7, <1>9, <2>1
<1>11. ASSUME NEW j \in DOMAIN em PROVE \E e \in At(em[j], b) : sp <= e.ts
  <2>1. Min(U) <= Newest(At(em[j], b)).ts /\ Newest(At(em[j], b)).ts \in Nat
    BY <1>1, <1>4, <1>7 DEF U
  <2> QED
    BY SMTT(60), <1>4, <1>7, <1>9, <2>1
<1> QED
  BY <1>3, <1>9, <1>10, <1>11 DEF sp, Common

\* The job chooses a safepoint.
LEMMA GcChooseInv ==
  ASSUME Inv, GcChoose
  PROVE  Inv'
<1>1. PICK k \in DOMAIN gc.map : gc' = [gc EXCEPT !.pc = "delete", !.sp = Safepoint(gc.map, k, now, Zone)]
  BY DEF GcChoose
<1>2. /\ gc.pc = "fetch" /\ Keys = DOMAIN gc.map /\ CanChoose(gc.map)
      /\ UNCHANGED <<now, best, views, hist, pend, entries, scores, mempoolView>> /\ UNCHANGED <<safe, req>>
  BY DEF GcChoose, chain, workers, redis
<1>3. TypeInv /\ HistInv /\ ReqInv /\ GcInv /\ BoundInv
  BY DEF Inv
<1> DEFINE sp == Safepoint(gc.map, k, now, Zone)
<1>4. IsJob(gc') /\ gc'.pc = "delete" /\ gc'.sp = sp /\ gc'.map = gc.map
  BY <1>1, <1>3 DEF TypeInv, IsJob
<1>5. DOMAIN gc.map = Instances /\ \A i \in Instances : gc.map[i] \subseteq entries[i]
  <2>1. \A i \in Instances : entries[i] # {}
    BY <1>3 DEF GcInv, Anchored, At, OnChain
  <2> QED
    BY <1>2, <1>3, <2>1 DEF Keys, GcInv
<1>6. PICK n \in Nat : \A i \in Instances : Bounded(hist[i], n)
  BY <1>3 DEF BoundInv
<1>7. \A i \in Instances : gc.map[i] \subseteq hist[i] /\ Bounded(gc.map[i], n)
  BY <1>3, <1>5, <1>6, BoundedPart DEF HistInv
<1>8. /\ sp \in Nat
      /\ \A i \in Instances : \E e \in gc.map[i] : sp <= e.ts
      /\ \E b \in Blocks : \A i \in Instances : \E e \in At(gc.map[i], b) : sp <= e.ts
  <2>1. now \in Nat
    BY <1>3 DEF TypeInv
  <2> QED
    BY <1>2, <1>5, <1>7, <2>1, SafepointFacts
<1> HIDE DEF sp
<1>9. \A i \in Instances : \A e \in hist[i] : e.ts \in Nat /\ e.ts <= now
  BY SMTT(60), <1>3 DEF HistInv, TypeInv, Entry
<1>10. sp <= now
  <2>1. k \in Instances /\ now \in Nat
    BY <1>3, <1>5 DEF TypeInv
  <2>2. PICK e \in gc.map[k] : sp <= e.ts
    BY <1>8, <2>1
  <2>3. e.ts \in Nat /\ e.ts <= now
    BY <1>7, <1>9, <2>1
  <2> QED
    BY SMTT(60), <1>8, <2>1, <2>2, <2>3
<1>11. TypeInv' /\ HistInv' /\ BoundInv' /\ ReqInv'
  BY <1>2, <1>3, <1>4, <1>8 DEF TypeInv, HistInv, BoundInv, ReqInv
<1>12. \A e \in Entry : sp <= e.ts => NotBefore(e, sp)
  <2> SUFFICES ASSUME NEW e \in Entry, sp <= e.ts PROVE NotBefore(e, sp)
    OBVIOUS
  <2>1. e.ts \in Nat
    BY DEF Entry
  <2>2. Physical(sp) <= Physical(e.ts) /\ Physical(sp) \in Nat /\ Physical(e.ts) \in Nat
    BY <1>8, <2>1, PhysicalFacts
  <2> QED
    BY <2>2 DEF NotBefore
<1>13. Anchored(sp)
  <2>1. PICK b \in Blocks : \A i \in Instances : \E e \in At(gc.map[i], b) : sp <= e.ts
    BY <1>8
  <2>2. ASSUME NEW i \in Instances PROVE \E e \in At(entries[i], b) : NotBefore(e, sp)
    <3>1. PICK e \in At(gc.map[i], b) : sp <= e.ts
      BY <2>1
    <3>2. e \in At(entries[i], b) /\ e \in Entry
      BY <1>3, <1>5 DEF At, OnChain, TypeInv
    <3> QED
      BY <1>12, <3>1, <3>2
  <2> QED
    BY <2>2 DEF Anchored
<1>14. ASSUME NEW i \in Instances, pend[i] # Nothing PROVE NotBefore(pend[i], sp)
  <2>1. PICK e \in gc.map[i] : sp <= e.ts
    BY <1>8
  <2>2. e.ts \in Nat /\ e.ts <= pend[i].ts /\ pend[i] \in Entry /\ pend[i].ts \in Nat
    BY <1>3, <1>7, <1>9, <1>14 DEF HistInv, TypeInv, Entry
  <2>3. sp <= pend[i].ts
    BY SMTT(60), <1>8, <2>1, <2>2
  <2> QED
    BY <1>12, <2>2, <2>3
<1>15. GcInv'
  <2>1. (\A j \in Instances : \A x : Safe(j, x)' <=> Safe(j, x)) /\ \A x : Anchored(x)' <=> Anchored(x)
    BY <1>2 DEF Safe, Anchored, NotBefore
  <2> QED
    BY <1>2, <1>3, <1>4, <1>5, <1>10, <1>13, <1>14, <2>1 DEF GcInv
<1> QED
  BY <1>11, <1>15 DEF Inv

\* The entries before the safepoint leave Redis, one instance at a time.
LEMMA GcDeleteInv ==
  ASSUME Inv, NEW i \in Instances, GcDelete(i)
  PROVE  Inv'
<1>1. /\ gc.pc = "delete" /\ i \in DOMAIN gc.map
      /\ entries' = [entries EXCEPT ![i] = Kept(@, gc.sp)]
      /\ gc' = [gc EXCEPT !.map = [j \in DOMAIN @ \ {i} |-> @[j]]]
      /\ UNCHANGED <<now, best, views, hist, pend, scores, mempoolView>> /\ UNCHANGED <<safe, req>>
  BY DEF GcDelete, chain, workers
<1>2. TypeInv /\ HistInv /\ ReqInv /\ GcInv /\ BoundInv
  BY DEF Inv
<1>3. IsJob(gc') /\ gc'.pc = "delete" /\ gc'.sp = gc.sp /\ DOMAIN gc'.map = DOMAIN gc.map \ {i}
  BY <1>1, <1>2 DEF TypeInv, IsJob
<1>4. /\ entries'[i] = {e \in entries[i] : NotBefore(e, gc.sp)}
      /\ \A j \in Instances : j # i => entries'[j] = entries[j]
      /\ \A j \in Instances : entries'[j] \subseteq entries[j]
      /\ \A j \in Instances : \A e \in entries[j] : NotBefore(e, gc.sp) => e \in entries'[j]
  BY <1>1, <1>2 DEF TypeInv, Kept, NotBefore
<1>5. TypeInv'
  <2>1. entries' \in [Instances -> SUBSET Entry]
    BY <1>1, <1>2 DEF TypeInv, Kept
  <2> QED
    BY <1>1, <1>2, <1>3, <2>1 DEF TypeInv
<1>6. HistInv'
  BY <1>1, <1>2, <1>4 DEF HistInv
<1>7. BoundInv' /\ ReqInv'
  BY <1>1, <1>2 DEF BoundInv, ReqInv
<1>8. GcInv'
  <2>1. \A j \in Instances : \A sp : Safe(j, sp) => Safe(j, sp)'
    BY <1>1, <1>4 DEF Safe, NotBefore
  <2>2. Anchored(gc.sp)'
    BY SMTT(60), <1>1, <1>2, <1>3, <1>4 DEF GcInv, Anchored, At, OnChain, NotBefore
  <2>3. Anchored(0)'
    <3>1. ASSUME NEW e \in Entry PROVE NotBefore(e, 0)
      <4>1. e.ts \in Nat
        BY DEF Entry
      <4>2. Physical(e.ts) \in Nat /\ Physical(0) = 0
        BY <4>1, PhysicalFacts
      <4> QED
        BY SMTT(60), <4>2 DEF NotBefore
    <3>2. \A j \in Instances, b \in Blocks : At(entries'[j], b) \subseteq Entry
      BY <1>5 DEF At, OnChain, TypeInv
    <3> QED
      BY <2>2, <3>1, <3>2 DEF Anchored, NotBefore
  <2>4. Safe(i, gc.sp)'
    BY <1>1, <1>2, <1>3, <1>4 DEF Safe, GcInv, NotBefore
  <2> QED
    BY <1>1, <1>2, <1>3, <2>1, <2>2, <2>3, <2>4 DEF GcInv, NotBefore
<1> QED
  BY <1>5, <1>6, <1>7, <1>8 DEF Inv

\* The safepoint of TiKV is moved.
LEMMA LegacyGcInv ==
  ASSUME Inv, LegacyGc
  PROVE  Inv'
<1>1. /\ gc.pc = "delete" /\ DOMAIN gc.map = {} /\ safe' = Max({safe, gc.sp}) /\ gc' = NoJob
      /\ UNCHANGED <<now, best, views, hist, pend, entries, scores, mempoolView>> /\ req' = req
  BY DEF LegacyGc, chain, workers, redis
<1>2. TypeInv /\ HistInv /\ ReqInv /\ GcInv /\ BoundInv
  BY DEF Inv
<1>3. safe' \in {safe, gc.sp} /\ safe' \in Nat
  <2>1. safe \in Nat /\ gc.sp \in Nat
    BY <1>2 DEF TypeInv
  <2>2. \E x \in {safe, gc.sp} : \A y \in {safe, gc.sp} : x >= y
    BY SMTT(60), <2>1
  <2> QED
    BY <1>1, <2>1, <2>2 DEF Max
<1>4. IsJob(gc') /\ gc'.pc = "idle" /\ gc'.sp = 0 /\ gc'.map = <<>>
  BY <1>1 DEF IsJob, NoJob
<1>5. TypeInv' /\ HistInv' /\ BoundInv' /\ ReqInv'
  <2>1. TypeInv'
    BY SMTT(60), <1>1, <1>2, <1>3, <1>4 DEF TypeInv
  <2>2. HistInv' /\ BoundInv'
    BY <1>1, <1>2 DEF HistInv, BoundInv
  <2>3. ReqInv'
    BY <1>1, <1>2 DEF ReqInv
  <2> QED
    BY <2>1, <2>2, <2>3
<1>6. GcInv'
  <2>1. Anchored(0)'
    BY <1>1, <1>2 DEF GcInv, Anchored
  <2>2. \A j \in Instances : Safe(j, safe) /\ Safe(j, gc.sp)
    BY <1>1, <1>2 DEF GcInv
  <2>3. safe' <= now' /\ gc'.sp <= now'
    BY SMTT(60), <1>1, <1>2, <1>3, <1>4 DEF GcInv, TypeInv
  <2>4. \A j \in Instances : Safe(j, safe')
    BY <1>3, <2>2
  <2>5. \A j \in Instances : Safe(j, safe)'
    BY <1>1, <2>4 DEF Safe, NotBefore
  <2> QED
    BY <1>4, <2>1, <2>3, <2>5 DEF GcInv
<1> QED
  BY <1>5, <1>6 DEF Inv

-----------------------------------------------------------------------------
(* Requests. *)

\* A step of a request leaves the instances and the job alone.
LEMMA RequestKeeps ==
  ASSUME Inv, UNCHANGED <<now, chain, workers, redis, gc, safe, counters>>,
         IsRequest(req'), req'.pc \in {"idle", "fetch", "read"}, ReqInv'
  PROVE  Inv'
<1>1. UNCHANGED <<now, best, views, hist, pend, entries, scores, mempoolView>> /\ UNCHANGED <<gc, safe>>
  BY DEF chain, workers, redis
<1>2. TypeInv' /\ HistInv' /\ BoundInv'
  BY SMTT(60), <1>1 DEF Inv, TypeInv, HistInv, BoundInv
<1>3. GcInv'
  <2>1. (\A j \in Instances : \A x : Safe(j, x)' <=> Safe(j, x)) /\ \A x : Anchored(x)' <=> Anchored(x)
    BY <1>1 DEF Safe, Anchored, NotBefore
  <2> QED
    BY <1>1, <2>1 DEF Inv, GcInv, NotBefore
<1> QED
  BY <1>2, <1>3 DEF Inv

\* A request that is over keeps nothing.
LEMMA NoRequestFacts == IsRequest(NoRequest) /\ NoRequest.pc = "idle"
BY DEF IsRequest, NoRequest

\* A request gets its instances.
LEMMA BeginInv ==
  ASSUME Inv, NEW kind, Begin(kind)
  PROVE  Inv'
<1>1. UNCHANGED <<now, chain, workers, redis, gc, safe, counters>>
  BY DEF Begin
<1>2. PICK inst \in Resolve(kind) :
        req' = [NoRequest EXCEPT !.pc = "fetch", !.kind = kind, !.inst = inst]
  BY DEF Begin
<1>3. IsRequest(req') /\ req'.pc = "fetch" /\ req'.inst = inst /\ req'.map = <<>>
  BY <1>2 DEF IsRequest, NoRequest
<1>4. \A r \in DOMAIN inst : inst[r] \in Instances
  BY ResolvedInstances DEF Inv, TypeInv
<1>5. ReqInv'
  BY SMTT(60), <1>3, <1>4 DEF ReqInv
<1> QED
  BY <1>1, <1>3, <1>5, RequestKeeps

\* A request reads the entries of one of its instances.
LEMMA FetchEntriesInv ==
  ASSUME Inv, NEW r, FetchEntries(r)
  PROVE  Inv'
<1>1. /\ UNCHANGED <<now, chain, workers, redis, gc, safe, counters>>
      /\ req.pc = "fetch" /\ r \in DOMAIN req.inst \ DOMAIN req.map
  BY DEF FetchEntries
<1>2. CASE req' = NoRequest
  <2>1. ReqInv'
    BY <1>2, NoRequestFacts DEF ReqInv
  <2> QED
    BY <1>1, <1>2, <2>1, NoRequestFacts, RequestKeeps
<1>3. CASE req' = [req EXCEPT !.map = Put(@, r, entries[req.inst[r]])]
  <2>1. /\ IsRequest(req') /\ req'.pc = "fetch" /\ req'.inst = req.inst
        /\ req'.map = Put(req.map, r, entries[req.inst[r]])
    BY <1>1, <1>3 DEF Inv, TypeInv, IsRequest
  <2>2. /\ DOMAIN req'.map = DOMAIN req.map \cup {r} /\ req'.map[r] = entries[req.inst[r]]
        /\ \A q \in DOMAIN req.map : q # r => req'.map[q] = req.map[q]
    BY <2>1 DEF Put
  <2>3. entries[req.inst[r]] \subseteq hist[req.inst[r]] /\ hist' = hist
    BY <1>1 DEF Inv, ReqInv, HistInv, workers
  <2>4. ReqInv'
    BY <1>1, <2>1, <2>2, <2>3 DEF Inv, ReqInv
  <2> QED
    BY <1>1, <2>1, <2>4, RequestKeeps
<1> QED
  BY <1>2, <1>3 DEF FetchEntries

\* A request chooses its snapshots.
LEMMA StartSnapshotsInv ==
  ASSUME Inv, StartSnapshots
  PROVE  Inv'
<1>1. /\ UNCHANGED <<now, chain, workers, redis, gc, safe, counters>>
      /\ req.pc = "fetch" /\ DOMAIN req.map = DOMAIN req.inst
  BY DEF StartSnapshots
<1>2. CASE req' = NoRequest
  <2>1. ReqInv'
    BY <1>2, NoRequestFacts DEF ReqInv
  <2> QED
    BY <1>1, <1>2, <2>1, NoRequestFacts, RequestKeeps
<1>3. CASE \E p \in Plans(req.kind, req.map) : req' = [req EXCEPT !.pc = "read", !.plan = p]
  <2>1. PICK p \in Plans(req.kind, req.map) : req' = [req EXCEPT !.pc = "read", !.plan = p]
    BY <1>3
  <2>2. /\ IsRequest(req') /\ req'.pc = "read" /\ req'.inst = req.inst /\ req'.map = req.map
        /\ req'.plan = p
    BY <2>1 DEF Inv, TypeInv, IsRequest
  <2>3. PICK n \in Nat : \A i \in Instances : Bounded(hist[i], n)
    BY DEF Inv, BoundInv
  <2>4. \A q \in DOMAIN req.map : Bounded(req.map[q], n)
    BY SMTT(60), <1>1, <2>3, BoundedPart DEF Inv, ReqInv
  <2>5. Exact(req.map, p)
    BY <2>4, PlansExact
  <2>6. ReqInv'
    BY <1>1, <2>2, <2>5 DEF Inv, ReqInv, workers
  <2> QED
    BY <1>1, <2>2, <2>6, RequestKeeps
<1> QED
  BY <1>2, <1>3 DEF StartSnapshots

\* A request is answered.
LEMMA AnswerInv ==
  ASSUME Inv, Answer
  PROVE  Inv'
<1>1. UNCHANGED <<now, chain, workers, redis, gc, safe, counters>> /\ req' = NoRequest
  BY DEF Answer
<1>2. ReqInv'
  BY <1>1, NoRequestFacts DEF ReqInv
<1> QED
  BY <1>1, <1>2, NoRequestFacts, RequestKeeps

-----------------------------------------------------------------------------

\* The invariant holds in every state.
LEMMA Inductive == Spec => []Inv
<1>1. Inv /\ [Next]_vars => Inv'
  BY QuietInv, WorkerInv, PublishInv, RestartInv, GcFetchInv, GcChooseInv, GcDeleteInv, LegacyGcInv,
     BeginInv, FetchEntriesInv, StartSnapshotsInv, AnswerInv
     DEF Next
<1> QED
  BY <1>1, InitInv, PTL DEF Spec

\* The states of an instance have natural numbers as timestamps.
LEMMA StateTimes ==
  ASSUME Inv, NEW i \in Instances, NEW s \in hist[i]
  PROVE  s.ts \in Nat
<1>1. s \in Entry
  BY DEF Inv, TypeInv
<1> QED
  BY <1>1 DEF Entry

\* The snapshot at the timestamp of a state shows that state.
LEMMA ShownIs ==
  ASSUME Inv, NEW i \in Instances, NEW e \in hist[i]
  PROVE  Shown(i, e.ts) = e
<1> DEFINE S == {s \in hist[i] : s.ts <= e.ts}
<1>1. PICK n \in Nat : Bounded(hist[i], n)
  BY DEF Inv, BoundInv
<1>2. e.ts \in Nat /\ e \in S /\ S \in SUBSET hist[i] /\ \A s \in hist[i] : s.ts \in Nat
  BY SMTT(60), StateTimes
<1>3. Newest(S) \in S /\ \A s \in S : s.ts <= Newest(S).ts
  <2> HIDE DEF S
  <2> QED
    BY <1>1, <1>2, BoundedPart, NewestIs
<1>4. Newest(S).ts = e.ts
  BY SMTT(60), <1>2, <1>3
<1> QED
  BY <1>2, <1>3, <1>4 DEF Shown, Inv, HistInv

\* Every table of a response is read at the block and the mempool view that the
\* response names, whatever instances, forks, views, restarts and collections
\* there are (init_tip and init_mempool of adapter.rs).
THEOREM ResponsesUnified == Spec => []UnifiedView
<1>1. Inv => UnifiedView
  <2> SUFFICES ASSUME Inv, req.pc = "read", NEW r \in DOMAIN req.plan.snap
               PROVE  /\ Shown(req.inst[r], req.plan.snap[r]).tip = req.plan.tip
                      /\ Shown(req.inst[r], req.plan.snap[r]).view = req.plan.view
    BY DEF UnifiedView
  <2>1. /\ r \in DOMAIN req.map /\ req.inst[r] \in Instances /\ req.map[r] \subseteq hist[req.inst[r]]
        /\ Exact(req.map, req.plan)
    BY DEF Inv, ReqInv, Exact
  <2>2. PICK e \in req.map[r] : /\ e.ts = req.plan.snap[r]
                                /\ e.tip = req.plan.tip /\ e.view = req.plan.view
    BY <2>1 DEF Exact
  <2> QED
    BY <2>1, <2>2, ShownIs
<1> QED
  BY <1>1, Inductive, PTL

\* No instance has committed two states in one millisecond, the unit of the
\* scores by which tikv-gc deletes entries.
Apart == \A i \in Instances : \A s, t \in hist[i] : Physical(s.ts) = Physical(t.ts) => s = t

\* As long as no instance commits twice in one millisecond, a request made at any
\* moment, also in the middle of the tikv-gc job, finds a common block, and none
\* of the versions that it reads has been collected (find_network_intersection,
\* delete_old_timestamp_entries and legacy_gc of tikv-gc).
THEOREM RequestsReadable == Spec => [](Apart => FreshRequest)
<1>1. Inv => (Apart => FreshRequest)
  <2> SUFFICES ASSUME Inv, Apart, NEW kind, NEW inst \in Resolve(kind)
               PROVE  LET em == [r \in DOMAIN inst |-> entries[inst[r]]]
                      IN  /\ Plans(kind, em) # {}
                          /\ \A p \in Plans(kind, em) : \A r \in DOMAIN inst : Readable(inst[r], p.snap[r])
    BY DEF FreshRequest
  <2> DEFINE em == [r \in DOMAIN inst |-> entries[inst[r]]]
  <2>1. DOMAIN inst # {} /\ \A r \in DOMAIN inst : inst[r] \in Instances
    BY ResolvedInstances DEF Inv, TypeInv
  <2>2. PICK n \in Nat : \A i \in Instances : Bounded(hist[i], n)
    BY DEF Inv, BoundInv
  <2>3. /\ DOMAIN em = DOMAIN inst
        /\ \A r \in DOMAIN em : em[r] = entries[inst[r]] /\ em[r] \in SUBSET hist[inst[r]]
    BY <2>1 DEF Inv, HistInv
  <2> HIDE DEF em
  <2>4. \A r \in DOMAIN em : Bounded(em[r], n)
    BY <2>1, <2>2, <2>3, BoundedPart
  <2>5. Common(em) # {}
    BY <2>1, <2>3 DEF Inv, GcInv, Anchored, Common
  <2>6. Plans(kind, em) # {}
    BY <2>1, <2>3, <2>4, <2>5, PlansExist
  <2>7. ASSUME NEW p \in Plans(kind, em), NEW r \in DOMAIN inst, NEW s \in hist[inst[r]],
               p.snap[r] < s.ts, s.ts <= safe
        PROVE  FALSE
    <3>1. PICK e \in entries[inst[r]] : e.ts = p.snap[r]
      BY SMTT(60), <2>3, <2>4, PlansExact DEF Exact
    <3>2. e \in hist[inst[r]] /\ e.ts \in Nat /\ s.ts \in Nat /\ safe \in Nat /\ NotBefore(e, safe)
      <4>1. inst[r] \in Instances /\ e \in hist[inst[r]]
        BY <2>1, <3>1 DEF Inv, HistInv
      <4>2. NotBefore(e, safe)
        BY <3>1, <4>1 DEF Inv, GcInv, Safe
      <4>3. safe \in Nat
        BY DEF Inv, TypeInv
      <4> QED
        BY <4>1, <4>2, <4>3, StateTimes
    <3>3. /\ Physical(e.ts) <= Physical(s.ts) /\ Physical(s.ts) <= Physical(safe)
          /\ Physical(e.ts) \in Nat /\ Physical(s.ts) \in Nat /\ Physical(safe) \in Nat
      BY SMTT(60), <2>7, <3>1, <3>2, PhysicalFacts
    <3>4. Physical(e.ts) = Physical(s.ts)
      BY SMTT(60), <3>2, <3>3 DEF NotBefore
    <3>5. e = s
      BY <2>1, <3>2, <3>4 DEF Apart
    <3> QED
      BY SMTT(60), <2>7, <3>1, <3>2, <3>5
  <2> QED
    BY <2>6, <2>7 DEF Readable, em
<1> QED
  BY <1>1, Inductive, PTL

=============================================================================
