--------------------------- MODULE SnapshotReads ---------------------------
(***************************************************************************)
(* Polyphony instances that commit states of their keyspace and publish    *)
(* them to Redis, mapi requests that pick instances and a common state     *)
(* from what is published, and the tikv-gc job that collects old versions. *)
(* Every step that talks to Redis or TiKV is a step of its own, so the     *)
(* three interleave as their processes do.                                 *)
(***************************************************************************)
EXTENDS Unify, Sequences, TLC

CONSTANTS
  parent,          \* the block below each block
  Genesis,
  Instances,       \* instance identities, ordered as their bytes are
  Late,            \* the instances that are still catching up, unregistered
  dataplane,       \* the dataplane of each instance
  Reducers,        \* the reducers of a request
  serves,          \* the instances that run each reducer
  Nothing,
  Zone,            \* the safe zone, in milliseconds
  Kinds,           \* the kinds of requests made: at the tip, or with the mempool
  MaxEvents,       \* bound: runs of tikv-gc and restarts of instances, together
  MaxTime,         \* bound: timestamps
  MaxViews         \* bound: mempool views

ASSUME ReadsAssumption ==
  /\ Genesis \in Blocks
  /\ parent \in [Blocks \ {Genesis} -> Blocks]
  /\ Instances \subseteq Nat
  /\ Late \subseteq Instances
  /\ dataplane \in [Instances -> Nat]
  /\ serves \in [Reducers -> SUBSET Instances]
  /\ Reducers # {}
  /\ Zone \in Nat
  /\ Kinds \subseteq {"tip", "mempool"}

VARIABLES
  now,        \* the timestamp oracle
  best,       \* the tip of the compressor that all instances follow
  views,      \* the blocks on which its mempool views were built
  hist,       \* the states that each instance committed
  pend,       \* the committed state that an instance has not published yet
  joined,     \* the worker's registered flag
  entries,    \* Redis: the timestamp entries of each instance
  scores,     \* Redis: the registered instances and their heights
  mempoolView,\* Redis: the registered instances and their mempool views
  gc,         \* the tikv-gc job
  safe,       \* the safepoint of TiKV
  req,        \* a request of mapi
  jobs, crashes

chain == <<best, views>>
workers == <<hist, pend, joined>>
redis == <<entries, scores, mempoolView>>
counters == <<jobs, crashes>>
vars == <<now, chain, workers, redis, gc, safe, req, counters>>

NoJob == [pc |-> "idle", map |-> <<>>, sp |-> 0]
NoRequest == [pc |-> "idle", kind |-> "tip", inst |-> <<>>, map |-> <<>>, plan |-> Nothing]

Current(i) == Newest(hist[i])

ancestors[b \in Blocks] == {b} \cup IF b = Genesis THEN {} ELSE ancestors[parent[b]]

Init ==
  LET first == [ts |-> 1, tip |-> Genesis, view |-> NoView]
  IN  /\ now = 1 /\ best = Genesis /\ views = <<>>
      /\ hist = [i \in Instances |-> {first}]
      /\ entries = hist
      /\ pend = [i \in Instances |-> Nothing]
      /\ joined = [i \in Instances |-> i \notin Late]
      /\ scores = [i \in Instances \ Late |-> height[Genesis]]
      /\ mempoolView = <<>>
      /\ gc = NoJob /\ safe = 0 /\ req = NoRequest
      /\ jobs = 0 /\ crashes = 0

-----------------------------------------------------------------------------
(* The chain and time *)

\* Without a safe zone the passing of time makes no difference.
Tick ==
  /\ Zone > 0
  /\ now < MaxTime
  /\ now' = now + 1
  /\ UNCHANGED <<chain, workers, redis, gc, safe, req, counters>>

\* A block extends the chain, or a longer branch replaces it.
NewBlock ==
  /\ \E b \in Blocks : height[b] > height[best] /\ best' = b
  /\ UNCHANGED <<now, views, workers, redis, gc, safe, req, counters>>

NewView ==
  /\ Len(views) < MaxViews
  /\ views' = Append(views, best)
  /\ UNCHANGED <<now, best, workers, redis, gc, safe, req, counters>>

-----------------------------------------------------------------------------
(* A polyphony instance *)

Commit(i, b, v) ==
  LET s == [ts |-> now + 1, tip |-> b, view |-> v]
  IN  /\ pend[i] = Nothing
      /\ now < MaxTime
      /\ now' = s.ts
      /\ hist' = [hist EXCEPT ![i] = @ \cup {s}]
      /\ pend' = [pend EXCEPT ![i] = s]
      /\ UNCHANGED <<chain, joined, redis, gc, safe, req, counters>>

RollForward(i) ==
  LET at == Current(i)
  IN  \E b \in Blocks \ {Genesis} :
        /\ b \in ancestors[best]
        /\ parent[b] = at.tip
        /\ at.view = NoView
        /\ Commit(i, b, NoView)

\* A reorganisation, or the undoing of a mempool view before the next block.
RollBack(i) ==
  LET at == Current(i)
      shared == ancestors[best] \cap ancestors[at.tip]
  IN  \E b \in Blocks :
        /\ b \in shared
        /\ b # at.tip \/ at.view # NoView
        /\ \A c \in shared : height[c] <= height[b]
        /\ Commit(i, b, NoView)

MempoolRefresh(i) ==
  /\ views # <<>>
  /\ views[Len(views)] = Current(i).tip
  /\ Len(views) > Current(i).view
  /\ Commit(i, Current(i).tip, Len(views))

Put(f, i, x) == [j \in DOMAIN f \cup {i} |-> IF j = i THEN x ELSE f[j]]

InsertTimestampEntry(i) ==
  LET e == pend[i]
      announced == joined[i] \/ e.view # NoView
  IN  /\ e # Nothing
      /\ entries' = [entries EXCEPT ![i] = @ \cup {e}]
      /\ joined' = [joined EXCEPT ![i] = announced]
      /\ scores' = IF announced THEN Put(scores, i, height[e.tip]) ELSE scores
      /\ mempoolView' = IF e.view # NoView THEN Put(mempoolView, i, e.view) ELSE mempoolView
      /\ pend' = [pend EXCEPT ![i] = Nothing]
      /\ UNCHANGED <<now, chain, hist, gc, safe, req, counters>>

\* The process dies; a committed state may stay unpublished for ever.
Restart(i) ==
  /\ jobs + crashes < MaxEvents
  /\ crashes' = crashes + 1
  /\ pend' = [pend EXCEPT ![i] = Nothing]
  /\ joined' = [joined EXCEPT ![i] = FALSE]
  /\ UNCHANGED <<now, chain, hist, redis, gc, safe, req, jobs>>

-----------------------------------------------------------------------------
(* The tikv-gc job *)

Keys == {i \in Instances : entries[i] # {}}

GcFetch(i) ==
  /\ gc.pc = "fetch" \/ (gc.pc = "idle" /\ jobs + crashes < MaxEvents)
  /\ i \in Keys \ DOMAIN gc.map
  /\ gc' = [gc EXCEPT !.pc = "fetch", !.map = Put(@, i, entries[i])]
  /\ jobs' = IF gc.pc = "idle" THEN jobs + 1 ELSE jobs
  /\ UNCHANGED <<now, chain, workers, redis, safe, req, crashes>>

GcChoose ==
  /\ gc.pc = "fetch" /\ Keys = DOMAIN gc.map
  /\ CanChoose(gc.map)
  /\ \E i \in DOMAIN gc.map :
       gc' = [gc EXCEPT !.pc = "delete", !.sp = Safepoint(gc.map, i, now, Zone)]
  /\ UNCHANGED <<now, chain, workers, redis, safe, req, counters>>

GcDelete(i) ==
  /\ gc.pc = "delete" /\ i \in DOMAIN gc.map
  /\ entries' = [entries EXCEPT ![i] = Kept(@, gc.sp)]
  /\ gc' = [gc EXCEPT !.map = [j \in DOMAIN @ \ {i} |-> @[j]]]
  /\ UNCHANGED <<now, chain, workers, scores, mempoolView, safe, req, counters>>

LegacyGc ==
  /\ gc.pc = "delete" /\ DOMAIN gc.map = {}
  /\ safe' = Max({safe, gc.sp})
  /\ gc' = NoJob
  /\ UNCHANGED <<now, chain, workers, redis, req, counters>>

-----------------------------------------------------------------------------
(* A request of mapi *)

\* A sorted set of Redis is read lowest score first, then by member.
First(f, S) ==
  CHOOSE i \in S : \A j \in S : f[i] < f[j] \/ (f[i] = f[j] /\ i <= j)

Members(f, r) == serves[r] \cap DOMAIN f

\* The dataplane whose worst required instance is best.
BestDataplanes(f) ==
  LET all == UNION {Members(f, r) : r \in Reducers}
      Shared_(d) == Min({f[i] : i \in {j \in all : dataplane[j] = d}})
      ds == {dataplane[i] : i \in all}
  IN  {d \in ds : \A c \in ds : Shared_(c) <= Shared_(d)}

InDataplane(f, d) ==
  [r \in {q \in Reducers : \E i \in Members(f, q) : dataplane[i] = d} |->
     First(f, {i \in Members(f, r) : dataplane[i] = d})]

\* An empty set stands for an error: some reducer has no instance.
ResolveTip ==
  IF \E r \in Reducers : Members(scores, r) = {} THEN {}
  ELSE {[r \in Reducers |-> First(scores, Members(scores, r))]}

ResolveSameDataplane ==
  IF \E r \in Reducers : Members(scores, r) = {} THEN {}
  ELSE {InDataplane(scores, d) : d \in BestDataplanes(scores)}

ResolveByMempoolView ==
  IF \E r \in Reducers : Members(mempoolView, r) = {} THEN {}
  ELSE {f \in {InDataplane(mempoolView, d) : d \in BestDataplanes(mempoolView)} :
          DOMAIN f = Reducers}

ResolveMempool ==
  LET insts == ResolveByMempoolView IN IF insts = {} THEN ResolveSameDataplane ELSE insts

Resolve(kind) == IF kind = "tip" THEN ResolveTip ELSE ResolveMempool

Begin(kind) ==
  /\ req.pc = "idle"
  /\ \E inst \in Resolve(kind) :
       req' = [NoRequest EXCEPT !.pc = "fetch", !.kind = kind, !.inst = inst]
  /\ UNCHANGED <<now, chain, workers, redis, gc, safe, counters>>

FetchEntries(r) ==
  /\ req.pc = "fetch"
  /\ r \in DOMAIN req.inst \ DOMAIN req.map
  /\ req' = IF entries[req.inst[r]] = {} THEN NoRequest
            ELSE [req EXCEPT !.map = Put(@, r, entries[req.inst[r]])]
  /\ UNCHANGED <<now, chain, workers, redis, gc, safe, counters>>

Plans(kind, em) == IF kind = "tip" THEN TipPlans(em) ELSE MempoolPlans(em)

StartSnapshots ==
  /\ req.pc = "fetch"
  /\ DOMAIN req.map = DOMAIN req.inst
  /\ LET plans == Plans(req.kind, req.map)
     IN  req' \in IF plans = {} THEN {NoRequest}
                 ELSE {[req EXCEPT !.pc = "read", !.plan = p] : p \in plans}
  /\ UNCHANGED <<now, chain, workers, redis, gc, safe, counters>>

Answer ==
  /\ req.pc = "read"
  /\ req' = NoRequest
  /\ UNCHANGED <<now, chain, workers, redis, gc, safe, counters>>

Next ==
  \/ Tick \/ NewBlock \/ NewView
  \/ \E i \in Instances :
       \/ RollForward(i) \/ RollBack(i) \/ MempoolRefresh(i)
       \/ InsertTimestampEntry(i) \/ Restart(i)
       \/ GcFetch(i) \/ GcDelete(i)
  \/ GcChoose \/ LegacyGc
  \/ \E kind \in Kinds : Begin(kind)
  \/ \E r \in Reducers : FetchEntries(r)
  \/ StartSnapshots \/ Answer

Spec == Init /\ [][Next]_vars

-----------------------------------------------------------------------------

\* What a snapshot of instance i at ts holds, while no version that it needs
\* has been collected.
Shown(i, ts) == Newest({s \in hist[i] : s.ts <= ts})

Readable(i, ts) == ~ \E s \in hist[i] : ts < s.ts /\ s.ts <= safe

\* UnifiedView: the snapshots of a request all hold exactly the block and the
\* mempool view that the request reports as its snapshot point
\* (adapter.rs, init_tip and init_mempool), whatever the instances commit and
\* publish while the request resolves, fetches and chooses.
UnifiedView ==
  req.pc = "read" =>
    \A r \in DOMAIN req.plan.snap :
      LET s == Shown(req.inst[r], req.plan.snap[r])
      IN  s.tip = req.plan.tip /\ s.view = req.plan.view

\* FreshRequest: a request that runs against Redis as it is now finds a common
\* block and picks only snapshots that tikv-gc has not collected, at every step
\* of the job: entries leave Redis before their versions leave TiKV, and the
\* entries that stay share a block.
FreshRequest ==
  \A kind \in {"tip", "mempool"} : \A inst \in Resolve(kind) :
    LET plans == Plans(kind, [r \in DOMAIN inst |-> entries[inst[r]]])
    IN  /\ plans # {}
        /\ \A p \in plans : \A r \in DOMAIN inst : Readable(inst[r], p.snap[r])

=============================================================================
