------------------------ MODULE SplitCommitInvariant ------------------------
(***************************************************************************)
(* The inductive invariant of the storage stage, the facts about the       *)
(* operators of SplitCommit that its proof rests on, and the first half of *)
(* that proof: the invariant holds at the start, and is kept by the        *)
(* actions that write nothing to the index, which are starting, repairing, *)
(* receiving, beginning a job, publishing, failing and crashing.           *)
(***************************************************************************)
EXTENDS SplitCommit, TLAPS

\* Most steps are first-order; those that need arithmetic or functions cite SMT.
USE ZenonT(60)

\* What the theorems ask of the source and of Redis.
Calm == ~ DeepReorg /\ ~ FlakyPublish /\ ~ LateSwitch

Level(x) == IF x = Origin THEN -1 ELSE height[x]

\* Within reach of the rollback buffer.
Fresh(q) == height[q] + BufferSize > top

ImmutableLock == lock # NoLock /\ ~ lock.mutable
MutableLock   == lock # NoLock /\ lock.mutable

\* Undoing all that the metadata holds above p, newest first, leads to p: for
\* every key the oldest inverse above p puts back what p left there.
Recoverable(p) ==
  \A k \in Keys :
    \/ /\ db[k] = ideal[p][k]
       /\ \A q \in Points : height[q] > height[p] => ~ meta[q][k].saved
    \/ \E q \in Points :
         /\ height[q] > height[p]
         /\ meta[q][k].saved /\ meta[q][k].val = ideal[p][k]
         /\ \A r \in Points : height[r] > height[p] /\ height[r] < height[q] => ~ meta[r][k].saved

\* The blocks that a rollback or a repair may be asked to return to.
Target(p) ==
  /\ meta[p] # Empty /\ Fresh(p) /\ height[p] <= Level(LastPoint)
  /\ height[p] # 0 \/ p \in DOMAIN buffer

NothingToFetch == \A q \in Points : height[q] # 0 /\ height[q] >= MinHeight => meta[q] = Empty

\* f is what TiKV holds about the fresh blocks up to x.
Sync(f, x) ==
  \A q \in Points : Fresh(q) /\ height[q] <= Level(x) =>
    /\ q \in DOMAIN f => f[q] = meta[q]
    /\ q \notin DOMAIN f /\ height[q] # 0 => meta[q] = Empty

-----------------------------------------------------------------------------
(* What TiKV holds. *)

TipInv ==
  /\ LastPoint \in Blocks
  /\ LastPoint # Origin => Fresh(LastPoint) /\ height[LastPoint] <= top
  /\ LastPoint = Origin => \A p \in Points : parent[p] = Origin => top <= height[p]

Marked(k) ==
  k \in Touched(lock.block) /\ Chunk(Touched(lock.block), k) \in markers

LockInv ==
  /\ lock = NoLock => db = ideal[LastPoint]
  /\ ~ ImmutableLock => markers = {}
  /\ ImmutableLock =>
       /\ parent[lock.block] = lock.safe
       /\ \A k \in Keys : db[k] = IF Marked(k) THEN ideal[lock.block][k] ELSE ideal[lock.safe][k]
  /\ MutableLock /\ lock.safe # Origin => Recoverable(lock.safe)

MetaInv ==
  /\ \A q \in Points, k \in Keys : ~ meta[q][k].saved => meta[q][k] = NoInverse
  /\ \A q \in Points : meta[q] # Empty => height[q] <= top
  /\ \A q, r \in Points :
       Fresh(q) /\ height[q] # 0 /\ meta[q] # Empty /\ meta[r] # Empty /\ height[q] = height[r] => q = r
  /\ ~ MutableLock => \A q \in Points : height[q] > Level(LastPoint) => meta[q] = Empty
  /\ ImmutableLock => NothingToFetch

TargetInv == \A p \in Points : Target(p) => Recoverable(p)

-----------------------------------------------------------------------------
(* What the worker holds. *)

Alive == up \in {"boot", "run"}

Retreated == pc = "publish" /\ job.kind = "back"

BufferInv ==
  /\ Sync(buffer, LastPoint)
  /\ \A q \in DOMAIN buffer : buffer[q] # Empty
  /\ lock = NoLock /\ ~ Retreated => \A q \in DOMAIN buffer : height[q] <= Level(LastPoint)
  /\ ~ mutable => DOMAIN buffer = {} /\ NothingToFetch

FieldInv ==
  /\ ~ MutableLock /\ ~ Retreated => last = LastPoint
  /\ lock = NoLock => partial = None
  /\ up = "run" /\ pc = "idle" /\ lock # NoLock =>
       ImmutableLock /\ partial = [lock |-> lock, done |-> markers]
  /\ ImmutableLock => ~ mutable
  /\ ~ mutable => offer = {}

UnitInv ==
  unit # None =>
    /\ unit.kind = "forward" =>
         /\ parent[unit.point] = LastPoint
         /\ height[unit.point] <= top
         /\ ImmutableLock => unit.point = lock.block /\ ~ unit.mutable
    /\ unit.kind = "back" => ~ ImmutableLock /\ Fresh(unit.point)

MemoryInv == Alive => BufferInv /\ FieldInv /\ UnitInv

\* What is due is due by whole batches.
WholeBatches ==
  \A w \in todo : \A k \in KeysOf(w[1]) :
    Chunk(KeysOf(w[1]), k) = Chunk(KeysOf(w[1]), w[2]) => <<w[1], k>> \in todo

ImmutableJob ==
  LET p == job.point IN
  /\ parent[p] = LastPoint
  /\ ~ mutable /\ ~ MutableLock
  /\ unit # None /\ unit.kind = "forward" /\ unit.point = p /\ ~ unit.mutable
  /\ todo = {<<p, k>> : k \in {j \in Touched(p) : Chunk(Touched(p), j) \notin markers}}
  /\ lock # NoLock => lock.block = p
  /\ pc = "batch" => lock # NoLock

MutableJob ==
  LET p == job.point IN
  /\ parent[p] = LastPoint /\ last = LastPoint
  /\ mutable /\ partial = None
  /\ unit # None /\ unit.kind = "forward" /\ unit.point = p
  /\ \A q \in DOMAIN buffer : height[q] <= Level(LastPoint)
  /\ todo \subseteq {p} \X Touched(p)
  /\ WholeBatches
  /\ inv = meta[p]
  /\ \A q \in Points : height[q] > Level(LastPoint) /\ q # p => meta[q] = Empty
  /\ \A k \in Keys : IF <<p, k>> \in todo THEN db[k] = ideal[LastPoint][k] /\ meta[p][k] = NoInverse
                                          ELSE db[k] = ideal[p][k]
  /\ <<p, CursorKey>> \notin todo => meta[p][CursorKey].saved
  /\ pc \in {"seed", "lock"} => lock = NoLock
  /\ pc = "seed" => last # Origin /\ DOMAIN buffer = {}
  /\ pc = "batch" => MutableLock /\ lock.block = p

UndoJob ==
  LET t == job.point IN
  /\ mutable
  /\ Fresh(t) /\ Recoverable(t)
  /\ t \in DOMAIN hand
  /\ \A q \in Points, k \in Keys : height[q] > height[t] => (meta[q][k].saved <=> <<q, k>> \in todo)
  /\ \A w \in todo :
       /\ height[w[1]] > height[t]
       /\ w[1] \in DOMAIN hand
       /\ hand[w[1]][w[2]] = meta[w[1]][w[2]]
  /\ WholeBatches
  /\ job.kind = "back" =>
       /\ partial = None /\ unit # None /\ unit.kind = "back" /\ unit.point = t
       /\ pc = "lock" => lock = NoLock /\ height[t] <= Level(LastPoint)
       /\ pc = "batch" => MutableLock /\ lock.safe = t
  /\ job.kind = "repair" =>
       /\ Sync(hand, t) /\ \A q \in DOMAIN hand : hand[q] # Empty /\ height[q] # 0
       /\ MutableLock /\ lock.safe = t

Published ==
  /\ lock = NoLock /\ LastPoint = job.point
  /\ job.kind = "mutable" => \A q \in DOMAIN hand : ~ Fresh(q)
  /\ job.kind = "back" => /\ mutable /\ partial = None
                          /\ unit # None /\ unit.kind = "back" /\ unit.point = job.point

JobInv ==
  /\ pc # "idle" =>
       /\ Alive /\ job.point \in Points
       /\ IF up = "boot" THEN job.kind = "repair" ELSE job.kind \in {"immutable", "mutable", "back"}
  /\ pc = "seed" => job.kind = "mutable"
  /\ pc = "publish" => job.kind \in {"mutable", "back"} /\ Published
  /\ pc \in {"lock", "batch"} /\ job.kind = "immutable" => ImmutableJob
  /\ pc \in {"seed", "lock", "batch"} /\ job.kind = "mutable" => MutableJob
  /\ pc \in {"lock", "batch"} /\ Undoing => UndoJob
  /\ up = "run" /\ unit = None => pc = "idle" \/ (pc = "publish" /\ job.kind = "mutable")

GcInv == \A t \in gc : ~ Fresh(t.point)

\* The inductive invariant.
IInv ==
  /\ TypeOK
  /\ TipInv /\ LockInv /\ MetaInv /\ TargetInv
  /\ MemoryInv /\ JobInv /\ GcInv
  /\ PublishedConsistent

-----------------------------------------------------------------------------
(* Facts about the operators. *)

\* An action that is not permanent keeps the value that it met, or changes nothing.
LEMMA InverseFact ==
  ASSUME NEW a, NEW v,
         a.op \in Operations \ {"SetPermanent", "InsertPermanent"},
         a.op = "SetOnce" => v = Absent
  PROVE  \/ InverseOf(a, v) = [saved |-> TRUE, val |-> v]
         \/ InverseOf(a, v) = NoInverse /\ Exec(a, v) = v
<1>1. LeavesInverse(a, v) => InverseOf(a, v) = [saved |-> TRUE, val |-> v]
  BY DEF InverseOf, Overwritten
<1>2. ASSUME ~ LeavesInverse(a, v) PROVE Exec(a, v) = v
  <2>1. CASE a.op = "Set"
    BY <1>2, <2>1 DEF LeavesInverse, Exec
  <2>2. CASE a.op = "SetOnce"
    BY <1>2, <2>2 DEF LeavesInverse, Exec
  <2>3. CASE a.op = "Insert"
    BY <1>2, <2>3 DEF LeavesInverse, Exec
  <2>4. CASE a.op = "Increment"
    BY <1>2, <2>4 DEF LeavesInverse, Exec
  <2>5. CASE a.op = "Delete"
    BY <1>2, <2>5 DEF LeavesInverse, Exec
  <2>6. CASE a.op = "Decrement"
    BY <1>2, <2>6 DEF LeavesInverse, Exec, ExecDecrement
  <2>7. CASE a.op = "DecrementNoDelete"
    BY <1>2, <2>7 DEF LeavesInverse, Exec, ExecDecrementNoDelete
  <2> QED
    BY <2>1, <2>2, <2>3, <2>4, <2>5, <2>6, <2>7 DEF Operations
<1> QED
  BY <1>1, <1>2 DEF InverseOf

(***************************************************************************)
(* What the lemmas below need of finite sets and of the order of Nat.      *)
(* These are theorems: SplitCommitProofs proves them from the library.     *)
(***************************************************************************)
\* The keys of a split commit can be counted into chunks.
ChunksCounted ==
  \A S \in SUBSET Keys : \A k \in Keys : Cardinality(S) \in Nat /\ Chunk(S, k) \in Nat

\* At most t - h blocks of pairwise different heights lie above h and not above t.
HeightsCounted ==
  /\ Cardinality({}) = 0
  /\ \A S \in SUBSET Points : \A h, t \in Nat :
       /\ h <= t
       /\ \A q \in S : h < height[q] /\ height[q] <= t
       /\ \A q, r \in S : height[q] = height[r] => q = r
       => Cardinality(S) <= t - h /\ Cardinality(S) \in Nat

\* A set of blocks with bounded heights has a highest one.
HighestExists ==
  \A S \in SUBSET Points : S # {} =>
    \A n \in Nat : (\A q \in S : height[q] <= n) => \E q \in S : Above(S, q) = {}

\* Blocks with metadata have different heights, so the buffer has room for every
\* block within reach.
LEMMA FreshKept ==
  ASSUME HeightsCounted, TypeOK, MetaInv,
         NEW S \in SUBSET Points, NEW q \in S, Fresh(q),
         \A r \in S : height[r] > height[q] => meta[r] # Empty
  PROVE  q \in Newest(S)
<1> DEFINE A == Above(S, q)
<1>1. top \in Nat /\ BufferSize \in Nat /\ \A r \in Points : height[r] \in Nat
  BY ChainAssumption, BoundAssumption DEF TypeOK
<1>2. A \in SUBSET Points /\ \A r \in A : height[q] < height[r] /\ meta[r] # Empty
  BY DEF Above
<1>3. \A r \in A : height[r] <= top /\ Fresh(r) /\ height[r] # 0
  BY <1>1, <1>2, SMTT(60) DEF MetaInv, Fresh
<1>4. \A r, s \in A : height[r] = height[s] => r = s
  BY <1>2, <1>3 DEF MetaInv
<1>5. CASE height[q] <= top
  <2>1. Cardinality(A) <= top - height[q] /\ Cardinality(A) \in Nat
    <3> HIDE DEF A
    <3> QED BY <1>1, <1>2, <1>3, <1>4, <1>5 DEF HeightsCounted
  <2> QED
    BY <1>1, <2>1, SMTT(60) DEF Newest, Fresh
<1>6. CASE height[q] > top
  <2>1. A = {}
    BY <1>1, <1>2, <1>3, <1>6, SMTT(60)
  <2> QED
    BY <2>1, BoundAssumption, SMTT(60) DEF Newest, HeightsCounted
<1> QED
  BY <1>1, <1>5, <1>6, SMTT(60)

\* The cursor is part of what a block writes.
LEMMA IdealCursor ==
  /\ \A p \in Points : ideal[p][CursorKey] = p
  /\ ideal[Origin][CursorKey] = Absent
<1>1. ASSUME NEW p \in Points PROVE ideal[p][CursorKey] = p
  <2>1. ideal[p][CursorKey] = Exec(Set(p), ideal[parent[p]][CursorKey])
    BY IdealAssumption, ActionAssumption, KeyAssumption DEF ExecOption
  <2>2. \A v : Exec(Set(p), v) = p
    BY DEF Exec, Set, Act
  <2> QED
    BY <2>1, <2>2
<1> QED
  BY <1>1, IdealAssumption

\* Without a lock the cursor tells the block that the database is at.
LEMMA TipOf ==
  ASSUME NEW x \in Blocks, lock = NoLock, db = ideal[x]
  PROVE  LastPoint = x
BY IdealCursor, KeyAssumption DEF LastPoint, Blocks

\* The types that most arithmetic steps need.
LEMMA TypeFacts ==
  ASSUME TypeOK
  PROVE  /\ top \in Nat /\ BufferSize \in Nat /\ BufferSize > 1
         /\ \A r \in Points : height[r] \in Nat /\ parent[r] \in Blocks /\ r # Origin
         /\ lock # NoLock => lock.safe \in Blocks /\ lock.block \in Points /\ lock.mutable \in BOOLEAN
BY ChainAssumption, BoundAssumption DEF TypeOK, Locks, Blocks

\* A split commit that was cut short differs from none.
LEMMA PartialNotNone ==
  ASSUME NEW l \in Locks, NEW d \in SUBSET Nat
  PROVE  [lock |-> l, done |-> d] # None
<1>1. [lock |-> l, done |-> d] \in [lock : Locks, done : SUBSET Nat]
  OBVIOUS
<1> QED
  BY <1>1, KeyAssumption, ZenonT(60)

\* A payload differs from no payload.
LEMMA UnitNotNone ==
  ASSUME NEW p \in Points, NEW m \in BOOLEAN
  PROVE  Forward(p, m) # None /\ Back(p, m) # None
<1>1. {Forward(p, m), Back(p, m)} \subseteq [kind : {"forward", "back"}, point : Points, mutable : BOOLEAN]
  BY SMTT(60) DEF Forward, Back
<1> QED
  BY <1>1, KeyAssumption, ZenonT(60)

\* A child lies above its parent.
LEMMA LevelFacts ==
  /\ \A x \in Blocks : Level(x) \in Int /\ (x # Origin => x \in Points /\ Level(x) = height[x])
  /\ \A p \in Points : Level(p) = height[p] /\ height[p] > Level(parent[p])
BY ChainAssumption, SMTT(60) DEF Level, Blocks

\* The part of the invariant about TiKV depends on TiKV and the source alone.
LEMMA StoreStutter ==
  ASSUME UNCHANGED <<db, lock, markers, meta, top>>
  PROVE  /\ LastPoint' = LastPoint /\ MinHeight' = MinHeight
         /\ ImmutableLock' <=> ImmutableLock
         /\ MutableLock' <=> MutableLock
         /\ NothingToFetch' <=> NothingToFetch
         /\ \A p : (Fresh(p)' <=> Fresh(p)) /\ (Recoverable(p)' <=> Recoverable(p))
         /\ TipInv' <=> TipInv
         /\ LockInv' <=> LockInv
         /\ MetaInv' <=> MetaInv
<1>1. LastPoint' = LastPoint
  BY DEF LastPoint
<1>2. MinHeight' = MinHeight
  BY <1>1 DEF MinHeight
<1>3. (ImmutableLock' <=> ImmutableLock) /\ (MutableLock' <=> MutableLock)
  BY DEF ImmutableLock, MutableLock
<1>4. NothingToFetch' <=> NothingToFetch
  BY <1>2 DEF NothingToFetch
<1>5. \A p : Fresh(p)' <=> Fresh(p)
  BY DEF Fresh
<1>6. \A p : Recoverable(p)' <=> Recoverable(p)
  BY DEF Recoverable
<1>7. TipInv' <=> TipInv
  BY <1>1 DEF TipInv, Fresh
<1>8. \A k : Marked(k)' <=> Marked(k)
  BY DEF Marked
<1>9. LockInv' <=> LockInv
  BY <1>1, <1>3, <1>6, <1>8 DEF LockInv
<1>10. MetaInv' <=> MetaInv
  BY <1>1, <1>3, <1>4 DEF MetaInv, Fresh
<1> QED
  BY <1>1, <1>2, <1>3, <1>4, <1>5, <1>6, <1>7, <1>9, <1>10

\* So does the part about the worker on its own variables.
LEMMA WorkerStutter ==
  ASSUME UNCHANGED <<db, lock, markers, meta, top>>,
         UNCHANGED <<up, pc, job, todo, hand, inv, last, buffer, mutable, partial, unit, offer>>
  PROVE  /\ TargetInv' <=> TargetInv
         /\ MemoryInv' <=> MemoryInv
         /\ JobInv' <=> JobInv
<1>1. TargetInv' <=> TargetInv
  BY StoreStutter DEF TargetInv, Target
<1>2. BufferInv' <=> BufferInv
  BY StoreStutter DEF BufferInv, Sync, Retreated
<1>3. FieldInv' <=> FieldInv
  BY StoreStutter DEF FieldInv, Retreated
<1>4. UnitInv' <=> UnitInv
  BY StoreStutter DEF UnitInv
<1>5. MemoryInv' <=> MemoryInv
  BY <1>2, <1>3, <1>4 DEF MemoryInv, Alive
<1>6. \A q : KeysOf(q)' = KeysOf(q)
  BY DEF KeysOf, Undoing
<1>7. WholeBatches' <=> WholeBatches
  BY <1>6 DEF WholeBatches
<1>8. ImmutableJob' <=> ImmutableJob
  BY StoreStutter DEF ImmutableJob
<1>9. MutableJob' <=> MutableJob
  BY <1>7, StoreStutter DEF MutableJob
<1>10. UndoJob' <=> UndoJob
  BY <1>7, StoreStutter DEF UndoJob, Sync
<1>11. Published' <=> Published
  BY StoreStutter DEF Published
<1>12. JobInv' <=> JobInv
  BY <1>8, <1>9, <1>10, <1>11 DEF JobInv, Alive, Undoing
<1> QED
  BY <1>1, <1>5, <1>12

\* An entry without inverses and a buffer without entries have their types.
LEMMA EmptyType == Empty \in InverseMaps /\ IsBuffer(NoBuffer) /\ DOMAIN NoBuffer = {}
BY DEF Empty, InverseMaps, NoInverse, NoBuffer, IsBuffer, Stored

\* Trim keeps the entries that are not above a block.
LEMMA TrimFacts ==
  ASSUME NEW f, IsBuffer(f), NEW p \in Points
  PROVE  /\ IsBuffer(Trim(f, p))
         /\ \A q : q \in DOMAIN Trim(f, p) <=> q \in DOMAIN f /\ ~ (height[q] > height[p])
         /\ \A q \in DOMAIN Trim(f, p) : Trim(f, p)[q] = f[q]
BY DEF Trim, Only, Above, IsBuffer

\* A child of the tip is within reach of the buffer.
LEMMA ChildFresh ==
  ASSUME TypeOK, TipInv, NEW p \in Points, parent[p] = LastPoint
  PROVE  Fresh(p)
BY TypeFacts, ChainAssumption, SMTT(60) DEF TipInv, Fresh, Blocks

\* The blocks within reach are fetched, those of height 0 excepted.
LEMMA FreshFetched ==
  ASSUME TypeOK, TipInv, NothingToFetch, NEW q \in Points, Fresh(q), height[q] # 0
  PROVE  meta[q] = Empty
<1>1. MinHeight \in Int /\ (LastPoint # Origin => MinHeight <= height[q])
  BY TypeFacts, SMTT(60) DEF MinHeight, TipInv, Fresh, Blocks
<1>2. height[q] >= MinHeight
  BY <1>1, TypeFacts, SMTT(60) DEF MinHeight
<1> QED
  BY <1>2 DEF NothingToFetch

-----------------------------------------------------------------------------
(* The initial state. *)

\* The invariant holds in an instance that starts at any block.
LEMMA InitInv == Init => IInv
<1> SUFFICES ASSUME Init PROVE IInv
  OBVIOUS
<1>1. TypeOK
  <2>1. top \in Nat
    BY ChainAssumption DEF Init, Blocks
  <2>2. db \in [Keys -> Stored] /\ last \in Blocks /\ job.point \in Blocks
    BY ChainAssumption, IdealAssumption DEF Init, Blocks, NoJob
  <2>3. meta \in [Points -> InverseMaps] /\ inv \in InverseMaps /\ IsBuffer(hand) /\ IsBuffer(buffer)
    BY EmptyType DEF Init
  <2>4. job \in [kind : {"none", "immutable", "mutable", "back", "repair"}, point : Blocks]
    BY DEF Init, NoJob, Blocks
  <2>5. /\ lock \in Locks \cup {NoLock} /\ markers \in SUBSET Nat
        /\ up \in {"down", "boot", "run", "panic", "range"}
        /\ pc \in {"idle", "seed", "lock", "batch", "publish"}
        /\ offer \in SUBSET Points /\ faults \in 0..MaxFaults
        /\ todo \in SUBSET (Points \X Keys)
    BY BoundAssumption, SMTT(60) DEF Init
  <2>6. /\ partial \in [lock : Locks, done : SUBSET Nat] \cup {None}
        /\ unit \in [kind : {"forward", "back"}, point : Points, mutable : BOOLEAN] \cup {None}
        /\ gc \in SUBSET [point : Points, keys : SUBSET Keys]
        /\ mutable \in BOOLEAN
    BY DEF Init
  <2>7. \A e \in redis : e.point \in Points /\ e.snap \in [Keys -> Stored]
    BY DEF Init
  <2> QED
    BY <2>1, <2>2, <2>3, <2>4, <2>5, <2>6, <2>7 DEF TypeOK
<1>2. LastPoint = StartPoint
  BY TipOf, ChainAssumption DEF Init
<1>3. TipInv
  BY <1>2, ChainAssumption, BoundAssumption, SMTT(60) DEF TipInv, Fresh, Init, Blocks
<1>4. LockInv
  BY <1>2 DEF LockInv, Init, ImmutableLock, MutableLock
<1>5. \A q \in Points : meta[q] = Empty
  BY DEF Init
<1>6. MetaInv
  BY <1>5 DEF MetaInv, Empty, ImmutableLock, Init
<1>7. TargetInv
  BY <1>5 DEF TargetInv, Target
<1>8. MemoryInv /\ JobInv /\ GcInv /\ PublishedConsistent
  BY DEF Init, MemoryInv, Alive, JobInv, GcInv, PublishedConsistent
<1> QED
  BY <1>1, <1>3, <1>4, <1>6, <1>7, <1>8 DEF IInv

-----------------------------------------------------------------------------
(* Starting and stopping. *)

\* A lock without a safe point ends the process and changes nothing.
LEMMA StartPanicInv == ASSUME IInv, Start, lock # NoLock, lock.safe = Origin PROVE IInv'
<1>1. /\ UNCHANGED <<db, lock, markers, meta, top>>
      /\ UNCHANGED <<redis, pc, job, todo, hand, inv, gc, faults>>
      /\ UNCHANGED <<last, buffer, mutable, partial, unit, offer>>
      /\ up = "down" /\ up' = "panic"
  BY DEF Start, tikv, run, memory
<1>2. TypeOK'
  BY <1>1 DEF IInv, TypeOK
<1>3. TipInv' /\ LockInv' /\ MetaInv'
  BY <1>1, StoreStutter DEF IInv
<1>4. TargetInv'
  <2>1. \A p : Target(p)' <=> Target(p)
    BY <1>1, StoreStutter DEF Target
  <2> QED
    BY <1>1, <2>1, StoreStutter DEF IInv, TargetInv
<1>5. MemoryInv'
  BY <1>1 DEF MemoryInv, Alive
<1>6. JobInv'
  BY <1>1 DEF IInv, JobInv, Alive
<1>7. GcInv' /\ PublishedConsistent'
  BY <1>1 DEF IInv, GcInv, Fresh, PublishedConsistent
<1> QED
  BY <1>2, <1>3, <1>4, <1>5, <1>6, <1>7 DEF IInv

\* The buffer read at a start holds every block within reach.
LEMMA FetchSync ==
  ASSUME HeightsCounted, TypeOK, TipInv, MetaInv
  PROVE  /\ IsBuffer(Keep(Fetch))
         /\ DOMAIN Keep(Fetch) \subseteq DOMAIN Fetch
         /\ \A q \in DOMAIN Keep(Fetch) : Keep(Fetch)[q] = meta[q] /\ meta[q] # Empty /\ height[q] # 0
         /\ \A q \in Points : Fresh(q) /\ height[q] # 0 /\ meta[q] # Empty => q \in DOMAIN Keep(Fetch)
         /\ DOMAIN Fetch = {} <=> NothingToFetch
<1> DEFINE F == {q \in Points : height[q] # 0 /\ height[q] >= MinHeight /\ meta[q] # Empty}
<1>1. Fetch = [q \in F |-> meta[q]] /\ DOMAIN Fetch = F
  BY DEF Fetch, Only
<1>2. Keep(Fetch) = [q \in Newest(F) |-> Fetch[q]] /\ DOMAIN Keep(Fetch) = Newest(F)
  BY <1>1 DEF Keep, Only
<1>3. Newest(F) \subseteq F
  BY DEF Newest
<1>4. \A q \in Newest(F) : Keep(Fetch)[q] = meta[q]
  BY <1>1, <1>2, <1>3
<1>5. IsBuffer(Keep(Fetch))
  BY <1>1, <1>2, <1>3, <1>4 DEF IsBuffer, TypeOK
<1>6. ASSUME NEW q \in Points, Fresh(q), height[q] # 0, meta[q] # Empty
      PROVE  q \in Newest(F)
  <2>1. MinHeight \in Int /\ (LastPoint # Origin => MinHeight <= height[q])
    BY <1>6, TypeFacts, SMTT(60) DEF MinHeight, TipInv, Fresh, Blocks
  <2>2. height[q] >= MinHeight
    BY <2>1, <1>6, TypeFacts, SMTT(60) DEF MinHeight
  <2>3. q \in F /\ F \in SUBSET Points /\ \A r \in F : meta[r] # Empty
    BY <1>6, <2>2
  <2> HIDE DEF F
  <2> QED
    BY <1>6, <2>3, FreshKept
<1>7. F = {} <=> NothingToFetch
  BY DEF NothingToFetch
<1> QED
  BY <1>1, <1>2, <1>3, <1>4, <1>5, <1>6, <1>7

\* Otherwise the worker's fields come from TiKV.
LEMMA StartBootInv ==
  ASSUME HeightsCounted, IInv, Start, ~ (lock # NoLock /\ lock.safe = Origin)
  PROVE  IInv'
<1> USE DEF IInv
<1> DEFINE f == Keep(Fetch)
<1>1. /\ UNCHANGED <<db, lock, markers, meta, top>>
      /\ UNCHANGED <<redis, pc, job, todo, hand, inv, gc, faults>>
      /\ up' = "boot" /\ buffer' = f /\ mutable' = (DOMAIN Fetch # {}) /\ last' = LastPoint
      /\ partial' = None /\ unit' = None
      /\ offer' \in SUBSET DOMAIN Fetch
  BY DEF Start, tikv, run
<1>2. /\ IsBuffer(f) /\ DOMAIN f \subseteq DOMAIN Fetch
      /\ \A q \in DOMAIN f : f[q] = meta[q] /\ meta[q] # Empty /\ height[q] # 0
      /\ \A q \in Points : Fresh(q) /\ height[q] # 0 /\ meta[q] # Empty => q \in DOMAIN f
      /\ DOMAIN Fetch = {} <=> NothingToFetch
  BY FetchSync
<1> HIDE DEF f
<1>3. pc = "idle" /\ pc' = "idle"
  BY <1>1 DEF Start, JobInv, Alive
<1>4. TypeOK'
  <2>1. last' \in Blocks /\ DOMAIN Fetch \subseteq Points
    BY <1>1 DEF TipInv, Fetch, Only
  <2> QED
    BY <1>1, <1>2, <2>1 DEF TypeOK
<1>5. TipInv' /\ LockInv' /\ MetaInv'
  BY <1>1, StoreStutter
<1>6. TargetInv'
  <2>1. \A p \in Points : Target(p)' => Target(p)
    BY <1>1, <1>2, StoreStutter DEF Target
  <2> QED
    BY <1>1, <2>1, StoreStutter DEF TargetInv
<1>7. MemoryInv'
  <2>1. BufferInv'
    <3>1. Sync(buffer, LastPoint)'
      BY <1>1, <1>2, StoreStutter DEF Sync
    <3>2. \A q \in DOMAIN buffer' : buffer'[q] # Empty
      BY <1>1, <1>2
    <3>3. ASSUME lock' = NoLock, NEW q \in DOMAIN buffer'
          PROVE  height[q] <= Level(LastPoint')
      <4>1. q \in Points /\ meta[q] # Empty /\ ~ MutableLock
        BY <1>1, <1>2, <3>3 DEF IsBuffer, MutableLock
      <4>2. height[q] \in Nat /\ Level(LastPoint) \in Int
        BY <4>1, LevelFacts, TypeFacts DEF TipInv
      <4> QED
        BY <1>1, <4>1, <4>2, StoreStutter, SMTT(60) DEF MetaInv
    <3>4. ~ mutable' => DOMAIN buffer' = {} /\ NothingToFetch'
      BY <1>1, <1>2, StoreStutter
    <3> QED
      BY <3>1, <3>2, <3>3, <3>4 DEF BufferInv
  <2>2. FieldInv'
    <3>1. (ImmutableLock' => ~ mutable') /\ (~ mutable' => offer' = {})
      BY <1>1, <1>2, StoreStutter DEF MetaInv
    <3> QED
      BY <1>1, <3>1, StoreStutter DEF FieldInv
  <2> QED
    BY <1>1, <2>1, <2>2 DEF MemoryInv, UnitInv
<1>8. JobInv'
  BY <1>1, <1>3 DEF JobInv
<1>9. GcInv' /\ PublishedConsistent'
  BY <1>1, StoreStutter DEF GcInv, PublishedConsistent
<1> QED
  BY <1>4, <1>5, <1>6, <1>7, <1>8, <1>9

\* Loading the persistent state at a start keeps the invariant.
LEMMA StartInv == ASSUME HeightsCounted, IInv, Start PROVE IInv'
BY StartPanicInv, StartBootInv

\* The end of bootstrap, with the tip published, keeps the invariant.
LEMMA BootFinishInv == ASSUME IInv, BootFinish PROVE IInv'
<1> USE DEF IInv
<1>1. /\ UNCHANGED <<db, lock, markers, meta, top>>
      /\ UNCHANGED <<pc, job, todo, hand, inv, last, buffer, mutable, unit, offer, gc, faults>>
      /\ up = "boot" /\ up' = "run" /\ pc = "idle" /\ partial' = Partial
  BY DEF BootFinish, tikv, run
<1>2. BufferInv /\ FieldInv /\ UnitInv
  BY <1>1 DEF MemoryInv, Alive
<1>3. /\ lock = NoLock => partial' = None
      /\ lock # NoLock => ImmutableLock /\ partial' = [lock |-> lock, done |-> markers]
  <2>1. lock # NoLock => [lock |-> lock, done |-> markers] # None
    BY PartialNotNone DEF TypeOK
  <2> QED
    BY <1>1, <1>2, <2>1 DEF FieldInv, Partial, BootFinish, ImmutableLock
<1>4. ASSUME db[CursorKey] # Absent, Partial = None
      PROVE  lock = NoLock /\ LastPoint = db[CursorKey] /\ db[CursorKey] \in Points /\ db = ideal[db[CursorKey]]
  <2>1. lock = NoLock
    BY <1>1, <1>3, <1>4, PartialNotNone DEF TypeOK
  <2>2. LastPoint = db[CursorKey] /\ db = ideal[LastPoint] /\ LastPoint \in Blocks
    BY <2>1, <1>4 DEF LastPoint, LockInv, TipInv
  <2> QED
    BY <1>4, <2>1, <2>2, IdealCursor DEF Blocks
<1>5. \A e \in redis' : e \in redis \/ (e = [point |-> db[CursorKey], snap |-> db] /\ db[CursorKey] # Absent /\ Partial = None)
  BY DEF BootFinish
<1>6. TypeOK'
  <2>1. partial' \in [lock : Locks, done : SUBSET Nat] \cup {None}
    BY <1>3, SMTT(60) DEF TypeOK
  <2>2. \A e \in redis' : e.point \in Points /\ e.snap \in [Keys -> Stored]
    BY <1>4, <1>5, SMTT(60) DEF TypeOK
  <2> QED
    BY <1>1, <2>1, <2>2 DEF TypeOK
<1>7. TipInv' /\ LockInv' /\ MetaInv'
  BY <1>1, StoreStutter
<1>8. TargetInv'
  <2>1. \A p \in Points : Target(p)' => Target(p)
    BY <1>1, StoreStutter DEF Target
  <2> QED
    BY <1>1, <2>1, StoreStutter DEF TargetInv
<1>9. MemoryInv'
  <2>1. BufferInv'
    BY <1>1, <1>2, StoreStutter DEF BufferInv, Sync, Retreated
  <2>2. FieldInv'
    BY <1>1, <1>2, <1>3, StoreStutter DEF FieldInv, Retreated
  <2>3. UnitInv'
    BY <1>1, <1>2, StoreStutter DEF UnitInv
  <2> QED
    BY <2>1, <2>2, <2>3 DEF MemoryInv
<1>10. JobInv'
  BY <1>1 DEF JobInv
<1>11. GcInv'
  BY <1>1, StoreStutter DEF GcInv
<1>12. PublishedConsistent'
  BY <1>4, <1>5, SMTT(60) DEF PublishedConsistent
<1> QED
  BY <1>6, <1>7, <1>8, <1>9, <1>10, <1>11, <1>12

\* SavedAbove are the saved inverses of the blocks above a block.
LEMMA SavedAboveFacts ==
  ASSUME NEW f, IsBuffer(f), NEW p \in Points
  PROVE  /\ SavedAbove(f, p) \in SUBSET (Points \X Keys)
         /\ \A q, k : <<q, k>> \in SavedAbove(f, p) <=>
              q \in DOMAIN f /\ k \in Keys /\ height[q] > height[p] /\ f[q][k].saved
         /\ \A w \in SavedAbove(f, p) :
              /\ w[1] \in DOMAIN f /\ w[2] \in Keys /\ height[w[1]] > height[p]
              /\ f[w[1]][w[2]].saved
BY DEF SavedAbove, Above, IsBuffer

\* When f is what TiKV holds above t, undoing SavedAbove(f, t) clears the metadata.
LEMMA BeginUndo ==
  ASSUME TypeOK, MetaInv, NEW f, IsBuffer(f), NEW t \in DOMAIN f,
         Fresh(t), Recoverable(t),
         \A q \in Points : height[q] > height[t] => IF q \in DOMAIN f THEN f[q] = meta[q] ELSE meta[q] = Empty,
         Undoing', job'.point = t, hand' = f, todo' = SavedAbove(f, t),
         UNCHANGED <<db, meta, top>>, mutable'
  PROVE  /\ mutable' /\ Fresh(t)' /\ Recoverable(t)' /\ t \in DOMAIN hand'
         /\ \A q \in Points, k \in Keys :
              height[q] > height[t] => (meta'[q][k].saved <=> <<q, k>> \in todo')
         /\ \A w \in todo' :
              /\ height[w[1]] > height[t]
              /\ w[1] \in DOMAIN hand'
              /\ hand'[w[1]][w[2]] = meta'[w[1]][w[2]]
         /\ WholeBatches'
<1>1. t \in Points /\ DOMAIN f \subseteq Points
  BY DEF IsBuffer
<1>2. \A k \in Keys : Empty[k].saved = FALSE
  BY DEF Empty, NoInverse
<1>3. Fresh(t)' /\ Recoverable(t)'
  BY DEF Fresh, Recoverable
<1>4. ASSUME NEW q \in Points, NEW k \in Keys, height[q] > height[t]
      PROVE  meta'[q][k].saved <=> <<q, k>> \in todo'
  BY <1>1, <1>2, <1>4, SavedAboveFacts
<1>5. ASSUME NEW w \in todo'
      PROVE  /\ height[w[1]] > height[t] /\ w[1] \in DOMAIN hand'
             /\ hand'[w[1]][w[2]] = meta'[w[1]][w[2]]
  BY <1>1, <1>5, SavedAboveFacts
<1>6. WholeBatches'
  <2>1. \A q \in DOMAIN f : KeysOf(q)' = Saved(f[q])
    BY DEF KeysOf, Saved
  <2>2. ASSUME NEW w \in todo', NEW k \in Saved(f[w[1]]) PROVE <<w[1], k>> \in todo'
    BY <1>1, <2>2, SavedAboveFacts DEF Saved
  <2>3. \A w \in todo' : KeysOf(w[1])' = Saved(f[w[1]])
    BY <1>1, <2>1, SavedAboveFacts
  <2> QED
    BY <2>2, <2>3 DEF WholeBatches
<1> QED
  BY <1>3, <1>4, <1>5, <1>6

\* Beginning to repair a split commit that was cut short keeps the invariant.
LEMMA BootRepairInv == ASSUME HeightsCounted, IInv, BootRepair PROVE IInv'
<1> USE DEF IInv
<1> DEFINE f == Keep(Fetch)
           t == lock.safe
<1>1. /\ UNCHANGED <<db, lock, markers, meta, top>>
      /\ UNCHANGED <<redis, inv, last, buffer, mutable, unit, offer, gc, faults>>
      /\ up = "boot" /\ pc = "idle" /\ partial' = Partial
  BY DEF BootRepair, tikv
<1>2. BufferInv /\ FieldInv /\ UnitInv
  BY <1>1 DEF MemoryInv, Alive
<1>3. lock # NoLock /\ Partial = [lock |-> lock, done |-> markers] /\ lock.mutable /\ LastPoint = t
  BY <1>2 DEF BootRepair, Partial, FieldInv, LastPoint
<1>4. /\ IsBuffer(f) /\ DOMAIN f \subseteq DOMAIN Fetch
      /\ \A q \in DOMAIN f : f[q] = meta[q] /\ meta[q] # Empty /\ height[q] # 0
      /\ \A q \in Points : Fresh(q) /\ height[q] # 0 /\ meta[q] # Empty => q \in DOMAIN f
      /\ DOMAIN Fetch = {} <=> NothingToFetch
  BY FetchSync
<1>5. \/ /\ t \in DOMAIN f
         /\ job' = [kind |-> "repair", point |-> t] /\ hand' = f /\ todo' = SavedAbove(f, t)
         /\ pc' = "lock" /\ up' = "boot"
      \/ up' = "panic" /\ UNCHANGED <<job, hand, todo, pc>>
  BY <1>1, <1>3 DEF BootRepair
<1> HIDE DEF f
<1>6. t \in DOMAIN f => t \in Points /\ t # Origin
  BY <1>4, TypeFacts DEF IsBuffer
<1>7. TypeOK'
  <2>1. partial' \in [lock : Locks, done : SUBSET Nat] \cup {None}
    BY <1>1, <1>3 DEF TypeOK
  <2>2. t \in DOMAIN f => SavedAbove(f, t) \in SUBSET (Points \X Keys)
    BY <1>4, <1>6, SavedAboveFacts
  <2>3. /\ job' \in [kind : {"none", "immutable", "mutable", "back", "repair"}, point : Blocks]
        /\ todo' \in SUBSET (Points \X Keys) /\ IsBuffer(hand')
        /\ up' \in {"down", "boot", "run", "panic", "range"}
        /\ pc' \in {"idle", "seed", "lock", "batch", "publish"}
    BY <1>4, <1>5, <1>6, <2>2, SMTT(60) DEF TypeOK, Blocks
  <2> QED
    BY <1>1, <2>1, <2>3 DEF TypeOK
<1>8. TipInv' /\ LockInv' /\ MetaInv'
  BY <1>1, StoreStutter
<1>9. TargetInv'
  <2>1. \A p \in Points : Target(p)' => Target(p)
    BY <1>1, StoreStutter DEF Target
  <2> QED
    BY <1>1, <2>1, StoreStutter DEF TargetInv
<1>10. MemoryInv'
  <2>1. ASSUME Alive' PROVE up' = "boot" /\ pc' = "lock"
    BY <1>5, <2>1 DEF Alive
  <2>2. BufferInv'
    BY <1>1, <1>2, <1>3, StoreStutter DEF BufferInv, Sync
  <2>3. Alive' => FieldInv'
    BY <1>1, <1>2, <1>3, <2>1, StoreStutter DEF FieldInv, MutableLock, ImmutableLock
  <2>4. UnitInv'
    BY <1>1, <1>2, StoreStutter DEF UnitInv
  <2> QED
    BY <2>2, <2>3, <2>4 DEF MemoryInv
<1>11. JobInv'
  <2>1. CASE up' = "panic" /\ UNCHANGED <<job, hand, todo, pc>>
    BY <1>1, <2>1 DEF JobInv
  <2>2. CASE /\ t \in DOMAIN f
             /\ job' = [kind |-> "repair", point |-> t] /\ hand' = f /\ todo' = SavedAbove(f, t)
             /\ pc' = "lock" /\ up' = "boot"
    <3>1. Fresh(t) /\ Recoverable(t)
      BY <1>3, <1>6, <2>2 DEF TipInv, LockInv, MutableLock
    <3>2. mutable'
      BY <1>1, <1>2, <1>4, <2>2 DEF BufferInv
    <3>3. \A q \in Points : height[q] > height[t] => IF q \in DOMAIN f THEN f[q] = meta[q] ELSE meta[q] = Empty
      <4>1. \A q \in Points : height[q] > height[t] => Fresh(q) /\ height[q] # 0
        BY <1>6, <2>2, <3>1, TypeFacts, SMTT(60) DEF Fresh
      <4> QED
        BY <1>4, <4>1
    <3>4. Sync(hand, t)' /\ \A q \in DOMAIN hand' : hand'[q] # Empty /\ height[q] # 0
      BY <1>1, <1>4, <2>2, StoreStutter DEF Sync
    <3>5. MutableLock' /\ lock'.safe = t
      BY <1>1, <1>3 DEF MutableLock
    <3>6. UndoJob'
      <4>1. Undoing' /\ job'.point = t /\ job'.kind = "repair"
        BY <2>2 DEF Undoing
      <4>2. /\ mutable' /\ Fresh(t)' /\ Recoverable(t)' /\ t \in DOMAIN hand'
            /\ \A q \in Points, k \in Keys :
                 height[q] > height[t] => (meta'[q][k].saved <=> <<q, k>> \in todo')
            /\ \A w \in todo' :
                 /\ height[w[1]] > height[t]
                 /\ w[1] \in DOMAIN hand'
                 /\ hand'[w[1]][w[2]] = meta'[w[1]][w[2]]
            /\ WholeBatches'
        BY <1>1, <1>4, <2>2, <3>1, <3>2, <3>3, <4>1, BeginUndo
      <4> QED
        BY <1>1, <3>4, <3>5, <4>1, <4>2, SMTT(60) DEF UndoJob, Fresh, Recoverable, Sync
    <3> QED
      BY <1>1, <1>6, <2>2, <3>6 DEF JobInv, Alive
  <2> QED
    BY <1>5, <2>1, <2>2
<1>12. GcInv' /\ PublishedConsistent'
  BY <1>1, StoreStutter DEF GcInv, PublishedConsistent
<1> QED
  BY <1>7, <1>8, <1>9, <1>10, <1>11, <1>12

\* A crash anywhere keeps the invariant: what is left is in TiKV and Redis.
LEMMA CrashInv == ASSUME IInv, Crash PROVE IInv'
<1> USE DEF IInv
<1>1. /\ UNCHANGED <<db, lock, markers, meta, top>> /\ UNCHANGED redis
      /\ pc' = "idle" /\ job' = NoJob /\ todo' = {} /\ hand' = NoBuffer /\ inv' = Empty
      /\ up' = "down" /\ last' = Origin /\ buffer' = NoBuffer /\ mutable' = FALSE
      /\ partial' = None /\ unit' = None /\ offer' = {} /\ gc' = {}
  BY DEF Crash, LoseLocals, tikv
<1>2. TypeOK'
  <2>1. faults' \in 0..MaxFaults
    BY BoundAssumption, SMTT(60) DEF Crash, TypeOK
  <2>2. job' \in [kind : {"none", "immutable", "mutable", "back", "repair"}, point : Blocks] /\ last' \in Blocks
    BY <1>1 DEF NoJob, Blocks
  <2>3. IsBuffer(hand') /\ IsBuffer(buffer') /\ inv' \in InverseMaps
    BY <1>1, EmptyType
  <2> QED
    BY <1>1, <2>1, <2>2, <2>3 DEF TypeOK
<1>3. TipInv' /\ LockInv' /\ MetaInv'
  BY <1>1, StoreStutter
<1>4. TargetInv'
  <2>1. \A p \in Points : Target(p)' => Target(p)
    BY <1>1, EmptyType, StoreStutter DEF Target
  <2> QED
    BY <1>1, <2>1, StoreStutter DEF TargetInv
<1>5. MemoryInv' /\ JobInv' /\ GcInv' /\ PublishedConsistent'
  BY <1>1 DEF MemoryInv, Alive, JobInv, GcInv, PublishedConsistent
<1> QED
  BY <1>2, <1>3, <1>4, <1>5

\* A failed call leaves TiKV and the fields of the worker as they are.
LEMMA FailInv ==
  ASSUME IInv, Calm, Fail \/ FailPublished
  PROVE  IInv'
<1> USE DEF IInv
<1>1. /\ UNCHANGED <<db, lock, markers, meta, top>>
      /\ UNCHANGED <<last, buffer, mutable, partial, unit, offer, gc>>
      /\ pc # "idle" /\ ~ Retreated
      /\ pc' = "idle" /\ job' = NoJob /\ todo' = {} /\ hand' = NoBuffer /\ inv' = Empty
      /\ up' = "boot"
  BY DEF Fail, FailPublished, LoseLocals, tikv, memory, RedisAnswers, Calm, Retreated
<1>2. Alive /\ job.point \in Points
  BY <1>1 DEF JobInv
<1>3. BufferInv /\ FieldInv /\ UnitInv
  BY <1>2 DEF MemoryInv
<1>4. \A e \in redis' : e \in redis \/ (pc = "publish" /\ e = [point |-> job.point, snap |-> db])
  BY DEF Fail, FailPublished, Entry
<1>5. pc = "publish" => db = ideal[job.point]
  BY DEF JobInv, Published, LockInv
<1>6. TypeOK'
  <2>1. faults' \in 0..MaxFaults
    BY BoundAssumption, SMTT(60) DEF Fail, FailPublished, TypeOK
  <2>2. job' \in [kind : {"none", "immutable", "mutable", "back", "repair"}, point : Blocks]
    BY <1>1 DEF NoJob, Blocks
  <2>3. IsBuffer(hand') /\ inv' \in InverseMaps
    BY <1>1, EmptyType
  <2>4. \A e \in redis' : e.point \in Points /\ e.snap \in [Keys -> Stored]
    BY <1>2, <1>4, SMTT(60) DEF TypeOK
  <2> QED
    BY <1>1, <2>1, <2>2, <2>3, <2>4 DEF TypeOK
<1>7. TipInv' /\ LockInv' /\ MetaInv'
  BY <1>1, StoreStutter
<1>8. TargetInv'
  <2>1. \A p \in Points : Target(p)' => Target(p)
    BY <1>1, StoreStutter DEF Target
  <2> QED
    BY <1>1, <2>1, StoreStutter DEF TargetInv
<1>9. MemoryInv'
  <2>1. BufferInv'
    BY <1>1, <1>3, StoreStutter DEF BufferInv, Sync
  <2>2. FieldInv'
    BY <1>1, <1>3, StoreStutter DEF FieldInv
  <2>3. UnitInv'
    BY <1>1, <1>3, StoreStutter DEF UnitInv
  <2> QED
    BY <2>1, <2>2, <2>3 DEF MemoryInv
<1>10. JobInv'
  BY <1>1 DEF JobInv
<1>11. GcInv'
  BY <1>1, StoreStutter DEF GcInv
<1>12. PublishedConsistent'
  BY <1>4, <1>5, SMTT(60) DEF PublishedConsistent
<1> QED
  BY <1>6, <1>7, <1>8, <1>9, <1>10, <1>11, <1>12

\* A collection that is given up keeps the invariant.
LEMMA GcGiveUpInv == ASSUME IInv, GcGiveUp PROVE IInv'
<1> USE DEF IInv
<1>1. /\ UNCHANGED <<db, lock, markers, meta, top>>
      /\ UNCHANGED <<redis, up, pc, job, todo, hand, inv, last, buffer, mutable, partial, unit, offer>>
      /\ gc' \subseteq gc /\ faults' \in 0..MaxFaults
  BY BoundAssumption, SMTT(60) DEF GcGiveUp, tikv, run, memory, TypeOK
<1>2. TypeOK'
  BY <1>1, SMTT(60) DEF TypeOK
<1>3. TipInv' /\ LockInv' /\ MetaInv'
  BY <1>1, StoreStutter
<1>4. TargetInv' /\ MemoryInv' /\ JobInv'
  BY <1>1, WorkerStutter
<1>5. GcInv' /\ PublishedConsistent'
  BY <1>1, StoreStutter DEF GcInv, PublishedConsistent
<1> QED
  BY <1>2, <1>3, <1>4, <1>5

-----------------------------------------------------------------------------
(* The source. *)

\* A rollback payload for a block within reach keeps the invariant.
LEMMA DeliverInv ==
  ASSUME IInv, up = "run", unit = None, ~ ImmutableLock,
         NEW p \in Points, NEW m \in BOOLEAN, Fresh(p),
         unit' = Back(p, m), offer' \in {offer, {}},
         UNCHANGED <<db, lock, markers, meta, top>>,
         UNCHANGED <<redis, up, pc, job, todo, hand, inv, last, buffer, mutable, partial, gc, faults>>
  PROVE  IInv'
<1> USE DEF IInv
<1>1. BufferInv /\ FieldInv /\ UnitInv
  BY DEF MemoryInv, Alive
<1>2. unit' # None /\ unit'.kind = "back" /\ unit'.point = p
  BY UnitNotNone DEF Back
<1>3. TypeOK'
  <2>1. unit' \in [kind : {"forward", "back"}, point : Points, mutable : BOOLEAN] \cup {None}
    BY DEF Back
  <2> QED
    BY <2>1 DEF TypeOK
<1>4. TipInv' /\ LockInv' /\ MetaInv'
  BY StoreStutter
<1>5. TargetInv'
  BY StoreStutter DEF TargetInv, Target
<1>6. MemoryInv'
  <2>1. BufferInv'
    BY <1>1, StoreStutter DEF BufferInv, Sync, Retreated
  <2>2. FieldInv'
    BY <1>1, StoreStutter DEF FieldInv, Retreated
  <2>3. UnitInv'
    BY <1>2, StoreStutter DEF UnitInv
  <2> QED
    BY <2>1, <2>2, <2>3 DEF MemoryInv
<1>7. JobInv'
  <2>1. pc = "idle" \/ (pc = "publish" /\ job.kind = "mutable")
    BY DEF JobInv
  <2>2. pc = "publish" => Published'
    BY <2>1, StoreStutter DEF JobInv, Published
  <2> QED
    BY <1>2, <2>1, <2>2 DEF JobInv, Alive
<1>8. GcInv' /\ PublishedConsistent'
  BY StoreStutter DEF GcInv, PublishedConsistent
<1> QED
  BY <1>3, <1>4, <1>5, <1>6, <1>7, <1>8

\* The rollback that a new stream begins with keeps the invariant.
LEMMA DeliverIntersectInv == ASSUME IInv, Calm, DeliverIntersect PROVE IInv'
<1>1. PICK p \in offer : Shallow(p) /\ unit' = Back(p, TRUE)
  BY DEF DeliverIntersect
<1>2. p \in Points /\ Fresh(p)
  BY <1>1 DEF IInv, TypeOK, Calm, Shallow, Fresh
<1>3. up = "run" /\ unit = None /\ ~ ImmutableLock
  BY DEF DeliverIntersect, IInv, MemoryInv, Alive, FieldInv
<1> QED
  BY <1>1, <1>2, <1>3, DeliverInv DEF DeliverIntersect, tikv, run, memory

\* A rollback of a reorganisation keeps the invariant.
LEMMA DeliverBackInv == ASSUME IInv, Calm, DeliverBack PROVE IInv'
<1>1. PICK p \in DOMAIN buffer : Shallow(p) /\ unit' = Back(p, FALSE)
  BY DEF DeliverBack
<1>2. p \in Points /\ Fresh(p)
  BY <1>1 DEF IInv, TypeOK, IsBuffer, Calm, Shallow, Fresh
<1>3. up = "run" /\ unit = None /\ ~ ImmutableLock
  BY DEF DeliverBack, ImmutableLock
<1> QED
  BY <1>1, <1>2, <1>3, DeliverInv DEF DeliverBack, tikv, run, memory

\* A block, for a worker that is where the source thinks, keeps the invariant.
LEMMA DeliverForwardInv == ASSUME IInv, Calm, DeliverForward PROVE IInv'
<1> USE DEF IInv
<1>1. PICK p \in Points, m \in BOOLEAN :
        /\ parent[p] = last
        /\ lock # NoLock => lock.block = p /\ (LateSwitch \/ ~ m)
        /\ unit' = Forward(p, m)
        /\ top' = IF height[p] > top THEN height[p] ELSE top
  BY DEF DeliverForward
<1>2. /\ UNCHANGED <<db, lock, markers, meta>>
      /\ UNCHANGED <<redis, up, pc, job, todo, hand, inv, last, buffer, mutable, partial, offer, gc, faults>>
      /\ up = "run" /\ unit = None
  BY DEF DeliverForward, tikv, run, memory
<1>3. BufferInv /\ FieldInv /\ UnitInv
  BY <1>2 DEF MemoryInv, Alive
<1>4. pc = "idle" \/ (pc = "publish" /\ job.kind = "mutable" /\ lock = NoLock /\ Published)
  BY <1>2 DEF JobInv, Published
<1>5. ~ MutableLock /\ ~ Retreated /\ last = LastPoint
  BY <1>2, <1>3, <1>4 DEF FieldInv, MutableLock, ImmutableLock, Retreated
<1>6. /\ top' \in Nat /\ top <= top' /\ height[p] <= top'
      /\ \A q \in Points : Fresh(q)' => Fresh(q)
  BY <1>1, TypeFacts, SMTT(60) DEF Fresh
<1>7. /\ LastPoint' = LastPoint /\ MinHeight' = MinHeight
      /\ (ImmutableLock' <=> ImmutableLock) /\ (MutableLock' <=> MutableLock)
      /\ \A q : Recoverable(q)' <=> Recoverable(q)
  BY <1>2 DEF LastPoint, MinHeight, ImmutableLock, MutableLock, Recoverable
<1>8. NothingToFetch' <=> NothingToFetch
  BY <1>2, <1>7 DEF NothingToFetch
<1>9. unit' # None /\ unit'.kind = "forward" /\ unit'.point = p /\ unit'.mutable = m
  BY <1>1, UnitNotNone DEF Forward
<1>10. TypeOK'
  <2>1. unit' \in [kind : {"forward", "back"}, point : Points, mutable : BOOLEAN] \cup {None}
    BY <1>1 DEF Forward
  <2> QED
    BY <1>2, <1>6, <2>1 DEF TypeOK
<1>11. TipInv'
  <2>1. ASSUME LastPoint # Origin PROVE Fresh(LastPoint)' /\ height[LastPoint] <= top'
    <3>1. LastPoint \in Points /\ height[p] = height[LastPoint] + 1
      BY <1>1, <1>5, <2>1, ChainAssumption DEF TipInv, Blocks
    <3> QED
      BY <1>1, <1>7, <2>1, <3>1, TypeFacts, SMTT(60) DEF TipInv, Fresh
  <2>2. ASSUME LastPoint = Origin, NEW q \in Points, parent[q] = Origin PROVE top' <= height[q]
    BY <1>1, <1>5, <2>2, ChainAssumption, TypeFacts, SMTT(60) DEF TipInv
  <2> QED
    BY <1>7, <2>1, <2>2 DEF TipInv, Fresh
<1>12. LockInv'
  BY <1>2, <1>7 DEF LockInv, Marked
<1>13. MetaInv'
  BY <1>2, <1>6, <1>7, <1>8, TypeFacts, SMTT(60) DEF MetaInv
<1>14. TargetInv'
  BY <1>2, <1>6, <1>7 DEF TargetInv, Target
<1>15. MemoryInv'
  <2>1. BufferInv'
    BY <1>2, <1>3, <1>6, <1>7, <1>8 DEF BufferInv, Sync, Retreated
  <2>2. FieldInv'
    BY <1>2, <1>3, <1>7 DEF FieldInv, Retreated
  <2>3. UnitInv'
    BY <1>1, <1>2, <1>5, <1>6, <1>7, <1>9 DEF UnitInv, Calm, ImmutableLock
  <2> QED
    BY <2>1, <2>2, <2>3 DEF MemoryInv
<1>16. JobInv'
  <2>1. pc = "publish" => Published'
    BY <1>2, <1>4, <1>6, <1>7 DEF Published, TypeOK, IsBuffer
  <2> QED
    BY <1>2, <1>4, <1>9, <2>1 DEF JobInv, Alive
<1>17. GcInv' /\ PublishedConsistent'
  BY <1>2, <1>6 DEF GcInv, PublishedConsistent, TypeOK
<1> QED
  BY <1>10, <1>11, <1>12, <1>13, <1>14, <1>15, <1>16, <1>17

-----------------------------------------------------------------------------
(* execute up to the lock. *)

\* An action that writes neither TiKV nor Redis, and leaves the process in a
\* state from which it must be restarted.
LEMMA PanicInv ==
  ASSUME IInv, up' \in {"panic", "range"}, pc' = "idle", mutable' \in BOOLEAN,
         UNCHANGED <<db, lock, markers, meta, top>>,
         UNCHANGED <<redis, job, todo, hand, inv, last, buffer, partial, unit, offer, gc, faults>>
  PROVE  IInv'
<1> USE DEF IInv
<1>1. TypeOK'
  BY DEF TypeOK
<1>2. TipInv' /\ LockInv' /\ MetaInv'
  BY StoreStutter
<1>3. TargetInv'
  BY StoreStutter DEF TargetInv, Target
<1>4. MemoryInv' /\ JobInv'
  BY DEF MemoryInv, JobInv, Alive
<1>5. GcInv' /\ PublishedConsistent'
  BY StoreStutter DEF GcInv, PublishedConsistent
<1> QED
  BY <1>1, <1>2, <1>3, <1>4, <1>5

\* The pairs of a block and the keys that it writes.
LEMMA PairsType ==
  ASSUME NEW p \in Points, NEW S \in SUBSET Keys
  PROVE  {<<p, k>> : k \in S} \in SUBSET (Points \X Keys)
BY SMTT(60)

\* Beginning or resuming an immutable block keeps the invariant.
LEMMA BeginImmutableInv == ASSUME IInv, BeginImmutable PROVE IInv'
<1> USE DEF IInv
<1> DEFINE p == unit.point
           T == {<<p, k>> : k \in {j \in Touched(p) : Chunk(Touched(p), j) \notin markers}}
<1>1. /\ UNCHANGED <<db, lock, markers, meta, top>>
      /\ UNCHANGED <<redis, hand, inv, last, buffer, mutable, partial, unit, offer, gc, faults>>
      /\ up = "run" /\ pc = "idle" /\ unit # None /\ unit.kind = "forward" /\ ~ mutable /\ ~ unit.mutable
  BY DEF BeginImmutable, tikv, memory
<1>2. BufferInv /\ FieldInv /\ UnitInv
  BY <1>1 DEF MemoryInv, Alive
<1>3. p \in Points /\ p \in Blocks
  BY <1>1 DEF TypeOK, Blocks
<1>4. \A j : (partial # None => Chunk(Touched(p), j) \notin partial.done)
               <=> Chunk(Touched(p), j) \notin markers
  <2>1. CASE lock = NoLock
    BY <1>2, <2>1 DEF FieldInv, LockInv, ImmutableLock
  <2>2. CASE lock # NoLock
    BY <1>1, <1>2, <2>2, PartialNotNone, SMTT(60) DEF FieldInv, TypeOK
  <2> QED
    BY <2>1, <2>2
<1>5. \/ up' = "panic" /\ UNCHANGED <<job, todo, pc>>
      \/ /\ job' = [kind |-> "immutable", point |-> p] /\ todo' = T
         /\ pc' = "lock" /\ up' = "run"
  BY <1>1, <1>4 DEF BeginImmutable
<1> HIDE DEF T
<1>6. CASE up' = "panic" /\ UNCHANGED <<job, todo, pc>>
  BY <1>1, <1>6, PanicInv DEF TypeOK
<1>7. CASE /\ job' = [kind |-> "immutable", point |-> p] /\ todo' = T
           /\ pc' = "lock" /\ up' = "run"
  <2>1. TypeOK'
    <3>1. T \in SUBSET (Points \X Keys)
      <4>1. {j \in Touched(p) : Chunk(Touched(p), j) \notin markers} \in SUBSET Keys
        BY DEF Touched
      <4> QED
        BY <1>3, <4>1, PairsType DEF T
    <3>2. job' \in [kind : {"none", "immutable", "mutable", "back", "repair"}, point : Blocks]
      BY <1>3, <1>7
    <3> QED
      BY <1>1, <1>7, <3>1, <3>2 DEF TypeOK
  <2>2. TipInv' /\ LockInv' /\ MetaInv'
    BY <1>1, StoreStutter
  <2>3. TargetInv'
    BY <1>1, StoreStutter DEF TargetInv, Target
  <2>4. MemoryInv'
    <3>1. BufferInv'
      BY <1>1, <1>2, <1>7, StoreStutter DEF BufferInv, Sync, Retreated
    <3>2. FieldInv'
      BY <1>1, <1>2, <1>7, StoreStutter DEF FieldInv, Retreated
    <3>3. UnitInv'
      BY <1>1, <1>2, StoreStutter DEF UnitInv
    <3> QED
      BY <3>1, <3>2, <3>3 DEF MemoryInv
  <2>5. JobInv'
    <3>1. ~ MutableLock /\ parent[p] = LastPoint /\ (lock # NoLock => lock.block = p)
      BY <1>1, <1>2 DEF FieldInv, UnitInv, MutableLock, ImmutableLock
    <3>2. ImmutableJob'
      BY <1>1, <1>7, <3>1, StoreStutter DEF ImmutableJob, T
    <3> QED
      BY <1>1, <1>3, <1>7, <3>2 DEF JobInv, Alive, Undoing
  <2>6. GcInv' /\ PublishedConsistent'
    BY <1>1, StoreStutter DEF GcInv, PublishedConsistent
  <2> QED
    BY <2>1, <2>2, <2>3, <2>4, <2>5, <2>6
<1> QED
  BY <1>5, <1>6, <1>7

\* Beginning a mutable block keeps the invariant.
LEMMA BeginMutableInv == ASSUME IInv, BeginMutable PROVE IInv'
<1> USE DEF IInv
<1> DEFINE p == unit.point
           T == {<<p, k>> : k \in Touched(p)}
<1>1. /\ UNCHANGED <<db, lock, markers, meta, top>>
      /\ UNCHANGED <<redis, hand, last, buffer, partial, unit, offer, gc, faults>>
      /\ up = "run" /\ pc = "idle" /\ unit # None /\ unit.kind = "forward"
      /\ mutable \/ unit.mutable
  BY DEF BeginMutable, tikv
<1>2. BufferInv /\ FieldInv /\ UnitInv
  BY <1>1 DEF MemoryInv, Alive
<1>3. p \in Points /\ p \in Blocks
  BY <1>1 DEF TypeOK, Blocks
<1>4. lock = NoLock
  BY <1>1, <1>2 DEF FieldInv, UnitInv
<1>5. \/ up' = "panic" /\ UNCHANGED <<mutable, job, todo, inv, pc>>
      \/ /\ mutable' = TRUE /\ job' = [kind |-> "mutable", point |-> p] /\ todo' = T
         /\ inv' = Empty /\ up' = "run"
         /\ pc' = IF DOMAIN buffer = {} /\ last # Origin THEN "seed" ELSE "lock"
  BY <1>1 DEF BeginMutable
<1> HIDE DEF T
<1>6. CASE up' = "panic" /\ UNCHANGED <<mutable, job, todo, inv, pc>>
  BY <1>1, <1>6, PanicInv DEF TypeOK
<1>7. CASE /\ mutable' = TRUE /\ job' = [kind |-> "mutable", point |-> p] /\ todo' = T
           /\ inv' = Empty /\ up' = "run"
           /\ pc' = IF DOMAIN buffer = {} /\ last # Origin THEN "seed" ELSE "lock"
  <2>a. pc' \in {"seed", "lock"} /\ (pc' = "seed" => last' # Origin /\ DOMAIN buffer' = {})
    BY <1>1, <1>7
  <2>1. TypeOK'
    <3>1. T \in SUBSET (Points \X Keys)
      BY <1>3, SMTT(60) DEF T, Touched
    <3>2. job' \in [kind : {"none", "immutable", "mutable", "back", "repair"}, point : Blocks]
      BY <1>3, <1>7
    <3> QED
      BY <1>1, <1>7, <2>a, <3>1, <3>2, EmptyType DEF TypeOK
  <2>2. TipInv' /\ LockInv' /\ MetaInv'
    BY <1>1, StoreStutter
  <2>3. TargetInv'
    BY <1>1, StoreStutter DEF TargetInv, Target
  <2>4. MemoryInv'
    <3>1. BufferInv'
      BY <1>1, <1>2, <1>7, <2>a, StoreStutter DEF BufferInv, Sync, Retreated
    <3>2. FieldInv'
      BY <1>1, <1>2, <1>4, <1>7, <2>a, StoreStutter DEF FieldInv, Retreated, ImmutableLock
    <3>3. UnitInv'
      BY <1>1, <1>2, StoreStutter DEF UnitInv
    <3> QED
      BY <3>1, <3>2, <3>3 DEF MemoryInv
  <2>5. MutableJob'
    <3>1. /\ LastPoint \in Blocks /\ Level(LastPoint) \in Int
          /\ parent[p] = LastPoint /\ last = LastPoint /\ partial = None
          /\ height[p] > Level(LastPoint) /\ ~ MutableLock
      BY <1>1, <1>2, <1>3, <1>4, LevelFacts DEF UnitInv, FieldInv, TipInv, MutableLock, Retreated
    <3>2. \A q \in Points : height[q] > Level(LastPoint) => meta[q] = Empty
      BY <3>1 DEF MetaInv
    <3>3. \A q \in DOMAIN buffer : height[q] <= Level(LastPoint)
      BY <1>1, <1>2, <1>4 DEF BufferInv, Retreated
    <3>4. todo' \subseteq {p} \X Touched(p) /\ \A k : <<p, k>> \in todo' <=> k \in Touched(p)
      BY <1>7, SMTT(60) DEF T
    <3>5. WholeBatches'
      <4>1. \A q : KeysOf(q)' = Touched(q)
        BY <1>7 DEF KeysOf, Undoing
      <4> QED
        BY <3>4, <4>1 DEF WholeBatches
    <3>6. ASSUME NEW k \in Keys
          PROVE  IF <<p, k>> \in todo' THEN db[k] = ideal[LastPoint][k] /\ meta[p][k] = NoInverse
                                       ELSE db[k] = ideal[p][k]
      <4>1. db[k] = ideal[LastPoint][k] /\ meta[p][k] = NoInverse
        BY <1>3, <1>4, <3>1, <3>2 DEF LockInv, Empty
      <4>2. k \notin Touched(p) => ideal[p][k] = ideal[LastPoint][k]
        BY <1>3, <3>1, IdealAssumption DEF Touched, ExecOption
      <4> QED
        BY <3>4, <4>1, <4>2
    <3>7. <<p, CursorKey>> \in todo'
      BY <1>3, <3>4, KeyAssumption, ActionAssumption DEF Touched
    <3>8. inv' = meta[p]
      BY <1>3, <1>7, <3>1, <3>2
    <3>9. job'.point = p /\ pc' # "batch" /\ mutable' /\ lock' = NoLock /\ LastPoint' = LastPoint
      BY <1>1, <1>4, <1>7, <2>a, StoreStutter
    <3> QED
      BY <1>1, <2>a, <3>1, <3>2, <3>3, <3>4, <3>5, <3>6, <3>7, <3>8, <3>9 DEF MutableJob
  <2>6. JobInv'
    BY <1>1, <1>3, <1>7, <2>a, <2>5 DEF JobInv, Alive, Undoing
  <2>7. GcInv' /\ PublishedConsistent'
    BY <1>1, StoreStutter DEF GcInv, PublishedConsistent
  <2> QED
    BY <2>1, <2>2, <2>3, <2>4, <2>6, <2>7
<1> QED
  BY <1>5, <1>6, <1>7

\* Beginning a rollback keeps the invariant.
LEMMA BeginBackInv == ASSUME IInv, BeginBack PROVE IInv'
<1> USE DEF IInv
<1> DEFINE t == unit.point
<1>1. /\ UNCHANGED <<db, lock, markers, meta, top>>
      /\ UNCHANGED <<redis, inv, last, buffer, partial, unit, offer, gc, faults>>
      /\ up = "run" /\ pc = "idle" /\ unit # None /\ unit.kind = "back"
      /\ mutable' = (mutable \/ unit.mutable)
  BY DEF BeginBack, tikv
<1>2. BufferInv /\ FieldInv /\ UnitInv
  BY <1>1 DEF MemoryInv, Alive
<1>3. t \in Points /\ t \in Blocks /\ mutable' \in BOOLEAN
  BY <1>1 DEF TypeOK, Blocks
<1>4. lock = NoLock /\ Fresh(t)
  BY <1>1, <1>2 DEF FieldInv, UnitInv
<1>5. \/ up' = "range" /\ UNCHANGED <<job, hand, todo, pc>>
      \/ /\ t \in DOMAIN buffer
         /\ job' = [kind |-> "back", point |-> t] /\ hand' = buffer /\ todo' = SavedAbove(buffer, t)
         /\ pc' = "lock" /\ up' = "run"
  BY <1>1 DEF BeginBack
<1>6. CASE up' = "range" /\ UNCHANGED <<job, hand, todo, pc>>
  BY <1>1, <1>3, <1>6, PanicInv
<1>7. CASE /\ t \in DOMAIN buffer
           /\ job' = [kind |-> "back", point |-> t] /\ hand' = buffer /\ todo' = SavedAbove(buffer, t)
           /\ pc' = "lock" /\ up' = "run"
  <2>1. TypeOK'
    <3>1. todo' \in SUBSET (Points \X Keys)
      BY <1>3, <1>7, SavedAboveFacts DEF TypeOK
    <3>2. job' \in [kind : {"none", "immutable", "mutable", "back", "repair"}, point : Blocks]
      BY <1>3, <1>7
    <3> QED
      BY <1>1, <1>3, <1>7, <3>1, <3>2 DEF TypeOK
  <2>2. TipInv' /\ LockInv' /\ MetaInv'
    BY <1>1, StoreStutter
  <2>3. TargetInv'
    BY <1>1, StoreStutter DEF TargetInv, Target
  <2>4. mutable /\ mutable'
    BY <1>1, <1>2, <1>7 DEF BufferInv
  <2>5. MemoryInv'
    <3>1. BufferInv'
      BY <1>1, <1>2, <1>7, <2>4, StoreStutter DEF BufferInv, Sync, Retreated
    <3>2. FieldInv'
      BY <1>1, <1>2, <1>4, <1>7, <2>4, StoreStutter DEF FieldInv, Retreated, ImmutableLock
    <3>3. UnitInv'
      BY <1>1, <1>2, StoreStutter DEF UnitInv
    <3> QED
      BY <3>1, <3>2, <3>3 DEF MemoryInv
  <2>6. UndoJob'
    <3>1. Level(LastPoint) \in Int /\ ~ MutableLock /\ \A q \in Points : height[q] \in Nat
      BY <1>4, LevelFacts, TypeFacts DEF TipInv, MutableLock
    <3>2. \A q \in DOMAIN buffer : q \in Points /\ height[q] <= Level(LastPoint)
      BY <1>1, <1>2, <1>4 DEF BufferInv, Retreated, TypeOK, IsBuffer
    <3>3. Recoverable(t)
      <4>1. buffer[t] = meta[t] /\ buffer[t] # Empty
        BY <1>2, <1>3, <1>4, <1>7, <3>2 DEF BufferInv, Sync
      <4>2. Target(t)
        BY <1>4, <1>7, <3>2, <4>1 DEF Target
      <4> QED
        BY <1>3, <4>2 DEF TargetInv
    <3>4. ASSUME NEW q \in Points, height[q] > height[t]
          PROVE  IF q \in DOMAIN buffer THEN buffer[q] = meta[q] ELSE meta[q] = Empty
      <4>1. Fresh(q) /\ height[q] # 0
        BY <1>3, <1>4, <3>1, <3>4, TypeFacts, SMTT(60) DEF Fresh
      <4>2. CASE height[q] <= Level(LastPoint)
        BY <1>2, <4>1, <4>2 DEF BufferInv, Sync
      <4>3. CASE height[q] > Level(LastPoint)
        BY <3>1, <3>2, <4>3, SMTT(60) DEF MetaInv
      <4> QED
        BY <3>1, <4>2, <4>3, SMTT(60)
    <3>5. Undoing' /\ job'.point = t /\ job'.kind = "back"
      BY <1>7 DEF Undoing
    <3>6. /\ mutable' /\ Fresh(t)' /\ Recoverable(t)' /\ t \in DOMAIN hand'
          /\ \A q \in Points, k \in Keys :
               height[q] > height[t] => (meta'[q][k].saved <=> <<q, k>> \in todo')
          /\ \A w \in todo' :
               /\ height[w[1]] > height[t]
               /\ w[1] \in DOMAIN hand'
               /\ hand'[w[1]][w[2]] = meta'[w[1]][w[2]]
          /\ WholeBatches'
      <4>1. IsBuffer(buffer)
        BY DEF TypeOK
      <4> QED
        BY <1>1, <1>4, <1>7, <2>4, <3>3, <3>4, <3>5, <4>1, BeginUndo
    <3>7. partial' = None /\ lock' = NoLock /\ height[t] <= Level(LastPoint')
      BY <1>1, <1>2, <1>4, <1>7, <3>2, StoreStutter DEF FieldInv
    <3> QED
      BY <1>1, <1>7, <3>5, <3>6, <3>7 DEF UndoJob, Fresh, Recoverable
  <2>7. JobInv'
    BY <1>1, <1>3, <1>7, <2>6 DEF JobInv, Alive
  <2>8. GcInv' /\ PublishedConsistent'
    BY <1>1, StoreStutter DEF GcInv, PublishedConsistent
  <2> QED
    BY <2>1, <2>2, <2>3, <2>5, <2>7, <2>8
<1> QED
  BY <1>5, <1>6, <1>7

-----------------------------------------------------------------------------
(* After the lock. *)

\* Publishing a mutable block keeps the invariant.
LEMMA PublishMutableInv == ASSUME IInv, PublishMutable PROVE IInv'
<1> USE DEF IInv
<1>1. /\ UNCHANGED <<db, lock, markers, meta, top>>
      /\ UNCHANGED <<up, todo, inv, last, buffer, mutable, partial, unit, offer, faults>>
      /\ pc = "publish" /\ job.kind = "mutable" /\ redis' = redis \cup {Entry}
      /\ gc' = gc \cup {[point |-> q, keys |-> Saved(hand[q])] : q \in DOMAIN hand}
      /\ pc' = "idle" /\ job' = NoJob /\ hand' = NoBuffer
  BY DEF PublishMutable, tikv, memory
<1>2. /\ Alive /\ job.point \in Points /\ up = "run"
      /\ lock = NoLock /\ LastPoint = job.point /\ \A q \in DOMAIN hand : ~ Fresh(q)
  BY <1>1 DEF JobInv, Published, Alive
<1>3. BufferInv /\ FieldInv /\ UnitInv
  BY <1>2 DEF MemoryInv
<1>4. TypeOK'
  <2>1. \A e \in redis' : e.point \in Points /\ e.snap \in [Keys -> Stored]
    BY <1>1, <1>2, SMTT(60) DEF TypeOK, Entry
  <2>2. gc' \in SUBSET [point : Points, keys : SUBSET Keys]
    BY <1>1, SMTT(60) DEF TypeOK, IsBuffer, Saved
  <2>3. job' \in [kind : {"none", "immutable", "mutable", "back", "repair"}, point : Blocks]
    BY <1>1 DEF NoJob, Blocks
  <2> QED
    BY <1>1, <2>1, <2>2, <2>3, EmptyType DEF TypeOK
<1>5. TipInv' /\ LockInv' /\ MetaInv'
  BY <1>1, StoreStutter
<1>6. TargetInv'
  BY <1>1, StoreStutter DEF TargetInv, Target
<1>7. MemoryInv'
  <2>1. BufferInv'
    BY <1>1, <1>3, StoreStutter DEF BufferInv, Sync, Retreated
  <2>2. FieldInv'
    BY <1>1, <1>2, <1>3, StoreStutter DEF FieldInv, Retreated
  <2>3. UnitInv'
    BY <1>1, <1>3, StoreStutter DEF UnitInv
  <2> QED
    BY <2>1, <2>2, <2>3 DEF MemoryInv
<1>8. JobInv'
  BY <1>1 DEF JobInv
<1>9. GcInv'
  BY <1>1, <1>2, StoreStutter, SMTT(60) DEF GcInv
<1>10. PublishedConsistent'
  BY <1>1, <1>2, SMTT(60) DEF PublishedConsistent, Entry, LockInv
<1> QED
  BY <1>4, <1>5, <1>6, <1>7, <1>8, <1>9, <1>10

\* Publishing after a rollback, and trimming the buffer, keeps the invariant.
LEMMA PublishBackInv == ASSUME IInv, PublishBack PROVE IInv'
<1> USE DEF IInv
<1> DEFINE t == job.point
<1>1. /\ UNCHANGED <<db, lock, markers, meta, top>>
      /\ UNCHANGED <<up, todo, inv, mutable, partial, offer, gc, faults>>
      /\ pc = "publish" /\ job.kind = "back" /\ redis' = redis \cup {Entry}
      /\ unit' = None /\ last' = t /\ buffer' = Trim(buffer, t)
      /\ pc' = "idle" /\ job' = NoJob /\ hand' = NoBuffer
  BY DEF PublishBack, tikv
<1>2. /\ Alive /\ t \in Points /\ t \in Blocks /\ up = "run"
      /\ lock = NoLock /\ LastPoint = t /\ mutable
  BY <1>1 DEF JobInv, Published, Alive, Blocks
<1>3. BufferInv /\ FieldInv /\ UnitInv
  BY <1>2 DEF MemoryInv
<1>4. /\ IsBuffer(buffer')
      /\ \A q : q \in DOMAIN buffer' <=> q \in DOMAIN buffer /\ ~ (height[q] > height[t])
      /\ \A q \in DOMAIN buffer' : buffer'[q] = buffer[q]
  <2>1. IsBuffer(buffer)
    BY DEF TypeOK
  <2> QED
    BY <1>1, <1>2, <2>1, TrimFacts
<1>5. Level(LastPoint) = height[t] /\ LastPoint' = t /\ Level(LastPoint') = height[t]
  BY <1>1, <1>2, LevelFacts, StoreStutter
<1>6. TypeOK'
  <2>1. \A e \in redis' : e.point \in Points /\ e.snap \in [Keys -> Stored]
    BY <1>1, <1>2, SMTT(60) DEF TypeOK, Entry
  <2>2. job' \in [kind : {"none", "immutable", "mutable", "back", "repair"}, point : Blocks]
    BY <1>1 DEF NoJob, Blocks
  <2> QED
    BY <1>1, <1>2, <1>4, <2>1, <2>2, EmptyType DEF TypeOK
<1>7. TipInv' /\ LockInv' /\ MetaInv'
  BY <1>1, StoreStutter
<1>8. TargetInv'
  <2>1. \A p \in Points : Target(p)' => Target(p)
    BY <1>1, <1>4, StoreStutter DEF Target
  <2> QED
    BY <1>1, <2>1, StoreStutter DEF TargetInv
<1>9. MemoryInv'
  <2>1. \A q \in Points : height[q] \in Nat
    BY TypeFacts
  <2>2. Sync(buffer, LastPoint)'
    BY <1>1, <1>3, <1>4, <1>5, <2>1, <1>2, StoreStutter, SMTT(60) DEF BufferInv, Sync
  <2>3. \A q \in DOMAIN buffer' : buffer'[q] # Empty /\ height[q] <= Level(LastPoint')
    BY <1>2, <1>3, <1>4, <1>5, <2>1, SMTT(60) DEF BufferInv, IsBuffer
  <2>4. BufferInv'
    BY <1>1, <1>2, <2>2, <2>3 DEF BufferInv
  <2>5. FieldInv'
    BY <1>1, <1>2, <1>3, <1>5, StoreStutter DEF FieldInv, ImmutableLock
  <2> QED
    BY <1>1, <2>4, <2>5 DEF MemoryInv, UnitInv
<1>10. JobInv'
  BY <1>1 DEF JobInv
<1>11. GcInv'
  BY <1>1, StoreStutter DEF GcInv
<1>12. PublishedConsistent'
  <2>1. Entry.snap = ideal[Entry.point]
    BY <1>2 DEF Entry, LockInv
  <2> QED
    BY <1>1, <2>1 DEF PublishedConsistent
<1> QED
  BY <1>6, <1>7, <1>8, <1>9, <1>10, <1>11, <1>12

=============================================================================
