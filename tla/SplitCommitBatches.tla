------------------------- MODULE SplitCommitBatches -------------------------
(***************************************************************************)
(* The invariant is kept by the transactions on TiKV: the garbage          *)
(* collector, the first buffer entry, the lock and the batches of each     *)
(* kind of split commit, and the last transaction, which removes the lock  *)
(* and moves the worker to the new block.                                  *)
(***************************************************************************)
EXTENDS SplitCommitInvariant

\* Most steps are first-order; those that need arithmetic or functions cite SMT.
USE ZenonT(60)

\* The garbage collector touches only what is out of reach.
LEMMA GcRunInv == ASSUME IInv, GcRun PROVE IInv'
<1> USE DEF IInv
<1>1. PICK t \in gc :
        /\ meta' = [meta EXCEPT ![t.point] = [k \in Keys |-> IF k \in t.keys THEN NoInverse ELSE @[k]]]
        /\ gc' = gc \ {t}
  BY DEF GcRun
<1>2. /\ UNCHANGED <<db, lock, markers, top>>
      /\ UNCHANGED <<redis, up, pc, job, todo, hand, inv, last, buffer, mutable, partial, unit, offer, faults>>
  BY DEF GcRun, run, memory
<1>3. t.point \in Points /\ ~ Fresh(t.point) /\ t.keys \subseteq Keys
  BY DEF TypeOK, GcInv
<1>4. \A q \in Points : Fresh(q) => meta'[q] = meta[q]
  BY <1>1, <1>3 DEF TypeOK
<1>5. \A q \in Points, k \in Keys : meta'[q][k] = meta[q][k] \/ meta'[q][k] = NoInverse
  BY <1>1, <1>3 DEF TypeOK, InverseMaps
<1>6. meta' \in [Points -> InverseMaps]
  <2>1. NoInverse \in [saved : BOOLEAN, val : Stored]
    BY DEF NoInverse, Stored
  <2> QED
    BY <1>1, <1>3, <2>1, SMTT(60) DEF TypeOK, InverseMaps
<1>7. \A q \in Points : meta[q] = Empty => meta'[q] = Empty
  <2>1. ASSUME NEW q \in Points, meta[q] = Empty PROVE meta'[q] = Empty
    <3>1. meta'[q] \in InverseMaps /\ \A k \in Keys : meta'[q][k] = NoInverse
      BY <1>5, <1>6, <2>1 DEF Empty
    <3> QED
      BY <3>1 DEF InverseMaps, Empty
  <2> QED
    BY <2>1
<1>8. /\ LastPoint' = LastPoint /\ MinHeight' = MinHeight
      /\ (ImmutableLock' <=> ImmutableLock) /\ (MutableLock' <=> MutableLock)
      /\ \A q : Fresh(q)' <=> Fresh(q)
  BY <1>2 DEF LastPoint, MinHeight, ImmutableLock, MutableLock, Fresh
<1>9. NothingToFetch => NothingToFetch'
  BY <1>7, <1>8 DEF NothingToFetch
<1>10. \A p, q \in Points : Fresh(p) /\ height[q] > height[p] => Fresh(q)
  BY TypeFacts, SMTT(60) DEF Fresh
<1>11. \A p \in Points : Fresh(p) /\ Recoverable(p) => Recoverable(p)'
  BY <1>2, <1>4, <1>10, SMTT(60) DEF Recoverable
<1>12. TypeOK'
  BY <1>1, <1>2, <1>6, SMTT(60) DEF TypeOK
<1>13. TipInv'
  BY <1>2, <1>8 DEF TipInv
<1>14. LockInv'
  <2>1. MutableLock /\ lock.safe # Origin => Recoverable(lock.safe)'
    BY <1>2, <1>11, TypeFacts DEF LockInv, TipInv, LastPoint, MutableLock, Blocks
  <2>2. \A k : Marked(k)' <=> Marked(k)
    BY <1>2 DEF Marked
  <2> QED
    BY <1>2, <1>8, <2>1, <2>2 DEF LockInv
<1>15. MetaInv'
  BY <1>2, <1>5, <1>7, <1>8, <1>9 DEF MetaInv
<1>16. TargetInv'
  BY <1>2, <1>4, <1>8, <1>11 DEF TargetInv, Target
<1>17. MemoryInv'
  <2>1. BufferInv => BufferInv'
    BY <1>2, <1>4, <1>8, <1>9 DEF BufferInv, Sync, Retreated
  <2>2. FieldInv => FieldInv'
    BY <1>2, <1>8 DEF FieldInv, Retreated
  <2>3. UnitInv => UnitInv'
    BY <1>2, <1>8 DEF UnitInv
  <2> QED
    BY <1>2, <2>1, <2>2, <2>3 DEF MemoryInv, Alive
<1>18. JobInv'
  <2>1. \A q : KeysOf(q)' = KeysOf(q)
    BY <1>2 DEF KeysOf, Undoing
  <2>2. WholeBatches' <=> WholeBatches
    BY <1>2, <2>1 DEF WholeBatches
  <2>3. ImmutableJob => ImmutableJob'
    BY <1>2, <1>8 DEF ImmutableJob
  <2>4. job.point \in Points /\ MutableJob => MutableJob'
    <3>1. ASSUME job.point \in Points, MutableJob PROVE meta'[job.point] = meta[job.point]
      BY <1>4, <3>1, ChildFresh DEF MutableJob
    <3> QED
      BY <1>2, <1>7, <1>8, <2>2, <3>1 DEF MutableJob
  <2>5. job.point \in Points /\ UndoJob => UndoJob'
    <3>1. ASSUME job.point \in Points, UndoJob, NEW q \in Points, height[q] > height[job.point]
          PROVE  meta'[q] = meta[q]
      BY <1>4, <1>10, <3>1 DEF UndoJob
    <3>2. ASSUME job.point \in Points, UndoJob, NEW w \in todo
          PROVE  hand[w[1]][w[2]] = meta'[w[1]][w[2]]
      <4>1. w[1] \in Points /\ height[w[1]] > height[job.point] /\ hand[w[1]][w[2]] = meta[w[1]][w[2]]
        BY <3>2 DEF UndoJob, TypeOK
      <4> QED
        BY <3>1, <3>2, <4>1
    <3>3. Sync(hand, job.point) => Sync(hand, job.point)'
      BY <1>2, <1>4, <1>8 DEF Sync
    <3> QED
      BY <1>2, <1>8, <1>11, <2>2, <3>1, <3>2, <3>3 DEF UndoJob
  <2>6. Published' <=> Published
    BY <1>2, <1>8 DEF Published
  <2> QED
    BY <1>2, <2>3, <2>4, <2>5, <2>6 DEF JobInv, Alive, Undoing
<1>19. GcInv' /\ PublishedConsistent'
  BY <1>1, <1>2, <1>8 DEF GcInv, PublishedConsistent
<1> QED
  BY <1>12, <1>13, <1>14, <1>15, <1>16, <1>17, <1>18, <1>19

\* The first entry of the rollback buffer keeps the invariant.
LEMMA SeedInv == ASSUME HeightsCounted, IInv, Seed PROVE IInv'
<1> USE DEF IInv
<1> DEFINE dummy == [Empty EXCEPT ![DummyKey] = [saved |-> TRUE, val |-> Absent]]
           p == job.point
<1>1. /\ UNCHANGED <<db, lock, markers, top>>
      /\ UNCHANGED <<redis, up, job, todo, hand, inv, last, mutable, partial, unit, offer, gc, faults>>
      /\ pc = "seed" /\ pc' = "lock"
      /\ meta' = [meta EXCEPT ![last] = dummy] /\ buffer' = AddBlock(buffer, last, dummy)
  BY DEF Seed
<1>2. Alive /\ MutableJob /\ p \in Points /\ job.kind = "mutable"
  BY <1>1 DEF JobInv
<1>3. /\ lock = NoLock /\ last # Origin /\ DOMAIN buffer = {} /\ last = LastPoint
      /\ parent[p] = last /\ mutable /\ ~ MutableLock
  BY <1>1, <1>2 DEF MutableJob, MutableLock
<1>4. BufferInv /\ FieldInv /\ UnitInv
  BY <1>2 DEF MemoryInv
<1>5. last \in Points /\ Fresh(last) /\ height[last] <= top /\ Level(LastPoint) = height[last]
  BY <1>3, LevelFacts DEF TypeOK, Blocks, TipInv
<1>6. dummy \in InverseMaps /\ dummy # Empty /\ \A k \in Keys : ~ dummy[k].saved => dummy[k] = NoInverse
  <2>1. Empty \in [Keys -> [saved : BOOLEAN, val : Stored]] /\ DummyKey \in Keys
    BY EmptyType, KeyAssumption DEF InverseMaps
  <2>2. dummy \in InverseMaps
    BY <2>1 DEF InverseMaps, Stored
  <2>3. dummy[DummyKey].saved /\ ~ Empty[DummyKey].saved
    BY <2>1 DEF Empty, NoInverse
  <2>4. \A k \in Keys : k # DummyKey => dummy[k] = NoInverse
    BY <2>1 DEF Empty
  <2> QED
    BY <2>2, <2>3, <2>4
<1> HIDE DEF dummy
<1>7. /\ IsBuffer(buffer') /\ DOMAIN buffer' = {last} /\ buffer'[last] = dummy
  <2>1. DOMAIN buffer \cup {last} = {last}
    BY <1>3
  <2>2. Newest({last}) = {last}
    <3>1. Above({last}, last) = {}
      BY <1>5, TypeFacts, SMTT(60) DEF Above
    <3> QED
      <4>1. Cardinality({}) = 0
        BY DEF HeightsCounted
      <4> QED
        BY <3>1, <4>1, BoundAssumption, SMTT(60) DEF Newest
  <2>3. Pushed(buffer, last, dummy) = [q \in {last} |-> dummy]
    BY <2>1 DEF Pushed
  <2>4. buffer' = [q \in {last} |-> dummy]
    BY <1>1, <2>2, <2>3 DEF AddBlock, Keep, Only
  <2> QED
    BY <1>5, <1>6, <2>4 DEF IsBuffer
<1>8. meta' \in [Points -> InverseMaps] /\ meta'[last] = dummy /\ \A q \in Points : q # last => meta'[q] = meta[q]
  BY <1>1, <1>5, <1>6 DEF TypeOK
<1>9. \A q \in Points : Fresh(q) /\ height[q] <= height[last] /\ height[q] # 0 => meta[q] = Empty
  BY <1>3, <1>4, <1>5 DEF BufferInv, Sync
<1>10. \A q \in Points : height[q] > height[last] => meta[q] = Empty /\ meta'[q] = Empty
  BY <1>3, <1>5, <1>8, TypeFacts, SMTT(60) DEF MetaInv
<1>11. /\ LastPoint' = LastPoint /\ MinHeight' = MinHeight /\ \A q : Fresh(q)' <=> Fresh(q)
       /\ (ImmutableLock' <=> ImmutableLock) /\ (MutableLock' <=> MutableLock)
       /\ Level(LastPoint') = height[last]
  BY <1>1, <1>5 DEF LastPoint, MinHeight, ImmutableLock, MutableLock, Fresh
<1>12. TypeOK'
  BY <1>1, <1>7, <1>8, SMTT(60) DEF TypeOK
<1>13. TipInv' /\ LockInv'
  BY <1>1, <1>3, <1>11 DEF TipInv, LockInv, ImmutableLock, MutableLock
<1>14. MetaInv'
  <2>1. \A q \in Points, k \in Keys : ~ meta'[q][k].saved => meta'[q][k] = NoInverse
    BY <1>6, <1>8, SMTT(60) DEF MetaInv
  <2>2. \A q \in Points : meta'[q] # Empty => height[q] <= top
    BY <1>5, <1>8 DEF MetaInv
  <2>3. ASSUME NEW q \in Points, NEW r \in Points, Fresh(q), height[q] # 0,
               meta'[q] # Empty, meta'[r] # Empty, height[q] = height[r]
        PROVE  q = r
    <3>1. Fresh(r)
      BY <2>3 DEF Fresh
    <3>2. height[q] <= height[last]
      BY <1>5, <1>10, <2>3, TypeFacts, SMTT(60)
    <3>3. q = last
      BY <1>8, <1>9, <2>3, <3>2
    <3>4. r = last
      BY <1>8, <1>9, <2>3, <3>1, <3>2
    <3> QED
      BY <3>3, <3>4
  <2> QED
    BY <1>1, <1>3, <1>10, <1>11, <2>1, <2>2, <2>3 DEF MetaInv, ImmutableLock
<1>15. TargetInv'
  <2>1. Recoverable(last)'
    <3>1. \A k \in Keys : db'[k] = ideal[last][k]
      BY <1>1, <1>3 DEF LockInv
    <3>2. \A q \in Points, k \in Keys : height[q] > height[last] => ~ meta'[q][k].saved
      BY <1>10, SMTT(60) DEF Empty, NoInverse
    <3>3. \A k \in Keys : db'[k] = ideal[last'][k] /\ last' = last
      BY <1>1, <3>1
    <3> QED
      BY <3>2, <3>3 DEF Recoverable
  <2>2. ASSUME NEW q \in Points, Target(q)' PROVE q = last
    <3>1. meta'[q] # Empty /\ Fresh(q) /\ height[q] <= height[last] /\ (height[q] # 0 \/ q = last)
      BY <1>7, <1>11, <2>2 DEF Target
    <3> QED
      BY <1>8, <1>9, <3>1
  <2>3. last' = last
    BY <1>1
  <2> QED
    BY <2>1, <2>2, <2>3 DEF TargetInv
<1>16. MemoryInv'
  <2>1. Sync(buffer, LastPoint)'
    BY <1>7, <1>8, <1>9, <1>11 DEF Sync
  <2>2. BufferInv'
    BY <1>1, <1>3, <1>5, <1>6, <1>7, <1>11, <2>1, TypeFacts, SMTT(60) DEF BufferInv
  <2>3. FieldInv'
    BY <1>1, <1>3, <1>4, <1>11 DEF FieldInv, Retreated
  <2>4. UnitInv'
    BY <1>1, <1>4, <1>11 DEF UnitInv
  <2> QED
    BY <2>2, <2>3, <2>4 DEF MemoryInv
<1>17. MutableJob'
  <2>1. height[p] > height[last] /\ p # last /\ meta'[p] = meta[p]
    BY <1>2, <1>3, <1>5, <1>8, LevelFacts, TypeFacts, SMTT(60)
  <2>2. \A q : KeysOf(q)' = KeysOf(q)
    BY <1>1 DEF KeysOf, Undoing
  <2>3. WholeBatches'
    BY <1>1, <1>2, <2>2 DEF MutableJob, WholeBatches
  <2>4. \A q \in DOMAIN buffer' : height[q] <= Level(LastPoint')
    BY <1>5, <1>7, <1>11, TypeFacts, SMTT(60)
  <2> QED
    BY <1>1, <1>2, <1>3, <1>5, <1>10, <1>11, <2>1, <2>3, <2>4 DEF MutableJob
<1>18. JobInv'
  BY <1>1, <1>2, <1>17 DEF JobInv, Alive, Undoing
<1>19. GcInv' /\ PublishedConsistent'
  BY <1>1, <1>11 DEF GcInv, PublishedConsistent
<1> QED
  BY <1>12, <1>13, <1>14, <1>15, <1>16, <1>18, <1>19

\* Writing the lock of a split commit keeps the invariant.
LEMMA WriteLockInv == ASSUME ChunksCounted, IInv, WriteLock PROVE IInv'
<1> USE DEF IInv
<1> DEFINE p == job.point
           safe == IF Undoing THEN p ELSE last
<1>1. /\ UNCHANGED <<db, markers, meta, top>>
      /\ UNCHANGED <<redis, up, job, todo, hand, inv, last, buffer, mutable, partial, unit, offer, gc, faults>>
      /\ pc = "lock" /\ pc' = "batch"
      /\ lock'.safe = safe /\ lock'.block = p /\ lock'.mutable = (job.kind # "immutable")
      /\ lock' = [safe |-> safe, total |-> lock'.total, mutable |-> job.kind # "immutable", block |-> p]
      /\ lock'.total = IF Undoing THEN 0 ELSE Cardinality(Touched(p))
  BY DEF WriteLock, memory
<1>2. /\ Alive /\ p \in Points
      /\ IF up = "boot" THEN job.kind = "repair" ELSE job.kind \in {"immutable", "mutable", "back"}
  BY <1>1 DEF JobInv
<1>3. BufferInv /\ FieldInv /\ UnitInv
  BY <1>2 DEF MemoryInv
<1>4. lock' \in Locks /\ lock' # NoLock
  <2>1. lock'.total \in Nat
    <3>1. Touched(p) \in SUBSET Keys /\ CursorKey \in Keys
      BY KeyAssumption DEF Touched
    <3> QED
      BY <1>1, <3>1, SMTT(60) DEF ChunksCounted
  <2>2. safe \in Blocks
    BY <1>2 DEF TypeOK, Blocks
  <2>3. lock' \in Locks
    BY <1>1, <1>2, <2>1, <2>2 DEF Locks
  <2> QED
    BY <2>3, KeyAssumption
<1>5. LastPoint' = safe /\ (MutableLock' <=> job.kind # "immutable") /\ (ImmutableLock' <=> job.kind = "immutable")
  BY <1>1, <1>4 DEF LastPoint, MutableLock, ImmutableLock
<1>6. \A q : (Fresh(q)' <=> Fresh(q)) /\ (Recoverable(q)' <=> Recoverable(q))
  BY <1>1 DEF Fresh, Recoverable
<1>7. TypeOK'
  BY <1>1, <1>4 DEF TypeOK
<1>8. GcInv' /\ PublishedConsistent'
  BY <1>1, <1>6 DEF GcInv, PublishedConsistent
<1>9. /\ \A q : KeysOf(q)' = KeysOf(q)
      /\ WholeBatches => WholeBatches'
  BY <1>1 DEF KeysOf, Undoing, WholeBatches
<1> HIDE DEF safe
<1>10. CASE job.kind = "immutable"
  <2>1. ImmutableJob
    BY <1>1, <1>10 DEF JobInv
  <2>2. /\ LastPoint' = LastPoint /\ ~ MutableLock /\ safe = last /\ last = LastPoint
        /\ parent[p] = LastPoint /\ ~ mutable
    BY <1>1, <1>3, <1>5, <1>10, <2>1 DEF safe, Undoing, FieldInv, ImmutableJob, Retreated
  <2>3. MinHeight' = MinHeight /\ (NothingToFetch' <=> NothingToFetch)
    BY <1>1, <2>2 DEF MinHeight, NothingToFetch
  <2>4. TipInv'
    BY <1>1, <1>6, <2>2 DEF TipInv
  <2>5. LockInv'
    <3>1. ASSUME NEW k \in Keys
          PROVE  db[k] = IF k \in Touched(p) /\ Chunk(Touched(p), k) \in markers
                         THEN ideal[p][k] ELSE ideal[LastPoint][k]
      <4>1. CASE lock = NoLock
        BY <4>1 DEF LockInv, ImmutableLock
      <4>2. CASE lock # NoLock
        BY <2>1, <2>2, <4>2 DEF LockInv, ImmutableJob, MutableLock, ImmutableLock, Marked, LastPoint
      <4> QED
        BY <4>1, <4>2
    <3>2. \A k \in Keys : db'[k] = IF Marked(k)' THEN ideal[lock'.block][k] ELSE ideal[lock'.safe][k]
      BY <1>1, <2>2, <3>1 DEF Marked
    <3> QED
      BY <1>1, <1>4, <1>5, <1>10, <2>2, <3>2 DEF LockInv
  <2>6. MetaInv'
    BY <1>1, <1>3, <1>5, <1>6, <1>10, <2>2, <2>3 DEF MetaInv, BufferInv
  <2>7. TargetInv'
    BY <1>1, <1>6, <2>2 DEF TargetInv, Target
  <2>8. MemoryInv'
    <3>1. BufferInv'
      BY <1>1, <1>3, <1>4, <1>6, <2>2, <2>3 DEF BufferInv, Sync
    <3>2. FieldInv'
      BY <1>1, <1>3, <1>4, <2>2 DEF FieldInv
    <3>3. UnitInv'
      BY <1>1, <1>3, <2>1, <2>2 DEF UnitInv, ImmutableJob
    <3> QED
      BY <3>1, <3>2, <3>3 DEF MemoryInv
  <2>9. ImmutableJob'
    BY <1>1, <1>4, <1>5, <1>10, <2>1, <2>2 DEF ImmutableJob
  <2>10. JobInv'
    BY <1>1, <1>2, <1>10, <2>1, <2>9 DEF JobInv, Alive, Undoing, ImmutableJob
  <2> QED
    BY <1>7, <1>8, <2>4, <2>5, <2>6, <2>7, <2>8, <2>10
<1>11. CASE job.kind = "mutable"
  <2>1. MutableJob
    BY <1>1, <1>11 DEF JobInv
  <2>2. /\ LastPoint' = LastPoint /\ lock = NoLock /\ safe = last /\ last = LastPoint /\ mutable
        /\ ~ MutableLock /\ ~ ImmutableLock
    BY <1>1, <1>5, <1>11, <2>1 DEF safe, Undoing, MutableJob, MutableLock, ImmutableLock
  <2>3. TipInv'
    BY <1>1, <1>6, <2>2 DEF TipInv
  <2>4. LockInv'
    <3>1. LastPoint # Origin => Recoverable(LastPoint)
      <4>1. \A k \in Keys : db[k] = ideal[LastPoint][k]
        BY <2>2 DEF LockInv
      <4>2. ASSUME LastPoint # Origin
            PROVE  \A q \in Points, k \in Keys : height[q] > height[LastPoint] => ~ meta[q][k].saved
        <5>1. Level(LastPoint) = height[LastPoint]
          BY <4>2 DEF Level
        <5> QED
          BY <2>2, <5>1, SMTT(60) DEF MetaInv, Empty, NoInverse
      <4> QED
        BY <4>1, <4>2 DEF Recoverable
    <3>2. lock'.safe = LastPoint
      BY <1>1, <2>2
    <3> QED
      BY <1>1, <1>4, <1>5, <1>6, <1>11, <2>2, <3>1, <3>2 DEF LockInv
  <2>5. MetaInv'
    BY <1>1, <1>5, <1>6, <1>11 DEF MetaInv
  <2>6. TargetInv'
    BY <1>1, <1>6, <2>2 DEF TargetInv, Target
  <2>7. MemoryInv'
    <3>1. BufferInv'
      BY <1>1, <1>3, <1>4, <1>6, <2>2 DEF BufferInv, Sync
    <3>2. FieldInv'
      BY <1>1, <1>3, <1>4, <1>5, <1>11, <2>2 DEF FieldInv
    <3>3. UnitInv'
      BY <1>1, <1>3, <1>5, <1>6, <1>11, <2>2 DEF UnitInv
    <3> QED
      BY <3>1, <3>2, <3>3 DEF MemoryInv
  <2>8. MutableJob'
    BY <1>1, <1>5, <1>9, <1>11, <2>1, <2>2 DEF MutableJob
  <2>9. JobInv'
    BY <1>1, <1>2, <1>11, <2>1, <2>8 DEF JobInv, Alive, Undoing, MutableJob
  <2> QED
    BY <1>7, <1>8, <2>3, <2>4, <2>5, <2>6, <2>7, <2>9
<1>12. CASE Undoing
  <2>1. UndoJob
    BY <1>1, <1>12 DEF JobInv
  <2>2. /\ LastPoint' = p /\ safe = p /\ mutable /\ Fresh(p) /\ Recoverable(p) /\ job.kind # "immutable"
    BY <1>5, <1>12, <2>1 DEF safe, UndoJob, Undoing
  <2>3. LastPoint \in Points /\ height[p] <= height[LastPoint] /\ ~ ImmutableLock
    <3>1. CASE job.kind = "back"
      <4>1. lock = NoLock /\ height[p] <= Level(LastPoint) /\ height[p] \in Nat
        BY <1>1, <1>2, <2>1, <3>1, TypeFacts DEF UndoJob
      <4>2. LastPoint \in Points /\ Level(LastPoint) = height[LastPoint]
        BY <4>1, SMTT(60) DEF Level, TipInv, Blocks
      <4> QED
        BY <4>1, <4>2 DEF ImmutableLock
    <3>2. CASE job.kind = "repair"
      BY <1>2, <2>1, <3>2, TypeFacts, SMTT(60) DEF UndoJob, MutableLock, ImmutableLock, LastPoint
    <3> QED
      BY <1>12, <3>1, <3>2 DEF Undoing
  <2>4. /\ height[p] \in Nat /\ height[LastPoint] \in Nat /\ top \in Nat
        /\ Level(LastPoint) = height[LastPoint] /\ Level(p) = height[p] /\ p # Origin
        /\ height[LastPoint] <= top /\ \A q \in Points : height[q] \in Nat
    BY <1>2, <2>3, TypeFacts, LevelFacts DEF TipInv
  <2>5. TipInv'
    BY <1>1, <1>2, <1>6, <2>2, <2>3, <2>4, SMTT(60) DEF TipInv, Blocks
  <2>6. LockInv'
    BY <1>1, <1>4, <1>5, <1>6, <2>2, <2>3 DEF LockInv
  <2>7. MetaInv'
    BY <1>1, <1>5, <1>6, <2>2 DEF MetaInv
  <2>8. TargetInv'
    BY <1>1, <1>6, <2>2, <2>3, <2>4, SMTT(60) DEF TargetInv, Target
  <2>9. MemoryInv'
    <3>1. Sync(buffer, LastPoint)'
      BY <1>1, <1>3, <1>6, <2>2, <2>3, <2>4, SMTT(60) DEF BufferInv, Sync
    <3>2. BufferInv'
      BY <1>1, <1>3, <1>4, <2>2, <3>1 DEF BufferInv
    <3>3. FieldInv'
      BY <1>1, <1>4, <1>5, <2>2 DEF FieldInv
    <3>4. UnitInv'
      <4>1. CASE job.kind = "back"
        BY <1>1, <1>5, <1>6, <2>1, <2>2, <4>1 DEF UnitInv, UndoJob
      <4>2. CASE job.kind = "repair"
        BY <1>1, <1>3, <1>5, <1>6, <2>1, <2>2, <4>2 DEF UnitInv, UndoJob, LastPoint, MutableLock
      <4> QED
        BY <1>12, <4>1, <4>2 DEF Undoing
    <3> QED
      BY <3>2, <3>3, <3>4 DEF MemoryInv
  <2>10. UndoJob'
    <3>1. Sync(hand, p)' <=> Sync(hand, p)
      BY <1>1, <1>6 DEF Sync
    <3> QED
      BY <1>1, <1>5, <1>6, <1>9, <2>1, <2>2, <3>1 DEF UndoJob
  <2>11. JobInv'
    BY <1>1, <1>2, <1>12, <2>10 DEF JobInv, Alive, Undoing
  <2> QED
    BY <1>7, <1>8, <2>5, <2>6, <2>7, <2>8, <2>9, <2>11
<1> QED
  BY <1>2, <1>10, <1>11, <1>12 DEF Undoing

\* A forward commit works on one block.
LEMMA CurrentOnly ==
  ASSUME TypeOK, NEW p \in Points, \A w \in todo : w[1] = p, todo # {}
  PROVE  Current = p
<1>1. {w[1] : w \in todo} = {p}
  OBVIOUS
<1>2. Above({p}, p) = {}
  BY TypeFacts, SMTT(60) DEF Above
<1> QED
  BY <1>1, <1>2 DEF Current

\* Executing the action of block p on what its parent left gives what p leaves.
LEMMA ExecIdeal ==
  ASSUME NEW p \in Points, NEW k \in Touched(p)
  PROVE  Exec(acts[p][k], ideal[parent[p]][k]) = ideal[p][k]
BY IdealAssumption DEF Touched, ExecOption

\* A batch of an immutable block, with its marker, keeps the invariant.
LEMMA CommitImmutableInv == ASSUME ChunksCounted, IInv, CommitImmutable PROVE IInv'
<1> USE DEF IInv
<1> DEFINE p == job.point
           B(b) == {k \in Touched(p) : Chunk(Touched(p), k) = b}
<1>1. /\ UNCHANGED <<lock, meta, top>>
      /\ UNCHANGED <<redis, up, pc, job, hand, inv, last, buffer, mutable, partial, unit, offer, gc, faults>>
      /\ pc = "batch" /\ job.kind = "immutable"
  BY DEF CommitImmutable, memory
<1>2. Alive /\ p \in Points /\ ImmutableJob
  BY <1>1 DEF JobInv
<1>3. BufferInv /\ FieldInv /\ UnitInv
  BY <1>2 DEF MemoryInv
<1>4. /\ lock # NoLock /\ ImmutableLock /\ ~ MutableLock /\ lock.block = p /\ lock.safe = LastPoint
      /\ parent[p] = LastPoint /\ ~ mutable /\ LastPoint' = LastPoint
      /\ todo = {<<p, k>> : k \in {j \in Touched(p) : Chunk(Touched(p), j) \notin markers}}
  BY <1>1, <1>2 DEF ImmutableJob, ImmutableLock, MutableLock, LastPoint
<1>5. PICK b \in BatchIds :
        /\ db' = Executed(p, Batch(b)) /\ markers' = markers \cup {b}
        /\ todo' = {w \in todo : w[2] \notin Batch(b)}
  BY DEF CommitImmutable
<1>6. Current = p /\ CurrentKeys = Touched(p)
  <2>1. todo # {} /\ \A w \in todo : w[1] = p
    BY <1>4, SMTT(60) DEF BatchIds
  <2> QED
    BY <1>1, <1>2, <2>1, CurrentOnly DEF CurrentKeys, KeysOf, Undoing
<1>7. Batch(b) = B(b) /\ b \notin markers /\ b \in Nat
  <2>1. PICK w \in todo : b = Chunk(Touched(p), w[2])
    BY <1>5, <1>6 DEF BatchIds
  <2>2. b \notin markers /\ w[2] \in Keys
    BY <1>4, <2>1, SMTT(60) DEF Touched
  <2>3. Touched(p) \in SUBSET Keys
    BY DEF Touched
  <2>4. b \in Nat
    BY <2>1, <2>2, <2>3 DEF ChunksCounted
  <2> QED
    BY <1>6, <2>2, <2>4 DEF Batch
<1>8. /\ B(b) \subseteq Keys
      /\ \A k \in Keys : db'[k] = IF k \in B(b) THEN ideal[p][k] ELSE db[k]
  <2>1. ASSUME NEW k \in B(b) PROVE Exec(acts[p][k], db[k]) = ideal[p][k] /\ k \in Keys
    <3>1. k \in Keys /\ ~ Marked(k)
      BY <1>4, <1>7, <2>1 DEF Marked, Touched
    <3>2. db[k] = ideal[parent[p]][k]
      BY <1>4, <3>1 DEF LockInv
    <3> QED
      BY <1>2, <2>1, <3>1, <3>2, ExecIdeal
  <2> QED
    BY <1>5, <1>7, <2>1 DEF Executed
<1>9. /\ \A q : Fresh(q)' <=> Fresh(q)
      /\ MinHeight' = MinHeight /\ (NothingToFetch' <=> NothingToFetch)
      /\ (ImmutableLock' <=> ImmutableLock) /\ (MutableLock' <=> MutableLock)
  BY <1>1, <1>4 DEF Fresh, MinHeight, NothingToFetch, ImmutableLock, MutableLock
<1>10. TypeOK'
  <2>1. db' \in [Keys -> Stored]
    <3>1. \A k \in Keys : db'[k] \in Stored
      BY <1>2, <1>8, IdealAssumption, SMTT(60) DEF TypeOK, Blocks
    <3> QED
      BY <1>5, <3>1 DEF Executed
  <2>2. markers' \in SUBSET Nat /\ todo' \in SUBSET (Points \X Keys)
    BY <1>5, <1>7 DEF TypeOK
  <2> QED
    BY <1>1, <2>1, <2>2 DEF TypeOK
<1>11. TipInv'
  BY <1>1, <1>4, <1>9 DEF TipInv
<1>12. LockInv'
  <2>1. ASSUME NEW k \in Keys
        PROVE  db'[k] = IF Marked(k)' THEN ideal[lock'.block][k] ELSE ideal[lock'.safe][k]
    <3>1. Marked(k)' <=> Marked(k) \/ k \in B(b)
      BY <1>1, <1>4, <1>5 DEF Marked
    <3>2. Marked(k) => db[k] = ideal[p][k]
      BY <1>4 DEF LockInv
    <3>3. ~ Marked(k) => db[k] = ideal[lock.safe][k]
      BY <1>4 DEF LockInv
    <3> QED
      BY <1>1, <1>4, <1>8, <3>1, <3>2, <3>3
  <2> QED
    BY <1>1, <1>4, <1>9, <2>1 DEF LockInv
<1>13. MetaInv'
  BY <1>1, <1>4, <1>9 DEF MetaInv
<1>14. TargetInv'
  <2>1. ASSUME NEW q \in Points, Target(q)' PROVE FALSE
    <3>1. meta[q] # Empty /\ Fresh(q) /\ height[q] # 0
      BY <1>1, <1>3, <1>4, <1>9, <2>1 DEF Target, BufferInv
    <3> QED
      BY <1>3, <1>4, <3>1, FreshFetched DEF BufferInv
  <2> QED
    BY <2>1 DEF TargetInv
<1>15. MemoryInv'
  <2>1. BufferInv'
    BY <1>1, <1>3, <1>4, <1>9 DEF BufferInv, Sync, Retreated
  <2>2. FieldInv'
    BY <1>1, <1>3, <1>4, <1>9 DEF FieldInv, Retreated
  <2>3. UnitInv'
    BY <1>1, <1>3, <1>4, <1>9 DEF UnitInv
  <2> QED
    BY <2>1, <2>2, <2>3 DEF MemoryInv
<1>16. ImmutableJob'
  <2>1. todo' = {<<p, k>> : k \in {j \in Touched(p) : Chunk(Touched(p), j) \notin markers'}}
    BY <1>4, <1>5, <1>7, SMTT(60)
  <2> QED
    BY <1>1, <1>2, <1>4, <1>9, <2>1 DEF ImmutableJob
<1>17. JobInv'
  BY <1>1, <1>2, <1>16 DEF JobInv, Alive, Undoing, ImmutableJob
<1>18. GcInv' /\ PublishedConsistent'
  BY <1>1, <1>9 DEF GcInv, PublishedConsistent
<1> QED
  BY <1>10, <1>11, <1>12, <1>13, <1>14, <1>15, <1>17, <1>18

\* A batch of a mutable block: what it writes, and the inverses it leaves.
LEMMA MutableBatch ==
  ASSUME IInv, pc = "batch", job.kind = "mutable", NEW b \in BatchIds
  PROVE  LET p == job.point
             i == Overlay(meta[p], Inverses(p, Batch(b)))
         IN
         /\ Batch(b) = {k \in Touched(p) : Chunk(Touched(p), k) = b}
         /\ \A k \in Batch(b) : k \in Keys /\ <<p, k>> \in todo
         /\ \A k \in Keys \ Batch(b) : Executed(p, Batch(b))[k] = db[k] /\ i[k] = meta[p][k]
         /\ \A k \in Batch(b) :
              /\ db[k] = ideal[LastPoint][k] /\ meta[p][k] = NoInverse
              /\ Executed(p, Batch(b))[k] = ideal[p][k]
              /\ \/ i[k] = [saved |-> TRUE, val |-> ideal[LastPoint][k]]
                 \/ i[k] = NoInverse /\ ideal[p][k] = ideal[LastPoint][k]
<1> USE DEF IInv
<1> DEFINE p == job.point
           B == Batch(b)
           i == Overlay(meta[p], Inverses(p, B))
<1>1. p \in Points /\ MutableJob /\ parent[p] = LastPoint /\ WholeBatches
  BY DEF JobInv, MutableJob
<1>2. todo \subseteq {p} \X Touched(p)
  BY <1>1 DEF MutableJob
<1>3. Current = p /\ KeysOf(p) = Touched(p) /\ CurrentKeys = Touched(p)
  <2>1. todo # {} /\ \A w \in todo : w[1] = p
    BY <1>2 DEF BatchIds
  <2> QED
    BY <1>1, <2>1, CurrentOnly DEF CurrentKeys, KeysOf, Undoing
<1>4. B = {k \in Touched(p) : Chunk(Touched(p), k) = b}
  BY <1>3 DEF Batch
<1>5. PICK w \in todo : w[1] = p /\ b = Chunk(Touched(p), w[2])
  BY <1>3 DEF BatchIds
<1>6. \A k \in B : k \in Keys /\ <<p, k>> \in todo
  BY <1>1, <1>3, <1>4, <1>5 DEF WholeBatches, Touched
<1>7. \A k \in B : db[k] = ideal[LastPoint][k] /\ meta[p][k] = NoInverse
  BY <1>1, <1>6 DEF MutableJob
<1>8. ASSUME NEW k \in Keys \ B PROVE Executed(p, B)[k] = db[k] /\ i[k] = meta[p][k]
  <2>1. Inverses(p, B)[k] = NoInverse
    BY <1>8 DEF Inverses
  <2> QED
    BY <1>8, <2>1, SMTT(60) DEF Executed, Overlay, NoInverse
<1>9. ASSUME NEW k \in B
      PROVE  /\ Executed(p, B)[k] = ideal[p][k]
             /\ \/ i[k] = [saved |-> TRUE, val |-> ideal[LastPoint][k]]
                \/ i[k] = NoInverse /\ ideal[p][k] = ideal[LastPoint][k]
  <2>1. k \in Keys /\ k \in Touched(p) /\ acts[p][k] # NoAction
    BY <1>4, <1>6, <1>9 DEF Touched
  <2>2. Exec(acts[p][k], db[k]) = ideal[p][k]
    BY <1>1, <1>7, <1>9, <2>1, ExecIdeal
  <2>3. /\ acts[p][k].op \in Operations \ {"SetPermanent", "InsertPermanent"}
        /\ acts[p][k].op = "SetOnce" => db[k] = Absent
    BY <1>1, <1>7, <1>9, <2>1, ActionAssumption
  <2>4. Executed(p, B)[k] = Exec(acts[p][k], db[k]) /\ Inverses(p, B)[k] = InverseOf(acts[p][k], db[k])
    BY <1>9, <2>1 DEF Executed, Inverses
  <2>5. \/ Inverses(p, B)[k] = [saved |-> TRUE, val |-> db[k]]
        \/ Inverses(p, B)[k] = NoInverse /\ Exec(acts[p][k], db[k]) = db[k]
    <3>1. \/ InverseOf(acts[p][k], db[k]) = [saved |-> TRUE, val |-> db[k]]
          \/ InverseOf(acts[p][k], db[k]) = NoInverse /\ Exec(acts[p][k], db[k]) = db[k]
      BY <2>3, InverseFact
    <3> QED
      BY <2>4, <3>1
  <2>6. i[k] = IF Inverses(p, B)[k].saved THEN Inverses(p, B)[k] ELSE meta[p][k]
    BY <2>1 DEF Overlay
  <2>7. CASE Inverses(p, B)[k] = [saved |-> TRUE, val |-> db[k]]
    <3>1. Inverses(p, B)[k].saved
      BY <2>7, SMTT(60)
    <3>2. i[k] = [saved |-> TRUE, val |-> db[k]]
      BY <2>6, <2>7, <3>1
    <3> QED
      BY <1>7, <1>9, <2>2, <2>4, <3>2
  <2>8. CASE Inverses(p, B)[k] = NoInverse /\ Exec(acts[p][k], db[k]) = db[k]
    <3>1. i[k] = NoInverse
      BY <1>7, <1>9, <2>6, <2>8
    <3> QED
      BY <1>7, <1>9, <2>2, <2>4, <2>8, <3>1
  <2> QED
    BY <2>5, <2>7, <2>8
<1> QED
  BY <1>4, <1>6, <1>7, <1>8, <1>9

\* A batch of a mutable block, with its inverses, keeps the invariant.
LEMMA CommitMutableInv == ASSUME IInv, CommitMutable PROVE IInv'
<1> USE DEF IInv
<1> DEFINE p == job.point
<1>1. /\ UNCHANGED <<lock, markers, top>>
      /\ UNCHANGED <<redis, up, pc, job, hand, last, buffer, mutable, partial, unit, offer, gc, faults>>
      /\ pc = "batch" /\ job.kind = "mutable"
  BY DEF CommitMutable, memory
<1>2. Alive /\ p \in Points /\ MutableJob
  BY <1>1 DEF JobInv
<1>3. BufferInv /\ FieldInv /\ UnitInv
  BY <1>2 DEF MemoryInv
<1>4. /\ lock # NoLock /\ MutableLock /\ ~ ImmutableLock /\ lock.safe = LastPoint /\ lock.block = p
      /\ parent[p] = LastPoint /\ mutable /\ LastPoint' = LastPoint /\ LastPoint \in Blocks
      /\ inv = meta[p] /\ todo \subseteq {p} \X Touched(p) /\ height[p] <= top
  BY <1>1, <1>2, <1>3 DEF MutableJob, ImmutableLock, MutableLock, LastPoint, TipInv, UnitInv
<1>5. /\ height[p] > Level(LastPoint) /\ Level(LastPoint) \in Int
      /\ \A q \in Points : height[q] > Level(LastPoint) /\ q # p => meta[q] = Empty
      /\ \A q \in Points : height[q] \in Nat
  BY <1>2, <1>4, LevelFacts, TypeFacts DEF MutableJob
<1>6. PICK b \in BatchIds :
        /\ db' = Executed(p, Batch(b))
        /\ meta' = [meta EXCEPT ![p] = Overlay(@, Inverses(p, Batch(b)))]
        /\ inv' = Overlay(inv, Inverses(p, Batch(b)))
        /\ todo' = {w \in todo : w[2] \notin Batch(b)}
  BY DEF CommitMutable
<1> DEFINE B == Batch(b)
<1>7. /\ meta'[p] = Overlay(meta[p], Inverses(p, B)) /\ inv' = meta'[p]
      /\ \A q \in Points : q # p => meta'[q] = meta[q]
  BY <1>2, <1>4, <1>6 DEF TypeOK
<1>8. /\ B = {k \in Touched(p) : Chunk(Touched(p), k) = b}
      /\ \A k \in B : k \in Keys /\ <<p, k>> \in todo
      /\ \A k \in Keys \ B : db'[k] = db[k] /\ meta'[p][k] = meta[p][k]
      /\ \A k \in B :
           /\ db[k] = ideal[LastPoint][k] /\ meta[p][k] = NoInverse /\ db'[k] = ideal[p][k]
           /\ \/ meta'[p][k] = [saved |-> TRUE, val |-> ideal[LastPoint][k]]
              \/ meta'[p][k] = NoInverse /\ db'[k] = db[k]
  BY <1>1, <1>6, <1>7, MutableBatch, SMTT(60)
<1> HIDE DEF B
<1>9. /\ \A q : Fresh(q)' <=> Fresh(q)
      /\ (ImmutableLock' <=> ImmutableLock) /\ (MutableLock' <=> MutableLock)
  BY <1>1 DEF Fresh, ImmutableLock, MutableLock
<1>10. TypeOK'
  <2>1. db' \in [Keys -> Stored]
    <3>1. ASSUME NEW k \in Keys PROVE db'[k] \in Stored
      <4>1. db[k] \in Stored /\ ideal[p][k] \in Stored
        BY <1>2, IdealAssumption, SMTT(60) DEF TypeOK, Blocks
      <4>2. db'[k] = db[k] \/ db'[k] = ideal[p][k]
        BY <1>8
      <4> QED
        BY <4>1, <4>2
    <3> QED
      BY <1>6, <3>1 DEF Executed
  <2>2. meta'[p] \in InverseMaps
    <3>1. NoInverse \in [saved : BOOLEAN, val : Stored]
      BY DEF NoInverse, Stored
    <3>2. \A k \in Keys : meta[p][k] \in [saved : BOOLEAN, val : Stored] /\ ideal[LastPoint][k] \in Stored
      BY <1>2, <1>4, IdealAssumption, SMTT(60) DEF TypeOK, InverseMaps
    <3>3. ASSUME NEW k \in Keys PROVE meta'[p][k] \in [saved : BOOLEAN, val : Stored]
      <4>1. \/ meta'[p][k] = meta[p][k] \/ meta'[p][k] = NoInverse
            \/ meta'[p][k] = [saved |-> TRUE, val |-> ideal[LastPoint][k]]
        BY <1>8
      <4>2. [saved |-> TRUE, val |-> ideal[LastPoint][k]] \in [saved : BOOLEAN, val : Stored]
        BY <3>2
      <4> QED
        BY <3>1, <3>2, <4>1, <4>2
    <3> QED
      BY <1>7, <3>3 DEF InverseMaps, Overlay
  <2>3. meta' \in [Points -> InverseMaps] /\ inv' \in InverseMaps
    BY <1>2, <1>6, <1>7, <2>2 DEF TypeOK
  <2>4. todo' \in SUBSET (Points \X Keys)
    BY <1>6 DEF TypeOK
  <2> QED
    BY <1>1, <2>1, <2>3, <2>4 DEF TypeOK
<1>11. TipInv'
  BY <1>1, <1>4, <1>9 DEF TipInv
<1>12. ASSUME NEW x \in Points, height[x] <= Level(LastPoint), Recoverable(x) PROVE Recoverable(x)'
  <2>1. height[p] > height[x]
    BY <1>5, <1>12, <1>2, SMTT(60)
  <2>2. \A q \in Points, k \in Keys : meta[q][k].saved => q = p \/ height[q] < height[p]
    BY <1>5, <1>2, SMTT(60) DEF Empty, NoInverse
  <2>3. ASSUME NEW k \in Keys
        PROVE  \/ /\ db'[k] = ideal[x][k]
                  /\ \A q \in Points : height[q] > height[x] => ~ meta'[q][k].saved
               \/ \E q \in Points :
                    /\ height[q] > height[x]
                    /\ meta'[q][k].saved /\ meta'[q][k].val = ideal[x][k]
                    /\ \A r \in Points : height[r] > height[x] /\ height[r] < height[q] => ~ meta'[r][k].saved
    <3>1. CASE k \notin B \/ (meta'[p][k] = NoInverse /\ db'[k] = db[k])
      <4>1. \A q \in Points : meta'[q][k] = meta[q][k]
        BY <1>7, <1>8, <3>1
      <4>2. db'[k] = db[k]
        BY <1>8, <3>1
      <4> QED
        BY <1>12, <4>1, <4>2 DEF Recoverable
    <3>2. CASE k \in B /\ meta'[p][k] = [saved |-> TRUE, val |-> ideal[LastPoint][k]]
      <4>1. meta'[p][k].saved /\ meta'[p][k].val = db[k] /\ ~ meta[p][k].saved
        BY <1>8, <3>2, SMTT(60) DEF NoInverse
      <4>2. CASE db[k] = ideal[x][k] /\ \A q \in Points : height[q] > height[x] => ~ meta[q][k].saved
        BY <1>2, <1>5, <1>7, <2>1, <4>1, <4>2, SMTT(60)
      <4>3. ASSUME NEW q \in Points,
                   height[q] > height[x], meta[q][k].saved, meta[q][k].val = ideal[x][k],
                   \A r \in Points : height[r] > height[x] /\ height[r] < height[q] => ~ meta[r][k].saved
            PROVE  \E s \in Points :
                    /\ height[s] > height[x]
                    /\ meta'[s][k].saved /\ meta'[s][k].val = ideal[x][k]
                    /\ \A r \in Points : height[r] > height[x] /\ height[r] < height[s] => ~ meta'[r][k].saved
        <5>1. q # p /\ height[q] < height[p]
          BY <2>2, <4>1, <4>3
        <5> QED
          BY <1>2, <1>5, <1>7, <4>3, <5>1, SMTT(60)
      <4> QED
        BY <1>12, <4>2, <4>3 DEF Recoverable
    <3> QED
      BY <1>8, <3>1, <3>2
  <2> QED
    BY <2>3 DEF Recoverable
<1>13. LockInv'
  <2>1. LastPoint # Origin => LastPoint \in Points /\ height[LastPoint] <= Level(LastPoint)
    BY <1>4, LevelFacts, SMTT(60)
  <2>2. LastPoint # Origin => Recoverable(LastPoint)'
    <3>1. LastPoint # Origin => Recoverable(lock.safe) /\ lock.safe = LastPoint
      BY <1>4 DEF LockInv
    <3>2. ASSUME LastPoint # Origin PROVE Recoverable(LastPoint)
      BY <3>1, <3>2
    <3>3. \A x \in Points : height[x] <= Level(LastPoint) /\ Recoverable(x) => Recoverable(x)'
      BY <1>12
    <3> QED
      BY <1>4, <2>1, <3>2, <3>3
  <2> QED
    BY <1>1, <1>4, <1>9, <2>2 DEF LockInv
<1>14. MetaInv'
  <2>1. \A q \in Points, k \in Keys : ~ meta'[q][k].saved => meta'[q][k] = NoInverse
    <3>1. ASSUME NEW k \in Keys, ~ meta'[p][k].saved PROVE meta'[p][k] = NoInverse
      <4>1. \/ meta'[p][k] = meta[p][k] \/ meta'[p][k] = NoInverse
            \/ meta'[p][k] = [saved |-> TRUE, val |-> ideal[LastPoint][k]]
        BY <1>8
      <4> QED
        BY <1>2, <3>1, <4>1, SMTT(60) DEF MetaInv
    <3> QED
      BY <1>7, <3>1, SMTT(60) DEF MetaInv
  <2>2. \A q \in Points : meta'[q] # Empty => height[q] <= top
    BY <1>4, <1>7 DEF MetaInv
  <2>3. \A q \in Points : q # p /\ height[q] = height[p] => meta'[q] = Empty
    BY <1>5, <1>2, <1>7
  <2>4. \A q, r \in Points :
          Fresh(q) /\ height[q] # 0 /\ meta'[q] # Empty /\ meta'[r] # Empty /\ height[q] = height[r] => q = r
    BY <1>7, <2>3 DEF MetaInv
  <2> QED
    BY <1>1, <1>4, <1>9, <2>1, <2>2, <2>4 DEF MetaInv
<1>15. TargetInv'
  <2>1. ASSUME NEW x \in Points, Target(x)' PROVE Recoverable(x)'
    <3>1. height[x] <= Level(LastPoint) /\ x # p
      BY <1>2, <1>4, <1>5, <2>1, SMTT(60) DEF Target
    <3>2. Target(x)
      BY <1>1, <1>4, <1>7, <1>9, <2>1, <3>1 DEF Target
    <3> QED
      BY <1>12, <3>1, <3>2 DEF TargetInv
  <2> QED
    BY <2>1 DEF TargetInv
<1>16. MemoryInv'
  <2>1. Sync(buffer, LastPoint)'
    <3>1. \A q \in Points : height[q] <= Level(LastPoint) => meta'[q] = meta[q]
      BY <1>2, <1>5, <1>7, SMTT(60)
    <3> QED
      BY <1>1, <1>3, <1>4, <1>9, <3>1 DEF BufferInv, Sync
  <2>2. BufferInv'
    BY <1>1, <1>3, <1>4, <2>1 DEF BufferInv
  <2>3. FieldInv'
    BY <1>1, <1>3, <1>4, <1>9 DEF FieldInv, Retreated
  <2>4. UnitInv'
    BY <1>1, <1>3, <1>4, <1>9 DEF UnitInv
  <2> QED
    BY <2>2, <2>3, <2>4 DEF MemoryInv
<1>17. MutableJob'
  <2>1. \A k : <<p, k>> \in todo' <=> <<p, k>> \in todo /\ k \notin B
    BY <1>6 DEF B
  <2>2. WholeBatches'
    <3>1. KeysOf(p) = Touched(p) /\ KeysOf(p)' = Touched(p)
      BY <1>1 DEF KeysOf, Undoing
    <3>2. ASSUME NEW w \in todo', NEW k \in Touched(p), Chunk(Touched(p), k) = Chunk(Touched(p), w[2])
          PROVE  <<p, k>> \in todo'
      <4>1. w \in todo /\ w[1] = p /\ w[2] \in Touched(p) /\ w[2] \notin B
        BY <1>4, <1>6 DEF B
      <4>2. k \notin B
        BY <1>8, <3>2, <4>1
      <4>3. <<p, k>> \in todo
        BY <1>2, <3>1, <3>2, <4>1, SMTT(60) DEF MutableJob, WholeBatches
      <4> QED
        BY <2>1, <4>2, <4>3
    <3>3. \A w \in todo' : w[1] = p
      BY <1>4, <1>6
    <3> SUFFICES ASSUME NEW w \in todo', NEW k \in KeysOf(w[1])',
                        (Chunk(KeysOf(w[1]), k) = Chunk(KeysOf(w[1]), w[2]))'
                 PROVE  <<w[1], k>> \in todo'
      BY DEF WholeBatches
    <3>4. w[1] = p
      BY <3>3
    <3> QED
      BY <1>1, <3>1, <3>2, <3>4
  <2>3. \A k \in Keys : IF <<p, k>> \in todo' THEN db'[k] = ideal[LastPoint][k] /\ meta'[p][k] = NoInverse
                                              ELSE db'[k] = ideal[p][k]
    <3>1. \A k \in Keys : IF <<p, k>> \in todo THEN db[k] = ideal[LastPoint][k] /\ meta[p][k] = NoInverse
                                               ELSE db[k] = ideal[p][k]
      BY <1>2 DEF MutableJob
    <3> QED
      BY <1>8, <2>1, <3>1
  <2>4. <<p, CursorKey>> \notin todo' => meta'[p][CursorKey].saved
    <3>1. ASSUME CursorKey \in B PROVE meta'[p][CursorKey].saved
      <4>1. ideal[p][CursorKey] = p /\ ideal[LastPoint][CursorKey] \in {LastPoint, Absent}
        BY <1>2, <1>4, IdealCursor DEF Blocks
      <4>2. p # LastPoint /\ p # Absent
        <5>1. Level(p) = height[p] /\ Level(p) # Level(LastPoint)
          BY <1>2, <1>5, LevelFacts, SMTT(60)
        <5> QED
          BY <1>2, <5>1, KeyAssumption
      <4>3. db'[CursorKey] # db[CursorKey]
        BY <1>8, <3>1, <4>1, <4>2
      <4>4. meta'[p][CursorKey] = [saved |-> TRUE, val |-> ideal[LastPoint][CursorKey]]
        BY <1>8, <3>1, <4>3
      <4> QED
        BY <4>4, SMTT(60)
    <3>2. ASSUME CursorKey \notin B, <<p, CursorKey>> \notin todo PROVE meta'[p][CursorKey].saved
      BY <1>2, <1>8, <3>2, KeyAssumption DEF MutableJob
    <3> QED
      BY <2>1, <3>1, <3>2
  <2>5. todo' \subseteq {p} \X Touched(p)
    BY <1>4, <1>6
  <2>6. \A q \in Points : height[q] > Level(LastPoint) /\ q # p => meta'[q] = Empty
    BY <1>5, <1>7
  <2> QED
    BY <1>1, <1>2, <1>4, <1>7, <1>9, <2>2, <2>3, <2>4, <2>5, <2>6 DEF MutableJob
<1>18. JobInv'
  BY <1>1, <1>2, <1>17 DEF JobInv, Alive, Undoing, MutableJob
<1>19. GcInv' /\ PublishedConsistent'
  BY <1>1, <1>9 DEF GcInv, PublishedConsistent
<1> QED
  BY <1>10, <1>11, <1>13, <1>14, <1>15, <1>16, <1>18, <1>19

\* A batch of a rollback or a repair: it belongs to the newest block that is left.
LEMMA InverseBatch ==
  ASSUME HighestExists, IInv, pc = "batch", Undoing, NEW b \in BatchIds
  PROVE  LET c == Current IN
         /\ c \in Points /\ height[c] > height[job.point] /\ meta[c] # Empty
         /\ Batch(b) = {k \in KeysOf(c) : Chunk(KeysOf(c), k) = b}
         /\ KeysOf(c) = {k \in Keys : hand[c][k].saved}
         /\ \A k \in Batch(b) :
              /\ k \in Keys /\ <<c, k>> \in todo /\ meta[c][k].saved
              /\ hand[c][k] = meta[c][k]
              /\ \A q \in Points : meta[q][k].saved => q = c \/ height[q] < height[c]
<1> USE DEF IInv
<1> DEFINE c == Current
           t == job.point
           W == {w[1] : w \in todo}
<1>1. t \in Points /\ UndoJob /\ WholeBatches /\ Fresh(t)
  BY DEF JobInv, UndoJob
<1>2. \A w \in todo :
        /\ w[1] \in Points /\ w[2] \in Keys /\ w = <<w[1], w[2]>> /\ height[w[1]] > height[t]
        /\ hand[w[1]][w[2]] = meta[w[1]][w[2]] /\ meta[w[1]][w[2]].saved /\ meta[w[1]] # Empty
  <2>1. ASSUME NEW w \in todo
        PROVE  /\ w[1] \in Points /\ w[2] \in Keys /\ w = <<w[1], w[2]>> /\ height[w[1]] > height[t]
               /\ hand[w[1]][w[2]] = meta[w[1]][w[2]] /\ meta[w[1]][w[2]].saved /\ meta[w[1]] # Empty
    <3>1. /\ w[1] \in Points /\ w[2] \in Keys /\ w = <<w[1], w[2]>> /\ height[w[1]] > height[t]
          /\ hand[w[1]][w[2]] = meta[w[1]][w[2]]
      BY <1>1, <2>1, SMTT(60) DEF UndoJob, TypeOK
    <3>2. meta[w[1]][w[2]].saved
      BY <1>1, <2>1, <3>1 DEF UndoJob
    <3> QED
      BY <3>1, <3>2, SMTT(60) DEF Empty, NoInverse
  <2> QED
    BY <2>1
<1>3. c \in W /\ Above(W, c) = {}
  <2>1. W # {} /\ W \in SUBSET Points
    BY <1>2 DEF BatchIds
  <2>2. \A q \in W : height[q] <= top
    BY <1>2 DEF MetaInv
  <2>3. top \in Nat
    BY DEF TypeOK
  <2>4. \E q \in W : Above(W, q) = {}
    <3> HIDE DEF W
    <3>1. \A n \in Nat : (\A q \in W : height[q] <= n) => \E q \in W : Above(W, q) = {}
      BY <2>1 DEF HighestExists
    <3> QED
      BY <2>2, <2>3, <3>1
  <2> QED
    BY <2>4 DEF Current
<1>4. c \in Points /\ height[c] > height[t] /\ meta[c] # Empty
  BY <1>2, <1>3
<1>5. KeysOf(c) = {k \in Keys : hand[c][k].saved} /\ CurrentKeys = KeysOf(c)
  BY DEF KeysOf, Saved, CurrentKeys
<1>6. Batch(b) = {k \in KeysOf(c) : Chunk(KeysOf(c), k) = b}
  BY <1>5 DEF Batch
<1>7. PICK w \in todo : w[1] = c /\ b = Chunk(KeysOf(c), w[2])
  BY <1>5 DEF BatchIds
<1>8. ASSUME NEW k \in Batch(b)
      PROVE  /\ k \in Keys /\ <<c, k>> \in todo /\ meta[c][k].saved
             /\ hand[c][k] = meta[c][k]
             /\ \A q \in Points : meta[q][k].saved => q = c \/ height[q] < height[c]
  <2>1. k \in Keys /\ <<c, k>> \in todo
    BY <1>1, <1>5, <1>6, <1>7, <1>8 DEF WholeBatches
  <2>2. hand[c][k] = meta[c][k] /\ meta[c][k].saved
    BY <1>2, <2>1
  <2>3. ASSUME NEW q \in Points, meta[q][k].saved, height[q] >= height[c] PROVE q = c
    <3>1. height[q] > height[t] /\ height[q] \in Nat /\ height[c] \in Nat /\ height[t] \in Nat
      BY <1>1, <1>4, <2>3, TypeFacts, SMTT(60)
    <3>2. <<q, k>> \in todo
      BY <1>1, <2>1, <2>3, <3>1 DEF UndoJob
    <3>3. q \in W /\ meta[q] # Empty
      BY <1>2, <3>2
    <3>4. height[q] = height[c]
      BY <1>3, <2>3, <3>1, <3>3, SMTT(60) DEF Above
    <3>5. Fresh(c) /\ height[c] # 0
      BY <1>1, <1>4, <3>1, TypeFacts, SMTT(60) DEF Fresh
    <3> QED
      BY <1>4, <3>3, <3>4, <3>5 DEF MetaInv
  <2> QED
    BY <1>4, <2>1, <2>2, <2>3, TypeFacts, SMTT(60)
<1> QED
  BY <1>4, <1>5, <1>6, <1>8

\* A batch of inverses, taken from the highest blocks, keeps the invariant.
LEMMA CommitInverseInv == ASSUME HighestExists, IInv, CommitInverse PROVE IInv'
<1> USE DEF IInv
<1> DEFINE t == job.point
           c == Current
<1>1. /\ UNCHANGED <<lock, markers, top>>
      /\ UNCHANGED <<redis, up, pc, job, hand, inv, last, buffer, mutable, partial, unit, offer, gc, faults>>
      /\ pc = "batch" /\ Undoing /\ Undoing'
  BY DEF CommitInverse, memory, Undoing
<1>2. Alive /\ t \in Points /\ UndoJob
  BY <1>1 DEF JobInv
<1>3. BufferInv /\ FieldInv /\ UnitInv
  BY <1>2 DEF MemoryInv
<1>4. /\ lock # NoLock /\ MutableLock /\ ~ ImmutableLock /\ lock.safe = t
      /\ LastPoint = t /\ LastPoint' = t /\ mutable /\ Level(t) = height[t]
      /\ \A q \in Points : height[q] \in Nat
  BY <1>1, <1>2, LevelFacts, TypeFacts DEF UndoJob, Undoing, ImmutableLock, MutableLock, LastPoint
<1>5. PICK b \in BatchIds :
        /\ db' = [k \in Keys |-> IF k \in Batch(b) THEN hand[c][k].val ELSE db[k]]
        /\ meta' = [meta EXCEPT ![c] = [k \in Keys |-> IF k \in Batch(b) THEN NoInverse ELSE @[k]]]
        /\ todo' = {w \in todo : ~ (w[1] = c /\ w[2] \in Batch(b))}
  BY DEF CommitInverse
<1> DEFINE B == Batch(b)
<1>6. /\ c \in Points /\ height[c] > height[t] /\ meta[c] # Empty
      /\ B = {k \in KeysOf(c) : Chunk(KeysOf(c), k) = b}
      /\ KeysOf(c) = {k \in Keys : hand[c][k].saved}
      /\ \A k \in B :
           /\ k \in Keys /\ <<c, k>> \in todo /\ meta[c][k].saved
           /\ hand[c][k] = meta[c][k]
           /\ \A q \in Points : meta[q][k].saved => q = c \/ height[q] < height[c]
  BY <1>1, InverseBatch
<1> HIDE DEF c
<1>7. /\ \A q \in Points : q # c => meta'[q] = meta[q]
      /\ \A k \in Keys : meta'[c][k] = IF k \in B THEN NoInverse ELSE meta[c][k]
      /\ \A k \in Keys : db'[k] = IF k \in B THEN meta[c][k].val ELSE db[k]
  BY <1>5, <1>6 DEF TypeOK
<1>8. \A w \in todo' : w \in todo /\ ~ (w[1] = c /\ w[2] \in B)
  BY <1>5
<1>9. \A q, k : <<q, k>> \in todo' <=> <<q, k>> \in todo /\ ~ (q = c /\ k \in B)
  BY <1>5
<1> HIDE DEF B
<1>10. /\ \A q : Fresh(q)' <=> Fresh(q)
       /\ (ImmutableLock' <=> ImmutableLock) /\ (MutableLock' <=> MutableLock)
  BY <1>1 DEF Fresh, ImmutableLock, MutableLock
<1>11. TypeOK'
  <2>1. db' \in [Keys -> Stored]
    <3>1. ASSUME NEW k \in Keys PROVE db'[k] \in Stored
      <4>1. db[k] \in Stored /\ meta[c][k].val \in Stored
        BY <1>6, SMTT(60) DEF TypeOK, InverseMaps
      <4> QED
        BY <1>7, <4>1
    <3> QED
      BY <1>5, <3>1
  <2>2. meta' \in [Points -> InverseMaps]
    <3>1. NoInverse \in [saved : BOOLEAN, val : Stored]
      BY DEF NoInverse, Stored
    <3> QED
      BY <1>5, <1>6, <3>1, SMTT(60) DEF TypeOK, InverseMaps
  <2>3. todo' \in SUBSET (Points \X Keys)
    BY <1>5 DEF TypeOK
  <2> QED
    BY <1>1, <2>1, <2>2, <2>3 DEF TypeOK
<1>12. TipInv'
  BY <1>1, <1>4, <1>10 DEF TipInv
<1>13. ASSUME NEW x \in Points, height[x] <= height[t], Recoverable(x) PROVE Recoverable(x)'
  <2>1. height[c] > height[x]
    BY <1>2, <1>4, <1>6, <1>13, SMTT(60)
  <2>2. ASSUME NEW k \in Keys
        PROVE  \/ /\ db'[k] = ideal[x][k]
                  /\ \A q \in Points : height[q] > height[x] => ~ meta'[q][k].saved
               \/ \E q \in Points :
                    /\ height[q] > height[x]
                    /\ meta'[q][k].saved /\ meta'[q][k].val = ideal[x][k]
                    /\ \A r \in Points : height[r] > height[x] /\ height[r] < height[q] => ~ meta'[r][k].saved
    <3>1. CASE k \notin B
      <4>1. \A q \in Points : meta'[q][k] = meta[q][k]
        BY <1>7, <3>1
      <4>2. db'[k] = db[k]
        BY <1>7, <3>1
      <4> QED
        BY <1>13, <4>1, <4>2, SMTT(60) DEF Recoverable
    <3>2. CASE k \in B
      <4>1. meta[c][k].saved /\ \A q \in Points : meta[q][k].saved => q = c \/ height[q] < height[c]
        BY <1>6, <3>2
      <4>2. /\ ~ meta'[c][k].saved /\ db'[k] = meta[c][k].val
            /\ \A q \in Points : q # c => meta'[q][k] = meta[q][k]
        BY <1>7, <3>2, SMTT(60) DEF NoInverse
      <4>3. PICK q \in Points :
              /\ height[q] > height[x]
              /\ meta[q][k].saved /\ meta[q][k].val = ideal[x][k]
              /\ \A r \in Points : height[r] > height[x] /\ height[r] < height[q] => ~ meta[r][k].saved
        BY <1>6, <1>13, <2>1, <4>1 DEF Recoverable
      <4>4. CASE q = c
        <5>1. db'[k] = ideal[x][k]
          BY <4>2, <4>3, <4>4
        <5>2. \A r \in Points : height[r] > height[x] => ~ meta'[r][k].saved
          BY <1>4, <4>1, <4>2, <4>3, <4>4
        <5> QED
          BY <5>1, <5>2
      <4>5. CASE q # c
        <5>1. meta'[q][k] = meta[q][k]
          BY <4>2, <4>5
        <5>2. \A r \in Points : height[r] > height[x] /\ height[r] < height[q] => ~ meta'[r][k].saved
          BY <4>2, <4>3
        <5> QED
          BY <4>3, <5>1, <5>2
      <4> QED
        BY <4>4, <4>5
    <3> QED
      BY <3>1, <3>2
  <2> QED
    BY <2>2 DEF Recoverable
<1>14. Recoverable(t)' /\ t' = t
  <2>1. Recoverable(t) /\ height[t] <= height[t] /\ t' = t
    BY <1>1, <1>2, <1>4, SMTT(60) DEF UndoJob
  <2>2. \A x \in Points : height[x] <= height[t] /\ Recoverable(x) => Recoverable(x)'
    BY <1>13
  <2> QED
    BY <1>2, <2>1, <2>2
<1>15. LockInv'
  <2>1. lock' = lock /\ lock.safe = t
    BY <1>1, <1>4
  <2> QED
    BY <1>1, <1>4, <1>10, <1>14, <2>1 DEF LockInv
<1>16. MetaInv'
  <2>1. ASSUME NEW q \in Points, NEW k \in Keys, ~ meta'[q][k].saved PROVE meta'[q][k] = NoInverse
    <3>1. meta'[q][k] = meta[q][k] \/ meta'[q][k] = NoInverse
      BY <1>6, <1>7
    <3> QED
      BY <2>1, <3>1 DEF MetaInv
  <2>2. \A q \in Points : meta'[q] # Empty => meta[q] # Empty
    BY <1>6, <1>7
  <2> QED
    BY <1>1, <1>4, <1>10, <2>1, <2>2 DEF MetaInv
<1>17. TargetInv'
  <2>1. ASSUME NEW x \in Points, Target(x)' PROVE Recoverable(x)'
    <3>1. height[x] <= height[t] /\ x # c
      BY <1>2, <1>4, <1>6, <2>1, SMTT(60) DEF Target
    <3>2. Target(x)
      BY <1>1, <1>4, <1>7, <1>10, <2>1, <3>1 DEF Target
    <3> QED
      BY <1>13, <3>1, <3>2 DEF TargetInv
  <2> QED
    BY <2>1 DEF TargetInv
<1>18. \A q \in Points : height[q] <= height[t] => meta'[q] = meta[q]
  BY <1>2, <1>4, <1>6, <1>7, SMTT(60)
<1>19. MemoryInv'
  <2>1. Sync(buffer, LastPoint)'
    BY <1>1, <1>3, <1>4, <1>10, <1>18 DEF BufferInv, Sync
  <2>2. BufferInv'
    BY <1>1, <1>3, <1>4, <2>1 DEF BufferInv
  <2>3. FieldInv'
    BY <1>1, <1>3, <1>4, <1>10 DEF FieldInv, Retreated
  <2>4. UnitInv'
    BY <1>1, <1>3, <1>4, <1>10 DEF UnitInv
  <2> QED
    BY <2>2, <2>3, <2>4 DEF MemoryInv
<1>20. UndoJob'
  <2>1. ASSUME NEW q \in Points, NEW k \in Keys, height[q] > height[t]
        PROVE  meta'[q][k].saved <=> <<q, k>> \in todo'
    <3>1. meta[q][k].saved <=> <<q, k>> \in todo
      BY <1>2, <2>1 DEF UndoJob
    <3>2. ~ NoInverse.saved
      BY DEF NoInverse
    <3> QED
      BY <1>7, <1>9, <3>1, <3>2
  <2>2. ASSUME NEW w \in todo'
        PROVE  /\ height[w[1]] > height[t] /\ w[1] \in DOMAIN hand
               /\ hand[w[1]][w[2]] = meta'[w[1]][w[2]]
    <3>1. w \in todo /\ ~ (w[1] = c /\ w[2] \in B) /\ w[1] \in Points /\ w[2] \in Keys
      BY <1>8, <2>2 DEF TypeOK
    <3>2. meta'[w[1]][w[2]] = meta[w[1]][w[2]]
      BY <1>7, <3>1, SMTT(60)
    <3> QED
      BY <1>2, <3>1, <3>2 DEF UndoJob
  <2>3. WholeBatches'
    <3>1. \A q : KeysOf(q)' = KeysOf(q)
      BY <1>1 DEF KeysOf
    <3>2. ASSUME NEW w \in todo', NEW k \in KeysOf(w[1]),
                 Chunk(KeysOf(w[1]), k) = Chunk(KeysOf(w[1]), w[2])
          PROVE  <<w[1], k>> \in todo'
      <4>1. w \in todo /\ ~ (w[1] = c /\ w[2] \in B)
        BY <1>8, <3>2
      <4>2. <<w[1], k>> \in todo
        BY <1>2, <3>2, <4>1 DEF UndoJob, WholeBatches
      <4>3. ASSUME w[1] = c PROVE k \notin B
        <5>1. w[2] \in Keys /\ w = <<c, w[2]>> /\ hand[c][w[2]].saved
          <6>1. w[2] \in Keys /\ w = <<c, w[2]>>
            BY <4>1, <4>3, SMTT(60) DEF TypeOK
          <6>2. hand[c][w[2]] = meta[c][w[2]] /\ meta[c][w[2]].saved
            BY <1>2, <1>6, <4>1, <4>3, <6>1 DEF UndoJob
          <6> QED
            BY <6>1, <6>2
        <5>2. w[2] \in KeysOf(c)
          BY <1>6, <5>1
        <5> QED
          BY <1>6, <3>2, <4>1, <4>3, <5>2
      <4> QED
        BY <1>9, <4>2, <4>3
    <3> QED
      BY <3>1, <3>2 DEF WholeBatches
  <2>4. Sync(hand, t) => Sync(hand, t)'
    BY <1>1, <1>4, <1>10, <1>18 DEF Sync
  <2>5. /\ mutable /\ Fresh(t) /\ t \in DOMAIN hand
        /\ job.kind = "back" => partial = None /\ unit # None /\ unit.kind = "back" /\ unit.point = t
        /\ job.kind = "repair" => Sync(hand, t) /\ \A q \in DOMAIN hand : hand[q] # Empty /\ height[q] # 0
    BY <1>2 DEF UndoJob
  <2> QED
    BY <1>1, <1>4, <1>10, <1>14, <2>1, <2>2, <2>3, <2>4, <2>5 DEF UndoJob
<1>21. JobInv'
  BY <1>1, <1>2, <1>20 DEF JobInv, Alive, Undoing
<1>22. GcInv' /\ PublishedConsistent'
  BY <1>1, <1>10 DEF GcInv, PublishedConsistent
<1> QED
  BY <1>11, <1>12, <1>15, <1>16, <1>17, <1>19, <1>21, <1>22

-----------------------------------------------------------------------------
(* Removing the lock. *)

\* The range that a restart fetches moves up with the tip.
LEMMA MinHeightGrows ==
  ASSUME TypeOK, TipInv, NEW p \in Points, parent[p] = LastPoint, LastPoint' = p
  PROVE  MinHeight \in Int /\ MinHeight' \in Int /\ MinHeight <= MinHeight'
<1>1. LastPoint = Origin => MinHeight = 0
  BY DEF MinHeight
<1>2. LastPoint # Origin => LastPoint \in Points /\ height[LastPoint] \in Nat /\ height[p] = height[LastPoint] + 1
  BY TypeFacts, ChainAssumption DEF TipInv, Blocks
<1>3. p # Origin /\ height[p] \in Nat /\ BufferSize \in Nat
  BY TypeFacts
<1>4. MinHeight' = IF height[p] <= BufferSize + 1 THEN 0 ELSE height[p] - (BufferSize + 1)
  BY <1>3 DEF MinHeight
<1>5. CASE LastPoint = Origin
  BY <1>1, <1>3, <1>4, <1>5, SMTT(60)
<1>6. CASE LastPoint # Origin
  <2>1. MinHeight = IF height[LastPoint] <= BufferSize + 1 THEN 0 ELSE height[LastPoint] - (BufferSize + 1)
    BY <1>6 DEF MinHeight
  <2> QED
    BY <1>2, <1>3, <1>4, <1>6, <2>1, SMTT(60)
<1> QED
  BY <1>5, <1>6

\* Where the lock goes, the database is at the block that its cursor names.
LEMMA Unlocked ==
  ASSUME NEW x \in Points, lock' = NoLock, db' = db, db \in [Keys -> Stored],
         \A k \in Keys : db[k] = ideal[x][k]
  PROVE  /\ db = ideal[x] /\ LastPoint' = x
         /\ ~ ImmutableLock' /\ ~ MutableLock'
<1>1. ideal[x] \in [Keys -> Stored]
  BY IdealAssumption DEF Blocks
<1>2. db = ideal[x]
  BY <1>1, SMTT(60)
<1>3. db'[CursorKey] = x /\ x # Absent
  BY <1>2, IdealCursor, KeyAssumption
<1> QED
  BY <1>2, <1>3 DEF LastPoint, ImmutableLock, MutableLock

\* Removing the lock of an immutable block keeps the invariant.
LEMMA UnlockImmutableInv == ASSUME IInv, UnlockImmutable PROVE IInv'
<1> USE DEF IInv
<1> DEFINE p == job.point
<1>1. /\ UNCHANGED <<db, meta, top>>
      /\ UNCHANGED <<redis, up, todo, hand, inv, buffer, mutable, offer, gc, faults>>
      /\ pc = "batch" /\ job.kind = "immutable" /\ todo = {} /\ lock' = NoLock /\ markers' = {}
      /\ partial' = None /\ unit' = None /\ last' = p /\ pc' = "idle" /\ job' = NoJob
  BY DEF UnlockImmutable, RemoveLock
<1>2. Alive /\ p \in Points /\ p \in Blocks /\ ImmutableJob
  BY <1>1 DEF JobInv, Blocks
<1>3. BufferInv /\ FieldInv /\ UnitInv
  BY <1>2 DEF MemoryInv
<1>4. /\ ImmutableLock /\ lock.block = p /\ lock.safe = LastPoint /\ parent[p] = LastPoint
      /\ ~ mutable /\ ~ MutableLock /\ height[p] <= top
      /\ todo = {<<p, k>> : k \in {j \in Touched(p) : Chunk(Touched(p), j) \notin markers}}
  BY <1>1, <1>2, <1>3 DEF ImmutableJob, ImmutableLock, MutableLock, LastPoint, UnitInv
<1>5. DOMAIN buffer = {} /\ NothingToFetch /\ offer = {}
  BY <1>3, <1>4 DEF BufferInv, FieldInv
<1>6. ASSUME NEW k \in Keys PROVE db[k] = ideal[p][k]
  <2>1. CASE k \in Touched(p)
    <3>1. <<p, k>> \notin todo
      BY <1>1
    <3>2. Marked(k)
      BY <1>4, <2>1, <3>1 DEF Marked
    <3> QED
      BY <1>4, <3>2 DEF LockInv
  <2>2. CASE k \notin Touched(p)
    <3>1. ideal[p][k] = ideal[LastPoint][k]
      BY <1>2, <1>4, <2>2, IdealAssumption DEF Touched, ExecOption
    <3>2. ~ Marked(k)
      BY <1>4, <2>2 DEF Marked
    <3> QED
      BY <1>4, <3>1, <3>2 DEF LockInv
  <2> QED
    BY <2>1, <2>2
<1>7. db = ideal[p] /\ LastPoint' = p /\ ~ ImmutableLock' /\ ~ MutableLock'
  BY <1>1, <1>2, <1>6, Unlocked DEF TypeOK
<1>8. /\ Fresh(p) /\ \A q : Fresh(q)' <=> Fresh(q)
      /\ height[p] > Level(LastPoint) /\ Level(p) = height[p] /\ Level(LastPoint) \in Int
      /\ \A q \in Points : height[q] \in Nat
  BY <1>1, <1>2, <1>4, ChildFresh, LevelFacts, TypeFacts DEF Fresh, TipInv
<1>9. TypeOK'
  <2>1. job' \in [kind : {"none", "immutable", "mutable", "back", "repair"}, point : Blocks]
    BY <1>1 DEF NoJob, Blocks
  <2> QED
    BY <1>1, <1>2, <2>1 DEF TypeOK
<1>10. TipInv'
  BY <1>1, <1>2, <1>4, <1>7, <1>8, TypeFacts DEF TipInv
<1>11. LockInv'
  BY <1>1, <1>7 DEF LockInv
<1>12. MetaInv'
  BY <1>1, <1>2, <1>4, <1>7, <1>8, SMTT(60) DEF MetaInv
<1>13. \A q \in Points : Fresh(q) /\ height[q] # 0 => meta[q] = Empty
  BY <1>5, FreshFetched
<1>14. TargetInv'
  BY <1>1, <1>5, <1>8, <1>13 DEF TargetInv, Target
<1>15. MemoryInv'
  <2>1. NothingToFetch'
    <3>1. MinHeight \in Int /\ MinHeight' \in Int /\ MinHeight <= MinHeight'
      BY <1>2, <1>4, <1>7, MinHeightGrows
    <3> QED
      BY <1>1, <1>5, <1>8, <3>1, SMTT(60) DEF NothingToFetch
  <2>2. Sync(buffer, LastPoint)'
    BY <1>1, <1>5, <1>8, <1>13 DEF Sync
  <2>3. BufferInv'
    BY <1>1, <1>5, <2>1, <2>2 DEF BufferInv
  <2>4. FieldInv'
    BY <1>1, <1>5, <1>7 DEF FieldInv
  <2> QED
    BY <1>1, <2>3, <2>4 DEF MemoryInv, UnitInv
<1>16. JobInv'
  BY <1>1 DEF JobInv
<1>17. GcInv' /\ PublishedConsistent'
  BY <1>1, <1>8 DEF GcInv, PublishedConsistent
<1> QED
  BY <1>9, <1>10, <1>11, <1>12, <1>14, <1>15, <1>16, <1>17

\* AddBlock keeps the newest entries, with the new one among them.
LEMMA AddBlockFacts ==
  ASSUME NEW f, IsBuffer(f), NEW p \in Points, NEW i \in InverseMaps
  PROVE  /\ IsBuffer(AddBlock(f, p, i)) /\ IsBuffer(Evicted(f, p, i))
         /\ DOMAIN AddBlock(f, p, i) = Newest(DOMAIN f \cup {p})
         /\ DOMAIN Evicted(f, p, i) = (DOMAIN f \cup {p}) \ Newest(DOMAIN f \cup {p})
         /\ p \in Newest(DOMAIN f \cup {p}) => AddBlock(f, p, i)[p] = i
         /\ \A q \in Newest(DOMAIN f \cup {p}) : q # p => AddBlock(f, p, i)[q] = f[q]
<1> DEFINE S == DOMAIN f \cup {p}
           g == Pushed(f, p, i)
<1>1. S \subseteq Points /\ Newest(S) \subseteq S
  BY DEF IsBuffer, Newest
<1>2. DOMAIN g = S /\ \A q \in S : g[q] = IF q = p THEN i ELSE f[q]
  BY DEF Pushed
<1>3. \A q \in S : g[q] \in InverseMaps
  BY <1>2 DEF IsBuffer
<1> HIDE DEF g
<1>4. AddBlock(f, p, i) = [q \in Newest(S) |-> g[q]] /\ Evicted(f, p, i) = [q \in S \ Newest(S) |-> g[q]]
  BY <1>2 DEF AddBlock, Keep, Evicted, Only, g
<1> SUFFICES /\ IsBuffer(AddBlock(f, p, i)) /\ IsBuffer(Evicted(f, p, i))
             /\ DOMAIN AddBlock(f, p, i) = Newest(S) /\ DOMAIN Evicted(f, p, i) = S \ Newest(S)
             /\ p \in Newest(S) => AddBlock(f, p, i)[p] = i
             /\ \A q \in Newest(S) : q # p => AddBlock(f, p, i)[q] = f[q]
  OBVIOUS
<1> HIDE DEF S
<1>5. IsBuffer(AddBlock(f, p, i)) /\ IsBuffer(Evicted(f, p, i))
  BY <1>1, <1>3, <1>4 DEF IsBuffer
<1> QED
  BY <1>1, <1>2, <1>4, <1>5

\* Removing the lock of a mutable block, and adding its entry, keeps the invariant.
LEMMA UnlockMutableInv == ASSUME HeightsCounted, IInv, UnlockMutable PROVE IInv'
<1> USE DEF IInv
<1> DEFINE p == job.point
           S == DOMAIN buffer \cup {p}
<1>1. /\ UNCHANGED <<db, meta, top>>
      /\ UNCHANGED <<redis, up, job, todo, inv, mutable, partial, offer, gc, faults>>
      /\ pc = "batch" /\ job.kind = "mutable" /\ todo = {} /\ lock' = NoLock /\ markers' = markers
      /\ unit' = None /\ last' = p /\ pc' = "publish"
      /\ buffer' = AddBlock(buffer, p, inv) /\ hand' = Evicted(buffer, p, inv)
  BY DEF UnlockMutable, RemoveLock
<1>2. Alive /\ p \in Points /\ p \in Blocks /\ MutableJob /\ up = "run"
  BY <1>1 DEF JobInv, Blocks, Alive
<1>3. BufferInv /\ FieldInv /\ UnitInv
  BY <1>2 DEF MemoryInv
<1>4. /\ MutableLock /\ ~ ImmutableLock /\ parent[p] = LastPoint /\ mutable /\ partial = None
      /\ height[p] <= top /\ inv = meta[p] /\ markers = {}
      /\ \A q \in DOMAIN buffer : height[q] <= Level(LastPoint)
      /\ \A q \in Points : height[q] > Level(LastPoint) /\ q # p => meta[q] = Empty
      /\ \A k \in Keys : db[k] = ideal[p][k]
  BY <1>1, <1>2, <1>3 DEF MutableJob, ImmutableLock, MutableLock, UnitInv, LockInv
<1>5. meta[p] # Empty /\ meta[p] \in InverseMaps
  <2>1. meta[p][CursorKey].saved /\ CursorKey \in Keys
    BY <1>1, <1>2, KeyAssumption DEF MutableJob
  <2> QED
    BY <1>2, <2>1, SMTT(60) DEF Empty, NoInverse, TypeOK
<1>6. db = ideal[p] /\ LastPoint' = p /\ ~ ImmutableLock' /\ ~ MutableLock'
  BY <1>1, <1>2, <1>4, Unlocked DEF TypeOK
<1>7. /\ Fresh(p) /\ \A q : Fresh(q)' <=> Fresh(q)
      /\ height[p] > Level(LastPoint) /\ Level(p) = height[p] /\ Level(LastPoint) \in Int
      /\ \A q \in Points : height[q] \in Nat
  BY <1>1, <1>2, <1>4, ChildFresh, LevelFacts, TypeFacts DEF Fresh, TipInv
<1>8. \A q : Recoverable(q)' <=> Recoverable(q)
  BY <1>1 DEF Recoverable
<1>9. /\ IsBuffer(buffer') /\ IsBuffer(hand')
      /\ S \subseteq Points /\ Newest(S) \subseteq S
      /\ DOMAIN buffer' = Newest(S) /\ DOMAIN hand' = S \ Newest(S)
      /\ \A q \in Newest(S) : buffer'[q] = IF q = p THEN meta[p] ELSE buffer[q]
  <2>1. IsBuffer(buffer) /\ inv \in InverseMaps
    BY DEF TypeOK
  <2>2. /\ IsBuffer(AddBlock(buffer, p, inv)) /\ IsBuffer(Evicted(buffer, p, inv))
        /\ DOMAIN AddBlock(buffer, p, inv) = Newest(DOMAIN buffer \cup {p})
        /\ DOMAIN Evicted(buffer, p, inv) = (DOMAIN buffer \cup {p}) \ Newest(DOMAIN buffer \cup {p})
        /\ p \in Newest(DOMAIN buffer \cup {p}) => AddBlock(buffer, p, inv)[p] = inv
        /\ \A q \in Newest(DOMAIN buffer \cup {p}) : q # p => AddBlock(buffer, p, inv)[q] = buffer[q]
    <3> HIDE DEF p
    <3> QED
      BY <1>2, <2>1, AddBlockFacts
  <2>3. DOMAIN AddBlock(buffer, p, inv) = Newest(S) /\ DOMAIN Evicted(buffer, p, inv) = S \ Newest(S)
    BY <2>2
  <2>4. p \in Newest(S) => AddBlock(buffer, p, inv)[p] = inv
    BY <2>2
  <2>5. \A q \in Newest(S) : q # p => AddBlock(buffer, p, inv)[q] = buffer[q]
    BY <2>2
  <2>6. S \subseteq Points /\ Newest(S) \subseteq S
    BY <1>2, <2>1 DEF IsBuffer, Newest
  <2> HIDE DEF S
  <2> QED
    BY <1>1, <1>4, <2>2, <2>3, <2>4, <2>5, <2>6
<1>10. \A r \in DOMAIN buffer : Fresh(r) => buffer[r] = meta[r] /\ meta[r] # Empty
  BY <1>3, <1>4, <1>9 DEF BufferInv, Sync
<1>11. ASSUME NEW q \in S, Fresh(q) PROVE q \in Newest(S)
  <2>1. ASSUME NEW r \in S, height[r] > height[q] PROVE meta[r] # Empty
    <3>1. Fresh(r)
      BY <1>7, <1>9, <1>11, <2>1, TypeFacts, SMTT(60) DEF Fresh
    <3> QED
      BY <1>5, <1>10, <2>1, <3>1
  <2> HIDE DEF S
  <2> QED
    BY <1>9, <1>11, <2>1, FreshKept
<1>12. TypeOK'
  BY <1>1, <1>2, <1>9 DEF TypeOK
<1>13. TipInv'
  BY <1>1, <1>2, <1>4, <1>6, <1>7, TypeFacts DEF TipInv
<1>14. LockInv'
  BY <1>1, <1>4, <1>6 DEF LockInv
<1>15. \A q \in Points : height[q] > height[p] => meta[q] = Empty
  BY <1>2, <1>4, <1>7, SMTT(60)
<1>16. MetaInv'
  BY <1>1, <1>6, <1>7, <1>15 DEF MetaInv
<1>17. TargetInv'
  <2>1. Recoverable(p)
    BY <1>4, <1>15, SMTT(60) DEF Recoverable, Empty, NoInverse
  <2>2. ASSUME NEW x \in Points, Target(x)', x # p PROVE Recoverable(x)
    <3>1. meta[x] # Empty /\ Fresh(x) /\ (height[x] # 0 \/ x \in DOMAIN buffer)
      BY <1>1, <1>7, <1>9, <2>2 DEF Target
    <3>2. height[x] <= Level(LastPoint)
      BY <1>4, <1>7, <2>2, <3>1, SMTT(60)
    <3>3. Target(x)
      BY <3>1, <3>2 DEF Target
    <3> QED
      BY <3>3 DEF TargetInv
  <2>3. \A x \in Points : Target(x)' => Recoverable(x)
    BY <2>1, <2>2
  <2> QED
    BY <1>8, <2>3 DEF TargetInv
<1>18. MemoryInv'
  <2>1. ASSUME NEW q \in Points, Fresh(q), height[q] <= height[p]
        PROVE  /\ q \in DOMAIN buffer' => buffer'[q] = meta[q]
               /\ q \notin DOMAIN buffer' /\ height[q] # 0 => meta[q] = Empty
    <3>1. CASE q = p
      BY <1>9, <1>11, <2>1, <3>1
    <3>2. CASE q # p /\ q \in DOMAIN buffer
      BY <1>9, <1>10, <1>11, <2>1, <3>2
    <3>3. CASE q # p /\ q \notin DOMAIN buffer
      <4>1. q \notin DOMAIN buffer'
        BY <1>9, <3>3
      <4>2. CASE height[q] <= Level(LastPoint)
        BY <1>3, <2>1, <3>3, <4>1, <4>2 DEF BufferInv, Sync
      <4>3. CASE height[q] > Level(LastPoint)
        BY <1>4, <3>3, <4>1, <4>3
      <4> QED
        BY <1>7, <4>2, <4>3, SMTT(60)
    <3> QED
      BY <3>1, <3>2, <3>3
  <2>2. Sync(buffer, LastPoint)'
    BY <1>1, <1>6, <1>7, <2>1 DEF Sync
  <2>3. \A q \in DOMAIN buffer' : buffer'[q] # Empty /\ height[q] <= height[p]
    <3>1. \A q \in DOMAIN buffer : buffer[q] # Empty /\ height[q] <= Level(LastPoint) /\ q \in Points
      BY <1>3, <1>4 DEF BufferInv, TypeOK, IsBuffer
    <3> QED
      BY <1>2, <1>5, <1>7, <1>9, <3>1, SMTT(60)
  <2>4. BufferInv'
    BY <1>1, <1>4, <1>6, <1>7, <2>2, <2>3 DEF BufferInv
  <2>5. FieldInv'
    BY <1>1, <1>4, <1>6 DEF FieldInv
  <2> QED
    BY <1>1, <2>4, <2>5 DEF MemoryInv, UnitInv
<1>19. JobInv'
  <2>1. \A q \in DOMAIN hand' : ~ Fresh(q)'
    BY <1>7, <1>9, <1>11
  <2>2. Published'
    BY <1>1, <1>6, <2>1 DEF Published
  <2> QED
    BY <1>1, <1>2, <2>2 DEF JobInv, Alive
<1>20. GcInv' /\ PublishedConsistent'
  BY <1>1, <1>7 DEF GcInv, PublishedConsistent
<1> QED
  BY <1>12, <1>13, <1>14, <1>16, <1>17, <1>18, <1>19, <1>20

\* When nothing is left to undo, TiKV is back at the block to return to.
LEMMA Undone ==
  ASSUME IInv, pc = "batch", Undoing, todo = {}, lock' = NoLock, markers' = markers,
         UNCHANGED <<db, meta, top>>
  PROVE  LET t == job.point IN
         /\ t \in Points /\ LastPoint = t /\ LastPoint' = t /\ Level(t) = height[t]
         /\ ~ ImmutableLock' /\ ~ MutableLock'
         /\ \A q : (Fresh(q)' <=> Fresh(q)) /\ (Recoverable(q)' <=> Recoverable(q))
         /\ TipInv' /\ LockInv' /\ MetaInv'
<1> USE DEF IInv
<1> DEFINE t == job.point
<1>1. t \in Points /\ UndoJob
  BY DEF JobInv
<1>2. MutableLock /\ lock.safe = t /\ LastPoint = t /\ Level(t) = height[t] /\ ~ ImmutableLock
  BY <1>1, LevelFacts DEF UndoJob, Undoing, MutableLock, ImmutableLock, LastPoint
<1>3. \A q \in Points, k \in Keys : height[q] > height[t] => ~ meta[q][k].saved
  BY <1>1 DEF UndoJob
<1>4. \A k \in Keys : db[k] = ideal[t][k]
  BY <1>1, <1>3 DEF UndoJob, Recoverable
<1>5. db = ideal[t] /\ LastPoint' = t /\ ~ ImmutableLock' /\ ~ MutableLock'
  BY <1>1, <1>4, Unlocked DEF TypeOK
<1>6. ASSUME NEW q \in Points, height[q] > height[t] PROVE meta[q] = Empty
  <2>1. \A k \in Keys : meta[q][k] = NoInverse
    BY <1>3, <1>6 DEF MetaInv
  <2>2. meta[q] \in InverseMaps
    BY DEF TypeOK
  <2> QED
    BY <2>1, <2>2 DEF InverseMaps, Empty
<1>7. \A q : (Fresh(q)' <=> Fresh(q)) /\ (Recoverable(q)' <=> Recoverable(q))
  BY DEF Fresh, Recoverable
<1>8. TipInv'
  BY <1>2, <1>5, <1>7 DEF TipInv
<1>9. LockInv'
  BY <1>2, <1>5 DEF LockInv
<1>10. MetaInv'
  BY <1>2, <1>5, <1>6, <1>7 DEF MetaInv
<1> QED
  BY <1>1, <1>2, <1>5, <1>7, <1>8, <1>9, <1>10

\* Removing the lock of a rollback keeps the invariant.
LEMMA UnlockBackInv == ASSUME IInv, UnlockBack PROVE IInv'
<1> USE DEF IInv
<1> DEFINE t == job.point
<1>1. /\ UNCHANGED <<db, meta, top>>
      /\ UNCHANGED <<redis, up, job, todo, hand, inv, last, buffer, mutable, partial, unit, offer, gc, faults>>
      /\ pc = "batch" /\ job.kind = "back" /\ todo = {} /\ lock' = NoLock /\ markers' = markers
      /\ pc' = "publish" /\ Undoing
  BY DEF UnlockBack, RemoveLock, memory, Undoing
<1>2. Alive /\ UndoJob /\ up = "run"
  BY <1>1 DEF JobInv, Alive
<1>3. BufferInv /\ FieldInv /\ UnitInv
  BY <1>2 DEF MemoryInv
<1>4. /\ t \in Points /\ LastPoint = t /\ LastPoint' = t /\ Level(t) = height[t]
      /\ ~ ImmutableLock' /\ ~ MutableLock'
      /\ \A q : (Fresh(q)' <=> Fresh(q)) /\ (Recoverable(q)' <=> Recoverable(q))
      /\ TipInv' /\ LockInv' /\ MetaInv'
  BY <1>1, Undone
<1>5. mutable /\ partial = None /\ unit # None /\ unit.kind = "back" /\ unit.point = t /\ Fresh(t)
  BY <1>1, <1>2 DEF UndoJob
<1>6. TypeOK'
  BY <1>1 DEF TypeOK
<1>7. TargetInv'
  BY <1>1, <1>4 DEF TargetInv, Target
<1>8. MemoryInv'
  <2>1. BufferInv'
    BY <1>1, <1>3, <1>4, <1>5 DEF BufferInv, Sync, Retreated
  <2>2. FieldInv'
    BY <1>1, <1>4, <1>5 DEF FieldInv, Retreated
  <2>3. UnitInv'
    BY <1>1, <1>4, <1>5 DEF UnitInv
  <2> QED
    BY <2>1, <2>2, <2>3 DEF MemoryInv
<1>9. JobInv'
  <2>1. Published'
    BY <1>1, <1>4, <1>5 DEF Published
  <2> QED
    BY <1>1, <1>2, <1>4, <1>5, <2>1 DEF JobInv, Alive
<1>10. GcInv' /\ PublishedConsistent'
  BY <1>1, <1>4 DEF GcInv, PublishedConsistent
<1> QED
  BY <1>4, <1>6, <1>7, <1>8, <1>9, <1>10

\* Removing the lock of a repair keeps the invariant.
LEMMA UnlockRepairInv == ASSUME IInv, UnlockRepair PROVE IInv'
<1> USE DEF IInv
<1> DEFINE t == job.point
<1>1. /\ UNCHANGED <<db, meta, top>>
      /\ UNCHANGED <<redis, up, todo, inv, mutable, unit, offer, gc, faults>>
      /\ pc = "batch" /\ job.kind = "repair" /\ todo = {} /\ lock' = NoLock /\ markers' = markers
      /\ partial' = None /\ last' = t /\ buffer' = Trim(hand, t) /\ pc' = "idle" /\ job' = NoJob
      /\ hand' = NoBuffer /\ Undoing
  BY DEF UnlockRepair, RemoveLock, Undoing
<1>2. Alive /\ UndoJob /\ up = "boot"
  BY <1>1 DEF JobInv, Alive
<1>3. BufferInv /\ FieldInv /\ UnitInv
  BY <1>2 DEF MemoryInv
<1>4. /\ t \in Points /\ LastPoint = t /\ LastPoint' = t /\ Level(t) = height[t]
      /\ ~ ImmutableLock' /\ ~ MutableLock'
      /\ \A q : (Fresh(q)' <=> Fresh(q)) /\ (Recoverable(q)' <=> Recoverable(q))
      /\ TipInv' /\ LockInv' /\ MetaInv'
  BY <1>1, Undone
<1>5. /\ mutable /\ Sync(hand, t) /\ t \in Blocks
      /\ \A q \in DOMAIN hand : hand[q] # Empty /\ height[q] # 0
      /\ \A q \in Points : height[q] \in Nat
  BY <1>1, <1>2, <1>4, TypeFacts DEF UndoJob, Blocks
<1>6. /\ IsBuffer(buffer')
      /\ \A q : q \in DOMAIN buffer' <=> q \in DOMAIN hand /\ ~ (height[q] > height[t])
      /\ \A q \in DOMAIN buffer' : buffer'[q] = hand[q]
  BY <1>1, <1>4, TrimFacts, SMTT(60) DEF TypeOK
<1>7. TypeOK'
  <2>1. job' \in [kind : {"none", "immutable", "mutable", "back", "repair"}, point : Blocks]
    BY <1>1 DEF NoJob, Blocks
  <2> QED
    BY <1>1, <1>5, <1>6, <2>1, EmptyType DEF TypeOK
<1>8. TargetInv'
  <2>1. \A x \in Points : Target(x)' => Target(x)
    BY <1>1, <1>4, <1>5, <1>6 DEF Target
  <2> QED
    BY <1>4, <2>1 DEF TargetInv
<1>9. MemoryInv'
  <2>1. Sync(buffer, LastPoint)'
    <3> SUFFICES ASSUME NEW q \in Points, Fresh(q), height[q] <= height[t]
                 PROVE  /\ q \in DOMAIN buffer' => buffer'[q] = meta[q]
                        /\ q \notin DOMAIN buffer' /\ height[q] # 0 => meta[q] = Empty
      BY <1>1, <1>4 DEF Sync
    <3>1. ~ (height[q] > height[t])
      BY <1>4, <1>5, SMTT(60)
    <3>2. /\ q \in DOMAIN hand => hand[q] = meta[q]
          /\ q \notin DOMAIN hand /\ height[q] # 0 => meta[q] = Empty
      BY <1>4, <1>5 DEF Sync
    <3> QED
      BY <1>6, <3>1, <3>2
  <2>2. \A q \in DOMAIN buffer' : buffer'[q] # Empty /\ height[q] <= height[t]
    BY <1>4, <1>5, <1>6, SMTT(60) DEF IsBuffer
  <2>3. BufferInv'
    BY <1>1, <1>4, <1>5, <2>1, <2>2 DEF BufferInv
  <2>4. FieldInv'
    BY <1>1, <1>4, <1>5 DEF FieldInv
  <2>5. UnitInv'
    BY <1>1, <1>3, <1>4 DEF UnitInv
  <2> QED
    BY <2>3, <2>4, <2>5 DEF MemoryInv
<1>10. JobInv'
  BY <1>1 DEF JobInv
<1>11. GcInv' /\ PublishedConsistent'
  BY <1>1, <1>4 DEF GcInv, PublishedConsistent
<1> QED
  BY <1>4, <1>7, <1>8, <1>9, <1>10, <1>11
-----------------------------------------------------------------------------
(* The theorems. *)

=============================================================================
