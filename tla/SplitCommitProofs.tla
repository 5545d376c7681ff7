------------------------- MODULE SplitCommitProofs --------------------------
(***************************************************************************)
(* The storage stage keeps TiKV at a block boundary whenever no lock key   *)
(* is there: proofs, for every chain, key set, batch size and number of    *)
(* faults, that types, AtomicBlocks, PublishedConsistent and CursorCached  *)
(* are invariants of SplitCommit while reorganisations stay within the     *)
(* rollback buffer, Redis takes the entry of a rollback and a block begun  *)
(* as immutable comes back as such; and that an instance that has indexed  *)
(* a block never meets a panic of recovery, is always ready to roll back   *)
(* and implements AtomicIndex.  For the latter there is a second           *)
(* invariant, of an instance past its first block: the entries of the      *)
(* rollback buffer link the blocks within reach, the tip has its entry as  *)
(* soon as there is one at all, and so no repair or rollback meets a       *)
(* missing one.                                                            *)
(***************************************************************************)
EXTENDS SplitCommitBatches, FiniteSetTheorems

\* Most steps are first-order; those that need arithmetic or functions cite SMT.
USE ZenonT(60)

\* The instance has indexed a block, and not only the block at height 0: the
\* persistent buffer does not find entries of height 0 (fetch_persistent_buffer).
Started == StartPoint \in Points /\ height[StartPoint] # 0

Floor ==
  /\ LastPoint # Origin /\ height[LastPoint] # 0
  /\ \A q \in Points : meta[q] # Empty => height[q] # 0

\* A block to return to has an entry, and the tip has one unless there is none.
SafeInv ==
  /\ MutableLock => meta[LastPoint] # Empty
  /\ lock = NoLock => NothingToFetch \/ meta[LastPoint] # Empty
  /\ ImmutableLock => lock.total = Cardinality(Touched(lock.block))

\* The inverses kept for q lead to its parent, which has an entry of its own.
Linked(q) ==
  /\ parent[q] # Origin
  /\ Fresh(parent[q]) => meta[parent[q]] # Empty
  /\ \A k \in Keys : Undo(meta[q][k], ideal[q][k]) = ideal[parent[q]][k]

\* The entry that Seed made.
First(q) ==
  /\ meta[q][DummyKey].saved
  /\ \A r \in Points : Fresh(r) /\ height[r] < height[q] => meta[r] = Empty

EntryInv ==
  \A q \in Points : Fresh(q) /\ meta[q] # Empty /\ height[q] <= height[LastPoint] =>
    Linked(q) \/ First(q)

TipKept ==
  Alive /\ lock = NoLock /\ ~ Retreated /\ DOMAIN buffer # {} => LastPoint \in DOMAIN buffer

\* The batches of a block committed so far can be undone.
HalfLinked ==
  \A k \in Keys : <<job.point, k>> \notin todo =>
    Undo(meta[job.point][k], ideal[job.point][k]) = ideal[LastPoint][k]

WorkInv ==
  /\ up # "panic"
  /\ pc \in {"lock", "batch"} /\ job.kind = "mutable" => DOMAIN buffer # {}
  /\ pc \in {"seed", "lock", "batch"} /\ job.kind = "mutable" => HalfLinked
  /\ pc # "idle" /\ job.kind = "back" => job.point \in DOMAIN buffer /\ meta[job.point] # Empty

\* Inductive together with IInv.
RInv == Floor /\ SafeInv /\ EntryInv /\ TipKept /\ WorkInv

-----------------------------------------------------------------------------
(* Facts about the state. *)

\* The tip is a block, within reach, and its level is its height.
LEMMA TipFacts ==
  ASSUME IInv, RInv
  PROVE  /\ LastPoint \in Points /\ Fresh(LastPoint) /\ Level(LastPoint) = height[LastPoint]
         /\ height[LastPoint] # 0 /\ height[LastPoint] \in Nat
         /\ parent[LastPoint] \in Blocks
<1>1. LastPoint \in Points /\ Fresh(LastPoint)
  BY DEF IInv, RInv, Floor, TipInv, Blocks
<1> QED
  BY <1>1, LevelFacts, TypeFacts DEF IInv, RInv, Floor

\* A step that leaves TiKV and the source's height alone leaves alone what the
\* invariant says of them.
LEMMA StoreKept ==
  ASSUME RInv, UNCHANGED <<db, lock, markers, meta, top>>
  PROVE  Floor' /\ SafeInv' /\ EntryInv'
<1>1. LastPoint' = LastPoint /\ (ImmutableLock' <=> ImmutableLock) /\ (MutableLock' <=> MutableLock)
      /\ (NothingToFetch' <=> NothingToFetch) /\ \A q : Fresh(q)' <=> Fresh(q)
  BY StoreStutter
<1>2. Floor'
  BY <1>1 DEF RInv, Floor
<1>3. SafeInv'
  BY <1>1 DEF RInv, SafeInv
<1>4. EntryInv'
  <2>1. \A q : (Linked(q)' <=> Linked(q)) /\ (First(q)' <=> First(q))
    BY <1>1 DEF Linked, First
  <2> QED
    BY <1>1, <2>1 DEF RInv, EntryInv
<1> QED
  BY <1>2, <1>3, <1>4

\* The persistent buffer has the entry of the tip, if there is one.
LEMMA TipFetched ==
  ASSUME HeightsCounted, IInv, RInv, meta[LastPoint] # Empty
  PROVE  LastPoint \in DOMAIN Keep(Fetch)
<1>1. \A q \in Points : Fresh(q) /\ height[q] # 0 /\ meta[q] # Empty => q \in DOMAIN Keep(Fetch)
  BY FetchSync DEF IInv
<1> QED
  BY <1>1, TipFacts

\* The entries stay linked when the tip does not rise and the entries within
\* reach up to the tip stay as they are.
LEMMA EntriesKept ==
  ASSUME IInv, RInv,
         LastPoint' = LastPoint \/ (LastPoint' \in Points /\ height[LastPoint'] <= height[LastPoint]),
         \A q \in Points : Fresh(q)' => Fresh(q),
         \A q \in Points : Fresh(q)' /\ height[q] <= height[LastPoint] => meta'[q] = meta[q]
  PROVE  EntryInv'
<1> SUFFICES ASSUME NEW q \in Points, Fresh(q)', meta'[q] # Empty, height[q] <= height[LastPoint']
             PROVE  Linked(q)' \/ First(q)'
  BY DEF EntryInv
<1>1. LastPoint \in Points /\ \A r \in Points : height[r] \in Nat
  BY TipFacts, TypeFacts DEF IInv
<1>2. height[q] <= height[LastPoint]
  BY <1>1, SMTT(60)
<1>3. meta'[q] = meta[q] /\ (Linked(q) \/ First(q))
  BY <1>2 DEF RInv, EntryInv
<1>4. ASSUME Linked(q) PROVE Linked(q)'
  <2>1. parent[q] \in Points /\ height[parent[q]] <= height[LastPoint]
    BY <1>1, <1>2, <1>4, ChainAssumption, SMTT(60) DEF Linked, Blocks
  <2>2. Fresh(parent[q])' => Fresh(parent[q]) /\ meta'[parent[q]] = meta[parent[q]]
    BY <2>1
  <2> QED
    BY <1>3, <1>4, <2>2 DEF Linked
<1>5. ASSUME First(q) PROVE First(q)'
  <2>1. \A r \in Points : height[r] < height[q] => height[r] <= height[LastPoint]
    BY <1>1, <1>2, SMTT(60)
  <2> QED
    BY <1>3, <1>5, <2>1 DEF First
<1> QED
  BY <1>3, <1>4, <1>5

-----------------------------------------------------------------------------
(* Starting, repairing, receiving. *)

\* It holds at the start of an instance past its first block.
LEMMA InitReady == ASSUME Started, Init PROVE RInv
<1>1. LastPoint = StartPoint
  BY TipOf, ChainAssumption DEF Init
<1>2. \A q \in Points : meta[q] = Empty
  BY DEF Init
<1>3. Floor
  BY <1>1, <1>2, ChainAssumption DEF Started, Floor
<1>4. SafeInv
  BY <1>2 DEF SafeInv, Init, NothingToFetch, MutableLock, ImmutableLock
<1>5. EntryInv
  BY <1>2 DEF EntryInv
<1>6. TipKept /\ WorkInv
  BY DEF TipKept, WorkInv, Init, Alive
<1> QED
  BY <1>3, <1>4, <1>5, <1>6 DEF RInv

\* There is always a safe point, so last_point does not panic; and the tip has its
\* entry in what is read.
LEMMA StartReady == ASSUME HeightsCounted, IInv, RInv, Start PROVE RInv'
<1>1. /\ UNCHANGED <<db, lock, markers, meta, top>> /\ UNCHANGED <<pc, job, todo>>
      /\ up = "down" /\ up' = "boot" /\ buffer' = Keep(Fetch)
  <2>1. ~ (lock # NoLock /\ lock.safe = Origin)
    BY DEF RInv, Floor, LastPoint
  <2> QED
    BY <2>1 DEF Start, tikv, run
<1>2. pc = "idle" /\ pc' = "idle"
  BY <1>1 DEF IInv, JobInv, Alive
<1>3. LastPoint' = LastPoint
  BY <1>1, StoreStutter
<1>4. TipKept'
  <2> SUFFICES ASSUME lock = NoLock, DOMAIN Keep(Fetch) # {} PROVE LastPoint \in DOMAIN Keep(Fetch)
    BY <1>1, <1>3 DEF TipKept
  <2>1. ~ NothingToFetch
    BY FetchSync DEF IInv
  <2> QED
    BY <2>1, TipFetched DEF RInv, SafeInv
<1>5. WorkInv'
  BY <1>1, <1>2 DEF WorkInv
<1> QED
  BY <1>1, <1>4, <1>5, StoreKept DEF RInv

\* The entry of the safe point is there to repair from.
LEMMA BootRepairReady == ASSUME HeightsCounted, IInv, RInv, BootRepair PROVE RInv'
<1>1. /\ UNCHANGED <<db, lock, markers, meta, top>> /\ UNCHANGED <<buffer>>
      /\ up = "boot" /\ pc = "idle"
  BY DEF BootRepair, tikv
<1>2. lock # NoLock /\ MutableLock /\ Partial.lock = lock /\ lock.safe = LastPoint
  <2>1. FieldInv
    BY <1>1 DEF IInv, MemoryInv, Alive
  <2>2. lock # NoLock
    BY <2>1 DEF BootRepair, Partial, FieldInv
  <2> QED
    BY <2>2 DEF BootRepair, Partial, MutableLock, LastPoint
<1>3. LastPoint \in DOMAIN Keep(Fetch)
  BY <1>2, TipFetched DEF RInv, SafeInv
<1>4. up' = "boot" /\ job'.kind = "repair" /\ lock' # NoLock
  <2>1. Partial.lock.safe \in DOMAIN Keep(Fetch) /\ lock' = lock
    BY <1>1, <1>2, <1>3
  <2>2. up' = up /\ job' = [kind |-> "repair", point |-> Partial.lock.safe]
    BY <2>1 DEF BootRepair
  <2> QED
    BY <1>1, <1>2, <2>1, <2>2
<1>5. TipKept' /\ WorkInv'
  BY <1>4 DEF TipKept, WorkInv
<1> QED
  BY <1>1, <1>5, StoreKept DEF RInv

\* The end of bootstrap leaves the entries alone.
LEMMA BootFinishReady == ASSUME IInv, RInv, BootFinish PROVE RInv'
<1>1. /\ UNCHANGED <<db, lock, markers, meta, top>> /\ UNCHANGED <<pc, job, todo, buffer>>
      /\ up = "boot" /\ up' = "run" /\ pc = "idle"
  BY DEF BootFinish, tikv, run
<1>2. TipKept' /\ WorkInv'
  BY <1>1, StoreStutter DEF RInv, TipKept, WorkInv, Alive, Retreated
<1> QED
  BY <1>1, <1>2, StoreKept DEF RInv

\* The source touches only its own height.
LEMMA DeliverReady ==
  ASSUME IInv, IInv', RInv, DeliverIntersect \/ DeliverForward \/ DeliverBack
  PROVE  RInv'
<1>1. /\ UNCHANGED <<db, lock, markers, meta>> /\ UNCHANGED <<up, pc, job, todo, buffer>>
      /\ top' \in Nat /\ top' >= top
  <2>1. UNCHANGED <<db, lock, markers, meta>> /\ UNCHANGED <<up, pc, job, todo, buffer>>
    BY DEF DeliverIntersect, DeliverForward, DeliverBack, tikv, run, memory
  <2>2. top \in Nat /\ \A q \in Points : height[q] \in Nat
    BY TypeFacts DEF IInv
  <2>3. CASE DeliverForward
    <3>1. PICK p \in Points : top' = IF height[p] > top THEN height[p] ELSE top
      BY <2>3 DEF DeliverForward
    <3> QED
      BY <2>1, <2>2, <3>1, SMTT(60)
  <2>4. CASE DeliverIntersect \/ DeliverBack
    <3>1. top' = top
      BY <2>4 DEF DeliverIntersect, DeliverBack
    <3> QED
      BY <2>1, <2>2, <3>1, SMTT(60)
  <2> QED
    BY <2>1, <2>3, <2>4
<1>2. LastPoint' = LastPoint /\ MinHeight' = MinHeight
      /\ (ImmutableLock' <=> ImmutableLock) /\ (MutableLock' <=> MutableLock)
  BY <1>1 DEF LastPoint, MinHeight, ImmutableLock, MutableLock
<1>3. \A q \in Points : Fresh(q)' => Fresh(q)
  BY <1>1, TypeFacts, SMTT(60) DEF Fresh, IInv
<1>4. Floor'
  BY <1>1, <1>2 DEF RInv, Floor
<1>5. SafeInv'
  BY <1>1, <1>2 DEF RInv, SafeInv, NothingToFetch
<1>6. EntryInv'
  BY <1>1, <1>2, <1>3, EntriesKept
<1>7. TipKept' /\ WorkInv'
  BY <1>1, <1>2 DEF RInv, TipKept, WorkInv, HalfLinked, Alive, Retreated
<1> QED
  BY <1>4, <1>5, <1>6, <1>7 DEF RInv

-----------------------------------------------------------------------------
(* Beginning a job. *)

\* A block to apply follows the last one, and its actions are as many as the
\* lock that was found says: the checks of execute pass.
LEMMA ForwardFits ==
  ASSUME IInv, RInv, up = "run", pc = "idle", unit # None, unit.kind = "forward"
  PROVE  /\ last = LastPoint /\ unit.point \in Points /\ parent[unit.point] = LastPoint
         /\ ~ (last # Origin /\ height[last] + 1 # height[unit.point])
         /\ ~ MutableLock
         /\ ~ unit.mutable => ~ (partial # None /\ (\/ partial.lock.mutable
                                  \/ partial.lock.total # Cardinality(Touched(unit.point))))
<1>1. FieldInv /\ UnitInv
  BY DEF IInv, MemoryInv, Alive
<1>2. unit.point \in Points
  BY DEF IInv, TypeOK
<1>3. lock # NoLock => ImmutableLock /\ partial = [lock |-> lock, done |-> markers]
  BY <1>1 DEF FieldInv
<1>4. ~ MutableLock /\ last = LastPoint /\ parent[unit.point] = LastPoint
  BY <1>1, <1>3 DEF FieldInv, UnitInv, MutableLock, ImmutableLock, Retreated
<1>5. LastPoint \in Points
  BY TipFacts
<1>6. height[last] + 1 = height[unit.point]
  BY <1>2, <1>4, <1>5, ChainAssumption
<1>7. lock = NoLock => partial = None
  BY <1>1 DEF FieldInv
<1>8. lock # NoLock => /\ partial.lock = lock /\ ~ lock.mutable
                       /\ lock.total = Cardinality(Touched(unit.point))
  <2> SUFFICES ASSUME lock # NoLock
               PROVE  /\ partial.lock = lock /\ ~ lock.mutable
                      /\ lock.total = Cardinality(Touched(unit.point))
    OBVIOUS
  <2>1. partial.lock = lock /\ ImmutableLock
    BY <1>3, SMTT(60)
  <2>2. unit.point = lock.block
    BY <1>1, <2>1 DEF UnitInv
  <2> QED
    BY <2>1, <2>2 DEF RInv, SafeInv, ImmutableLock
<1> QED
  BY <1>2, <1>4, <1>6, <1>7, <1>8

\* An immutable block finds the action count of the attempt it resumes.
LEMMA BeginImmutableReady == ASSUME IInv, RInv, BeginImmutable PROVE RInv'
<1>1. /\ UNCHANGED <<db, lock, markers, meta, top>> /\ UNCHANGED buffer
      /\ up = "run" /\ pc = "idle" /\ unit # None /\ unit.kind = "forward" /\ ~ unit.mutable
  BY DEF BeginImmutable, tikv, memory
<1>2. up' = "run" /\ pc' = "lock" /\ job'.kind = "immutable"
  <2>1. ~ (\/ last # Origin /\ height[last] + 1 # height[unit.point]
           \/ partial # None /\ (\/ partial.lock.mutable
                                 \/ partial.lock.total # Cardinality(Touched(unit.point))))
    BY <1>1, ForwardFits
  <2>2. up' = up /\ pc' = "lock" /\ job' = [kind |-> "immutable", point |-> unit.point]
    BY <2>1 DEF BeginImmutable
  <2> QED
    BY <1>1, <2>2
<1>3. TipKept' /\ WorkInv'
  BY <1>1, <1>2, StoreStutter DEF RInv, TipKept, WorkInv, Alive, Retreated
<1> QED
  BY <1>1, <1>3, StoreKept DEF RInv

\* A mutable block begins with nothing to undo.
LEMMA BeginMutableReady == ASSUME IInv, RInv, BeginMutable PROVE RInv'
<1>1. /\ UNCHANGED <<db, lock, markers, meta, top>> /\ UNCHANGED <<buffer>>
      /\ up = "run" /\ pc = "idle" /\ unit # None /\ unit.kind = "forward"
  BY DEF BeginMutable, tikv
<1> DEFINE p == unit.point
<1>2. last = LastPoint /\ p \in Points /\ parent[p] = LastPoint /\ ~ MutableLock
  BY <1>1, ForwardFits
<1>3. /\ up' = "run" /\ job' = [kind |-> "mutable", point |-> p]
      /\ todo' = {<<p, k>> : k \in Touched(p)}
      /\ pc' = IF DOMAIN buffer = {} /\ last # Origin THEN "seed" ELSE "lock"
  BY <1>1, ForwardFits DEF BeginMutable
<1>4. LastPoint' = LastPoint /\ last # Origin
  BY <1>1, <1>2, StoreStutter DEF RInv, Floor
<1>5. pc' = "lock" => DOMAIN buffer' # {}
  BY <1>1, <1>3, <1>4
<1>6. HalfLinked'
  <2>1. meta[p] = Empty
    BY <1>2, LevelFacts DEF IInv, MetaInv
  <2>2. ASSUME NEW k \in Keys, <<p, k>> \notin todo' PROVE ideal[p][k] = ideal[LastPoint][k]
    <3>1. acts[p][k] = NoAction
      BY <1>3, <2>2 DEF Touched
    <3> QED
      BY <1>2, <3>1, IdealAssumption DEF ExecOption
  <2>3. \A k \in Keys : \A v : Undo(meta[p][k], v) = v
    BY <2>1, SMTT(60) DEF Empty, NoInverse, Undo
  <2> QED
    BY <1>1, <1>3, <1>4, <2>2, <2>3 DEF HalfLinked
<1>7. TipKept' /\ WorkInv'
  BY <1>1, <1>3, <1>4, <1>5, <1>6 DEF RInv, TipKept, WorkInv, Alive, Retreated
<1> QED
  BY <1>1, <1>7, StoreKept DEF RInv

\* The entry of the block to return to is in the buffer and in TiKV.
LEMMA BeginBackReady == ASSUME IInv, RInv, BeginBack PROVE RInv'
<1>1. /\ UNCHANGED <<db, lock, markers, meta, top>> /\ UNCHANGED buffer
      /\ up = "run" /\ pc = "idle" /\ unit # None /\ unit.kind = "back"
  BY DEF BeginBack, tikv
<1>2. BufferInv /\ FieldInv /\ UnitInv
  BY <1>1 DEF IInv, MemoryInv, Alive
<1>3. lock = NoLock /\ Fresh(unit.point) /\ unit.point \in Points
  <2>1. ~ ImmutableLock /\ Fresh(unit.point)
    BY <1>1, <1>2 DEF UnitInv
  <2> QED
    BY <1>1, <1>2, <2>1 DEF FieldInv, IInv, TypeOK
<1>4. CASE unit.point \in DOMAIN buffer
  <2>1. up' = "run" /\ pc' = "lock" /\ job' = [kind |-> "back", point |-> unit.point]
    BY <1>1, <1>4 DEF BeginBack
  <2>2. meta[unit.point] # Empty
    <3>1. height[unit.point] <= Level(LastPoint)
      BY <1>1, <1>2, <1>3, <1>4 DEF BufferInv, Retreated
    <3> QED
      BY <1>2, <1>3, <1>4, <3>1 DEF BufferInv, Sync
  <2>3. job'.kind = "back" /\ job'.point = unit.point
    BY <2>1
  <2>4. TipKept'
    BY <1>1, <2>1, StoreStutter DEF RInv, TipKept, Alive, Retreated
  <2>5. WorkInv'
    BY <1>1, <1>4, <2>1, <2>2, <2>3 DEF WorkInv
  <2> QED
    BY <1>1, <2>4, <2>5, StoreKept DEF RInv
<1>5. CASE unit.point \notin DOMAIN buffer
  <2>1. up' = "range" /\ UNCHANGED <<job, pc>>
    BY <1>5 DEF BeginBack
  <2>2. TipKept' /\ WorkInv'
    BY <1>1, <2>1 DEF TipKept, WorkInv, Alive
  <2> QED
    BY <1>1, <2>2, StoreKept DEF RInv
<1> QED
  BY <1>4, <1>5

\* The heights of the rollback buffer after add_block.
LEMMA AddBlockDomain ==
  ASSUME NEW f, IsBuffer(f), NEW p \in Points, NEW i \in InverseMaps
  PROVE  DOMAIN AddBlock(f, p, i) = Newest(DOMAIN f \cup {p})
  BY AddBlockFacts

\* The first entry: there is no other within reach.
LEMMA SeedReady == ASSUME HeightsCounted, IInv, IInv', RInv, Seed PROVE RInv'
<1> DEFINE dummy == [Empty EXCEPT ![DummyKey] = [saved |-> TRUE, val |-> Absent]]
<1>1. /\ UNCHANGED <<db, lock, markers, top>> /\ UNCHANGED <<up, job, todo, last>>
      /\ pc = "seed" /\ pc' = "lock"
      /\ meta' = [meta EXCEPT ![last] = dummy] /\ buffer' = AddBlock(buffer, last, dummy)
  BY DEF Seed
<1>2. Alive /\ MutableJob /\ job.kind = "mutable" /\ job.point \in Points /\ BufferInv
  BY <1>1 DEF IInv, JobInv, MemoryInv
<1>3. /\ lock = NoLock /\ DOMAIN buffer = {} /\ last = LastPoint /\ parent[job.point] = last
      /\ last \in Points /\ Fresh(last) /\ Level(LastPoint) = height[last]
      /\ height[job.point] > height[last] /\ \A q \in Points : height[q] \in Nat
  BY <1>1, <1>2, TipFacts, LevelFacts, TypeFacts DEF MutableJob, IInv
<1>4. dummy \in InverseMaps /\ dummy[DummyKey].saved /\ dummy # Empty
  <2>1. Empty \in [Keys -> [saved : BOOLEAN, val : Stored]] /\ DummyKey \in Keys
    BY EmptyType, KeyAssumption DEF InverseMaps
  <2>2. dummy \in InverseMaps
    BY <2>1 DEF InverseMaps, Stored
  <2>3. dummy[DummyKey].saved /\ ~ Empty[DummyKey].saved
    BY <2>1 DEF Empty, NoInverse
  <2> QED
    BY <2>2, <2>3
<1> HIDE DEF dummy
<1>5. meta'[last] = dummy /\ \A q \in Points : q # last => meta'[q] = meta[q]
  BY <1>1, <1>3 DEF IInv, TypeOK
<1>6. last \in DOMAIN buffer'
  <2>1. DOMAIN buffer' = Newest({last})
    <3>1. IsBuffer(buffer) /\ DOMAIN buffer \cup {last} = {last}
      BY <1>3 DEF IInv, TypeOK
    <3>2. DOMAIN AddBlock(buffer, last, dummy) = Newest(DOMAIN buffer \cup {last})
      BY <1>3, <1>4, <3>1, AddBlockDomain
    <3> QED
      BY <1>1, <3>1, <3>2
  <2>2. Above({last}, last) = {} /\ Cardinality({}) = 0
    BY <1>3, SMTT(60) DEF Above, HeightsCounted
  <2> QED
    BY <2>1, <2>2, BoundAssumption, SMTT(60) DEF Newest
<1>7. LastPoint' = LastPoint /\ lock' = NoLock /\ \A q : Fresh(q)' <=> Fresh(q)
  BY <1>1, <1>3 DEF LastPoint, Fresh
<1>8. Floor'
  BY <1>3, <1>5, <1>7 DEF RInv, Floor
<1>9. SafeInv'
  BY <1>3, <1>4, <1>5, <1>7 DEF SafeInv, ImmutableLock, MutableLock
<1>10. \A q \in Points : Fresh(q) /\ height[q] <= height[last] => meta[q] = Empty
  BY <1>2, <1>3 DEF BufferInv, Sync, RInv, Floor
<1>11. EntryInv'
  <2> SUFFICES ASSUME NEW q \in Points, Fresh(q), meta'[q] # Empty, height[q] <= height[last]
               PROVE  First(q)'
    BY <1>3, <1>7 DEF EntryInv
  <2>1. q = last
    BY <1>5, <1>10
  <2>2. ASSUME NEW r \in Points, Fresh(r), height[r] < height[last] PROVE meta'[r] = Empty
    <3>1. r # last /\ height[r] <= height[last]
      BY <1>3, <2>2, SMTT(60)
    <3> QED
      BY <1>5, <1>10, <2>2, <3>1
  <2> QED
    BY <1>4, <1>5, <1>7, <2>1, <2>2 DEF First
<1>12. HalfLinked'
  <2>1. HalfLinked /\ job.point # last
    BY <1>1, <1>2, <1>3, SMTT(60) DEF RInv, WorkInv
  <2> QED
    BY <1>1, <1>2, <1>5, <1>7, <2>1 DEF HalfLinked
<1>13. TipKept' /\ WorkInv'
  BY <1>1, <1>2, <1>3, <1>6, <1>7, <1>12 DEF TipKept, WorkInv, RInv
<1> QED
  BY <1>8, <1>9, <1>11, <1>13 DEF RInv

\* A commit begins at the tip, a rollback moves it to the block to return to.
LEMMA WriteLockReady == ASSUME IInv, IInv', RInv, WriteLock PROVE RInv'
<1>1. /\ UNCHANGED <<db, markers, meta, top>> /\ UNCHANGED <<up, job, todo, buffer, last>>
      /\ pc = "lock" /\ pc' = "batch"
  BY DEF WriteLock, memory
<1>2. /\ Alive /\ job.point \in Points /\ job.kind \in {"immutable", "mutable", "back", "repair"}
      /\ BufferInv /\ FieldInv
  BY <1>1 DEF IInv, JobInv, MemoryInv
<1>3. /\ lock' # NoLock /\ LastPoint' = lock'.safe
      /\ lock'.safe = IF Undoing THEN job.point ELSE last
      /\ lock'.block = job.point
      /\ lock'.mutable = (job.kind # "immutable")
      /\ ~ Undoing => lock'.total = Cardinality(Touched(job.point))
  <2>1. lock' # NoLock
    <3>1. (ImmutableJob \/ MutableJob \/ UndoJob)'
      BY <1>1, <1>2 DEF IInv, JobInv, Undoing
    <3> QED
      BY <1>1, <1>2, <3>1 DEF IInv, JobInv, ImmutableJob, MutableJob, UndoJob, Undoing, MutableLock
  <2>2. /\ lock'.safe = IF Undoing THEN job.point ELSE last
        /\ lock'.total = IF Undoing THEN 0 ELSE Cardinality(Touched(job.point))
        /\ lock'.mutable = (job.kind # "immutable")
        /\ lock'.block = job.point
    BY DEF WriteLock
  <2>3. LastPoint' = lock'.safe
    BY <2>1 DEF LastPoint
  <2> QED
    BY <2>1, <2>2, <2>3
<1>4. \A q : Fresh(q)' <=> Fresh(q)
  BY <1>1 DEF Fresh
<1>5. CASE job.kind = "immutable"
  <2>1. ~ MutableLock /\ last = LastPoint
    BY <1>1, <1>2, <1>5 DEF IInv, JobInv, ImmutableJob, FieldInv, Retreated
  <2>2. LastPoint' = LastPoint /\ ~ MutableLock'
    BY <1>3, <1>5, <2>1 DEF Undoing, MutableLock
  <2>3. Floor' /\ SafeInv'
    BY <1>1, <1>3, <1>5, <2>2 DEF RInv, Floor, SafeInv, Undoing
  <2>4. EntryInv'
    BY <1>1, <1>4, <2>2, EntriesKept
  <2> QED
    BY <1>1, <1>3, <1>5, <2>3, <2>4 DEF RInv, TipKept, WorkInv
<1>6. CASE job.kind = "mutable"
  <2>1. lock = NoLock /\ last = LastPoint
    BY <1>1, <1>2, <1>6 DEF IInv, JobInv, MutableJob
  <2>2. LastPoint' = LastPoint /\ ~ ImmutableLock'
    BY <1>3, <1>6, <2>1 DEF Undoing, ImmutableLock
  <2>3. LastPoint \in DOMAIN buffer
    BY <1>1, <1>2, <1>6, <2>1 DEF RInv, TipKept, WorkInv, Retreated
  <2>4. meta[LastPoint] # Empty
    <3>1. Fresh(LastPoint) /\ height[LastPoint] <= Level(LastPoint) /\ LastPoint \in Points
      BY TipFacts, SMTT(60)
    <3> QED
      BY <1>2, <2>3, <3>1 DEF BufferInv, Sync
  <2>5. Floor' /\ SafeInv'
    BY <1>1, <1>3, <2>2, <2>4 DEF RInv, Floor, SafeInv
  <2>6. EntryInv'
    BY <1>1, <1>4, <2>2, EntriesKept
  <2>7. WorkInv'
    BY <1>1, <1>6, <2>2 DEF RInv, WorkInv, HalfLinked
  <2> QED
    BY <1>3, <2>5, <2>6, <2>7 DEF RInv, TipKept
<1>7. CASE Undoing
  <2>1. LastPoint' = job.point /\ ~ ImmutableLock'
    BY <1>3, <1>7 DEF Undoing, ImmutableLock
  <2>2. meta[job.point] # Empty /\ height[job.point] <= height[LastPoint]
    <3>1. CASE job.kind = "back"
      <4>1. height[job.point] <= Level(LastPoint) /\ Level(LastPoint) = height[LastPoint]
        BY <1>1, <1>7, <3>1, TipFacts DEF IInv, JobInv, UndoJob
      <4> QED
        BY <1>1, <3>1, <4>1 DEF RInv, WorkInv
    <3>2. CASE job.kind = "repair"
      <4>1. MutableLock /\ lock.safe = job.point
        BY <1>1, <1>7, <3>2 DEF IInv, JobInv, UndoJob
      <4>2. LastPoint = job.point
        BY <4>1 DEF MutableLock, LastPoint
      <4> QED
        BY <1>2, <4>1, <4>2, TipFacts, SMTT(60) DEF RInv, SafeInv
    <3> QED
      BY <1>7, <3>1, <3>2 DEF Undoing
  <2>3. Floor'
    BY <1>1, <1>2, <2>1, <2>2, TypeFacts DEF RInv, Floor, IInv
  <2>4. SafeInv'
    BY <1>1, <1>3, <2>1, <2>2 DEF SafeInv
  <2>5. EntryInv'
    BY <1>1, <1>2, <1>4, <2>1, <2>2, EntriesKept
  <2> QED
    BY <1>1, <1>3, <1>7, <2>3, <2>4, <2>5 DEF RInv, TipKept, WorkInv, Undoing
<1> QED
  BY <1>2, <1>5, <1>6, <1>7 DEF Undoing

-----------------------------------------------------------------------------
(* The batches. *)

\* Immutable batches leave no entry.
LEMMA CommitImmutableReady == ASSUME IInv, RInv, CommitImmutable PROVE RInv'
<1>1. /\ UNCHANGED <<lock, meta, top>> /\ UNCHANGED <<up, pc, job, buffer>>
      /\ pc = "batch" /\ job.kind = "immutable"
  BY DEF CommitImmutable, memory
<1>2. lock # NoLock
  BY <1>1 DEF IInv, JobInv, ImmutableJob
<1>3. LastPoint' = LastPoint /\ (ImmutableLock' <=> ImmutableLock) /\ (MutableLock' <=> MutableLock)
      /\ \A q : Fresh(q)' <=> Fresh(q)
  BY <1>1, <1>2 DEF LastPoint, ImmutableLock, MutableLock, Fresh
<1>4. Floor' /\ SafeInv'
  BY <1>1, <1>2, <1>3 DEF RInv, Floor, SafeInv
<1>5. EntryInv'
  BY <1>1, <1>3, EntriesKept
<1>6. TipKept' /\ WorkInv'
  BY <1>1, <1>2 DEF RInv, TipKept, WorkInv
<1> QED
  BY <1>4, <1>5, <1>6 DEF RInv

\* The inverses that a batch leaves lead from the block to its parent.
LEMMA CommitMutableReady == ASSUME IInv, RInv, CommitMutable PROVE RInv'
<1> DEFINE p == job.point
<1>1. /\ UNCHANGED <<lock, markers, top>> /\ UNCHANGED <<up, pc, job, buffer>>
      /\ pc = "batch" /\ job.kind = "mutable"
  BY DEF CommitMutable, memory
<1>2. p \in Points /\ MutableJob /\ lock # NoLock /\ MutableLock /\ parent[p] = LastPoint
  BY <1>1 DEF IInv, JobInv, MutableJob, MutableLock
<1>3. LastPoint' = LastPoint /\ (ImmutableLock' <=> ImmutableLock) /\ (MutableLock' <=> MutableLock)
      /\ \A q : Fresh(q)' <=> Fresh(q)
  BY <1>1, <1>2 DEF LastPoint, ImmutableLock, MutableLock, Fresh
<1>4. height[p] > height[LastPoint] /\ LastPoint \in Points /\ \A q \in Points : height[q] \in Nat
  BY <1>2, TipFacts, LevelFacts, TypeFacts DEF IInv
<1>5. PICK b \in BatchIds :
        /\ meta' = [meta EXCEPT ![p] = Overlay(@, Inverses(p, Batch(b)))]
        /\ todo' = {w \in todo : w[2] \notin Batch(b)}
  BY DEF CommitMutable
<1> DEFINE i == Overlay(meta[p], Inverses(p, Batch(b)))
<1>6. /\ \A k \in Batch(b) : k \in Keys /\ <<p, k>> \in todo
      /\ \A k \in Keys \ Batch(b) : i[k] = meta[p][k]
      /\ \A k \in Batch(b) :
           \/ i[k] = [saved |-> TRUE, val |-> ideal[LastPoint][k]]
           \/ i[k] = NoInverse /\ ideal[p][k] = ideal[LastPoint][k]
  BY <1>1, MutableBatch
<1>7. meta'[p] = i /\ \A q \in Points : q # p => meta'[q] = meta[q]
  BY <1>2, <1>5 DEF IInv, TypeOK
<1> HIDE DEF i
<1>8. \A q \in Points : height[q] <= height[LastPoint] => q # p
  BY <1>2, <1>4, SMTT(60)
<1>9. Floor'
  <2>1. height[p] # 0
    BY <1>2, <1>4, SMTT(60)
  <2> QED
    BY <1>3, <1>7, <2>1 DEF RInv, Floor
<1>10. SafeInv'
  <2>1. meta'[LastPoint] = meta[LastPoint]
    BY <1>4, <1>7, <1>8, SMTT(60)
  <2> QED
    BY <1>1, <1>2, <1>3, <2>1 DEF RInv, SafeInv
<1>11. EntryInv'
  BY <1>3, <1>7, <1>8, EntriesKept
<1>12. HalfLinked'
  <2> SUFFICES ASSUME NEW k \in Keys, <<p, k>> \notin todo'
               PROVE  Undo(i[k], ideal[p][k]) = ideal[LastPoint][k]
    BY <1>1, <1>3, <1>7 DEF HalfLinked
  <2>1. CASE k \in Batch(b)
    <3>1. CASE i[k] = [saved |-> TRUE, val |-> ideal[LastPoint][k]]
      BY <3>1, SMTT(60) DEF Undo
    <3>2. CASE i[k] = NoInverse /\ ideal[p][k] = ideal[LastPoint][k]
      BY <3>2, SMTT(60) DEF Undo, NoInverse
    <3> QED
      BY <1>6, <2>1, <3>1, <3>2
  <2>2. CASE k \notin Batch(b)
    <3>1. <<p, k>> \notin todo
      BY <1>5, <2>2
    <3>2. HalfLinked
      BY <1>1 DEF RInv, WorkInv
    <3> QED
      BY <1>6, <2>2, <3>1, <3>2 DEF HalfLinked
  <2> QED
    BY <2>1, <2>2
<1>13. TipKept' /\ WorkInv'
  BY <1>1, <1>2, <1>12 DEF RInv, TipKept, WorkInv
<1> QED
  BY <1>9, <1>10, <1>11, <1>13 DEF RInv

\* A rollback takes entries only above the block to return to.
LEMMA CommitInverseReady == ASSUME HighestExists, IInv, RInv, CommitInverse PROVE RInv'
<1> DEFINE t == job.point
           c == Current
<1>1. /\ UNCHANGED <<lock, markers, top>> /\ UNCHANGED <<up, pc, job, buffer>>
      /\ pc = "batch" /\ Undoing
  BY DEF CommitInverse, memory
<1>2. t \in Points /\ UndoJob /\ lock # NoLock /\ MutableLock /\ lock.safe = t
  BY <1>1 DEF IInv, JobInv, UndoJob, MutableLock, Undoing
<1>3. LastPoint = t /\ LastPoint' = LastPoint /\ (ImmutableLock' <=> ImmutableLock)
      /\ (MutableLock' <=> MutableLock) /\ \A q : Fresh(q)' <=> Fresh(q)
  BY <1>1, <1>2 DEF LastPoint, ImmutableLock, MutableLock, Fresh
<1>4. PICK b \in BatchIds :
        meta' = [meta EXCEPT ![c] = [k \in Keys |-> IF k \in Batch(b) THEN NoInverse ELSE @[k]]]
  BY DEF CommitInverse
<1>5. c \in Points /\ height[c] > height[t] /\ meta[c] # Empty
  BY <1>1, InverseBatch
<1>6. \A q \in Points : q # c => meta'[q] = meta[q]
  BY <1>4, <1>5 DEF IInv, TypeOK
<1>7. \A q \in Points : height[q] <= height[t] => q # c
  BY <1>2, <1>5, TypeFacts, SMTT(60) DEF IInv
<1> HIDE DEF c
<1>8. meta'[t] = meta[t]
  BY <1>2, <1>6, <1>7, TypeFacts, SMTT(60) DEF IInv
<1>9. Floor'
  BY <1>3, <1>5, <1>6 DEF RInv, Floor
<1>10. SafeInv'
  BY <1>1, <1>2, <1>3, <1>8 DEF RInv, SafeInv
<1>11. EntryInv'
  BY <1>3, <1>6, <1>7, EntriesKept
<1>12. TipKept' /\ WorkInv'
  BY <1>1, <1>2, <1>8 DEF RInv, TipKept, WorkInv, Undoing
<1> QED
  BY <1>9, <1>10, <1>11, <1>12 DEF RInv

-----------------------------------------------------------------------------
(* Removing the lock. *)

\* While blocks are immutable there are no entries.
LEMMA UnlockImmutableReady == ASSUME IInv, IInv', RInv, UnlockImmutable PROVE RInv'
<1> DEFINE p == job.point
<1>1. /\ UNCHANGED <<db, meta, top>> /\ UNCHANGED <<up, mutable, buffer>>
      /\ lock' = NoLock /\ pc = "batch" /\ pc' = "idle" /\ job.kind = "immutable" /\ last' = p
  BY DEF UnlockImmutable, RemoveLock
<1>2. p \in Points /\ Alive /\ ImmutableJob /\ parent[p] = LastPoint /\ ~ mutable
  BY <1>1 DEF IInv, JobInv, ImmutableJob
<1>3. BufferInv' /\ FieldInv'
  BY <1>1, <1>2 DEF IInv, MemoryInv, Alive
<1>4. LastPoint' = p /\ DOMAIN buffer' = {} /\ NothingToFetch'
  BY <1>1, <1>2, <1>3 DEF BufferInv, FieldInv, MutableLock, Retreated
<1>5. p # Origin /\ height[p] # 0
  BY <1>2, TipFacts, LevelFacts, TypeFacts, SMTT(60) DEF IInv
<1>6. Floor'
  BY <1>1, <1>4, <1>5 DEF RInv, Floor
<1>7. SafeInv'
  BY <1>1, <1>4 DEF SafeInv, MutableLock, ImmutableLock
<1>8. EntryInv'
  <2>1. \A q \in Points : Fresh(q)' /\ height[q] # 0 => meta'[q] = Empty
    <3>1. TypeOK' /\ TipInv' /\ NothingToFetch'
      BY <1>4 DEF IInv
    <3>2. (\A q \in Points : height[q] # 0 /\ height[q] >= MinHeight => meta[q] = Empty)'
      BY <3>1 DEF NothingToFetch
    <3>3. ASSUME NEW q \in Points, Fresh(q)', height[q] # 0 PROVE height[q] >= MinHeight'
      <4>1. LastPoint' \in Points /\ height[LastPoint'] \in Nat /\ height[q] \in Nat
        BY <1>2, <1>4, TypeFacts DEF IInv
      <4>2. height[LastPoint'] <= top' /\ height[q] + BufferSize > top' /\ top' \in Nat
        BY <3>1, <3>3, <1>4, <1>5 DEF TipInv, Fresh, TypeOK
      <4> QED
        BY <4>1, <4>2, BoundAssumption, SMTT(60) DEF MinHeight
    <3> QED
      BY <3>2, <3>3
  <2> QED
    BY <1>6, <2>1 DEF EntryInv, Floor
<1>9. TipKept' /\ WorkInv'
  BY <1>1, <1>2, <1>4 DEF TipKept, WorkInv, Alive
<1> QED
  BY <1>6, <1>7, <1>8, <1>9 DEF RInv

\* The new tip has its entry, linked to the last one.
LEMMA UnlockMutableReady == ASSUME HeightsCounted, IInv, IInv', RInv, UnlockMutable PROVE RInv'
<1> DEFINE p == job.point
           S == DOMAIN buffer \cup {p}
<1>1. /\ UNCHANGED <<db, meta, top>> /\ UNCHANGED <<up, job, inv, todo>> /\ todo = {}
      /\ lock' = NoLock /\ pc = "batch" /\ pc' = "publish" /\ job.kind = "mutable"
      /\ buffer' = AddBlock(buffer, p, inv)
  BY DEF UnlockMutable, RemoveLock
<1>2. p \in Points /\ Alive /\ MutableJob /\ parent[p] = LastPoint /\ MutableLock
  BY <1>1 DEF IInv, JobInv, MutableJob
<1>3. LastPoint' = p /\ \A q : Fresh(q)' <=> Fresh(q)
  BY <1>1 DEF IInv, JobInv, Published, Fresh
<1>4. /\ LastPoint \in Points /\ LastPoint # Origin /\ height[p] > height[LastPoint]
      /\ height[p] = height[LastPoint] + 1 /\ height[p] # 0
      /\ Level(LastPoint) = height[LastPoint] /\ \A q \in Points : height[q] \in Nat
  <2>1. /\ LastPoint \in Points /\ LastPoint # Origin /\ Level(LastPoint) = height[LastPoint]
        /\ \A q \in Points : height[q] \in Nat
    BY TipFacts, TypeFacts DEF IInv, RInv, Floor
  <2>2. height[p] = height[LastPoint] + 1
    BY <1>2, <2>1, ChainAssumption
  <2> QED
    BY <1>2, <2>1, <2>2, SMTT(60)
<1>5. meta[p] # Empty /\ meta[LastPoint] # Empty
  <2>1. meta[p][CursorKey].saved /\ CursorKey \in Keys
    BY <1>1, <1>2, KeyAssumption DEF MutableJob
  <2>2. meta[p] # Empty
    BY <2>1, SMTT(60) DEF Empty, NoInverse
  <2> QED
    BY <1>2, <2>2 DEF RInv, SafeInv
<1>6. Floor'
  BY <1>1, <1>2, <1>3, <1>4, TypeFacts DEF RInv, Floor, IInv
<1>7. SafeInv'
  BY <1>1, <1>3, <1>5 DEF SafeInv, MutableLock, ImmutableLock
<1>8. EntryInv'
  <2> SUFFICES ASSUME NEW q \in Points, Fresh(q), meta[q] # Empty, height[q] <= height[p]
               PROVE  Linked(q)' \/ First(q)'
    BY <1>1, <1>3 DEF EntryInv
  <2>1. CASE q = p
    <3>1. \A k \in Keys : Undo(meta[p][k], ideal[p][k]) = ideal[parent[p]][k]
      BY <1>1, <1>2 DEF RInv, WorkInv, HalfLinked
    <3> QED
      BY <1>1, <1>2, <1>4, <1>5, <2>1, <3>1 DEF Linked
  <2>2. CASE q # p
    <3>1. height[q] # height[p]
      <4>1. height[q] # 0
        BY DEF RInv, Floor
      <4> QED
        BY <1>2, <1>5, <2>2, <4>1 DEF IInv, MetaInv
    <3>2. height[q] <= height[LastPoint]
      BY <1>2, <1>4, <3>1, SMTT(60)
    <3>3. Linked(q) \/ First(q)
      BY <3>2 DEF RInv, EntryInv
    <3> QED
      BY <1>1, <1>3, <3>3 DEF Linked, First
  <2> QED
    BY <2>1, <2>2
<1>9. p \in DOMAIN buffer'
  <2>1. Above(S, p) = {}
    <3>1. \A q \in DOMAIN buffer : height[q] <= height[LastPoint] /\ q \in Points
      <4>1. DOMAIN buffer \subseteq Points
        BY DEF IInv, TypeOK, IsBuffer
      <4>2. \A q \in DOMAIN buffer : height[q] <= Level(LastPoint)
        BY <1>2 DEF MutableJob
      <4> QED
        BY <1>4, <4>1, <4>2
    <3>2. \A q \in S : ~ (height[q] > height[p])
      BY <1>2, <1>4, <3>1, SMTT(60)
    <3> QED
      BY <3>2 DEF Above
  <2>2. p \in Newest(S)
    <3>1. Cardinality({}) = 0
      BY DEF HeightsCounted
    <3>2. Cardinality(Above(S, p)) < BufferSize
      BY <2>1, <3>1, BoundAssumption, SMTT(60)
    <3> QED
      BY <3>2 DEF Newest
  <2>3. IsBuffer(buffer) /\ inv \in InverseMaps
    BY DEF IInv, TypeOK
  <2>4. DOMAIN AddBlock(buffer, p, inv) = Newest(S)
    BY <1>2, <2>3, AddBlockDomain
  <2> QED
    BY <1>1, <2>2, <2>4
<1>10. TipKept' /\ WorkInv'
  BY <1>1, <1>3, <1>9 DEF RInv, TipKept, WorkInv
<1> QED
  BY <1>6, <1>7, <1>8, <1>10 DEF RInv

\* The block returned to has its entry, in TiKV and in the worker's buffer.
LEMMA UnlockBackReady ==
  ASSUME IInv, IInv', RInv, UnlockBack \/ UnlockRepair
  PROVE  RInv'
<1> DEFINE t == job.point
<1>1. /\ UNCHANGED <<db, meta, markers, top>> /\ up' = up /\ todo = {} /\ lock' = NoLock
      /\ pc = "batch" /\ Undoing
  BY DEF UnlockBack, UnlockRepair, RemoveLock, Undoing
<1>2. t \in Points /\ LastPoint = t /\ LastPoint' = t /\ \A q : Fresh(q)' <=> Fresh(q)
  BY <1>1, Undone
<1>3. meta[t] # Empty /\ t \in DOMAIN hand
  <2>1. UndoJob /\ MutableLock
    BY <1>1 DEF IInv, JobInv, UndoJob, Undoing
  <2> QED
    BY <1>2, <2>1 DEF RInv, SafeInv, UndoJob
<1>4. Floor'
  BY <1>1, <1>2 DEF RInv, Floor
<1>5. SafeInv'
  BY <1>1, <1>2, <1>3 DEF SafeInv, MutableLock, ImmutableLock
<1>6. EntryInv'
  BY <1>1, <1>2, EntriesKept
<1>7. CASE UnlockBack
  <2>1. UNCHANGED <<job, buffer>> /\ pc' = "publish" /\ job.kind = "back"
    BY <1>7 DEF UnlockBack, memory
  <2>2. TipKept' /\ WorkInv'
    BY <1>1, <2>1 DEF RInv, TipKept, WorkInv, Retreated
  <2> QED
    BY <1>4, <1>5, <1>6, <2>2 DEF RInv
<1>8. CASE UnlockRepair
  <2>1. pc' = "idle" /\ buffer' = Trim(hand, t)
    BY <1>8 DEF UnlockRepair
  <2>2. t \in DOMAIN Trim(hand, t)
    <3>1. ~ (height[t] > height[t])
      BY <1>2, TypeFacts, SMTT(60) DEF IInv
    <3> QED
      BY <1>2, <1>3, <3>1, TrimFacts DEF IInv, TypeOK
  <2>3. TipKept' /\ WorkInv'
    BY <1>1, <1>2, <2>1, <2>2 DEF RInv, TipKept, WorkInv
  <2> QED
    BY <1>4, <1>5, <1>6, <2>3 DEF RInv
<1> QED
  BY <1>7, <1>8

-----------------------------------------------------------------------------
(* Publishing, garbage collection, failures. *)

\* Publishing a block leaves the entries alone.
LEMMA PublishMutableReady == ASSUME IInv, RInv, PublishMutable PROVE RInv'
<1>1. /\ UNCHANGED <<db, lock, markers, meta, top>> /\ UNCHANGED <<up, buffer>>
      /\ pc = "publish" /\ job.kind = "mutable" /\ pc' = "idle"
  BY DEF PublishMutable, tikv, memory
<1>2. Alive /\ ~ Retreated
  BY <1>1 DEF IInv, JobInv, Retreated
<1>3. TipKept' /\ WorkInv'
  BY <1>1, <1>2, StoreStutter DEF RInv, TipKept, WorkInv, Alive
<1> QED
  BY <1>1, <1>3, StoreKept DEF RInv

\* The block that a rollback returned to keeps its entry when the buffer is trimmed.
LEMMA PublishBackReady == ASSUME IInv, RInv, PublishBack PROVE RInv'
<1> DEFINE t == job.point
<1>1. /\ UNCHANGED <<db, lock, markers, meta, top>> /\ up' = up
      /\ pc = "publish" /\ job.kind = "back" /\ pc' = "idle" /\ buffer' = Trim(buffer, t)
  BY DEF PublishBack, tikv
<1>2. t \in Points /\ LastPoint = t /\ t \in DOMAIN buffer
  BY <1>1 DEF IInv, JobInv, Published, RInv, WorkInv
<1>3. t \in DOMAIN Trim(buffer, t)
  <2>1. ~ (height[t] > height[t])
    BY <1>2, TypeFacts, SMTT(60) DEF IInv
  <2> QED
    BY <1>2, <2>1, TrimFacts DEF IInv, TypeOK
<1>4. TipKept' /\ WorkInv'
  BY <1>1, <1>2, <1>3, StoreStutter DEF RInv, TipKept, WorkInv
<1> QED
  BY <1>1, <1>4, StoreKept DEF RInv

\* Only entries out of reach are collected.
LEMMA GcRunReady == ASSUME IInv, RInv, GcRun PROVE RInv'
<1>1. /\ UNCHANGED <<db, lock, markers, top>> /\ UNCHANGED <<up, pc, job, todo, buffer>>
  BY DEF GcRun, run, memory
<1>2. PICK t \in gc :
        meta' = [meta EXCEPT ![t.point] = [k \in Keys |-> IF k \in t.keys THEN NoInverse ELSE @[k]]]
  BY DEF GcRun
<1>3. t.point \in Points /\ ~ Fresh(t.point)
  BY DEF IInv, GcInv, TypeOK
<1>4. /\ \A q \in Points : q # t.point => meta'[q] = meta[q]
      /\ meta[t.point] = Empty => meta'[t.point] = Empty
  <2>1. meta'[t.point] = [k \in Keys |-> IF k \in t.keys THEN NoInverse ELSE meta[t.point][k]]
    BY <1>2, <1>3 DEF IInv, TypeOK
  <2> QED
    BY <1>2, <1>3, <2>1 DEF IInv, TypeOK, Empty
<1>5. \A q \in Points : meta'[q] # Empty => meta[q] # Empty
  BY <1>4
<1>6. LastPoint' = LastPoint /\ MinHeight' = MinHeight /\ (ImmutableLock' <=> ImmutableLock)
      /\ (MutableLock' <=> MutableLock) /\ \A q : Fresh(q)' <=> Fresh(q)
  BY <1>1 DEF LastPoint, MinHeight, ImmutableLock, MutableLock, Fresh
<1>7. \A q \in Points : Fresh(q) => meta'[q] = meta[q]
  BY <1>3, <1>4
<1>8. Floor'
  BY <1>5, <1>6 DEF RInv, Floor
<1>9. SafeInv'
  <2>1. meta'[LastPoint] = meta[LastPoint]
    BY <1>7, TipFacts
  <2>2. NothingToFetch => NothingToFetch'
    BY <1>5, <1>6 DEF NothingToFetch
  <2> QED
    BY <1>1, <1>6, <2>1, <2>2 DEF RInv, SafeInv
<1>10. EntryInv'
  BY <1>6, <1>7, EntriesKept
<1>11. ASSUME pc # "idle" PROVE meta'[job.point] = meta[job.point]
  <2>1. job.point \in Points /\ Alive
    BY <1>11 DEF IInv, JobInv
  <2>2. CASE job.kind \in {"back", "repair"} /\ pc \in {"lock", "batch"}
    BY <1>7, <2>1, <2>2 DEF IInv, JobInv, UndoJob, Undoing
  <2>3. CASE job.kind = "mutable" /\ pc \in {"seed", "lock", "batch"}
    <3>1. Fresh(job.point)
      BY <2>1, <2>3, ChildFresh DEF IInv, JobInv, MutableJob
    <3> QED
      BY <1>7, <2>1, <3>1
  <2>4. CASE pc = "publish"
    BY <1>7, <2>4, TipFacts DEF IInv, JobInv, Published
  <2>5. CASE job.kind = "immutable" /\ pc \in {"lock", "batch"}
    <3>1. Fresh(job.point)
      BY <2>1, <2>5, ChildFresh DEF IInv, JobInv, ImmutableJob
    <3> QED
      BY <1>7, <2>1, <3>1
  <2> QED
    BY <1>11, <2>2, <2>3, <2>4, <2>5 DEF IInv, JobInv, TypeOK
<1>12. HalfLinked /\ pc # "idle" => HalfLinked'
  BY <1>1, <1>6, <1>11 DEF HalfLinked
<1>13. TipKept' /\ WorkInv'
  BY <1>1, <1>6, <1>11, <1>12 DEF RInv, TipKept, WorkInv, Alive, Retreated
<1> QED
  BY <1>8, <1>9, <1>10, <1>13 DEF RInv

\* A collection that is given up leaves the entries alone.
LEMMA GcGiveUpReady == ASSUME IInv, RInv, GcGiveUp PROVE RInv'
<1>1. UNCHANGED <<db, lock, markers, meta, top>> /\ UNCHANGED <<up, pc, job, todo, buffer>>
  BY DEF GcGiveUp, tikv, run, memory
<1>2. TipKept' /\ WorkInv'
  BY <1>1, StoreStutter DEF RInv, TipKept, WorkInv, HalfLinked, Alive, Retreated
<1> QED
  BY <1>1, <1>2, StoreKept DEF RInv

\* A rollback is published before the stage may fail, so a failure finds the
\* buffer at the tip.
LEMMA FailReady == ASSUME Calm, IInv, RInv, Fail \/ FailPublished PROVE RInv'
<1>1. /\ UNCHANGED <<db, lock, markers, meta, top>> /\ UNCHANGED buffer
      /\ pc # "idle" /\ RedisAnswers /\ pc' = "idle" /\ up' = "boot"
  BY DEF Fail, FailPublished, tikv, memory, LoseLocals
<1>2. Alive /\ ~ Retreated
  BY <1>1 DEF IInv, JobInv, Retreated, RedisAnswers, Calm
<1>3. TipKept' /\ WorkInv'
  BY <1>1, <1>2, StoreStutter DEF RInv, TipKept, WorkInv
<1> QED
  BY <1>1, <1>3, StoreKept DEF RInv

\* A crash leaves what is in TiKV.
LEMMA CrashReady == ASSUME IInv, RInv, Crash PROVE RInv'
<1>1. /\ UNCHANGED <<db, lock, markers, meta, top>> /\ up' = "down" /\ pc' = "idle"
  BY DEF Crash, tikv, LoseLocals
<1>2. TipKept' /\ WorkInv'
  BY <1>1 DEF TipKept, WorkInv, Alive
<1> QED
  BY <1>1, <1>2, StoreKept DEF RInv

-----------------------------------------------------------------------------
(* What it gives. *)

\* Between work units every block within reach can be undone.
LEMMA ReadyToRollBack == ASSUME IInv, RInv PROVE RollbackReady
<1> SUFFICES ASSUME Idle, DOMAIN buffer # {}
             PROVE  /\ last \in DOMAIN buffer
                    /\ \A q \in DOMAIN buffer : Fresh(q) =>
                         /\ meta[q] = buffer[q]
                         /\ ~ buffer[q][DummyKey].saved =>
                              /\ height[q] + BufferSize > top + 1 => parent[q] \in DOMAIN buffer
                              /\ \A k \in Keys : Undo(buffer[q][k], ideal[q][k]) = ideal[parent[q]][k]
  BY DEF RollbackReady, Fresh
<1>1. Alive /\ BufferInv /\ FieldInv /\ pc = "idle" /\ up = "run" /\ ~ Retreated
  BY DEF Idle, IInv, MemoryInv, Alive, Retreated
<1>2. lock = NoLock /\ last = LastPoint
  BY <1>1 DEF FieldInv, BufferInv, MutableLock
<1>3. last \in DOMAIN buffer
  BY <1>1, <1>2 DEF RInv, TipKept
<1>4. \A q \in DOMAIN buffer : q \in Points /\ height[q] <= height[LastPoint]
  <2>1. DOMAIN buffer \subseteq Points
    BY DEF IInv, TypeOK, IsBuffer
  <2>2. Level(LastPoint) = height[LastPoint]
    BY TipFacts
  <2> QED
    BY <1>1, <1>2, <2>1, <2>2 DEF BufferInv
<1>5. Level(LastPoint) = height[LastPoint] /\ LastPoint \in Points /\ \A q \in Points : height[q] \in Nat
  BY TipFacts, TypeFacts DEF IInv
<1>6. ASSUME NEW q \in DOMAIN buffer, Fresh(q) PROVE meta[q] = buffer[q] /\ buffer[q] # Empty
  BY <1>1, <1>4, <1>5, <1>6 DEF BufferInv, Sync
<1>7. ASSUME NEW q \in DOMAIN buffer, Fresh(q), ~ buffer[q][DummyKey].saved PROVE Linked(q)
  BY <1>4, <1>6, <1>7 DEF RInv, EntryInv, First
<1>8. ASSUME NEW q \in DOMAIN buffer, Fresh(q), Linked(q), height[q] + BufferSize > top + 1
      PROVE  parent[q] \in DOMAIN buffer
  <2>1. parent[q] \in Points /\ height[q] = height[parent[q]] + 1
    BY <1>4, <1>8, ChainAssumption DEF Linked, Blocks
  <2>2. Fresh(parent[q]) /\ height[parent[q]] <= height[LastPoint]
    BY <1>4, <1>5, <1>8, <2>1, TypeFacts, SMTT(60) DEF Fresh, IInv
  <2>3. meta[parent[q]] # Empty /\ height[parent[q]] # 0
    BY <1>8, <2>1, <2>2 DEF Linked, RInv, Floor
  <2> QED
    BY <1>1, <1>5, <2>1, <2>2, <2>3 DEF BufferInv, Sync
<1>9. ASSUME NEW q \in DOMAIN buffer, Fresh(q), ~ buffer[q][DummyKey].saved
      PROVE  /\ height[q] + BufferSize > top + 1 => parent[q] \in DOMAIN buffer
             /\ \A k \in Keys : Undo(buffer[q][k], ideal[q][k]) = ideal[parent[q]][k]
  <2>1. Linked(q)
    BY <1>7, <1>9
  <2>2. \A k \in Keys : Undo(buffer[q][k], ideal[q][k]) = ideal[parent[q]][k]
    BY <1>6, <1>9, <2>1 DEF Linked
  <2> QED
    BY <1>8, <1>9, <2>1, <2>2
<1> QED
  BY <1>3, <1>6, <1>9

\* The blocks within reach that have entries are ancestors of the tip.
LEMMA EntryIsAncestor ==
  ASSUME IInv, RInv, NEW t \in Points, Fresh(t), meta[t] # Empty, meta[LastPoint] # Empty,
         height[t] <= height[LastPoint], t # LastPoint
  PROVE  Abstract!Ancestor(t, LastPoint)
<1> DEFINE S == {q \in Points : /\ Fresh(q) /\ meta[q] # Empty
                                /\ height[t] <= height[q] /\ height[q] <= height[LastPoint]}
<1>1. LastPoint \in Points /\ Fresh(LastPoint) /\ \A q \in Points : height[q] \in Nat
  BY TipFacts, TypeFacts DEF IInv
<1>2. S \in SUBSET Points /\ {t, LastPoint} \subseteq S
  BY <1>1, SMTT(60)
<1>3. ASSUME NEW r \in S \ {t} PROVE parent[r] \in S /\ height[r] > height[t]
  <2>1. /\ r \in Points /\ r # t /\ Fresh(r) /\ meta[r] # Empty
        /\ height[t] <= height[r] /\ height[r] <= height[LastPoint]
    BY <1>3
  <2>2. height[r] # height[t]
    <3>1. height[r] # 0
      BY <2>1 DEF RInv, Floor
    <3> QED
      BY <2>1, <3>1 DEF IInv, MetaInv
  <2>3. height[r] > height[t]
    BY <1>1, <2>1, <2>2, SMTT(60)
  <2>4. Linked(r)
    <3>1. height[t] < height[r]
      BY <1>1, <2>1, <2>3
    <3> QED
      BY <2>1, <3>1 DEF RInv, EntryInv, First
  <2>5. parent[r] \in Points /\ height[r] = height[parent[r]] + 1
    BY <2>1, <2>4, ChainAssumption DEF Linked, Blocks
  <2>6. height[t] <= height[parent[r]] /\ height[parent[r]] <= height[LastPoint] /\ Fresh(parent[r])
    BY <1>1, <2>1, <2>3, <2>5, TypeFacts, SMTT(60) DEF Fresh, IInv
  <2>7. meta[parent[r]] # Empty
    BY <2>4, <2>6 DEF Linked
  <2> QED
    BY <2>3, <2>5, <2>6, <2>7
<1> HIDE DEF S
<1> QED
  BY <1>2, <1>3 DEF Abstract!Ancestor

-----------------------------------------------------------------------------
(* Every step is a step of the atomic index, or none. *)

Unseen == LastPoint' = LastPoint /\ redis' = redis

\* A step that moves neither the tip nor what is published stutters.
LEMMA UnseenStep == ASSUME Unseen PROVE UNCHANGED Abstract!ivars
BY DEF Unseen, Abstract!ivars

\* Starting, receiving, beginning, undoing, collecting, failing: readers see nothing.
LEMMA QuietSteps ==
  ASSUME Start \/ BootRepair \/ DeliverIntersect \/ DeliverForward \/ DeliverBack
         \/ BeginImmutable \/ BeginMutable \/ BeginBack \/ Seed
         \/ GcRun \/ GcGiveUp \/ Fail \/ Crash
  PROVE  Unseen
<1>1. db' = db /\ lock' = lock /\ redis' = redis
  BY DEF Start, BootRepair, DeliverIntersect, DeliverForward, DeliverBack, BeginImmutable,
         BeginMutable, BeginBack, Seed, GcRun, GcGiveUp, Fail, Crash, tikv
<1> QED
  BY <1>1 DEF Unseen, LastPoint

\* Batches are written under a lock.
LEMMA BatchSteps ==
  ASSUME IInv, CommitImmutable \/ CommitMutable \/ CommitInverse
  PROVE  Unseen
<1>1. lock' = lock /\ redis' = redis /\ pc = "batch"
      /\ (job.kind = "immutable" \/ job.kind = "mutable" \/ Undoing)
  BY DEF CommitImmutable, CommitMutable, CommitInverse
<1>2. lock # NoLock
  BY <1>1 DEF IInv, JobInv, ImmutableJob, MutableJob, UndoJob, Undoing, MutableLock
<1> QED
  BY <1>1, <1>2 DEF Unseen, LastPoint

\* The lock of a rollback moves the tip back to an ancestor, any other lock keeps it.
LEMMA LockStep ==
  ASSUME IInv, IInv', RInv, RInv', WriteLock
  PROVE  Abstract!Retreat \/ Unseen
<1>1. /\ UNCHANGED <<db, markers, meta, top>> /\ UNCHANGED <<redis, job, last, up>>
      /\ pc = "lock" /\ pc' = "batch" /\ lock'.safe = IF Undoing THEN job.point ELSE last
  BY DEF WriteLock, memory
<1>2. /\ Alive /\ job.point \in Points /\ job.kind \in {"immutable", "mutable", "back", "repair"}
      /\ FieldInv
  BY <1>1 DEF IInv, JobInv, MemoryInv
<1>3. LastPoint' = lock'.safe
  <2>1. lock' # NoLock
    BY <1>1, <1>2 DEF IInv, JobInv, ImmutableJob, MutableJob, UndoJob, Undoing, MutableLock
  <2> QED
    BY <2>1 DEF LastPoint
<1>4. CASE job.kind \in {"immutable", "mutable"}
  <2>1. last = LastPoint
    BY <1>1, <1>2, <1>4 DEF IInv, JobInv, ImmutableJob, MutableJob, FieldInv, Retreated
  <2> QED
    BY <1>1, <1>3, <1>4, <2>1 DEF Unseen, Undoing
<1>5. CASE job.kind = "repair"
  <2>1. MutableLock /\ lock.safe = job.point
    BY <1>1, <1>5 DEF IInv, JobInv, UndoJob, Undoing
  <2> QED
    BY <1>1, <1>3, <1>5, <2>1 DEF Unseen, Undoing, MutableLock, LastPoint
<1>6. CASE job.kind = "back"
  <2>1. LastPoint' = job.point
    BY <1>1, <1>3, <1>6 DEF Undoing
  <2>2. UndoJob /\ Fresh(job.point) /\ lock = NoLock /\ height[job.point] <= height[LastPoint]
    <3>1. UndoJob
      BY <1>1, <1>6 DEF IInv, JobInv, Undoing
    <3>2. Level(LastPoint) = height[LastPoint]
      BY TipFacts
    <3> QED
      BY <1>1, <1>6, <3>1, <3>2 DEF UndoJob
  <2>3. meta[job.point] # Empty
    BY <1>1, <1>6 DEF RInv, WorkInv
  <2>4. meta[LastPoint] # Empty
    <3>1. NothingToFetch => meta[job.point] = Empty
      BY <1>2, <2>2, <2>3, FreshFetched DEF IInv, RInv, Floor
    <3> QED
      BY <2>2, <2>3, <3>1 DEF RInv, SafeInv
  <2>5. job.point # LastPoint => Abstract!Ancestor(job.point, LastPoint)
    BY <1>2, <2>2, <2>3, <2>4, EntryIsAncestor
  <2> QED
    BY <1>1, <1>2, <2>1, <2>5 DEF Unseen, Abstract!Retreat
<1> QED
  BY <1>2, <1>4, <1>5, <1>6

\* The transaction that removes the lock of a block moves the tip to it.
LEMMA UnlockStep ==
  ASSUME IInv, IInv', UnlockImmutable \/ UnlockMutable
  PROVE  Abstract!Advance
<1>1. redis' = redis /\ up' = up /\ pc = "batch" /\ lock' = NoLock
      /\ (job.kind = "immutable" \/ job.kind = "mutable")
  BY DEF UnlockImmutable, UnlockMutable, RemoveLock
<1>2. job.point \in Points /\ Alive /\ parent[job.point] = LastPoint
  BY <1>1 DEF IInv, JobInv, ImmutableJob, MutableJob
<1>3. LastPoint' = job.point
  <2>1. CASE UnlockImmutable
    <3>1. last' = job.point /\ pc' = "idle" /\ FieldInv'
      BY <1>1, <1>2, <2>1 DEF UnlockImmutable, IInv, MemoryInv, Alive
    <3> QED
      BY <1>1, <3>1 DEF FieldInv, MutableLock, Retreated
  <2>2. CASE UnlockMutable
    <3>1. job' = job /\ pc' = "publish"
      BY <2>2 DEF UnlockMutable
    <3> QED
      BY <3>1 DEF IInv, JobInv, Published
  <2> QED
    BY <2>1, <2>2
<1> QED
  BY <1>1, <1>2, <1>3 DEF Abstract!Advance

\* The tip is already at the block that a rollback or a repair returned to.
LEMMA UndoneStep ==
  ASSUME IInv, UnlockBack \/ UnlockRepair
  PROVE  Unseen
<1>1. /\ UNCHANGED <<db, meta, top>> /\ redis' = redis /\ todo = {} /\ lock' = NoLock /\ markers' = markers
      /\ pc = "batch" /\ Undoing
  BY DEF UnlockBack, UnlockRepair, RemoveLock, Undoing
<1> QED
  BY <1>1, Undone DEF Unseen

\* What is published is the state of the tip.
LEMMA PublishSteps ==
  ASSUME Calm, IInv, RInv,
         PublishMutable \/ PublishBack \/ FailPublished \/ BootFinish
  PROVE  Abstract!Publish \/ Unseen
<1>1. db' = db /\ lock' = lock /\ LastPoint' = LastPoint
  BY DEF PublishMutable, PublishBack, FailPublished, BootFinish, tikv, LastPoint
<1>2. lock = NoLock => db = ideal[LastPoint]
  BY DEF IInv, LockInv
<1>3. CASE PublishMutable \/ PublishBack \/ FailPublished
  <2>1. redis' = redis \cup {[point |-> job.point, snap |-> db]} /\ pc = "publish"
    BY <1>3 DEF PublishMutable, PublishBack, FailPublished, Entry
  <2>2. lock = NoLock /\ LastPoint = job.point
    BY <2>1 DEF IInv, JobInv, Published
  <2> QED
    BY <1>1, <1>2, <2>1, <2>2 DEF Abstract!Publish
<1>4. CASE BootFinish
  <2>1. CASE redis' = redis
    BY <1>1, <2>1 DEF Unseen
  <2>2. CASE redis' # redis
    <3>1. Partial = None /\ redis' = redis \cup {[point |-> db[CursorKey], snap |-> db]}
          /\ db[CursorKey] # Absent
      BY <1>4, <2>2 DEF BootFinish
    <3>2. lock = NoLock
      <4>1. lock # NoLock => lock \in Locks /\ markers \in SUBSET Nat
        BY DEF IInv, TypeOK
      <4> QED
        BY <3>1, <4>1, PartialNotNone DEF Partial
    <3>3. LastPoint = db[CursorKey]
      BY <3>1, <3>2 DEF LastPoint
    <3> QED
      BY <1>1, <1>2, <3>1, <3>2, <3>3 DEF Abstract!Publish
  <2> QED
    BY <2>1, <2>2
<1> QED
  BY <1>3, <1>4

-----------------------------------------------------------------------------
(* The steps together, and the theorems. *)

\* The chunks of reducer_output_to_storage_ops are numbered by natural numbers.
LEMMA ChunksTheorem == ChunksCounted
<1> SUFFICES ASSUME NEW S \in SUBSET Keys, NEW k \in Keys
             PROVE  Cardinality(S) \in Nat /\ Chunk(S, k) \in Nat
  BY DEF ChunksCounted
<1>1. IsFiniteSet(S) /\ IsFiniteSet({j \in S : j < k})
  BY KeyAssumption, FS_Subset
<1>2. Cardinality(S) \in Nat /\ Cardinality({j \in S : j < k}) \in Nat
  BY <1>1, FS_CardinalityType
<1> QED
  BY SMTT(60), <1>2, BoundAssumption DEF Chunk

\* At most t - h blocks of pairwise different heights lie above h and not above t.
LEMMA CountHeights ==
  ASSUME NEW S \in SUBSET Points, NEW h \in Nat, NEW t \in Nat, h <= t,
         \A q \in S : h < height[q] /\ height[q] <= t,
         \A q, r \in S : height[q] = height[r] => q = r
  PROVE  Cardinality(S) <= t - h /\ Cardinality(S) \in Nat
<1> DEFINE f == [q \in S |-> height[q]]
<1>1. f \in [S -> (h + 1)..t]
  BY SMTT(60), ChainAssumption
<1>2. f \in Injection(S, (h + 1)..t)
  BY <1>1 DEF Injection, IsInjective
<1>3. IsFiniteSet((h + 1)..t) /\ Cardinality((h + 1)..t) = t - h
  <2>1. h + 1 \in Int /\ t \in Int
    BY SMTT(60)
  <2>2. /\ IsFiniteSet((h + 1)..t)
        /\ Cardinality((h + 1)..t) = IF h + 1 > t THEN 0 ELSE t - (h + 1) + 1
    BY <2>1, FS_Interval
  <2> QED
    BY SMTT(60), <2>2
<1>4. IsFiniteSet(S) /\ Cardinality(S) <= t - h
  <2> HIDE DEF f
  <2> QED BY SMTT(60), <1>2, <1>3, FS_Injection
<1> QED
  BY <1>4, FS_CardinalityType

\* A set of blocks with bounded heights has a highest one.
LEMMA HighestTheorem == HighestExists
<1> SUFFICES ASSUME NEW S \in SUBSET Points, NEW n \in Nat, S # {}, \A q \in S : height[q] <= n
             PROVE  \E q \in S : Above(S, q) = {}
  BY DEF HighestExists
<1> DEFINE T == {n - height[q] : q \in S}
<1>1. T \subseteq Nat /\ T # {}
  BY SMTT(60), ChainAssumption
<1>2. IsWellFoundedOn({z \in Nat \X Nat : z[1] < z[2]}, Nat)
  BY NatLessThanWellFounded DEF OpToRel
<1>3. PICK x \in T : \A y \in T : ~ (y < x)
  <2> DEFINE R == {z \in Nat \X Nat : z[1] < z[2]}
  <2>1. PICK x \in T : \A y \in T : ~ (<<y, x>> \in R)
    <3> HIDE DEF T, R
    <3>1. IsWellFoundedOn(R, Nat)
      BY <1>2 DEF R
    <3> QED
      BY <1>1, <3>1, WFMin
  <2>2. \A y \in T : <<y, x>> \in Nat \X Nat
    BY <1>1
  <2> QED
    BY <2>1, <2>2
<1>4. PICK q \in S : x = n - height[q]
  OBVIOUS
<1>5. ASSUME NEW r \in S PROVE ~ (height[r] > height[q])
  <2>1. ~ (n - height[r] < n - height[q])
    BY <1>3, <1>4
  <2> QED
    BY SMTT(60), <2>1, ChainAssumption
<1> QED
  BY <1>5 DEF Above

\* HeightsCounted, from CountHeights.
LEMMA HeightsTheorem == HeightsCounted
<1>1. Cardinality({}) = 0
  BY FS_EmptySet
<1> QED
  BY <1>1, CountHeights DEF HeightsCounted

\* Every step keeps the inductive invariant.
LEMMA StepInv ==
  ASSUME Calm, IInv, [Next]_vars
  PROVE  IInv'
<1>1. CASE Worker
  BY <1>1, ChunksTheorem, HeightsTheorem, HighestTheorem, StartInv, BootRepairInv, BootFinishInv,
     BeginImmutableInv, BeginMutableInv, BeginBackInv, SeedInv, WriteLockInv,
     CommitImmutableInv, CommitMutableInv, CommitInverseInv,
     UnlockImmutableInv, UnlockMutableInv, UnlockBackInv, UnlockRepairInv,
     PublishMutableInv, PublishBackInv
     DEF Worker
<1>2. CASE Source
  BY <1>2, DeliverIntersectInv, DeliverForwardInv, DeliverBackInv DEF Source
<1>3. CASE Environment
  BY <1>3, GcRunInv, GcGiveUpInv, FailInv, CrashInv DEF Environment
<1>4. CASE UNCHANGED vars
  <2> USE DEF IInv
  <2>1. /\ UNCHANGED <<db, lock, markers, meta, top>>
        /\ UNCHANGED <<up, pc, job, todo, hand, inv, last, buffer, mutable, partial, unit, offer>>
        /\ UNCHANGED <<redis, gc, faults>>
    BY <1>4 DEF vars, tikv, run, memory
  <2>2. TypeOK'
    BY SMTT(60), <2>1 DEF TypeOK
  <2>3. TipInv' /\ LockInv' /\ MetaInv' /\ TargetInv' /\ MemoryInv' /\ JobInv'
    BY <2>1, StoreStutter, WorkerStutter
  <2>4. GcInv' /\ PublishedConsistent'
    BY <2>1 DEF GcInv, PublishedConsistent, Fresh
  <2> QED
    BY <2>2, <2>3, <2>4
<1> QED
  BY <1>1, <1>2, <1>3, <1>4 DEF Next

\* The inductive invariant holds in every state of every behaviour.
LEMMA Inductive ==
  ASSUME Calm
  PROVE  Spec => []IInv
<1>1. Init => IInv
  BY InitInv
<1>2. IInv /\ [Next]_vars => IInv'
  BY StepInv
<1> QED
  BY <1>1, <1>2, PTL DEF Spec

\* The state of TiKV, Redis and the worker keeps its types, whatever the blocks,
\* the batch size and the number of failures.
THEOREM TypeCorrect ==
  ASSUME Calm
  PROVE  Spec => []TypeOK
<1>1. IInv => TypeOK
  BY DEF IInv
<1> QED
  BY <1>1, Inductive, PTL

\* Whenever no lock key is present TiKV is at a block boundary: the batches of a
\* block, its undoing and its repair (apply_actions_split_commit_*, bootstrap)
\* leave all of a block or nothing, however many crashes cut them short.
THEOREM BlocksAtomic ==
  ASSUME Calm
  PROVE  Spec => []AtomicBlocks
<1>1. IInv => AtomicBlocks
  BY DEF IInv, LockInv, AtomicBlocks
<1> QED
  BY <1>1, Inductive, PTL

\* Every timestamp entry that insert_timestamp_entry stores leads readers to the
\* chain up to its block.
THEOREM EntriesConsistent ==
  ASSUME Calm
  PROVE  Spec => []PublishedConsistent
<1>1. IInv => PublishedConsistent
  BY DEF IInv
<1> QED
  BY <1>1, Inductive, PTL

\* Between work units Worker::last_processed is the block of the cursor in TiKV.
THEOREM CursorInStep ==
  ASSUME Calm
  PROVE  Spec => []CursorCached
<1>1. IInv => CursorCached
  <2> SUFFICES ASSUME IInv, Idle PROVE last = LastPoint
    BY DEF CursorCached
  <2>1. FieldInv /\ pc = "idle" /\ up = "run"
    BY DEF IInv, MemoryInv, Alive, Idle
  <2>2. ~ MutableLock /\ ~ Retreated
    BY <2>1 DEF FieldInv, MutableLock, ImmutableLock, Retreated
  <2> QED
    BY <2>1, <2>2 DEF FieldInv
<1> QED
  BY <1>1, Inductive, PTL

-----------------------------------------------------------------------------
(* An instance that has indexed a block. *)

\* Every step keeps what is said of the rollback buffer.
LEMMA StepReady ==
  ASSUME Calm, IInv, IInv', RInv, [Next]_vars
  PROVE  RInv'
<1>1. CASE Worker
  BY <1>1, HeightsTheorem, HighestTheorem, StartReady, BootRepairReady, BootFinishReady,
     BeginImmutableReady, BeginMutableReady, BeginBackReady, SeedReady, WriteLockReady,
     CommitImmutableReady, CommitMutableReady, CommitInverseReady,
     UnlockImmutableReady, UnlockMutableReady, UnlockBackReady,
     PublishMutableReady, PublishBackReady
     DEF Worker
<1>2. CASE Source
  BY <1>2, DeliverReady DEF Source
<1>3. CASE Environment
  BY <1>3, GcRunReady, GcGiveUpReady, FailReady, CrashReady DEF Environment
<1>4. CASE UNCHANGED vars
  <2>1. UNCHANGED <<db, lock, markers, meta, top>> /\ UNCHANGED <<up, pc, job, todo, buffer>>
    BY <1>4 DEF vars, tikv, run, memory
  <2>2. TipKept' /\ WorkInv'
    BY <2>1, StoreStutter DEF RInv, TipKept, WorkInv, HalfLinked, Alive, Retreated
  <2> QED
    BY <2>1, <2>2, StoreKept DEF RInv
<1> QED
  BY <1>1, <1>2, <1>3, <1>4 DEF Next

\* Both invariants hold in every state of every behaviour.
LEMMA InductiveReady ==
  ASSUME Calm, Started
  PROVE  Spec => [](IInv /\ RInv)
<1>1. Init => RInv
  BY InitReady
<1>2. IInv /\ IInv' /\ RInv /\ [Next]_vars => RInv'
  BY StepReady
<1> QED
  BY <1>1, <1>2, Inductive, PTL DEF Spec

\* No restart runs into a panic of recovery: the lock has a safe point, the
\* buffer has the entries to undo what is half applied, the numbers of actions
\* and the heights agree (bootstrap, apply_actions_split_commit_*, execute).
THEOREM RecoveryNeverStuck ==
  ASSUME Calm, Started
  PROVE  Spec => []NeverStuck
<1>1. RInv => NeverStuck
  BY DEF RInv, WorkInv, NeverStuck
<1> QED
  BY <1>1, InductiveReady, PTL

\* Between work units the rollback buffer in memory and the one in TiKV agree,
\* start at the tip and lead block by block to the oldest entry within reach.
THEOREM AlwaysReadyToRollBack ==
  ASSUME Calm, Started
  PROVE  Spec => []RollbackReady
<1>1. IInv /\ RInv => RollbackReady
  BY ReadyToRollBack
<1> QED
  BY <1>1, InductiveReady, PTL

\* A step of the storage stage is a step of the atomic index, or none.
LEMMA StepRefines ==
  ASSUME Calm, IInv, IInv', RInv, RInv', [Next]_vars
  PROVE  [Abstract!Next]_(Abstract!ivars)
<1>1. CASE Start \/ BootRepair \/ Source \/ BeginImmutable \/ BeginMutable \/ BeginBack \/ Seed
           \/ GcRun \/ GcGiveUp \/ Fail \/ Crash
  BY <1>1, QuietSteps, UnseenStep DEF Source
<1>2. CASE CommitImmutable \/ CommitMutable \/ CommitInverse
  BY <1>2, BatchSteps, UnseenStep
<1>3. CASE WriteLock
  BY <1>3, LockStep, UnseenStep DEF Abstract!Next
<1>4. CASE UnlockImmutable \/ UnlockMutable
  BY <1>4, UnlockStep DEF Abstract!Next
<1>5. CASE UnlockBack \/ UnlockRepair
  BY <1>5, UndoneStep, UnseenStep
<1>6. CASE PublishMutable \/ PublishBack \/ FailPublished \/ BootFinish
  BY <1>6, PublishSteps, UnseenStep DEF Abstract!Next
<1>7. CASE UNCHANGED vars
  <2>1. Unseen
    BY <1>7 DEF vars, tikv, Unseen, LastPoint
  <2> QED
    BY <2>1, UnseenStep
<1> QED
  BY <1>1, <1>2, <1>3, <1>4, <1>5, <1>6, <1>7 DEF Next, Worker, Environment

\* The storage stage implements the atomic index: with all its locks, batches,
\* markers, repairs and restarts it shows readers one move of the tip, to a
\* child or back to an ancestor, or one publication of the tip's state at a time.
THEOREM Refinement ==
  ASSUME Calm, Started
  PROVE  Spec => ImplementsAtomicIndex
<1>1. Init => Abstract!Init
  <2> SUFFICES ASSUME Init PROVE Abstract!Init
    OBVIOUS
  <2>1. LastPoint = StartPoint
    BY TipOf, ChainAssumption DEF Init
  <2> QED
    BY <2>1 DEF Init, Abstract!Init
<1>2. IInv /\ IInv' /\ RInv /\ RInv' /\ [Next]_vars => [Abstract!Next]_(Abstract!ivars)
  BY StepRefines
<1> QED
  BY <1>1, <1>2, InductiveReady, PTL DEF Spec, ImplementsAtomicIndex, Abstract!Spec

=============================================================================
