---------------------------- MODULE SplitCommit ----------------------------
(***************************************************************************)
(* The storage stage of polyphony-xbt: one worker writes each block to     *)
(* TiKV as several transactions (a split commit) under a lock key, keeps   *)
(* the inverse of every write in a persistent rollback buffer, and after a *)
(* restart repairs a half written block before it goes on.                 *)
(*                                                                         *)
(* A point stands for a block and, since it is a hash, for the whole       *)
(* history below it: parent and height are constants, and ideal[p] is what *)
(* TiKV holds when exactly the blocks up to p have been applied.           *)
(***************************************************************************)
EXTENDS StorageActions, FiniteSets

CONSTANTS
  Keys,             \* the keys of the instance, ordered integers
  CursorKey,        \* holds the point of the last block applied
  DummyKey,         \* the empty key of the first rollback buffer entry
  Points,           \* block points
  Origin,           \* last_processed = None
  height,           \* [Points -> Nat]
  parent,           \* [Points -> Points \cup {Origin}]
  acts,             \* [Points -> [Keys -> action or NoAction]], already merged
  ideal,            \* [Points \cup {Origin} -> [Keys -> value]]
  BatchSize,        \* split_commit_batch_size
  BufferSize,       \* capacity of the rollback buffer
  StartPoint,       \* what the instance has indexed when the model starts
  MaxFaults,        \* bound on the crashes and failed transactions
  NoLock, None,     \* no lock key, Option::None of the worker's fields
  DeepReorg,        \* the chain may fork below the last BufferSize blocks
  FlakyPublish,     \* Redis may refuse the entry of a rollback
  LateSwitch        \* a block begun as immutable may come back as mutable

VARIABLES
  db,        \* TiKV: the value of every key
  lock,      \* TiKV: the split commit lock key
  markers,   \* TiKV: batch complete keys
  meta,      \* TiKV: rollback metadata, the inverse kept per point and key
  redis,     \* timestamp entries: a point and what the snapshot at its ts shows
  up,        \* "down", "boot", "run", "panic"; "range": a rollback too deep
  pc,        \* where execute (or the repair in bootstrap) is
  job,       \* what is being committed
  todo,      \* the <<point, key>> writes whose batch has not committed
  hand,      \* buffer entries execute works on: those to hand, the one evicted
  inv,       \* the inverses returned by the batches committed so far
  last,      \* Worker::last_processed
  buffer,    \* Worker::rollback_buffer
  mutable,   \* Worker::mutable
  partial,   \* Worker::partial_split_commit
  unit,      \* Worker::work_unit_2pc, one payload at a time
  offer,     \* points from which the source may pick its first RollBack
  top,       \* the greatest height the source has delivered
  gc,        \* running metadata GC tasks
  faults     \* crashes and failures so far

tikv   == <<db, lock, markers, meta>>
run    == <<pc, job, todo, hand, inv>>
memory == <<last, buffer, mutable, partial>>
vars   == <<tikv, redis, up, run, memory, unit, offer, top, gc, faults>>

-----------------------------------------------------------------------------
Blocks == Points \cup {Origin}

Stored == Values \cup Points \cup {Absent}

Locks == [safe : Blocks, total : Nat, mutable : BOOLEAN, block : Points]

\* Blocks form trees, and every tree begins at the same height.
ASSUME ChainAssumption ==
  /\ Origin \notin Points
  /\ StartPoint \in Blocks
  /\ height \in [Points -> Nat]
  /\ parent \in [Points -> Blocks]
  /\ \A p \in Points : parent[p] # Origin => height[p] = height[parent[p]] + 1
  /\ \A p, q \in Points : parent[p] = Origin /\ parent[q] = Origin => height[p] = height[q]

ASSUME KeyAssumption ==
  /\ Keys \subseteq Int /\ IsFiniteSet(Keys)
  /\ CursorKey \in Keys /\ DummyKey \in Keys
  /\ Absent \notin Points
  /\ NoLock \notin Locks
  /\ None \notin [lock : Locks, done : SUBSET Nat]
  /\ None \notin [kind : {"forward", "back"}, point : Points, mutable : BOOLEAN]

\* Every block moves the cursor, SetOnce writes where nothing is stored, and the
\* keys are those that a rollback restores (no permanent writes).
ASSUME ActionAssumption ==
  \A p \in Points :
    /\ acts[p][CursorKey] # NoAction /\ acts[p][CursorKey] = Set(p)
    /\ \A k \in Keys : acts[p][k] # NoAction =>
         /\ acts[p][k].op \in Operations \ {"SetPermanent", "InsertPermanent"}
         /\ acts[p][k].op = "SetOnce" => ideal[parent[p]][k] = Absent

ASSUME IdealAssumption ==
  /\ ideal \in [Blocks -> [Keys -> Stored]]
  /\ ideal[Origin][CursorKey] = Absent
  /\ \A p \in Points, k \in Keys : ideal[p][k] = ExecOption(acts[p][k], ideal[parent[p]][k])

\* With room for one block only, a block begun on top of another evicts the one
\* that its repair needs.
ASSUME BoundAssumption ==
  /\ BatchSize \in Nat \ {0}
  /\ BufferSize \in Nat /\ BufferSize > 1
  /\ MaxFaults \in Nat
  /\ {DeepReorg, FlakyPublish, LateSwitch} \subseteq BOOLEAN

Empty == [k \in Keys |-> NoInverse]

NoJob == [kind |-> "none", point |-> Origin]

NoBuffer == [q \in {} |-> Empty]

Touched(p) == {k \in Keys : acts[p][k] # NoAction}

Saved(i) == {k \in Keys : i[k].saved}

\* Actions are sorted by key and cut into chunks of BatchSize.
Chunk(S, k) == Cardinality({j \in S : j < k}) \div BatchSize

Above(S, p) == {q \in S : height[q] > height[p]}

\* RollbackBuffer::add_block keeps the newest BufferSize blocks.
Newest(S) == {q \in S : Cardinality(Above(S, q)) < BufferSize}

Only(f, S) == [q \in S |-> f[q]]

Keep(f) == Only(f, Newest(DOMAIN f))

Pushed(f, p, i) == [q \in DOMAIN f \cup {p} |-> IF q = p THEN i ELSE f[q]]

AddBlock(f, p, i) == Keep(Pushed(f, p, i))

\* What add_block returns.
Evicted(f, p, i) == Only(Pushed(f, p, i), (DOMAIN f \cup {p}) \ Newest(DOMAIN f \cup {p}))

\* rollback_to_point
Trim(f, p) == Only(f, DOMAIN f \ Above(DOMAIN f, p))

\* The writes to undo to get back to p.
SavedAbove(f, p) == {w \in Above(DOMAIN f, p) \X Keys : f[w[1]][w[2]].saved}

\* Cursor::last_point
LastPoint ==
  IF lock # NoLock THEN lock.safe
  ELSE IF db[CursorKey] = Absent THEN Origin ELSE db[CursorKey]

\* Cursor::fetch_persistent_buffer
MinHeight ==
  IF LastPoint = Origin \/ height[LastPoint] <= BufferSize + 1 THEN 0
  ELSE height[LastPoint] - (BufferSize + 1)

Fetch ==
  Only(meta, {q \in Points : height[q] # 0 /\ height[q] >= MinHeight /\ meta[q] # Empty})

\* check_partial_split_commit: a lock replaces the field, no lock leaves it.
Partial == IF lock # NoLock THEN [lock |-> lock, done |-> markers] ELSE partial

Forward(p, m) == [kind |-> "forward", point |-> p, mutable |-> m]
Back(p, m)    == [kind |-> "back", point |-> p, mutable |-> m]

-----------------------------------------------------------------------------
Init ==
  /\ db = ideal[StartPoint]
  /\ lock = NoLock
  /\ markers = {}
  /\ meta = [p \in Points |-> Empty]
  /\ redis = {}
  /\ up = "down"
  /\ pc = "idle"
  /\ job = NoJob
  /\ todo = {}
  /\ hand = NoBuffer
  /\ inv = Empty
  /\ last = Origin
  /\ buffer = NoBuffer
  /\ mutable = FALSE
  /\ partial = None
  /\ unit = None
  /\ offer = {}
  /\ top = IF StartPoint = Origin THEN 0 ELSE height[StartPoint]
  /\ gc = {}
  /\ faults = 0

-----------------------------------------------------------------------------
(* Starting the process: bootstrap::build, spawn_stages and the source's    *)
(* search for an intersection with the persistent buffer.                   *)

\* last_point expects a lock to carry a safe point.
Start ==
  LET known == {q \in DOMAIN Fetch : lock # NoLock => height[q] <= height[lock.safe]} IN
  /\ up = "down"
  /\ IF lock # NoLock /\ lock.safe = Origin
     THEN up' = "panic" /\ UNCHANGED <<memory, unit, offer>>
     ELSE /\ DOMAIN Fetch # {} => known # {}
          /\ up' = "boot"
          /\ buffer' = Keep(Fetch)
          /\ mutable' = (DOMAIN Fetch # {})
          /\ last' = LastPoint
          /\ partial' = None
          /\ unit' = None
          /\ offer' = known
  /\ UNCHANGED <<tikv, redis, run, top, gc, faults>>

-----------------------------------------------------------------------------
(* Worker::bootstrap *)

\* A mutable lock: the writes above its safe point are undone from a buffer
\* read again from TiKV.
BootRepair ==
  /\ up = "boot" /\ pc = "idle"
  /\ Partial # None /\ Partial.lock.mutable
  /\ partial' = Partial
  /\ LET f == Keep(Fetch)
         safe == Partial.lock.safe
     IN  IF safe \in DOMAIN f
         THEN /\ job' = [kind |-> "repair", point |-> safe]
              /\ hand' = f
              /\ todo' = SavedAbove(f, safe)
              /\ pc' = "lock"
              /\ up' = up
         ELSE /\ up' = "panic"
              /\ UNCHANGED <<job, hand, todo, pc>>
  /\ UNCHANGED <<tikv, redis, inv, last, buffer, mutable, unit, offer, top, gc, faults>>

\* Mutant of BootFinish: a mutable lock is not repaired.
BootFinishUnrepaired ==
  /\ up = "boot" /\ pc = "idle"
  /\ partial' = Partial
  /\ up' = "run"
  /\ redis' = IF /\ db[CursorKey] # Absent
                 /\ redis # {}
                 /\ \A e \in redis : e.point # db[CursorKey]
                 /\ Partial = None
              THEN redis \cup {[point |-> db[CursorKey], snap |-> db]}
              ELSE redis
  /\ UNCHANGED <<tikv, run, last, buffer, mutable, unit, offer, top, gc, faults>>

\* Otherwise, or afterwards, a cursor missing from Redis is published.
BootFinish ==
  /\ up = "boot" /\ pc = "idle"
  /\ Partial # None => ~ Partial.lock.mutable
  /\ partial' = Partial
  /\ up' = "run"
  /\ redis' = IF /\ db[CursorKey] # Absent
                 /\ redis # {}
                 /\ \A e \in redis : e.point # db[CursorKey]
                 /\ Partial = None
              THEN redis \cup {[point |-> db[CursorKey], snap |-> db]}
              ELSE redis
  /\ UNCHANGED <<tikv, run, last, buffer, mutable, unit, offer, top, gc, faults>>

-----------------------------------------------------------------------------
(* The source.  After a start its first payload rolls back to a point of    *)
(* the persistent buffer; then it follows the chain of its upstream.        *)

\* The reorganisations the buffer is made for.
Shallow(p) == DeepReorg \/ height[p] + BufferSize > top

DeliverIntersect ==
  /\ up = "run" /\ unit = None /\ offer # {}
  /\ \E p \in offer : Shallow(p) /\ unit' = Back(p, TRUE)
  /\ offer' = {}
  /\ UNCHANGED <<tikv, redis, up, run, memory, top, gc, faults>>

\* A block that was begun below the immutable height is not reorganised away;
\* unless LateSwitch it also comes back by the same path.
DeliverForward ==
  /\ up = "run" /\ unit = None /\ offer = {}
  /\ \E p \in Points, m \in BOOLEAN :
       /\ parent[p] = last
       /\ lock # NoLock => lock.block = p /\ (LateSwitch \/ ~ m)
       /\ unit' = Forward(p, m)
       /\ top' = IF height[p] > top THEN height[p] ELSE top
  /\ UNCHANGED <<tikv, redis, up, run, memory, offer, gc, faults>>

\* A Reset of the upstream; it leaves the mutable flag alone.
DeliverBack ==
  /\ up = "run" /\ unit = None /\ offer = {}
  /\ lock = NoLock
  /\ \E p \in DOMAIN buffer : Shallow(p) /\ unit' = Back(p, FALSE)
  /\ UNCHANGED <<tikv, redis, up, run, memory, offer, top, gc, faults>>

-----------------------------------------------------------------------------
(* Worker::execute up to the lock. *)

\* Mutant of BeginImmutable: completed batches are not skipped.
BeginImmutableAfresh ==
  /\ up = "run" /\ pc = "idle"
  /\ unit # None /\ unit.kind = "forward"
  /\ ~ mutable /\ ~ unit.mutable
  /\ LET p == unit.point
         S == Touched(p)
     IN  IF \/ last # Origin /\ height[last] + 1 # height[p]
            \/ partial # None /\ (partial.lock.mutable \/ partial.lock.total # Cardinality(S))
         THEN up' = "panic" /\ UNCHANGED <<job, todo, pc>>
         ELSE /\ job' = [kind |-> "immutable", point |-> p]
              /\ todo' = {<<p, k>> : k \in {j \in S : TRUE}}
              /\ pc' = "lock"
              /\ up' = up
  /\ UNCHANGED <<tikv, redis, hand, inv, memory, unit, offer, top, gc, faults>>

\* The immutable path skips the batches whose markers were found.
BeginImmutable ==
  /\ up = "run" /\ pc = "idle"
  /\ unit # None /\ unit.kind = "forward"
  /\ ~ mutable /\ ~ unit.mutable
  /\ LET p == unit.point
         S == Touched(p)
     IN  IF \/ last # Origin /\ height[last] + 1 # height[p]
            \/ partial # None /\ (partial.lock.mutable \/ partial.lock.total # Cardinality(S))
         THEN up' = "panic" /\ UNCHANGED <<job, todo, pc>>
         ELSE /\ job' = [kind |-> "immutable", point |-> p]
              /\ todo' = {<<p, k>> : k \in {j \in S : partial # None => Chunk(S, j) \notin partial.done}}
              /\ pc' = "lock"
              /\ up' = up
  /\ UNCHANGED <<tikv, redis, hand, inv, memory, unit, offer, top, gc, faults>>

BeginMutable ==
  /\ up = "run" /\ pc = "idle"
  /\ unit # None /\ unit.kind = "forward"
  /\ mutable \/ unit.mutable
  /\ LET p == unit.point IN
     IF last # Origin /\ height[last] + 1 # height[p]
     THEN up' = "panic" /\ UNCHANGED <<mutable, job, todo, inv, pc>>
     ELSE /\ mutable' = TRUE
          /\ job' = [kind |-> "mutable", point |-> p]
          /\ todo' = {<<p, k>> : k \in Touched(p)}
          /\ inv' = Empty
          /\ pc' = IF DOMAIN buffer = {} /\ last # Origin THEN "seed" ELSE "lock"
          /\ up' = up
  /\ UNCHANGED <<tikv, redis, hand, last, buffer, partial, unit, offer, top, gc, faults>>

BeginBack ==
  /\ up = "run" /\ pc = "idle"
  /\ unit # None /\ unit.kind = "back"
  /\ mutable' = (mutable \/ unit.mutable)
  /\ IF unit.point \in DOMAIN buffer
     THEN /\ job' = [kind |-> "back", point |-> unit.point]
          /\ hand' = buffer
          /\ todo' = SavedAbove(buffer, unit.point)
          /\ pc' = "lock"
          /\ up' = up
     ELSE up' = "range" /\ UNCHANGED <<job, hand, todo, pc>>
  /\ UNCHANGED <<tikv, redis, inv, last, buffer, partial, unit, offer, top, gc, faults>>

\* Mutant of Seed: the first entry is not persisted.
SeedInMemory ==
  LET dummy == [Empty EXCEPT ![DummyKey] = [saved |-> TRUE, val |-> Absent]] IN
  /\ pc = "seed"
  /\ buffer' = AddBlock(buffer, last, dummy)
  /\ pc' = "lock"
  /\ UNCHANGED <<db, lock, markers, meta, redis, up, job, todo, hand, inv, last, mutable, partial,
                 unit, offer, top, gc, faults>>

\* The first mutable block gives its predecessor a place in the buffer.
Seed ==
  LET dummy == [Empty EXCEPT ![DummyKey] = [saved |-> TRUE, val |-> Absent]] IN
  /\ pc = "seed"
  /\ meta' = [meta EXCEPT ![last] = dummy]
  /\ buffer' = AddBlock(buffer, last, dummy)
  /\ pc' = "lock"
  /\ UNCHANGED <<db, lock, markers, redis, up, job, todo, hand, inv, last, mutable, partial,
                 unit, offer, top, gc, faults>>

-----------------------------------------------------------------------------
(* The split commit: a transaction writes the lock, one transaction per     *)
(* batch in any order, blocks to undo newest first, and one removes the     *)
(* lock.                                                                    *)

Undoing == job.kind \in {"back", "repair"}

\* Mutant of WriteLock: the lock records the block instead of its predecessor.
WriteLockBlock ==
  /\ pc = "lock"
  /\ lock' = [safe    |-> job.point,
              total   |-> IF Undoing THEN 0 ELSE Cardinality(Touched(job.point)),
              mutable |-> job.kind # "immutable",
              block   |-> job.point]
  /\ pc' = "batch"
  /\ UNCHANGED <<db, markers, meta, redis, up, job, todo, hand, inv, memory, unit, offer, top, gc,
                 faults>>

\* lock.block is not in the code: it tells the source which block is due.
WriteLock ==
  /\ pc = "lock"
  /\ lock' = [safe    |-> IF Undoing THEN job.point ELSE last,
              total   |-> IF Undoing THEN 0 ELSE Cardinality(Touched(job.point)),
              mutable |-> job.kind # "immutable",
              block   |-> job.point]
  /\ pc' = "batch"
  /\ UNCHANGED <<db, markers, meta, redis, up, job, todo, hand, inv, memory, unit, offer, top, gc,
                 faults>>

\* The block whose batches are due: the newest of those left.
Current == CHOOSE q \in {w[1] : w \in todo} : Above({w[1] : w \in todo}, q) = {}

\* The keys written for a block, cut into batches.
KeysOf(q) == IF Undoing THEN Saved(hand[q]) ELSE Touched(q)

CurrentKeys == KeysOf(Current)

BatchIds == {Chunk(CurrentKeys, w[2]) : w \in {v \in todo : v[1] = Current}}

Batch(b) == {k \in CurrentKeys : Chunk(CurrentKeys, k) = b}

\* execute_storage_op_in_txn for a batch of block p
Executed(p, ks) == [k \in Keys |-> IF k \in ks THEN Exec(acts[p][k], db[k]) ELSE db[k]]

Inverses(p, ks) == [k \in Keys |-> IF k \in ks THEN InverseOf(acts[p][k], db[k]) ELSE NoInverse]

\* Overwrites i by the inverses that j carries.
Overlay(i, j) == [k \in Keys |-> IF j[k].saved THEN j[k] ELSE i[k]]

CommitImmutable ==
  /\ pc = "batch" /\ job.kind = "immutable"
  /\ \E b \in BatchIds :
       /\ db' = Executed(job.point, Batch(b))
       /\ markers' = markers \cup {b}
       /\ todo' = {w \in todo : w[2] \notin Batch(b)}
  /\ UNCHANGED <<lock, meta, redis, up, pc, job, hand, inv, memory, unit, offer, top, gc, faults>>

\* Mutant of CommitMutable: only the inverses of the last batch reach the buffer.
CommitMutableLastBatch ==
  /\ pc = "batch" /\ job.kind = "mutable"
  /\ \E b \in BatchIds :
       /\ db' = Executed(job.point, Batch(b))
       /\ meta' = [meta EXCEPT ![job.point] = Overlay(@, Inverses(job.point, Batch(b)))]
       /\ inv' = Inverses(job.point, Batch(b))
       /\ todo' = {w \in todo : w[2] \notin Batch(b)}
  /\ UNCHANGED <<lock, markers, redis, up, pc, job, hand, memory, unit, offer, top, gc, faults>>

CommitMutable ==
  /\ pc = "batch" /\ job.kind = "mutable"
  /\ \E b \in BatchIds :
       /\ db' = Executed(job.point, Batch(b))
       /\ meta' = [meta EXCEPT ![job.point] = Overlay(@, Inverses(job.point, Batch(b)))]
       /\ inv' = Overlay(inv, Inverses(job.point, Batch(b)))
       /\ todo' = {w \in todo : w[2] \notin Batch(b)}
  /\ UNCHANGED <<lock, markers, redis, up, pc, job, hand, memory, unit, offer, top, gc, faults>>

CommitInverse ==
  /\ pc = "batch" /\ Undoing
  /\ \E b \in BatchIds :
       /\ db' = [k \in Keys |-> IF k \in Batch(b) THEN hand[Current][k].val ELSE db[k]]
       /\ meta' = [meta EXCEPT ![Current] = [k \in Keys |-> IF k \in Batch(b) THEN NoInverse ELSE @[k]]]
       /\ todo' = {w \in todo : ~ (w[1] = Current /\ w[2] \in Batch(b))}
  /\ UNCHANGED <<lock, markers, redis, up, pc, job, hand, inv, memory, unit, offer, top, gc, faults>>

\* Mutant of RemoveLock: only a forward commit removes its lock.
RemoveLockForward ==
  /\ pc = "batch" /\ todo = {}
  /\ lock' = IF Undoing THEN lock ELSE NoLock
  /\ markers' = IF job.kind = "immutable" THEN {} ELSE markers

\* One transaction removes the lock and, when immutable, the markers.
RemoveLock ==
  /\ pc = "batch" /\ todo = {}
  /\ lock' = NoLock
  /\ markers' = IF job.kind = "immutable" THEN {} ELSE markers

UnlockImmutable ==
  /\ RemoveLock /\ job.kind = "immutable"
  /\ partial' = None
  /\ unit' = None
  /\ last' = job.point
  /\ pc' = "idle"
  /\ job' = NoJob
  /\ UNCHANGED <<db, meta, redis, up, todo, hand, inv, buffer, mutable, offer, top, gc, faults>>

UnlockMutable ==
  /\ RemoveLock /\ job.kind = "mutable"
  /\ unit' = None
  /\ last' = job.point
  /\ buffer' = AddBlock(buffer, job.point, inv)
  /\ hand' = Evicted(buffer, job.point, inv)
  /\ pc' = "publish"
  /\ UNCHANGED <<db, meta, redis, up, job, todo, inv, mutable, partial, offer, top, gc, faults>>

UnlockBack ==
  /\ RemoveLock /\ job.kind = "back"
  /\ pc' = "publish"
  /\ UNCHANGED <<db, meta, redis, up, job, todo, hand, inv, memory, unit, offer, top, gc, faults>>

UnlockRepair ==
  /\ RemoveLock /\ job.kind = "repair"
  /\ partial' = None
  /\ last' = job.point
  /\ buffer' = Trim(hand, job.point)
  /\ pc' = "idle"
  /\ job' = NoJob
  /\ hand' = NoBuffer
  /\ UNCHANGED <<db, meta, redis, up, todo, inv, mutable, unit, offer, top, gc, faults>>

-----------------------------------------------------------------------------
(* insert_timestamp_entry, and what execute does after it. *)

Entry == [point |-> job.point, snap |-> db]

PublishMutable ==
  /\ pc = "publish" /\ job.kind = "mutable"
  /\ redis' = redis \cup {Entry}
  /\ gc' = gc \cup {[point |-> q, keys |-> Saved(hand[q])] : q \in DOMAIN hand}
  /\ pc' = "idle"
  /\ job' = NoJob
  /\ hand' = NoBuffer
  /\ UNCHANGED <<tikv, up, todo, inv, memory, unit, offer, top, faults>>

\* Mutant of PublishBack: last_processed is not moved back.
PublishBackKeepsLast ==
  /\ pc = "publish" /\ job.kind = "back"
  /\ redis' = redis \cup {Entry}
  /\ unit' = None
  /\ buffer' = Trim(buffer, job.point)
  /\ pc' = "idle"
  /\ job' = NoJob
  /\ hand' = NoBuffer
  /\ UNCHANGED <<tikv, up, todo, inv, last, mutable, partial, offer, top, gc, faults>>

PublishBack ==
  /\ pc = "publish" /\ job.kind = "back"
  /\ redis' = redis \cup {Entry}
  /\ unit' = None
  /\ last' = job.point
  /\ buffer' = Trim(buffer, job.point)
  /\ pc' = "idle"
  /\ job' = NoJob
  /\ hand' = NoBuffer
  /\ UNCHANGED <<tikv, up, todo, inv, mutable, partial, offer, top, gc, faults>>

\* spawn_garbage_collect_rollback_metadata: a task of its own, which gives up
\* after five attempts.
GcRun ==
  /\ \E t \in gc :
       /\ meta' = [meta EXCEPT ![t.point] = [k \in Keys |-> IF k \in t.keys THEN NoInverse ELSE @[k]]]
       /\ gc' = gc \ {t}
  /\ UNCHANGED <<db, lock, markers, redis, up, run, memory, unit, offer, top, faults>>

GcGiveUp ==
  /\ faults < MaxFaults
  /\ \E t \in gc : gc' = gc \ {t}
  /\ faults' = faults + 1
  /\ UNCHANGED <<tikv, redis, up, run, memory, unit, offer, top>>

-----------------------------------------------------------------------------
(* Failures.  A call that fails restarts the stage inside the process: the  *)
(* worker keeps its fields, execute loses its locals.  A crash loses both.  *)

RedisAnswers == pc = "publish" /\ job.kind = "back" => FlakyPublish

LoseLocals ==
  /\ pc' = "idle"
  /\ job' = NoJob
  /\ todo' = {}
  /\ hand' = NoBuffer
  /\ inv' = Empty

Fail ==
  /\ faults < MaxFaults
  /\ pc # "idle"
  /\ RedisAnswers
  /\ LoseLocals
  /\ up' = "boot"
  /\ faults' = faults + 1
  /\ UNCHANGED <<tikv, redis, memory, unit, offer, top, gc>>

\* The entry was stored and a later Redis call of the same insert failed.
FailPublished ==
  /\ faults < MaxFaults
  /\ pc = "publish"
  /\ RedisAnswers
  /\ redis' = redis \cup {Entry}
  /\ LoseLocals
  /\ up' = "boot"
  /\ faults' = faults + 1
  /\ UNCHANGED <<tikv, memory, unit, offer, top, gc>>

Crash ==
  /\ \/ up \in {"boot", "run"} /\ faults < MaxFaults /\ faults' = faults + 1
     \/ up \in {"panic", "range"} /\ faults' = faults
  /\ LoseLocals
  /\ up' = "down"
  /\ last' = Origin /\ buffer' = NoBuffer /\ mutable' = FALSE /\ partial' = None
  /\ unit' = None /\ offer' = {} /\ gc' = {}
  /\ UNCHANGED <<tikv, redis, top>>

-----------------------------------------------------------------------------
Worker ==
  \/ Start \/ BootRepair \/ BootFinish
  \/ BeginImmutable \/ BeginMutable \/ BeginBack \/ Seed \/ WriteLock
  \/ CommitImmutable \/ CommitMutable \/ CommitInverse
  \/ UnlockImmutable \/ UnlockMutable \/ UnlockBack \/ UnlockRepair
  \/ PublishMutable \/ PublishBack

Source == DeliverIntersect \/ DeliverForward \/ DeliverBack

Environment == GcRun \/ GcGiveUp \/ Fail \/ FailPublished \/ Crash

Next == Worker \/ Source \/ Environment

Spec == Init /\ [][Next]_vars

-----------------------------------------------------------------------------
InverseMaps == [Keys -> [saved : BOOLEAN, val : Stored]]

IsBuffer(f) == DOMAIN f \in SUBSET Points /\ f \in [DOMAIN f -> InverseMaps]

\* The types of all the state: what TiKV, Redis and the worker's fields hold.
TypeOK ==
  /\ db \in [Keys -> Stored]
  /\ lock \in Locks \cup {NoLock}
  /\ markers \in SUBSET Nat
  /\ meta \in [Points -> InverseMaps]
  /\ \A e \in redis : e.point \in Points /\ e.snap \in [Keys -> Stored]
  /\ up \in {"down", "boot", "run", "panic", "range"}
  /\ pc \in {"idle", "seed", "lock", "batch", "publish"}
  /\ job \in [kind : {"none", "immutable", "mutable", "back", "repair"}, point : Blocks]
  /\ todo \in SUBSET (Points \X Keys)
  /\ IsBuffer(hand)
  /\ inv \in InverseMaps
  /\ last \in Blocks
  /\ IsBuffer(buffer)
  /\ mutable \in BOOLEAN
  /\ partial \in [lock : Locks, done : SUBSET Nat] \cup {None}
  /\ unit \in [kind : {"forward", "back"}, point : Points, mutable : BOOLEAN] \cup {None}
  /\ offer \in SUBSET Points
  /\ top \in Nat
  /\ gc \in SUBSET [point : Points, keys : SUBSET Keys]
  /\ faults \in 0..MaxFaults

\* Whenever no lock key is present, TiKV holds the effects of the blocks up to
\* its cursor, each applied exactly once and whole, whatever crashed or failed
\* on the way (the lock protocol of apply_actions_split_commit_* and bootstrap).
AtomicBlocks == lock = NoLock => db = ideal[LastPoint]

\* Every timestamp entry in Redis leads readers to a snapshot that holds exactly
\* the chain up to the entry's block: execute and bootstrap never publish a
\* half applied or half undone block (insert_timestamp_entry and its callers).
PublishedConsistent == \A e \in redis : e.snap = ideal[e.point]

\* No restart, in the process or of the process, runs into one of the panics of
\* recovery: a lock without a safe point, a mutable lock without the buffer to
\* undo it, an action count that changed, a height that does not follow.
NeverStuck == up # "panic"

Idle == up = "run" /\ pc = "idle" /\ unit = None

\* Worker::last_processed is a cache of the cursor in TiKV: between work units
\* the two agree, also after failures that kept the field and undid the block.
CursorCached == Idle => last = LastPoint

\* Between work units every reorganisation that the buffer is made for can be
\* undone: the blocks down to the first mutable one, as far as BufferSize
\* reaches below the highest block, are in the memory buffer, the metadata that
\* a restart would read agrees, and each entry leads from the state of its
\* block to that of its parent.
RollbackReady ==
  Idle /\ DOMAIN buffer # {} =>
    /\ last \in DOMAIN buffer
    /\ \A q \in DOMAIN buffer : height[q] + BufferSize > top =>
         /\ meta[q] = buffer[q]
         /\ ~ buffer[q][DummyKey].saved =>
              /\ height[q] + BufferSize > top + 1 => parent[q] \in DOMAIN buffer
              /\ \A k \in Keys : Undo(buffer[q][k], ideal[q][k]) = ideal[parent[q]][k]

\* Readers see an index that moves from block to block in one step.
Abstract ==
  INSTANCE AtomicIndex WITH tip <- LastPoint, published <- redis

\* The storage stage implements the atomic index: a split commit, a rollback or
\* a repair looks to a reader like one move of the tip or none.
ImplementsAtomicIndex == Abstract!Spec

-----------------------------------------------------------------------------
(* Progress.  gasket keeps running a stage that has work, the orchestrator  *)
(* restarts a process that exits, and the source delivers while there are   *)
(* blocks; faults are finite.                                               *)

FairSpec ==
  /\ Spec
  /\ WF_vars(Worker)
  /\ WF_vars(Source)
  /\ WF_vars(Crash /\ UNCHANGED faults)

\* A lock key does not stay, an interrupted split commit is finished or undone;
\* and a payload that the storage stage has taken is processed and drained, or
\* lost with the process that took it.
Drains == (lock # NoLock ~> lock = NoLock) /\ (unit # None ~> unit = None)

=============================================================================
