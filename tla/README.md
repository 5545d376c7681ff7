# Verification of maestro-bitcoin-indexer in TLA+

This directory models the indexer in TLA+. TLC checks the models on small
instances; TLAPS checks proofs of the properties that carry the most weight, for
every value of the constants.

    tlc -workers 2 -config MCSplitCommit.cfg MCSplitCommit    # one run
    tlapm SplitCommitProofs.tla                               # one module of proofs

`PROJECT.json` lists the components, the runs with their properties, for every
property a mutation of the model that breaks it, the source lines behind every
definition, the hazards of the code, and the theorems.

## The system

Bitcoin blocks flow from `bitcoind` through three services to readers.

* **compressor-xbt** follows the node. Its pull stage plans rollbacks and blocks,
  its roll stage applies them to a RocksDB store of outputs, runes, inscriptions
  and BRC-20 balances, and a log of apply/undo entries near the tip is streamed
  to readers over gRPC. A mempool stage estimates the blocks to come.
* **polyphony-xbt** is the indexer. A source stage reads the compressor, a reducer
  stage turns blocks into storage actions, and a storage stage writes each block
  to TiKV in several transactions (a *split commit*) under a lock, keeps the
  inverse of every write, and publishes a timestamp entry to Redis.
* **mapi-xbt** answers requests from TiKV snapshots that it chooses from the Redis
  entries of several polyphony instances. **tikv-gc** deletes old entries and
  advances the safepoint below which TiKV drops old versions.
* **timbre-xbt** holds key and value encodings, **daw** is an administration CLI.

## Modules

| Part | Module | State and actions |
|---|---|---|
| storage actions (`model.rs`, `tikv.rs`) | `StorageActions` | operators: `Exec`, `InverseOf`, `Merge`, `Diff` on one key |
| merging within a block | `ActionMerger` | one key of one class of reducer; emit, apply, roll back |
| storage stage (`storage/tikv.rs`, `rollback_buffer.rs`) | `SplitCommit` | `db`, `lock`, `batches`, `meta` in TiKV; the worker's buffers and program counter; one action per transaction, `Crash`, failed commits, bootstrap and repair, metadata GC, publishing |
| what readers rely on | `AtomicIndex` | the tip and the published snapshots, nothing else; `SplitCommit` refines it |
| failures the stage does not handle | `SplitCommitFaults` | `SplitCommit` with commits of unknown outcome and batch tasks that outlive their call |
| mempool refresh of the storage stage | `MempoolRefresh` | `tikv`, `saved` (the pseudo-point's inverses), `cache`; undo, apply by difference, failures, repairs |
| pipeline of a polyphony process | `SourceStage` | compressor log, source, queue, storage; dump, stream, reset, mempool requests, compaction, restarts |
| reducers | `SatReducers`, `RuneReducers`, `InscriptionReducers` | one operator per reducer and one for its storage actions |
| all reducers over the ledger | `Indexer` | the index, its inverses, the view; blocks, rollbacks, refresh, restart |
| compressor tables | `Transactions`, `Runes`, `Inscriptions`, `Brc20`, `Ledger` | tables and undo data; `ApplyNext`, `Rollback`, `Restart`, failed commits |
| compressor sync and log | `ChainSync` | node, pull, queue, store, log, one reader; every stage's step, crashes, lost peers |
| mempool processor | `MempoolBlocks`, `MempoolView` | unit, storage cache, served view, above `Ledger` |
| mempool fetching | `MempoolFetch` | node, global mempool service (MGM), worker, served view |
| choice of snapshots, GC invariants | `Unify` | operators shared by mapi and tikv-gc |
| instances, requests and tikv-gc together | `SnapshotReads` | Redis entries, committed states, a job and a request, each step on its own |
| range scans, listings | `Scanner`, `Listings`, `Paging` | one operator per endpoint; a client that pages while the index moves |
| historical balances | `BalanceHistory` | the history of an address and a client of the endpoint |

`MC*` modules give the constants of the runs small values. The modules
`ActionMergerProofs`, `SplitCommit{Invariant,Batches,Proofs}`, `ChainSyncProofs`,
`SnapshotReadsProofs`, `MempoolRefreshProofs` and `MempoolFetchProofs` hold proofs.

What is abstracted everywhere: a block point is a model value that stands for its
whole history; payloads keep the fields some property tells apart; encodings are
injective and keep the order of keys; logging, metrics and formatting are left
out. Handlers are whole: an action covers every call of its handler that changes
state, up to the next point where the code can fail or another process can step.

## Runs

| Run | Properties | What it shows |
|---|---|---|
| `merger` | `MergeFaithful`, `RollBackRestores` | one key of each class: the merged action does what the sequence does, up to whether a satoshi balance of zero is stored, and never panics; its inverse restores the key |
| `split_commit` | `AtomicBlocks`, `PublishedConsistent`, `NeverStuck`, `CursorCached`, `RollbackReady`, `ImplementsAtomicIndex`, `Drains` | blocks stay atomic through two crashes or failed commits anywhere, with batches of one action; recovery never panics; reorganisations stay undoable; readers see an atomic index; locks and payloads drain |
| `mempool_refresh` | `RefreshExact`, `UndoComplete` | two keys of any two classes through views written by difference, failures and repairs: a refresh leaves what the view alone would, up to whether a balance of zero is stored, and can always be undone |
| `source_stage` | `CompactionFaithful`, `InPlace`, `CatchesUp` | compacting queued payloads changes nothing; every payload fits the store when its turn comes; the store catches up |
| `chain_sync` | `StreamFaithful`, `WindowKept`, `Synced` | until a second restart a reader of the log can link and undo what it is told and misses nothing; the log reaches back as far as promised; the store ends at the node's tip |
| `snapshot_reads` | `FreshRequest`, `UnifiedView` | every snapshot of a response holds the block and the view it names; plans made from fresh entries are readable, at every step of a tikv-gc job (nothing is claimed of a request already under way when its snapshot is collected) |
| `ledger` | `RunesBacked`, `OnePlace`, `MemoryFaithful`, `Brc20Backed`, `UndoExact` | amounts are backed, an inscription is in one place, the memory resolver agrees with the store, undo restores every table |
| `indexer` | `Promised`, `SatIndexExact`, `PointsExact`, `LookupsExact`, `RuneIndexExact`, `InscriptionIndexExact`, `ActivityExact`, `Brc20Agrees`, `PermanentKept` | every index says what the chain and the view say; each action finds the value it relies on, with one exception (below) |
| `mempool_view` | `ViewExact`, `MinedAsEstimated` | the processor's cache is never stale; a block mined as estimated does what the view said |
| `mempool_fetch` | `ConnectionKept`, `ViewFollows` | MGM is always tried again; the served view follows the ledger |
| `paging` | `PagesComplete`, `PagesSound`, `HistoryExact` | listings lose and repeat nothing while the index moves; a history lists every block once |
| `unknown_commit` | `AtomicBlocks` (violated) | see Findings |

Some of these properties are to be read with care:

* `Promised` allows a decrement by zero of a satoshi balance that is missing. An output of
  no satoshi is added and subtracted like any other (`sat_balance_by_script_hash.rs:44`);
  when the balance was deleted at zero in between, the decrement finds no key, warns and does
  nothing (`tikv.rs:3517-3525`). The index stays exact (`SatIndexExact`).
* `MinedAsEstimated` compares the outputs of a block with the view that estimated it: their
  inscriptions, transfers and runes. A rune that the block itself etches has another identifier
  in the view, where the index of a transaction is one less for want of a coinbase; `Estimated`
  translates it.
* `PagesComplete` and `PagesSound` identify a result by its place in the order of the listing
  (height, index in the block, output). A transaction that a reorganisation moves to another
  height is another result: it may be listed again, and missing it is not a loss.

### Bounds, and why they are enough

* `merger`: values to 5 and deltas 0 to 3, so that deltas cancel, cross zero and
  reach zero. Proved for all values.
* `split_commit`: four blocks above the start with a fork, so there is a rollback
  over one and over two blocks; batch size 1 gives every order of batches; buffer
  size 2 makes entries leave the buffer; two faults give a failure during the
  repair of a failure. Proved for all values.
* `mempool_refresh`: deltas 0, 1 and 2 in both directions, one block, one fault.
  Two keys suffice because keys only interact through the domains of the maps.
  Proved for all values.
* `snapshot_reads`: two instances, one of them late, a fork, one view, one tikv-gc
  job or restart, one timestamp per millisecond. The run asks mempool requests;
  `FreshRequest` checks both kinds in every state. Proved for all values.
* `source_stage`: two blocks and a fork above them, two views, one restart, a
  buffer of 3 and pages of 1, so that pages end inside and outside the buffer. 170,000 states.
* `chain_sync`: a main chain of two blocks and a longer branch that leaves it after the
  first, another listed branch of height 4, confirmations 2, queue 1, one
  crash, one reconnection, three ends of the process by itself. `WindowKept` is proved for
  all values, and `StreamFaithful` without other branches.
* `ledger`, `mempool_view`, `indexer`: each kind of traffic (runes, inscriptions,
  BRC-20, plain) is explored apart, with at most two transactions in a block and
  heights on both sides of the activation heights; `u64::MAX` is 9. `Etchable` gives the rune
  names that are unlocked at a height; one of the two names of `ledger` is only from height 3
  on. Further kinds have outputs of no satoshi (`zeros`), outputs of a block spent in it and
  in the next with the memory resolver on (`chained`), and a rune that may be minted from
  the height of the estimated block on (`minted`).
* `mempool_fetch`: `MaxFailures` is the code's 3; two tips and one failing request
  of the node on top of any number of failing MGM requests. `ConnectionKept` is
  proved for all values.
* `paging`: pages of one to three results, scanner batches of 3 and answers of 2
  pairs, so that pages end inside a batch, at its end and beyond it; tables with a
  block added, removed or replaced between any two pages; a history of 4 blocks. The three
  listings with an offset for a cursor (activity of a transaction, content of an inscription,
  inscriptions of a collection) are asked over lists shorter, equal to and longer than a page;
  content is not asked with a count of 0, which returns the same cursor for ever.

Deadlock checking is off in the runs whose bounds end every behaviour.

### Fairness

* `split_commit`: the worker and the source loop for ever (weak fairness), and a
  process that has panicked is started again by its supervisor (`Crash` at no
  cost in faults). Faults are finite.
* `source_stage`: the tasks of the pipeline are polled again and again.
* `chain_sync`: the pull and roll workers run; a roll stage that cannot work ends
  the process, which is restarted.
* `mempool_fetch`: schedule and execute alternate, the clock runs, the ledger
  follows the node, and an MGM template does not stay young for ever without
  being renewed: it is renewed or it ages.

No action of the environment (a block, a view, a crash, a request) is fair.

## Proofs

Every theorem below holds for every value of the constants that satisfies the
named hypotheses. About 12,000 obligations are checked.

| Theorem | Says | Hypotheses |
|---|---|---|
| `MergeFaithfulAlways`, `RollBackRestoresAlways` | `Spec => []MergeFaithful`, `Spec => []RollBackRestores` | `Underflow = FALSE` |
| `TypeCorrect`, `BlocksAtomic`, `EntriesConsistent`, `CursorInStep` | `Spec => []` of `TypeOK`, `AtomicBlocks`, `PublishedConsistent`, `CursorCached` | `Calm` |
| `RecoveryNeverStuck`, `AlwaysReadyToRollBack` | `Spec => []NeverStuck`, `Spec => []RollbackReady` | `Calm`, `Started` |
| `Refinement` | `Spec => AtomicIndex!Spec` under the refinement mapping | `Calm`, `Started` |
| `ResponsesUnified` | `Spec => []UnifiedView` | none |
| `RequestsReadable` | `Spec => [](Apart => FreshRequest)` | `Apart`, in the state |
| `UndoAlwaysComplete` | `Spec => []UndoComplete` | `NoTotals`, `~ZeroSpends` |
| `RefreshAlwaysExact` | `Spec => []RefreshExact` | `NoTotals`, `~ZeroSpends` |
| `WindowTheorem` | `Spec => []WindowKept` | `Confs \in Nat` |
| `StreamTheorem` | `Spec /\ [][NoGapLost /\ NoLowerTip]_vars => []Followed` | `Confs \in Nat` |
| `OneRestartTheorem` | `Spec => []StreamFaithful` | `Confs \in Nat`, `Strays = {}` |
| `ConnectionTheorem` | `Spec => []ConnectionKept` | none |

The hypotheses are the limits of what the code promises, and each is needed:
a run's configuration that drops it is refuted (see Findings).

* `Underflow = FALSE`: no reducer takes more from a key than there is.
* `Calm == ~DeepReorg /\ ~FlakyPublish /\ ~LateSwitch`: rollbacks reach no deeper
  than the buffer, Redis answers after a rollback, and a block whose immutable
  commit was interrupted comes back as an immutable block.
* `Started`: the instance has indexed a block, and not one of height 0, which
  `fetch_persistent_buffer` does not find.
* `Apart`: no instance commits two states in one millisecond. tikv-gc deletes
  entries by their score, which is in milliseconds, while the safepoint is a full
  timestamp.
* `NoTotals`: no reducer with points, that is, not `HistoricalSatBalanceByScriptHash`.
* `~ZeroSpends`: no view spends outputs of no satoshi, and nothing else, of a script
  without a balance.
* `Confs \in Nat`: `immutable_after_confs` is configured.
* `NoGapLost`: the compressor is not restarted while a number of its log is skipped at the
  end of the log, that is, after blocks were applied without logging them.
* `NoLowerTip`: the pull stage does not start from a lower tip than the one it used before. It
  takes the highest branch that the node lists (`pull.rs:86-94`), which need not be its active
  chain, and follows the active chain afterwards.
* `Strays = {}`: the node lists no branch above its active chain.

### The storage stage

`SplitCommitInvariant` states the inductive invariant `IInv` and proves that the
actions of the control flow keep it, `SplitCommitBatches` that the commits of batches
do, whose inverse actions must fit what was there. `SplitCommitProofs` adds a second
invariant `RInv` and draws the conclusions.

`AtomicBlocks` says nothing about states under a lock, so it is not inductive. The
strengthening `TargetInv` says that TiKV is always *recoverable*: key by key it is
either at the last complete block or at the block of the lock, the markers tell
which batches are done, and the inverses that lead back are in the buffer of
whichever path will repair it. `LockInv`, `MetaInv` and `JobInv` tie the lock, the
persistent buffer and the running job together; `MemoryInv` relates the worker's
copy of them; `GcInv` keeps the collection of metadata away from what recovery
needs; `TipInv` relates cursor and tip. `RInv` adds what rollbacks need (`Floor`,
`SafeInv`, `EntryInv`, `TipKept`, `WorkInv`): the entries form an unbroken path down
from the tip. The refinement maps TiKV under a lock to the block the lock will be
resolved to; every step is then one step of `AtomicIndex` or none.

### Reads and garbage collection

`SnapshotReadsProofs` proves that the plan of a request is `Exact` whatever order
its fetches, the instances' commits and the job's deletions take (`ReqInv`), from
what the entries in Redis say about committed states (`HistInv`, `BoundInv`).
`RequestsReadable` needs in addition that the job, between reading the entries and
moving the safepoint, stays `Safe`, and that an entry it keeps is `Anchored` in one
that every instance has (`GcInv`).

### Merging

`ActionMergerProofs` rests on `Shape`: for each class of reducer, the form that the
pending action and the value it will meet can take. Merging two actions of a class
stays within its shape, and on it `Merge` is composition and `InverseOf` an inverse. With
deltas of zero, `Decrement(d)` followed by `Increment(0)` stores a zero where the merged
`Decrement(d)` deletes: `Alike` takes the two for the same satoshi balance when zero is among
the deltas, and is equality when it is not.

### Mempool refreshes

`RefreshExact` and `UndoComplete` speak of the visible result of a refresh. The
invariant `IInv` of `MempoolRefreshProofs` has to account for what a failed refresh
leaves: `UndoInv` says that the inverses of the pseudo-point lead from TiKV to the
chain's data at every moment, half-written views included; `ViewInv` that a cached
view is what TiKV shows, up to whether a zero is stored; `CacheInv` that a view
is cached only while its inverses are kept; `WorkInv` what a job in progress holds.
The lemmas on `Diff` (`DiffOf`, `DiffFits`, `DiffLedger`, `DiffSame`) are the core:
executing the difference of two actions after the first one does what the second
does, with the exception in the next paragraph.

Zeros are the difficult part. The difference of two increments is a `Decrement` when the
second is smaller (`model.rs:615`), and `Decrement` deletes at zero: a view that raises a
balance from nothing, followed by one whose merged change to it is zero, leaves no key where
the second view alone stores 0. `RefreshExact` is therefore stated up to that (`Same`), and is
equality where zero is not among the deltas. `UndoComplete` needs a hypothesis as well. A
`Decrement(0)` of a missing balance leaves no inverse, but its key counts as changed by the
view; the next view's change of the key is then written as a difference, without an inverse,
and stays when the view is undone. `~ZeroSpends` excludes it, and Findings has the
counterexample.

### The log of the compressor

`ChainSyncProofs` first proves what the operators of `ChainSync` compute, for every
tree of blocks: the ancestors of a block (one per height), the path between two of
them, the locator and its newest common block, the plan of rollbacks and blocks, and
what applying or rolling back a block does to the chain, the log and its pruning.

`WindowKept` (every block less than `Confs` below the node's tip, and below every branch it
lists, can be found in the log) becomes inductive as `WindowInv`, with three facts about how the stages fit
together: the store is a chain with block `i` at height `i` (`ChainShape`), the first
block to be applied to an empty store is on the genesis block (`EmptyStore`), and
a tip or a block under way is above neither the node nor a branch it lists (`Tips`). The
last one is the point: the roll stage decides from the tip it was *sent* whether to log a
block, and how much to prune. That tip may be out of date, and after a start it may be that of
a branch which is not the active chain: such a branch shrinks the window. Measured
from the active tip alone, `WindowKept` is refuted with `Strays = {4}` (`roll.rs:121` stays
immutable inside the window).

`Followed` needs `StreamInv` on top. `QueueTips` says that the tips of the
queued events do not fall; `LogShape` that entries with successive numbers continue each other;
`NearTip` that the log ends at the tip of the store while the stage logs. After a
restart the stage does not log until it is near the tip again, and the danger is an
entry whose number follows the log's last while its block does not. `FarFromTip` is the
reason why it cannot happen as long as numbers skipped are not forgotten: if no number
was skipped, either the next event starts at the block where the log ends, or the tip
is `Confs` above the log, so that the stage logs nothing before it has skipped a
number. A second restart can forget a skipped number, which is the counterexample under
Findings and the reason for `NoGapLost`; a lower tip after a higher one would switch logging
on with no number skipped, which `NoLowerTip` excludes. `FirstStart` shows that neither
happens before the second restart, if there are no other branches (`OneRestartTheorem`): before
the first one, every number since the start of the log was used. TLC checks the same with a
branch above the active chain.

### Fetching from MGM

`MempoolFetchProofs` shows that `ConnectionKept` is inductive once the worker is typed:
every outcome of a request and every way to leave MGM either stays below the limit or
starts the timer of the next attempt.

### Only model-checked

* Liveness (`Drains`, `CatchesUp`, `Synced`, `ViewFollows`), which the prover does
  not handle.
* The properties of `SourceStage`, `MempoolView`, `Ledger`, `Indexer`, `Paging` and
  `BalanceHistory`. They say what folds over payloads, edicts, transactions and tables
  compute, or compare two such folds; each would need an induction over sequences, for
  which the prover has no rule that its backends can instantiate. (Where a set of numbers
  has a least element that argument takes its place, as for the ancestors in
  `ChainSyncProofs`; for folds with records as accumulators we did not attempt it.)
  `Scanner` and `BalanceHistory` also use RECURSIVE operators, which the SMT backend does
  not accept. The second half of `InPlace` depends on how far successive
  reorganisations reach, and is false for some trees of blocks.
* The faults of `SplitCommitFaults`, where the property is false.

## Findings

One disagreement between code and documentation has a run of its own,
`unknown_commit`: `commit_txn_or_rollback` (`storage/utils.rs:64`) takes an error of
commit for a failed commit. If the transaction that removes the lock did take effect,
the worker applies the block a second time, although `docs/design.md:321-324` promises
"no corruption, no redundant re-writes".

The next ones are reproduced by changing constants in a configuration and checking the
one property (with `SPECIFICATION Spec` for `MCSplitCommit` and `MCChainSync`).

| Change | Violated | Why |
|---|---|---|
| `MCSplitCommit`: `StartPoint = Origin` | `NeverStuck` | a crash in the first block leaves a lock without a safe point, on which `last_point` panics at every restart (`tikv.rs:262`) |
| `MCSplitCommit`: `LateSwitch = TRUE` | `AtomicBlocks` | an interrupted immutable block that comes back as mutable has its finished batches applied again (`tikv.rs:2717`) |
| `MCSplitCommit`: `DeepReorg = TRUE` | `AtomicBlocks` | a lost metadata GC leaves a gap in the buffer; a rollback across it undoes only what is above (`tikv.rs:1771`) |
| `MCSplitCommit`: `FlakyPublish = TRUE`, `BufferSize = 3` | `AtomicBlocks` | a rollback whose publication failed runs again; if interrupted nothing is left to repair it (`tikv.rs:2916`) |
| `MCUnknownCommit`: `UnknownCommit = FALSE`, `DetachedBatches = TRUE` | `AtomicBlocks` | batch tasks survive an early return and commit after the restart has read the markers (`tikv.rs:1896`) |
| `MCMempoolRefresh`: `Classes = {"total"}` | `RefreshExact`, `UndoComplete` | the difference of two point aggregates sums up from a total that includes the last view, and writes points without inverses (`model.rs:807`, `tikv.rs:3095`) |
| `MCMempoolRefresh`: `ZeroSpends = TRUE` | `UndoComplete`, `RefreshExact` | a decrement by zero of a missing balance leaves no inverse, and the difference of the next view is written without one, although the comment at `tikv.rs:3057-3060` says that the buffer "must already contain the correct inverse operation" |
| `MCSnapshotReads`: `Ticks = 2`, `MaxTime = 7`, `Zone = 0`, `Kinds = {}`, `Late = {}` | `FreshRequest` | a view committed and undone within one millisecond: entries are deleted by millisecond |
| `MCChainSync`: `MaxCrashes = 2` | `Followed` | a restart forgets the gap in the numbering of the log, and a reader is handed a block that does not follow its tip (`storage/mod.rs:226`) |
| `MCChainSync`: `Confs = Unset` | `StreamFaithful` | without `immutable_after_confs` a rollback is not logged (`sync/roll.rs:147`) |
| `MCIndexer`: `MaxActivity = 1` | `ActivityExact` | the list that activity pointers refer to is cut (at 10000), the pointers are not (`inscription_activity_by_tx_v2.rs:156`) |

These properties are defined beside the others and TLC refutes them under the run's own
configuration, if they are named there instead:

* `RollbackOnChain` (`MCChainSync`): the locator is completed from a store that lags
  behind the queue; the planned rollback may be to no block of the chain (`pull.rs:225`).
* `RuneActivityExact` (`MCIndexer`): the growth of a rune that a script also sent is
  lost from its activity (`rune_txs_by_script_hash.rs:251`, `txs_by_rune_id.rs:243`).
* `TimestampProcessed` (`MempoolFetch`): the timestamp of a template is recorded before
  the template is processed, so one met too early is refused later (`mempool/roll.rs:547`).
* `ChainLinked`, `SentHasMempool` (`MCSourceStage`): after a reconnection without a
  rollback buffer, queued blocks are sent again; the note of mempool blocks sent
  downstream outlives the rollback that removed them (`compressor.rs:357`, `:351`).

The following were met while modelling and no configuration is kept for them. The
requests they concern are left out of the inputs of the runs, or the property asked
is the weaker one that the code has.

* tikv-gc counts the safe zone back from now, while a snapshot is as old as the entry of
  its block (`worker.rs:66`); the chain tip of an instance may be an orphaned block
  (`earliest_chaintip.rs:64`).
* mapi takes the instance with the oldest view of a dataplane, and keeps the old instance
  after a swap-over (`adapter.rs:285`, `:199`), other than `docs/design.md:135-136` and
  `:215-216` say.
* The difference of two increments deletes at zero (`model.rs:615`), so it may leave no key
  where the second action alone stores 0, against the doc at `model.rs:586-589`.
* `DecrementNoDelete(d)` merged with `Increment(d)` leaves an absent key absent, where the
  comment at `model.rs:414-416` says that 0 is written.
* The undo of an etching without a name leaves its entries (compressor
  `storage/mod.rs:819`).
* Activity of an inscription in descending order, or after a reorganisation of the
  cursor's block, and activity in a block by more than one beyond a page, lose results
  (`activity_by_inscription.rs:235`, `:205`; `inscription_activity_by_block.rs:147`).
* A balance history (`historical_satoshi_balance_by_address.rs`) loses a change in the first block
  of a following page (301), a change in block `to` in descending order (595) or as first change
  (730), and in descending order lists blocks above the tip (587).

Smaller observations: nobody reads the Redis key `tikv-gc-safepoint`
(`worker.rs:100-103`); `large_forced_rollback` is `unimplemented!()` while
`docs/design.md:279-280` documents `rollback <height>`; a worker that could not reach MGM
at bootstrap never tries again; `order` is parsed and ignored by the holders and list
endpoints; halving the scan size could reach 0 for a single pair above the message limit.

## Assumptions of the models

* `SplitCommit`: one writer per instance, one payload in a work unit, at most `MaxFaults`
  crashes and failures, `BufferSize > 1`.
* `MempoolRefresh`: a failed split commit has committed any subset of its keys; a view is
  given as its merged actions.
* `SourceStage`: the two queues between the stages are one; a poll of the source is one
  step; storing a payload is one step (its inside is `SplitCommit`); `PageSize < BufferSize`.
* `ChainSync`: the node's height does not shrink; a locator is the set of its blocks, in
  the order of their heights; other branches that the node lists are heights and are never
  adopted; the queue and the unsent units of the
  pull stage are one queue; log entries are streamed one at a time; a reader keeps all
  it would need for a rollback.
* `SnapshotReads`: one network; the limit of 100 entries of a range read is not reached;
  a view determines its number of mempool blocks.
* `Ledger`, `Indexer`, `MempoolView`: blocks are valid; a transaction is its own identifier
  and a script its own hash; inscriptions and runestones come deciphered from ord; the
  genesis rune, self-mint tickers and sat ranges are left out; compressor and polyphony
  take a block in one step; transactions have the same size; no UTxO is missing; templates
  are for a tip that the ledger had.
* `MempoolFetch`: timestamps are only compared for equality; the MGM template's age is old
  or not.
* `Paging`, `BalanceHistory`: each page is read from one snapshot; the view is dropped when
  a block comes; block timestamps increase; `from <= to`; `mempool_blocks_limit` is left out.

## Not modelled

The emulated source (a generator for development), the endpoints that read one key or add
up one range and the formatting of responses (a read and a conversion), `daw` (one-shot
commands), metrics, console, configuration and transport (plain I/O), and the bytes of the
encodings of timbre, of which the models use that they are injective and keep order.
