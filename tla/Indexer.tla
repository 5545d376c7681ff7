------------------------------- MODULE Indexer -------------------------------
(***************************************************************************)
(* The reducers and the storage of polyphony above the ledger of the       *)
(* compressor: a block, or the blocks of a mempool view, go through every  *)
(* enabled reducer, the storage actions are merged per key and executed on *)
(* the index, and their inverses are kept for the undo.  How the refresh   *)
(* of a view that is there is made by difference is the subject of         *)
(* MempoolRefresh, how the commits are split that of SplitCommit; here     *)
(* each payload is one step.                                               *)
(***************************************************************************)
EXTENDS MempoolBlocks, RuneReducers, InscriptionReducers

CONSTANTS
  Time(_)     \* the time of the block at a height

VARIABLES
  index,      \* the keys of the reducers in TiKV
  kept,       \* the inverses in the rollback buffer, per block
  view,       \* the mempool view in the index, with its inverses, or None
  booted,     \* the process has reported the genesis rune
  broken,     \* keys and actions that were not what the storage relies on
  views, restarts

allVars == <<traffic, chain, db, undo, mem, retry, past, undone, faults,
             index, kept, view, booted, broken, views, restarts>>

-----------------------------------------------------------------------------
(* Contexts *)

Context(txs, height, s, block, boot) ==
  [height |-> height, txs |-> txs, block |-> block, time |-> Time(height), utxos |-> s.resolver,
   etches |-> s.etches, mints |-> s.mints, brc20 |-> s.log, numbers |-> s.block.numbers,
   boot |-> boot]

BlockContexts(block, s) == <<Context(block, Height, s, TRUE, ~booted)>>

\* All blocks of a view have the time of the view.
ViewContexts(blocks, states) ==
  [i \in DOMAIN blocks |->
     [Context(blocks[i], Height + i - 1, states[i], FALSE, ~booted /\ i = 1)
      EXCEPT !.time = Time(Height)]]

-----------------------------------------------------------------------------
(* Every reducer on every context; some keep a state through the batch *)

Over(cs, R(_), Ops(_)) == FlattenSeq(Each(FlattenSeq(Each(cs, R)), Ops))
OverBatch(cs, R(_), Ops(_)) == FlattenSeq(Each(R(cs), Ops))

SatStorage(r, cs) ==
  CASE r = "UtxosByScriptHash" -> Over(cs, UtxosByScriptHash, UtxosByScriptHashOps)
    [] r = "SatBalanceByScriptHash" -> Over(cs, SatBalanceByScriptHash, SatBalanceByScriptHashOps)
    [] r = "TotalUtxosByScriptHash" -> Over(cs, TotalUtxosByScriptHash, TotalUtxosByScriptHashOps)
    [] r = "TotalTxsByScriptHash" -> Over(cs, TotalTxsByScriptHash, TotalTxsByScriptHashOps)
    [] r = "TotalOutputsByScriptHash" ->
         Over(cs, TotalOutputsByScriptHash, TotalOutputsByScriptHashOps)
    [] r = "TotalSatInInputsByScriptHash" ->
         Over(cs, TotalSatInInputsByScriptHash, TotalSatInInputsByScriptHashOps)
    [] r = "TotalSatInOutputsByScriptHash" ->
         Over(cs, TotalSatInOutputsByScriptHash, TotalSatInOutputsByScriptHashOps)
    [] r = "HistoricalSatBalanceByScriptHash" ->
         Over(cs, HistoricalSatBalanceByScriptHash, HistoricalSatBalanceByScriptHashOps)
    [] r = "TxsByScriptHash" -> Over(cs, TxsByScriptHash, TxsByScriptHashOps)
    [] r = "SatTxsByScriptHash" -> OverBatch(cs, SatTxsByScriptHash, SatTxsByScriptHashOps)
    [] r = "BlockByTxHash" -> Over(cs, BlockByTxHash, BlockByTxHashOps)
    [] r = "HeightByTimestamp" -> Over(cs, HeightByTimestamp, HeightByTimestampOps)
    [] r = "HeightByBlockHash" -> Over(cs, HeightByBlockHash, HeightByBlockHashOps)
    [] r = "TxsByBlock" -> Over(cs, TxsByBlock, TxsByBlockOps)
    [] r = "SpendingTxByTxo" -> Over(cs, SpendingTxByTxo, SpendingTxByTxoOps)
    [] r = "ScriptByScriptHash" -> Over(cs, ScriptByScriptHash, ScriptByScriptHashOps)
    [] r = "ScriptHashByAddressPayloadHash" ->
         Over(cs, ScriptHashByAddressPayloadHash, ScriptHashByAddressPayloadHashOps)
    [] r = "TxFirstSeenTimestamp" -> Over(cs, TxFirstSeenTimestamp, TxFirstSeenTimestampOps)
    [] r = "SatsPerVbByBlock" -> Over(cs, SatsPerVbByBlock, SatsPerVbByBlockOps)
    [] r = "BlockInfo" -> Over(cs, BlockInfo, BlockInfoOps)
    [] r = "TxInfo" -> Over(cs, TxInfo, TxInfoOps)
    [] OTHER -> <<>>

RuneStorage(r, cs) ==
  CASE r = "MintsByRuneId" -> Over(cs, MintsByRuneId, MintsByRuneIdOps)
    [] r = "RuneIdByRuneName" -> Over(cs, RuneIdByRuneName, RuneIdByRuneNameOps)
    [] r = "EtchingByRuneId" -> Over(cs, EtchingByRuneId, EtchingByRuneIdOps)
    [] r = "BalancesByRuneId" -> Over(cs, BalancesByRuneId, BalancesByRuneIdOps)
    [] r = "RuneUtxosByScriptHash" -> Over(cs, RuneUtxosByScriptHash, RuneUtxosByScriptHashOps)
    [] r = "UtxosByRuneId" -> Over(cs, UtxosByRuneId, UtxosByRuneIdOps)
    [] r = "RuneTxsByScriptHash" -> OverBatch(cs, RuneTxsByScriptHash, RuneTxsByScriptHashOps)
    [] r = "TxsByRuneId" -> Over(cs, TxsByRuneId, TxsByRuneIdOps)
    [] OTHER -> <<>>

InscriptionStorage(r, cs) ==
  CASE r = "ContentByInscriptionId" -> Over(cs, ContentByInscriptionId, ContentByInscriptionIdOps)
    [] r = "TotalInscriptionsByScriptHash" ->
         Over(cs, TotalInscriptionsByScriptHash, TotalInscriptionsByScriptHashOps)
    [] r = "InscriptionUtxosByScriptHash" ->
         Over(cs, InscriptionUtxosByScriptHash, InscriptionUtxosByScriptHashOps)
    [] r = "InscriptionActivityByTx" ->
         Over(cs, InscriptionActivityByTx, InscriptionActivityByTxOps)
    [] r = "InscriptionActivityByTxV2" ->
         Over(cs, InscriptionActivityByTxV2, InscriptionActivityByTxV2Ops)
    [] r = "TxsByInscription" -> Over(cs, TxsByInscription, TxsByInscriptionOps)
    [] r = "InscriptionActivityByScriptHash" ->
         OverBatch(cs, InscriptionActivityByScriptHash, InscriptionActivityByScriptHashOps)
    [] r = "BalancesByBrc20" -> Over(cs, BalancesByBrc20, BalancesByBrc20Ops)
    [] r = "Brc20BalancesByScriptHash" ->
         Over(cs, Brc20BalancesByScriptHash, Brc20BalancesByScriptHashOps)
    [] r = "TransferInscriptionsByScriptHash" ->
         Over(cs, TransferInscriptionsByScriptHash, TransferInscriptionsByScriptHashOps)
    [] r = "Brc20TermsByTicker" -> Over(cs, Brc20TermsByTicker, Brc20TermsByTickerOps)
    [] OTHER -> <<>>

\* The reducers of the configuration, in order.  The cursor is the last output
\* of every block.
StorageOps(cs) ==
  FlattenSeq(Each(Kind.reducers, LAMBDA r : SatStorage(r, cs) \o RuneStorage(r, cs) \o InscriptionStorage(r, cs)))
  \o Over(cs, Cursor, CursorOps)

-----------------------------------------------------------------------------
(* Storage: the actions on a key are merged, then executed once *)

\* The sum of two signed deltas.
AddDelta(a, b) ==
  LET of(op) == (IF a.op = op THEN a.arg ELSE 0) + (IF b.op = op THEN b.arg ELSE 0)
      more == of("Increment")
      less == of("Decrement")
  IN  IF a.op = b.op THEN Act(a.op, a.arg + b.arg)
      ELSE IF more >= less THEN Increment(more - less) ELSE Decrement(less - more)

MergePoints(p, q) ==
  [h \in DOMAIN p \union DOMAIN q |->
     IF h \in DOMAIN p \cap DOMAIN q THEN AddDelta(p[h], q[h]) ELSE (p @@ q)[h]]

PushOp(m, a) ==
  IF m = NoAction THEN a ELSE IF m = Panic THEN Panic
  ELSE IF a.op = "PointAggregate" THEN Act("PointAggregate", MergePoints(m.arg, a.arg))
  ELSE Merge(m, a)

MergedOps(ops) ==
  [k \in {ops[i][1] : i \in DOMAIN ops} |->
     FoldLeft(LAMBDA m, op : PushOp(m, op[2]), NoAction, SelectSeq(ops, LAMBDA op : op[1] = k))]

ValueAt(k) == IF k \in DOMAIN index THEN index[k] ELSE Absent

\* The points above the latest value, which is under k itself.
PointWrites(k, points) ==
  LET above(w, h) ==
        LET v == IF points[h].op = "Increment" THEN w.latest + points[h].arg
                 ELSE IF w.latest < points[h].arg THEN 0 ELSE w.latest - points[h].arg
        IN  [latest |-> v, writes |-> (Append(k, h) :> SetOnce(v)) @@ w.writes]
      all == FoldLeft(above, [latest |-> IF ValueAt(k) = Absent THEN 0 ELSE ValueAt(k),
                              writes |-> << >>], SetToSortSeq(DOMAIN points, <))
  IN  (k :> Set(all.latest)) @@ all.writes

IsPoints(a) == a \notin {NoAction, Panic} /\ a.op = "PointAggregate"

Expanded(m) ==
  LET points == {k \in DOMAIN m : IsPoints(m[k])}
  IN  FoldSet(LAMBDA k, w : PointWrites(k, m[k].arg) @@ w, Without(m, points) @@ << >>, points)

Plan(cs) == Expanded(MergedOps(StorageOps(cs)))

\* What execute_storage_op relies on, or warns about when it is not so.
Expected(a, v) ==
  /\ a # Panic
  /\ a.op = "SetOnce" => v = Absent
  /\ a.op = "Delete" => v # Absent
  /\ a.op = "SetPermanent" => v \in {Absent, a.arg}
  /\ a.op \in {"Decrement", "DecrementNoDelete"} => v # Absent /\ v >= a.arg

Doing(plan) == {k \in DOMAIN plan : plan[k] # NoAction}

Stored(writes) ==
  Without(writes @@ index, {k \in DOMAIN writes : writes[k] = Absent})

Execute(plan) ==
  /\ index' = Stored([k \in {j \in Doing(plan) : plan[j] # Panic} |-> Exec(plan[k], ValueAt(k))])
  /\ broken' = {<<k, plan[k]>> : k \in {j \in Doing(plan) : ~ Expected(plan[j], ValueAt(j))}}

Inverses(plan) ==
  [k \in {j \in Doing(plan) : plan[j] # Panic /\ LeavesInverse(plan[j], ValueAt(j))} |->
     Overwritten(plan[k], ValueAt(k))]

Restored(idx, inverses) ==
  Without(inverses @@ idx, {k \in DOMAIN inverses : inverses[k] = Absent})

-----------------------------------------------------------------------------
(* Actions *)

\* A block goes through the compressor and then through polyphony.
Forward ==
  /\ view = None /\ Height <= Kind.height
  /\ \E block \in NewBlocks :
       \E s \in {ResolveAndProcess(block, Height, Fetched(block))} :
         \E plan \in {Plan(BlockContexts(block, s))} :
           /\ Apply(block, s)
           /\ Execute(plan)
           /\ kept' = Append(kept, Inverses(plan))
  /\ booted' = TRUE
  /\ UNCHANGED <<view, views, restarts>>

\* Bound: no view above the last block.
Refresh ==
  /\ view = None /\ Height <= Kind.height
  /\ views < Kind.views
  /\ views' = views + 1
  /\ \E blocks \in Views :
       \E states \in {MempoolStates(blocks, Start(db.txos))} :
         \E plan \in {Plan(ViewContexts(blocks, states))} :
           /\ Execute(plan)
           /\ view' = [blocks |-> blocks, world |-> states[Len(states)],
                       inverses |-> Inverses(plan)]
  /\ booted' = TRUE
  /\ UNCHANGED <<vars, kept, restarts>>

\* Back to the block at height h, below the mempool view if there is one.
RollBack(h) ==
  /\ h = Len(chain) => view # None
  /\ Rollback(h)
  /\ index' = FoldLeft(LAMBDA idx, i : Restored(idx, kept[i]),
                       IF view = None THEN index ELSE Restored(index, view.inverses),
                       Reverse([k \in 1 .. Len(chain) - h |-> h + k]))
  /\ kept' = SubSeq(kept, 1, h)
  /\ view' = None
  /\ broken' = {}
  /\ UNCHANGED <<booted, views, restarts>>

\* polyphony starts again.
Reboot ==
  /\ booted /\ view = None /\ restarts < Kind.restarts
  /\ booted' = FALSE
  /\ restarts' = restarts + 1
  /\ UNCHANGED <<vars, index, kept, view, broken, views>>

IndexerInit ==
  /\ Init
  /\ index = << >> /\ kept = <<>> /\ view = None
  /\ booted = FALSE /\ broken = {} /\ views = 0 /\ restarts = 0

IndexerNext ==
  /\ \/ Forward
     \/ Refresh
     \/ \E h \in 1 .. Len(chain) : RollBack(h)
     \/ Reboot
  /\ UNCHANGED traffic

IndexerSpec == IndexerInit /\ [][IndexerNext]_allVars

-----------------------------------------------------------------------------
(* What the index says, and what the chain and the view say *)

ViewTxs == IF view = None THEN <<>> ELSE FlattenSeq(view.blocks)
SeenTxs == ToSet(FlattenSeq(chain) \o ViewTxs)
SeenIns == UNION {ToSet(tx.ins) : tx \in SeenTxs}
SeenOuts == UNION {OutRefs(tx) : tx \in SeenTxs}

\* The unspent outputs and the tables, below the view or in it.
Txos == IF view = None THEN db.txos ELSE Without(view.world.resolver @@ db.txos, SeenIns)
RuneTables == IF view = None THEN db.runes ELSE view.world.runes
Brc20Tables == IF view = None THEN db.insc.brc ELSE view.world.insc.brc

OutOf(ref) == ref[1].outs[ref[2]]
Runs(r) == r \in ToSet(Kind.reducers)
Count(k) == IF ValueAt(k) = Absent THEN 0 ELSE ValueAt(k)
KeysOf(r) == {k \in DOMAIN index : k[1] = r}
Owned(S, s) == {ref \in S : OutOf(ref).script = s}
SatsIn(S, s) == SumOver(Owned(S, s), LAMBDA ref : OutOf(ref).value)

\* Every storage action meets the value that its reducer counts on, and no two
\* actions of a batch are impossible to merge: an output is set once and deleted
\* once, a counter never falls below zero, a permanent value does not change.
\* The one action that may miss its key takes nothing away: when a script has only
\* outputs without sats, its balance is not kept, and their spending is a decrement
\* by zero of a missing key, which execute_storage_op warns of and ignores.
Promised == broken \subseteq {<< <<"SatBalanceByScriptHash", s>>, Decrement(0)>> : s \in Scripts}

KeysFor(txos) ==
  {<<"UtxosByScriptHash", txos[ref].script, txos[ref].height, ref>> : ref \in DOMAIN txos}

\* The indexes by owner say what the chain and the mempool view say, through
\* rollbacks and views that come and go: the unspent outputs, the balance, the
\* totals of outputs, of sats and of transactions.
SatIndexExact == Runs("UtxosByScriptHash") =>
  /\ KeysOf("UtxosByScriptHash") = KeysFor(Txos)
  /\ \A s \in Scripts :
       /\ Count(<<"SatBalanceByScriptHash", s>>) = SatsIn(SeenOuts \ SeenIns, s)
       /\ Count(<<"TotalUtxosByScriptHash", s>>) = Cardinality(Owned(SeenOuts \ SeenIns, s))
       /\ Count(<<"TotalOutputsByScriptHash", s>>) = Cardinality(Owned(SeenOuts, s))
       /\ Count(<<"TotalSatInInputsByScriptHash", s>>) = SatsIn(SeenIns, s)
       /\ Count(<<"TotalSatInOutputsByScriptHash", s>>) = SatsIn(SeenOuts, s)
       /\ Count(<<"TotalTxsByScriptHash", s>>) =
            Cardinality({tx \in SeenTxs : Owned(ToSet(tx.ins) \union OutRefs(tx), s) # {}})

UpTo(h) == ToSet(FlattenSeq(SubSeq(chain, 1, h)))
BalanceAt(s, h) ==
  SatsIn(UNION {OutRefs(tx) : tx \in UpTo(h)} \ UNION {ToSet(tx.ins) : tx \in UpTo(h)}, s)

\* The balance at a past height, read from the latest point at or below it, is
\* what the script owned then, whatever was undone and applied since.
PointsExact == Runs("HistoricalSatBalanceByScriptHash") =>
  \A s \in Scripts, h \in DOMAIN chain :
    LET points == {g \in 1 .. h : <<"HistoricalSatBalanceByScriptHash", s, g>> \in DOMAIN index}
    IN  BalanceAt(s, h) =
          IF points = {} THEN 0 ELSE index[<<"HistoricalSatBalanceByScriptHash", s, Max(points)>>]

SatEntries(s) == {k \in KeysOf("SatTxsByScriptHash") : k[2] = s}
Signed(v) == IF v.type = "increased" THEN v.amount ELSE IF v.type = "decreased" THEN 0 - v.amount ELSE 0

\* The sat activity of a script adds up to its balance, and the entries of a
\* view have indexes of their own although it has several blocks.
SatActivityExact == Runs("SatTxsByScriptHash") =>
  \A s \in Scripts \ {OpReturn} :
    /\ SumOver(SatEntries(s), LAMBDA k : Signed(index[k])) = Count(<<"SatBalanceByScriptHash", s>>)
    /\ \A j, k \in SatEntries(s) :
         j # k /\ (j[3] = k[3] \/ {j[3], k[3]} \subseteq {Height, Height + 1}) => j[4] # k[4]

\* The block found by a time is the first of the chain with that time, and the
\* cursor is at the last block of the chain or of the view.
LookupsExact == Runs("HeightByTimestamp") =>
  /\ \A h \in DOMAIN chain :
       ValueAt(<<"HeightByTimestamp", Time(h)>>) =
         [height |-> Min({g \in DOMAIN chain : Time(g) = Time(h)})]
  /\ KeysOf("BlockByTxHash") = {<<"BlockByTxHash", tx>> : tx \in SeenTxs}
  /\ KeysOf("SpendingTxByTxo") = {<<"SpendingTxByTxo", ref>> : ref \in SeenIns}
  /\ chain # <<>> =>
       index[<<"cursor">>] = [height |-> Len(chain) + IF view = None THEN 0 ELSE Len(view.blocks),
                              mempool |-> view # None]

\* A script once seen can be looked up for ever, and the time at which a
\* transaction was first seen never changes, whatever is undone.
PermanentKept ==
  [][\A k \in KeysOf("TxFirstSeenTimestamp") \union KeysOf("ScriptByScriptHash") :
       k \in DOMAIN index' /\ index'[k] = index[k]]_allVars

-----------------------------------------------------------------------------
(* Runes *)

\* Every rune of every unspent output.
HoldingsIn(txos) ==
  UNION {{[ref |-> ref, id |-> id, body |-> txos[ref]] :
            id \in {i \in RuneIds : txos[ref].runes[i] # 0}} : ref \in DOMAIN txos}

HoldingsIndexed(held) ==
  /\ KeysOf("UtxosByRuneId") = {<<"UtxosByRuneId", x.id, x.body.height, x.ref>> : x \in held}
  /\ KeysOf("RuneUtxosByScriptHash") =
       {<<"RuneUtxosByScriptHash", x.body.script, x.body.height, x.ref>> : x \in held}
  /\ \A s \in Scripts, id \in RuneIds :
       Count(<<"BalancesByRuneId", id, s>>) =
         SumOver({x \in held : x.id = id /\ x.body.script = s}, LAMBDA x : x.body.runes[id])

\* The rune indexes say what the outputs and the rune tables of the compressor
\* say: who holds how much in which output, which names are taken, how often was
\* minted.  The genesis rune is there once a block or a view was indexed, and
\* stays there when it is undone.
RuneIndexExact == Runs("UtxosByRuneId") =>
  /\ HoldingsIndexed(HoldingsIn(Txos))
  /\ \A id \in RuneIds : Count(<<"MintsByRuneId", id>>) = RuneTables.mints[id]
  /\ \A n \in DOMAIN RuneTables.names :
       ValueAt(<<"RuneIdByRuneName", n>>) = [rune |-> RuneTables.names[n]]
  /\ {k[2] : k \in KeysOf("RuneIdByRuneName")} \ {GenesisName} = DOMAIN RuneTables.names
  /\ {k[2] : k \in KeysOf("EtchingByRuneId")} \ {GenesisRune} = DOMAIN RuneTables.terms
  /\ booted => <<"RuneIdByRuneName", GenesisName>> \in DOMAIN index

RuneEntries(s) == {k \in KeysOf("RuneTxsByScriptHash") : k[2] = s}

\* The runes that an entry of the activity of a script, or of a rune, names.
Told(k) == LET a == index[k].activity
           IN  DOMAIN a.self \union DOMAIN a.less \union DOMAIN a.more
Amount(f, x) == IF x \in DOMAIN f THEN f[x] ELSE 0

\* The activity by script and the activity by rune tell the same of a transaction:
\* the same amounts kept, sent and received by a script.  The entries of a view
\* have indexes of their own although it has several blocks.
RuneActivitiesAgree == Runs("TxsByRuneId") =>
  /\ \A k \in KeysOf("RuneTxsByScriptHash") : \A id \in Told(k) :
       \E j \in KeysOf("TxsByRuneId") :
         /\ j[2] = id /\ j[3] = k[3] /\ j[5] = k[5]
         /\ \A kind \in {"self", "less", "more"} :
              Amount(index[k].activity[kind], id) = Amount(index[j].activity[kind], k[2])
  /\ \A j \in KeysOf("TxsByRuneId") : \A s \in Told(j) \ {OpReturn} :
       \E k \in RuneEntries(s) : k[5] = j[5] /\ j[2] \in Told(k)
  /\ \A s \in Scripts : \A j, k \in RuneEntries(s) :
       j # k /\ (j[3] = k[3] \/ {j[3], k[3]} \subseteq {Height, Height + 1}) => j[4] # k[4]

\* The rune activity of a script adds up to its balance: increased_balances is the
\* "Increased runes balance after the tx", decreased_balances the decreased one.
RuneActivityExact ==
  \A s \in Scripts \ {OpReturn}, id \in RuneIds :
    SumOver(RuneEntries(s), LAMBDA k : Amount(index[k].activity.more, id))
      = Count(<<"BalancesByRuneId", id, s>>)
        + SumOver(RuneEntries(s), LAMBDA k : Amount(index[k].activity.less, id))

-----------------------------------------------------------------------------
(* Inscriptions and BRC-20 *)

InscriptionTables == IF view = None THEN db.insc ELSE view.world.insc

\* The inscription indexes say what the outputs and the counters of the compressor
\* say: which outputs have inscriptions, how many a script has, and the numbers,
\* one for each inscription without a gap, through rollbacks and views.
InscriptionIndexExact == Runs("ContentByInscriptionId") =>
  LET txos == Txos
      with == {ref \in DOMAIN txos : txos[ref].insc # <<>>}
      contents == KeysOf("ContentByInscriptionId")
  IN  /\ KeysOf("InscriptionUtxosByScriptHash") =
           {<<"InscriptionUtxosByScriptHash", txos[ref].script, txos[ref].height, ref>> : ref \in with}
      /\ \A s \in Scripts :
           Count(<<"TotalInscriptionsByScriptHash", s>>) =
             SumOver({ref \in with : txos[ref].script = s}, LAMBDA ref : Len(txos[ref].insc))
      /\ {index[k].number : k \in contents} = 0 .. InscriptionTables.counters.next - 1
      /\ Cardinality(contents) = InscriptionTables.counters.next

\* A list of activity is found under its pointers: entry n of transaction i of
\* TxsByInscription is the entry of that inscription in InscriptionActivityByTxV2,
\* and every entry there has its pointer.
ActivityAligned == Runs("TxsByInscription") =>
  /\ \A k \in KeysOf("TxsByInscription") : \A id \in DOMAIN index[k] : \A p \in ToSet(index[k][id]) :
       LET list == <<"InscriptionActivityByTxV2", k[3], p[1]>>
       IN  /\ list \in DOMAIN index
           /\ p[2] + 1 \in DOMAIN index[list].activity
           /\ index[list].activity[p[2] + 1].id = id
  /\ \A k \in KeysOf("InscriptionActivityByTxV2") : \A n \in DOMAIN index[k].activity :
       LET id == index[k].activity[n].id
           bucket == <<"TxsByInscription", Bucket(id[1]), k[2]>>
       IN  /\ bucket \in DOMAIN index
           /\ id \in DOMAIN index[bucket]
           /\ <<k[3], n - 1>> \in ToSet(index[bucket][id])

OwnerEntries(s) == {k \in KeysOf("InscriptionActivityByScriptHash") : k[2] = s}

\* What a script received and did not send is what it has, and the entries of a
\* view have indexes of their own although it has several blocks.
OwnerActivityExact == Runs("InscriptionActivityByScriptHash") =>
  \A s \in Scripts \ {OpReturn} :
    /\ SumOver(OwnerEntries(s), LAMBDA k : Cardinality(DOMAIN index[k].received))
         = Count(<<"TotalInscriptionsByScriptHash", s>>)
           + SumOver(OwnerEntries(s), LAMBDA k : Cardinality(DOMAIN index[k].sent))
    /\ \A j, k \in OwnerEntries(s) :
         j # k /\ (j[3] = k[3] \/ {j[3], k[3]} \subseteq {Height, Height + 1}) => j[4] # k[4]

\* The activity of the indexes adds up to their balances, and their lists of
\* activity agree with one another, through rollbacks and views of several blocks.
ActivityExact ==
  SatActivityExact /\ RuneActivitiesAgree /\ ActivityAligned /\ OwnerActivityExact

\* The transfers that wait in unspent outputs.
WaitingIn(txos) ==
  UNION {{[id |-> id, script |-> txos[ref].script, tick |-> txos[ref].unused[id].tick,
           amt |-> txos[ref].unused[id].amt] : id \in DOMAIN txos[ref].unused} : ref \in DOMAIN txos}

Brc20Indexed(waiting) ==
  /\ KeysOf("TransferInscriptionsByScriptHash") =
       {<<"TransferInscriptionsByScriptHash", w.script, w.tick, w.id>> : w \in waiting}
  /\ \A s \in Scripts, k \in AllTicks :
       LET total == SumOver({w \in waiting : w.script = s /\ w.tick = k}, LAMBDA w : w.amt)
                    + Brc20Tables.bal[<<k, s>>]
       IN  /\ Count(<<"Brc20AvailableByScriptHash", s, k>>) = Brc20Tables.bal[<<k, s>>]
           /\ Count(<<"Brc20TotalByScriptHash", s, k>>) = total
           /\ Count(<<"BalancesByBrc20", k, s>>) = total

\* The BRC-20 indexes agree with the tables of the compressor and with one
\* another: available is its balance, the total is this with the transfers that
\* wait in the outputs of the script, which are listed one by one.
Brc20Agrees == Runs("BalancesByBrc20") =>
  /\ Brc20Indexed(WaitingIn(Txos))
  /\ {k[2] : k \in KeysOf("Brc20TermsByTicker")} = DOMAIN Brc20Tables.terms
  /\ \A k \in DOMAIN Brc20Tables.terms :
       ValueAt(<<"Brc20TermsByTicker", k>>) = Brc20Tables.terms[k]
=============================================================================
