----------------------------- MODULE SatReducers -----------------------------
(***************************************************************************)
(* The reducers of polyphony about blocks, transactions, outputs and sats, *)
(* and what the storage stage makes of their outputs.  A reducer maps the  *)
(* context c of a block to a sequence of outputs; XOps turns one output    *)
(* into the storage actions on its keys, as <<key, action>>.               *)
(*                                                                         *)
(* c.txs are the transactions, c.utxos the outputs that they spend and     *)
(* make (BlockContext), c.block says that the block is of the chain (it    *)
(* has a hash and a time) and not estimated from the mempool.  A coinbase  *)
(* has no inputs here, so that no reducer has to skip its dummy one.  A    *)
(* script is its own hash; HashMap order is any order.                     *)
(***************************************************************************)
EXTENDS Transactions, StorageActions

CONSTANTS
  VSize           \* size of every transaction, in virtual bytes

Each(s, F(_)) == [i \in DOMAIN s |-> F(s[i])]

PerTx(c, F(_)) == FlattenSeq(Each(c.txs, F))

OutsOf(tx) == [v \in DOMAIN tx.outs |-> <<tx, v>>]

InScripts(c, tx) == {c.utxos[ref].script : ref \in ToSet(tx.ins)}
OutScripts(tx) == {tx.outs[v].script : v \in DOMAIN tx.outs}

AllIns(c) == UNION {ToSet(c.txs[i].ins) : i \in DOMAIN c.txs}
AllOuts(c) == UNION {OutRefs(c.txs[i]) : i \in DOMAIN c.txs}

\* The sats of these outputs that a script owns.
SatsOf(c, refs, script) ==
  FoldSet(LAMBDA ref, n : n + IF c.utxos[ref].script = script THEN c.utxos[ref].value ELSE 0,
          0, refs)

Owners(c, refs) == {c.utxos[ref].script : ref \in refs}

-----------------------------------------------------------------------------
(* Outputs by owner *)

\* A mutant: an output is looked for at the height at which it is spent.
UtxoConsumedHere(c, ref) == [script |-> c.utxos[ref].script, height |-> c.height,
                             ref |-> ref, made |-> None]

UtxoConsumed(c, ref) == [script |-> c.utxos[ref].script, height |-> c.utxos[ref].height,
                         ref |-> ref, made |-> None]
UtxoProduced(c, ref, value) == [script |-> c.utxos[ref].script, height |-> c.height,
                                ref |-> ref, made |-> value]

\* UtxoAction: what is produced is set, what is consumed is deleted.
UtxoOp(key, o) == <<key, IF o.made = None THEN Delete ELSE SetOnce(o.made)>>

\* An output that the block makes and spends is not reported.
Unchained(c, refs, chained) == SelectSeq(refs, LAMBDA ref : ref \notin chained)

UtxosByScriptHash(c) ==
  PerTx(c, LAMBDA tx :
    Each(Unchained(c, tx.ins, AllOuts(c)), LAMBDA ref : UtxoConsumed(c, ref))
    \o Each(Unchained(c, OutsOf(tx), AllIns(c)),
            LAMBDA ref : UtxoProduced(c, ref, [sats |-> c.utxos[ref].value])))

UtxosByScriptHashOps(o) ==
  <<UtxoOp(<<"UtxosByScriptHash", o.script, o.height, o.ref>>, o)>>

-----------------------------------------------------------------------------
(* Counters by owner *)

SatBalanceByScriptHash(c) ==
  PerTx(c, LAMBDA tx :
    Each(tx.ins, LAMBDA ref : [script |-> c.utxos[ref].script,
                               delta |-> Decrement(c.utxos[ref].value)])
    \o Each(tx.outs, LAMBDA o : [script |-> o.script, delta |-> Increment(o.value)]))

SatBalanceByScriptHashOps(o) == <<<< <<"SatBalanceByScriptHash", o.script>>, o.delta>>>>

TotalUtxosByScriptHash(c) ==
  PerTx(c, LAMBDA tx :
    Each(tx.ins, LAMBDA ref : [script |-> c.utxos[ref].script, new |-> FALSE])
    \o Each(tx.outs, LAMBDA o : [script |-> o.script, new |-> TRUE]))

TotalUtxosByScriptHashOps(o) ==
  <<<< <<"TotalUtxosByScriptHash", o.script>>, IF o.new THEN Increment(1) ELSE Decrement(1)>>>>

\* A mutant: once for every input and output.
TotalTxsByScriptHashEach(c) ==
  PerTx(c, LAMBDA tx :
    Each(tx.ins, LAMBDA ref : [script |-> c.utxos[ref].script])
    \o Each(tx.outs, LAMBDA o : [script |-> o.script]))

\* Once per transaction, however often the script is in it.
TotalTxsByScriptHash(c) ==
  PerTx(c, LAMBDA tx :
    Each(SetToSeq(InScripts(c, tx) \union OutScripts(tx)), LAMBDA s : [script |-> s]))

TotalTxsByScriptHashOps(o) == <<<< <<"TotalTxsByScriptHash", o.script>>, Increment(1)>>>>

TotalOutputsByScriptHash(c) ==
  Each(SetToSeq(Owners(c, AllOuts(c))),
       LAMBDA s : [script |-> s,
                   new |-> Cardinality({ref \in AllOuts(c) : c.utxos[ref].script = s})])

TotalOutputsByScriptHashOps(o) ==
  <<<< <<"TotalOutputsByScriptHash", o.script>>, Increment(o.new)>>>>

TotalSatInInputsByScriptHash(c) ==
  Each(SetToSeq(Owners(c, AllIns(c))),
       LAMBDA s : [script |-> s, sats |-> SatsOf(c, AllIns(c), s)])

TotalSatInInputsByScriptHashOps(o) ==
  <<<< <<"TotalSatInInputsByScriptHash", o.script>>, Increment(o.sats)>>>>

TotalSatInOutputsByScriptHash(c) ==
  Each(SetToSeq(Owners(c, AllOuts(c))),
       LAMBDA s : [script |-> s, sats |-> SatsOf(c, AllOuts(c), s)])

TotalSatInOutputsByScriptHashOps(o) ==
  <<<< <<"TotalSatInOutputsByScriptHash", o.script>>, Increment(o.sats)>>>>

\* A mutant: a balance that falls is reported as if it rose.
NetDeltaUnsigned(more, less) ==
  IF more > less THEN Increment(more - less) ELSE Increment(less - more)

NetDelta(more, less) ==
  IF more > less THEN Increment(more - less) ELSE Decrement(less - more)

\* One delta per script and block, none when what it got and gave are equal.
HistoricalSatBalanceByScriptHash(c) ==
  LET got(s) == SatsOf(c, AllOuts(c), s)
      gave(s) == SatsOf(c, AllIns(c), s)
      both == Owners(c, AllOuts(c)) \cap Owners(c, AllIns(c))
      changed == {s \in Owners(c, AllOuts(c)) \union Owners(c, AllIns(c)) :
                    s \in both => got(s) # gave(s)}
  IN  Each(SetToSeq(changed),
           LAMBDA s : [script |-> s, height |-> c.height,
                       delta |-> IF s \in both THEN NetDelta(got(s), gave(s))
                                 ELSE IF s \in Owners(c, AllOuts(c)) THEN Increment(got(s))
                                 ELSE Decrement(gave(s))])

HistoricalSatBalanceByScriptHashOps(o) ==
  <<<< <<"HistoricalSatBalanceByScriptHash", o.script>>,
       Act("PointAggregate", o.height :> o.delta)>>>>

-----------------------------------------------------------------------------
(* Activity by owner *)

\* The number of earlier outputs of the same script.
Rank(outs, i) == Cardinality({j \in 1 .. i - 1 : outs[j].script = outs[i].script})
Ranked(outs) == [i \in DOMAIN outs |-> [index |-> Rank(outs, i), out |-> outs[i]]]

\* The index of a transaction among those of the script starts at 0 in every block.
TxsByScriptHash(c) ==
  Ranked(PerTx(c, LAMBDA tx :
    Each(SetToSeq(InScripts(c, tx) \union OutScripts(tx)),
         LAMBDA s : [script |-> s, height |-> c.height, tx |-> tx,
                     input |-> s \in InScripts(c, tx), output |-> s \in OutScripts(tx)])))

TxsByScriptHashOps(o) ==
  <<<< <<"TxsByScriptHash", o.out.script, o.out.height, o.index, o.out.tx>>,
       SetOnce([input |-> o.out.input, output |-> o.out.output])>>>>

\* Is the balance larger, smaller or, moved to oneself, the same.
SatActivity(c, tx, s, got, gave) ==
  IF got > gave \/ s \notin InScripts(c, tx) THEN [type |-> "increased", amount |-> got - gave]
  ELSE IF got < gave \/ s \notin OutScripts(tx) THEN [type |-> "decreased", amount |-> gave - got]
  ELSE [type |-> "self", amount |-> got]

SatActivities(c) ==
  PerTx(c, LAMBDA tx :
    Each(SetToSeq(InScripts(c, tx) \union (OutScripts(tx) \ {OpReturn})),
         LAMBDA s : [script |-> s, height |-> c.height, tx |-> tx,
                     value |-> SatActivity(c, tx, s, SatsOf(c, OutRefs(tx), s),
                                           SatsOf(c, ToSet(tx.ins), s))]))

\* activity_indexes run through a batch of mempool blocks.
SatTxsByScriptHash(cs) == Ranked(FlattenSeq(Each(cs, SatActivities)))

SatTxsByScriptHashOps(o) ==
  <<<< <<"SatTxsByScriptHash", o.out.script, o.out.height, o.index, o.out.tx>>,
       SetOnce(o.out.value)>>>>

-----------------------------------------------------------------------------
(* Blocks and transactions *)

BlockByTxHash(c) == Each(c.txs, LAMBDA tx : [tx |-> tx, height |-> c.height])

BlockByTxHashOps(o) == <<<< <<"BlockByTxHash", o.tx>>, SetOnce([height |-> o.height])>>>>

HeightByTimestamp(c) == IF c.block THEN <<[time |-> c.time, height |-> c.height]>> ELSE <<>>

\* A mutant: the last block with a time is the one that is found.
HeightByTimestampOpsLast(o) == <<<< <<"HeightByTimestamp", o.time>>, Set([height |-> o.height])>>>>

HeightByTimestampOps(o) == <<<< <<"HeightByTimestamp", o.time>>, Insert([height |-> o.height])>>>>

HeightByBlockHash(c) == IF c.block THEN <<[hash |-> c.txs, height |-> c.height]>> ELSE <<>>

HeightByBlockHashOps(o) ==
  <<<< <<"HeightByBlockHash", o.hash>>, SetOnce([height |-> o.height])>>>>

TxsByBlock(c) == <<[height |-> c.height, txs |-> c.txs]>>

TxsByBlockOps(o) == <<<< <<"TxsByBlock", o.height>>, SetOnce([txs |-> o.txs])>>>>

SpendingTxByTxo(c) == PerTx(c, LAMBDA tx : Each(tx.ins, LAMBDA ref : [ref |-> ref, tx |-> tx]))

SpendingTxByTxoOps(o) == <<<< <<"SpendingTxByTxo", o.ref>>, SetOnce([tx |-> o.tx])>>>>

ScriptByScriptHash(c) ==
  PerTx(c, LAMBDA tx :
    Each(tx.ins, LAMBDA ref : [script |-> c.utxos[ref].script])
    \o Each(tx.outs, LAMBDA o : [script |-> o.script]))

ScriptByScriptHashOps(o) ==
  <<<< <<"ScriptByScriptHash", o.script>>, SetPermanent([script |-> o.script])>>>>

\* The outputs whose script is that of an address.
ScriptHashByAddressPayloadHash(c) ==
  PerTx(c, LAMBDA tx :
    Each(SelectSeq(tx.outs, LAMBDA o : o.script # OpReturn), LAMBDA o : [script |-> o.script]))

ScriptHashByAddressPayloadHashOps(o) ==
  <<<< <<"ScriptHashByAddressPayloadHash", o.script>>, SetPermanent([script |-> o.script])>>>>

\* The time of the view of the mempool, or of the block when it was in none.
TxFirstSeenTimestamp(c) == Each(c.txs, LAMBDA tx : [tx |-> tx, time |-> c.time])

\* A mutant: the time goes with the block or the view.
TxFirstSeenTimestampOpsUndone(o) ==
  <<<< <<"TxFirstSeenTimestamp", o.tx>>, Insert([time |-> o.time])>>>>

TxFirstSeenTimestampOps(o) ==
  <<<< <<"TxFirstSeenTimestamp", o.tx>>, InsertPermanent([time |-> o.time])>>>>

Fee(c, tx) ==
  LET paid == InputValue(tx, c.utxos)
  IN  IF paid < OutputValue(tx) THEN 0 ELSE paid - OutputValue(tx)

SatsPerVb(c, tx) == (Fee(c, tx) + VSize - 1) \div VSize

SatsPerVbByBlock(c) ==
  LET spending == SelectSeq(c.txs, LAMBDA tx : tx.ins # <<>>)
      rates == SortSeq(Each(spending, LAMBDA tx : SatsPerVb(c, tx)), <)
      at(i) == IF rates = <<>> THEN 0 ELSE rates[i]
  IN  <<[height |-> c.height, min |-> at(1), median |-> at(Len(rates) \div 2 + 1),
         max |-> at(Len(rates))]>>

SatsPerVbByBlockOps(o) ==
  <<<< <<"SatsPerVbByBlock", o.height>>,
       SetOnce([min |-> o.min, median |-> o.median, max |-> o.max])>>>>

InsOrOuts(c) == AllIns(c) \union AllOuts(c)
HoldsRunes(c, ref) == \E id \in DOMAIN c.utxos[ref].runes : c.utxos[ref].runes[id] # 0
HoldsInscriptions(c, ref) == c.utxos[ref].insc # <<>>

SumTxs(c, F(_)) == FoldLeft(LAMBDA n, tx : n + F(tx), 0, c.txs)

BlockInfo(c) ==
  <<[height |-> c.height, hash |-> IF c.block THEN c.txs ELSE None,
     time |-> IF c.block THEN c.time ELSE None,
     fees |-> SumTxs(c, LAMBDA tx : Fee(c, tx)),
     volume |-> SumTxs(c, OutputValue), txs |-> Len(c.txs),
     inscriptions |-> \E ref \in InsOrOuts(c) : HoldsInscriptions(c, ref),
     runes |-> \E ref \in InsOrOuts(c) : HoldsRunes(c, ref),
     brc20 |-> c.brc20 # <<>> /\ InsOrOuts(c) # {}]>>

BlockInfoOps(o) == <<<< <<"BlockInfo", o.height>>, SetOnce(o)>>>>

\* What an output holds, as it is shown with a transaction.
Held(c, ref) == [script |-> c.utxos[ref].script, sats |-> c.utxos[ref].value,
                 insc |-> c.utxos[ref].insc, runes |-> c.utxos[ref].runes]

RunestoneActs(tx) ==
  /\ tx.art # None /\ ~tx.art.cenotaph
  /\ tx.art.edicts # <<>> \/ tx.art.etch # None \/ tx.art.mint # None

TouchesBrc20(c, ref) ==
  \E k \in DOMAIN c.utxos[ref].insc, e \in ToSet(c.brc20) : e[1] = c.utxos[ref].insc[k][2]

TxInfo(c) ==
  Each(c.txs, LAMBDA tx :
    LET refs == ToSet(tx.ins) \union OutRefs(tx) IN
    [tx |-> tx, height |-> c.height, hash |-> IF c.block THEN c.txs ELSE None,
     time |-> IF c.block THEN c.time ELSE None,
     volume |-> OutputValue(tx), fees |-> Fee(c, tx), rate |-> SatsPerVb(c, tx),
     inscriptions |-> \E ref \in refs : HoldsInscriptions(c, ref),
     runes |-> RunestoneActs(tx) \/ \E ref \in refs : HoldsRunes(c, ref),
     brc20 |-> \E ref \in refs : TouchesBrc20(c, ref),
     ins |-> Each(tx.ins, LAMBDA ref : <<ref, Held(c, ref)>>),
     outs |-> Each(OutsOf(tx), LAMBDA ref : Held(c, ref))])

TxInfoOps(o) == <<<< <<"TxInfo", o.tx>>, SetOnce(o)>>>>

\* The last output of every block; info is the same value under another key.
Cursor(c) == <<[height |-> c.height, mempool |-> ~c.block]>>

CursorOps(o) == <<<< <<"cursor">>, Set(o)>>, << <<"info">>, Set(o)>>>>
=============================================================================
