---------------------------- MODULE RuneReducers ----------------------------
(***************************************************************************)
(* The reducers of polyphony about runes, in the form of SatReducers.      *)
(* c.etches and c.mints are the indexes of the transactions whose etching  *)
(* or mint the compressor found valid, c.boot says that this process has   *)
(* not reported the genesis rune yet.                                      *)
(***************************************************************************)
EXTENDS SatReducers

CONSTANTS
  GenesisName     \* the rune that exists without an etching, UNCOMMON GOODS

GenesisRune == <<1, 0>>

\* The transactions at these indexes of the block, which count from 0.
AtIndexes(c, idxs) == SelectSeq([i \in DOMAIN c.txs |-> i], LAMBDA i : i - 1 \in idxs)

RunesIn(c, ref) == {id \in DOMAIN c.utxos[ref].runes : c.utxos[ref].runes[id] # 0}

RunesOfOuts(c, ref) ==
  Each(SetToSeq(RunesIn(c, ref)), LAMBDA id : <<id, c.utxos[ref].runes[id]>>)

-----------------------------------------------------------------------------
(* Etchings and mints *)

MintsByRuneId(c) == Each(AtIndexes(c, c.mints), LAMBDA i : [rune |-> c.txs[i].art.mint])

MintsByRuneIdOps(o) == <<<< <<"MintsByRuneId", o.rune>>, Increment(1)>>>>

ReservedOr(name, id) == IF name = None THEN <<"reserved", id>> ELSE name

RuneIdByRuneName(c) ==
  (IF c.boot THEN <<[name |-> GenesisName, rune |-> GenesisRune, boot |-> TRUE]>> ELSE <<>>)
  \o Each(AtIndexes(c, c.etches),
          LAMBDA i : [name |-> ReservedOr(c.txs[i].art.etch.rune, <<c.height, i - 1>>),
                      rune |-> <<c.height, i - 1>>, boot |-> FALSE])

\* The genesis rune is never undone; it is set again by every process.
BootOr(boot, v) == IF boot THEN SetPermanent(v) ELSE SetOnce(v)

RuneIdByRuneNameOps(o) ==
  <<<< <<"RuneIdByRuneName", o.name>>, BootOr(o.boot, [rune |-> o.rune])>>>>

\* A cenotaph etches a rune without premine and without terms.
EtchingInfo(art) ==
  [name |-> art.etch.rune,
   premine |-> IF art.cenotaph THEN 0 ELSE art.etch.premine,
   terms |-> IF art.cenotaph THEN None ELSE art.etch.terms]

EtchingByRuneId(c) ==
  (IF c.boot
   THEN <<[rune |-> GenesisRune, tx |-> None, cenotaph |-> FALSE, boot |-> TRUE,
           etching |-> [name |-> GenesisName, premine |-> 0, terms |-> None]]>>
   ELSE <<>>)
  \o Each(AtIndexes(c, c.etches),
          LAMBDA i : [rune |-> <<c.height, i - 1>>, tx |-> c.txs[i], boot |-> FALSE,
                      cenotaph |-> c.txs[i].art.cenotaph,
                      etching |-> EtchingInfo(c.txs[i].art)])

EtchingByRuneIdOps(o) ==
  <<<< <<"EtchingByRuneId", o.rune>>,
       BootOr(o.boot, [tx |-> o.tx, etching |-> o.etching, cenotaph |-> o.cenotaph])>>>>

-----------------------------------------------------------------------------
(* Holders *)

BalancesByRuneId(c) ==
  LET moved(ref, Op(_)) ==
        Each(RunesOfOuts(c, ref),
             LAMBDA r : [rune |-> r[1], script |-> c.utxos[ref].script, delta |-> Op(r[2])])
  IN  PerTx(c, LAMBDA tx :
        FlattenSeq(Each(tx.ins, LAMBDA ref : moved(ref, Decrement))
                   \o Each(OutsOf(tx), LAMBDA ref : moved(ref, Increment))))

BalancesByRuneIdOps(o) == <<<< <<"BalancesByRuneId", o.rune, o.script>>, o.delta>>>>

WithRune(c, refs) == SelectSeq(refs, LAMBDA ref : RunesIn(c, ref) # {})

\* A mutant: what the block makes and spends is only set.
RuneUtxosByScriptHashMade(c) ==
  PerTx(c, LAMBDA tx :
    Each(WithRune(c, Unchained(c, tx.ins, AllOuts(c))), LAMBDA ref : UtxoConsumed(c, ref))
    \o Each(WithRune(c, OutsOf(tx)),
            LAMBDA ref : UtxoProduced(c, ref, [sats |-> c.utxos[ref].value,
                                               runes |-> c.utxos[ref].runes])))

\* Here an output that the block makes and spends is set and deleted.
RuneUtxosByScriptHash(c) ==
  PerTx(c, LAMBDA tx :
    Each(WithRune(c, tx.ins), LAMBDA ref : UtxoConsumed(c, ref))
    \o Each(WithRune(c, OutsOf(tx)),
            LAMBDA ref : UtxoProduced(c, ref, [sats |-> c.utxos[ref].value,
                                               runes |-> c.utxos[ref].runes])))

RuneUtxosByScriptHashOps(o) ==
  <<UtxoOp(<<"RuneUtxosByScriptHash", o.script, o.height, o.ref>>, o)>>

\* One entry for each rune of an output.
UtxosByRuneId(c) ==
  LET consumed(ref) ==
        Each(RunesOfOuts(c, ref), LAMBDA r : [rune |-> r[1], o |-> UtxoConsumed(c, ref)])
      produced(ref) ==
        Each(RunesOfOuts(c, ref),
             LAMBDA r : [rune |-> r[1],
                         o |-> UtxoProduced(c, ref, [script |-> c.utxos[ref].script,
                                                     amount |-> r[2],
                                                     sats |-> c.utxos[ref].value])])
  IN  PerTx(c, LAMBDA tx :
        FlattenSeq(Each(Unchained(c, tx.ins, AllOuts(c)), consumed)
                   \o Each(Unchained(c, OutsOf(tx), AllIns(c)), produced)))

UtxosByRuneIdOps(o) == <<UtxoOp(<<"UtxosByRuneId", o.rune, o.o.height, o.o.ref>>, o.o)>>

-----------------------------------------------------------------------------
(* Activity: m maps a pair <<outer, inner>> to an amount *)

Amounts(c, refs, Pair(_, _)) ==
  LET pairs == UNION {{Pair(id, c.utxos[ref].script) : id \in RunesIn(c, ref)} : ref \in refs}
      of(p) == FoldSet(LAMBDA ref, n :
                         n + FoldSet(LAMBDA id, k :
                                       k + IF Pair(id, c.utxos[ref].script) = p
                                           THEN c.utxos[ref].runes[id] ELSE 0,
                                     0, RunesIn(c, ref)),
                       0, refs)
  IN  [p \in pairs |-> of(p)]

Inner(m, outer) == [x \in {p[2] : p \in {q \in DOMAIN m : q[1] = outer}} |-> m[<<outer, x>>]]
Outer(m) == {p[1] : p \in DOMAIN m}

\* What was both sent and received is compared.
SelfTransfers(sent, got) ==
  [x \in {y \in DOMAIN sent \cap DOMAIN got : sent[y] = got[y]} |-> sent[x]]

Decreases(sent, got) ==
  [x \in {y \in DOMAIN sent : y \in DOMAIN got => got[y] < sent[y]} |->
     IF x \in DOMAIN got THEN sent[x] - got[x] ELSE sent[x]]

\* The increases among the pairs that also sent are overwritten by the pairs
\* that only received.
Increases(sent, got) == [x \in DOMAIN got \ DOMAIN sent |-> got[x]]

Activity(sent, got) ==
  [self |-> SelfTransfers(sent, got), less |-> Decreases(sent, got),
   more |-> Increases(sent, got)]

\* Etchings and mints are reported as asked for, valid or not.
EtchedIn(c, i) ==
  IF c.txs[i].art = None \/ c.txs[i].art.cenotaph \/ c.txs[i].art.etch = None THEN None
  ELSE [rune |-> <<c.height, i - 1>>, premine |-> c.txs[i].art.etch.premine]
MintedIn(tx) == IF tx.art = None THEN None ELSE tx.art.mint

ByScript(id, s) == <<s, id>>
ByRune(id, s) == <<id, s>>

Spendable(tx) == {ref \in OutRefs(tx) : tx.outs[ref[2]].script # OpReturn}

\* Every script of a transaction counts it, only those with runes report it.
RuneActivities(c) ==
  FlattenSeq([i \in DOMAIN c.txs |->
    LET tx == c.txs[i]
        sent == Amounts(c, ToSet(tx.ins), ByScript)
        got == Amounts(c, Spendable(tx), ByScript)
    IN  Each(SetToSeq(InScripts(c, tx) \union Owners(c, Spendable(tx))),
             LAMBDA s : [script |-> s, height |-> c.height, tx |-> tx,
                         reported |-> s \in Outer(sent) \union Outer(got),
                         value |-> [etched |-> EtchedIn(c, i), minted |-> MintedIn(tx),
                                    activity |-> Activity(Inner(sent, s), Inner(got, s))]])])

Reported(ranked) == SelectSeq(ranked, LAMBDA o : o.out.reported)

RuneTxsByScriptHash(cs) == Reported(Ranked(FlattenSeq(Each(cs, RuneActivities))))

RuneTxsByScriptHashOps(o) ==
  <<<< <<"RuneTxsByScriptHash", o.out.script, o.out.height, o.index, o.out.tx>>,
       SetOnce(o.out.value)>>>>

AskedFor(c, i) ==
  (IF MintedIn(c.txs[i]) = None THEN {} ELSE {MintedIn(c.txs[i])})
  \union (IF EtchedIn(c, i) = None THEN {} ELSE {<<c.height, i - 1>>})

\* A cenotaph's etching counts as one when the rune is seen anyhow.
IsEtching(c, i, id) ==
  c.txs[i].art # None /\ c.txs[i].art.etch # None /\ id = <<c.height, i - 1>>

\* Rank counts by script: here a rune takes that place.
TxsByRuneId(c) ==
  Ranked(FlattenSeq([i \in DOMAIN c.txs |->
    LET tx == c.txs[i]
        sent == Amounts(c, ToSet(tx.ins), ByRune)
        got == Amounts(c, OutRefs(tx), ByRune)
    IN  Each(SetToSeq(Outer(sent) \union Outer(got) \union AskedFor(c, i)),
             LAMBDA id : [script |-> id, height |-> c.height, tx |-> tx,
                          value |-> [etched |-> IsEtching(c, i, id),
                                     minted |-> MintedIn(tx) = id,
                                     activity |-> Activity(Inner(sent, id), Inner(got, id))]])]))

TxsByRuneIdOps(o) ==
  <<<< <<"TxsByRuneId", o.out.script, o.out.height, o.index, o.out.tx>>, SetOnce(o.out.value)>>>>
=============================================================================
