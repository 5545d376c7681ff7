------------------------ MODULE InscriptionReducers ------------------------
(***************************************************************************)
(* The reducers of polyphony about inscriptions and BRC-20, in the form of *)
(* SatReducers.  c.numbers gives the new inscriptions of the block their   *)
(* numbers, c.brc20 is what the block did to the BRC-20 tables, as a       *)
(* sequence of <<inscription, effect>>.                                    *)
(***************************************************************************)
EXTENDS SatReducers, Brc20

CONSTANTS
  Bucket(_),      \* the first bytes of the identifier of a transaction
  MaxActivity     \* the longest list of InscriptionActivityByTxV2

InscIn(c, ref) == c.utxos[ref].insc
IdsIn(c, refs) == UNION {{InscIn(c, ref)[k][2] : k \in DOMAIN InscIn(c, ref)} : ref \in refs}
WithInsc(c, refs) == SelectSeq(refs, LAMBDA ref : InscIn(c, ref) # <<>>)

\* The inscriptions of the envelopes of a transaction.
Revealed(tx) == [k \in DOMAIN tx.envs |-> <<tx, k - 1>>]

-----------------------------------------------------------------------------
(* Inscriptions *)

ContentByInscriptionId(c) ==
  PerTx(c, LAMBDA tx :
    Each(SelectSeq(Revealed(tx), LAMBDA id : id \in DOMAIN c.numbers),
         LAMBDA id : [id |-> id, created |-> c.height, number |-> c.numbers[id]]))

ContentByInscriptionIdOps(o) ==
  <<<< <<"ContentByInscriptionId", o.id>>,
       SetOnce([created |-> o.created, number |-> o.number])>>>>

\* A mutant: an output counts as one inscription.
TotalInscriptionsByScriptHashOne(c) ==
  LET moved(ref, Op(_)) == [script |-> c.utxos[ref].script, delta |-> Op(1)]
  IN  PerTx(c, LAMBDA tx :
        Each(WithInsc(c, tx.ins), LAMBDA ref : moved(ref, Decrement))
        \o Each(WithInsc(c, OutsOf(tx)), LAMBDA ref : moved(ref, Increment)))

TotalInscriptionsByScriptHash(c) ==
  LET moved(ref, Op(_)) == [script |-> c.utxos[ref].script, delta |-> Op(Len(InscIn(c, ref)))]
  IN  PerTx(c, LAMBDA tx :
        Each(WithInsc(c, tx.ins), LAMBDA ref : moved(ref, Decrement))
        \o Each(WithInsc(c, OutsOf(tx)), LAMBDA ref : moved(ref, Increment)))

TotalInscriptionsByScriptHashOps(o) ==
  <<<< <<"TotalInscriptionsByScriptHash", o.script>>, o.delta>>>>

InscriptionUtxosByScriptHash(c) ==
  PerTx(c, LAMBDA tx :
    Each(WithInsc(c, Unchained(c, tx.ins, AllOuts(c))), LAMBDA ref : UtxoConsumed(c, ref))
    \o Each(WithInsc(c, Unchained(c, OutsOf(tx), AllIns(c))),
            LAMBDA ref : UtxoProduced(c, ref, [sats |-> c.utxos[ref].value,
                                               insc |-> InscIn(c, ref)])))

InscriptionUtxosByScriptHashOps(o) ==
  <<UtxoOp(<<"InscriptionUtxosByScriptHash", o.script, o.height, o.ref>>, o)>>

-----------------------------------------------------------------------------
(* Activity by transaction and by inscription *)

\* The place of an inscription in a list of outputs, None when it is in none.
PlaceIn(c, refs, id) ==
  LET at == UNION {{<<i, k>> : k \in {j \in DOMAIN InscIn(c, refs[i]) :
                                       InscIn(c, refs[i])[j][2] = id}} : i \in DOMAIN refs}
      place(p) == [script |-> c.utxos[refs[p[1]]].script, index |-> p[1],
                   offset |-> InscIn(c, refs[p[1]])[p[2]][1]]
  IN  IF at = {} THEN None ELSE place(CHOOSE p \in at : TRUE)

MovedTo(c, tx) == FlattenSeq(Each(OutsOf(tx), LAMBDA ref : Each(InscIn(c, ref), LAMBDA p : p[2])))

\* Spent as fee: the ones of the inputs, and the new ones.  Each list has the
\* same order wherever it is made.
FeeSpent(c, tx) == SetToSeq(IdsIn(c, ToSet(tx.ins)) \ ToSet(MovedTo(c, tx)))
NewFeeSpent(c, tx) == SetToSeq((ToSet(Revealed(tx)) \cap DOMAIN c.numbers) \ ToSet(MovedTo(c, tx)))

ActivityOf(c, tx, id) ==
  [id |-> id, from |-> PlaceIn(c, tx.ins, id), to |-> PlaceIn(c, OutsOf(tx), id)]

Listed(c, F(_)) ==
  SelectSeq([i \in DOMAIN c.txs |-> [height |-> c.height, index |-> i - 1, tx |-> c.txs[i],
                                     activity |-> F(c.txs[i])]],
            LAMBDA o : o.activity # <<>>)

InscriptionActivityByTx(c) ==
  Listed(c, LAMBDA tx : Each(MovedTo(c, tx), LAMBDA id : ActivityOf(c, tx, id)))

InscriptionActivityByTxOps(o) ==
  <<<< <<"InscriptionActivityByTx", o.height, o.index>>,
       SetOnce([tx |-> o.tx, activity |-> o.activity])>>>>

Truncated(s) == SubSeq(s, 1, IF Len(s) < MaxActivity THEN Len(s) ELSE MaxActivity)

InscriptionActivityByTxV2(c) ==
  Listed(c, LAMBDA tx :
    Truncated(Each(MovedTo(c, tx) \o FeeSpent(c, tx) \o NewFeeSpent(c, tx),
                   LAMBDA id : ActivityOf(c, tx, id))))

InscriptionActivityByTxV2Ops(o) ==
  <<<< <<"InscriptionActivityByTxV2", o.height, o.index>>,
       SetOnce([tx |-> o.tx, activity |-> o.activity])>>>>

\* A mutant: what leaves as fee is counted in the other order.
PointersSwapped(c, i) ==
  LET ids == MovedTo(c, c.txs[i]) \o NewFeeSpent(c, c.txs[i]) \o FeeSpent(c, c.txs[i])
  IN  [k \in DOMAIN ids |-> [id |-> ids[k], at |-> <<i - 1, k - 1>>]]

\* Where the activity of a transaction is in that list, counted from 0.
Pointers(c, i) ==
  LET ids == MovedTo(c, c.txs[i]) \o FeeSpent(c, c.txs[i]) \o NewFeeSpent(c, c.txs[i])
  IN  [k \in DOMAIN ids |-> [id |-> ids[k], at |-> <<i - 1, k - 1>>]]

\* One value for each bucket and block, which maps inscriptions to pointers.
TxsByInscription(c) ==
  LET all == FlattenSeq([i \in DOMAIN c.txs |-> Pointers(c, i)])
      ids(b) == {id \in {p.id : p \in ToSet(all)} : Bucket(id[1]) = b}
      of(id) == Each(SelectSeq(all, LAMBDA p : p.id = id), LAMBDA p : p.at)
  IN  Each(SetToSeq({Bucket(p.id[1]) : p \in ToSet(all)}),
           LAMBDA b : [bucket |-> b, height |-> c.height,
                       activity |-> [id \in ids(b) |-> of(id)]])

TxsByInscriptionOps(o) ==
  <<<< <<"TxsByInscription", o.bucket, o.height>>, SetOnce(o.activity)>>>>

-----------------------------------------------------------------------------
(* Activity by owner *)

Of(c, refs, s) == {ref \in refs : c.utxos[ref].script = s}

SpendableOuts(tx) == SelectSeq(OutsOf(tx), LAMBDA ref : tx.outs[ref[2]].script # OpReturn)

OwnerActivity(c, tx, s) ==
  LET sent == IdsIn(c, Of(c, ToSet(tx.ins), s))
      got == IdsIn(c, Of(c, ToSet(SpendableOuts(tx)), s))
  IN  [self |-> sent \cap got, sent |-> sent \ got, received |-> got \ sent]

WithPlaces(c, tx, ids) ==
  [id \in ids |-> <<PlaceIn(c, tx.ins, id), PlaceIn(c, SpendableOuts(tx), id)>>]

\* Every script of a transaction counts it, only those that held or hold an
\* inscription report it.
OwnerActivities(c) ==
  PerTx(c, LAMBDA tx :
    Each(SetToSeq(InScripts(c, tx) \union Owners(c, ToSet(SpendableOuts(tx)))),
         LAMBDA s : [script |-> s, height |-> c.height, tx |-> tx,
                     held |-> IdsIn(c, Of(c, ToSet(tx.ins \o SpendableOuts(tx)), s)) # {},
                     value |-> [kind \in {"self", "sent", "received"} |->
                                  WithPlaces(c, tx, OwnerActivity(c, tx, s)[kind])]]))

InscriptionActivityByScriptHash(cs) ==
  SelectSeq(Ranked(FlattenSeq(Each(cs, OwnerActivities))), LAMBDA o : o.out.held)

InscriptionActivityByScriptHashOps(o) ==
  <<<< <<"InscriptionActivityByScriptHash", o.out.script, o.out.height, o.index, o.out.tx>>,
       SetOnce(o.out.value)>>>>

-----------------------------------------------------------------------------
(* BRC-20: the effects of the block on an inscription, by kind *)

Effects(c, id, op) ==
  Each(SelectSeq(c.brc20, LAMBDA e : e[1] = id /\ e[2].op = op), LAMBDA e : e[2])

\* The transfers that an input uses: those made at the output that it spends.
Used(c, ref) ==
  FlattenSeq(Each(InscIn(c, ref), LAMBDA p :
    Each(SelectSeq(Effects(c, p[2], "transfer"), LAMBDA e : e.at = ref),
         LAMBDA e : [id |-> p[2], tick |-> e.tick, amt |-> e.amt, to |-> e.to,
                     from |-> c.utxos[ref].script])))

UsedBy(c, tx) == FlattenSeq(Each(tx.ins, LAMBDA ref : Used(c, ref)))

\* The effects of this kind of the inscriptions that a transaction reveals.
Made(c, tx, op) ==
  FlattenSeq(Each(Revealed(tx), LAMBDA id :
    Each(Effects(c, id, op), LAMBDA e : [id |-> id, e |-> e])))

Delta(script, tick, total, available) ==
  [script |-> script, tick |-> tick, total |-> total, available |-> available]

BalancesByBrc20(c) ==
  PerTx(c, LAMBDA tx :
    FlattenSeq(Each(UsedBy(c, tx),
      LAMBDA u : <<Delta(u.from, u.tick, Decrement(u.amt), None),
                   Delta(u.to, u.tick, Increment(u.amt), None)>>))
    \o Each(Made(c, tx, "mint"),
            LAMBDA x : Delta(x.e.to, x.e.tick, Increment(x.e.amt), None)))

BalancesByBrc20Ops(o) == <<<< <<"BalancesByBrc20", o.tick, o.script>>, o.total>>>>

\* A mutant: a transfer that is made lowers the total as well.
InitDeltaTotal(e) == Delta(e.to, e.tick, Decrement(e.amt), Decrement(e.amt))

\* A transfer that is made lowers what is available, its use the total.
InitDelta(e) == Delta(e.to, e.tick, Increment(0), Decrement(e.amt))

Brc20BalancesByScriptHash(c) ==
  PerTx(c, LAMBDA tx :
    FlattenSeq(Each(UsedBy(c, tx),
      LAMBDA u : <<Delta(u.from, u.tick, Decrement(u.amt), Increment(0)),
                   Delta(u.to, u.tick, Increment(u.amt), Increment(u.amt))>>))
    \o FlattenSeq(Each(Revealed(tx), LAMBDA id :
         Each(Effects(c, id, "mint"),
              LAMBDA e : Delta(e.to, e.tick, Increment(e.amt), Increment(e.amt)))
         \o Each(Effects(c, id, "init"), InitDelta))))

\* A balance of zero is kept here.
NoDelete(a) == IF a.op = "Decrement" THEN DecrementNoDelete(a.arg) ELSE a

Brc20BalancesByScriptHashOps(o) ==
  <<<< <<"Brc20TotalByScriptHash", o.script, o.tick>>, NoDelete(o.total)>>,
    << <<"Brc20AvailableByScriptHash", o.script, o.tick>>, NoDelete(o.available)>>>>

TransferInscriptionsByScriptHash(c) ==
  PerTx(c, LAMBDA tx :
    Each(UsedBy(c, tx),
         LAMBDA u : [script |-> u.from, tick |-> u.tick, id |-> u.id, made |-> None])
    \o Each(SelectSeq(Made(c, tx, "init"), LAMBDA x : x.id \in ToSet(MovedTo(c, tx))),
            LAMBDA x : [script |-> x.e.to, tick |-> x.e.tick, id |-> x.id,
                        made |-> [amt |-> x.e.amt, height |-> c.height,
                                  place |-> PlaceIn(c, OutsOf(tx), x.id)]]))

TransferInscriptionsByScriptHashOps(o) ==
  <<UtxoOp(<<"TransferInscriptionsByScriptHash", o.script, o.tick, o.id>>, o)>>

\* The message is parsed again, from the envelope and by the same rules.
DeployTerms(m) == [max |-> DeployMax(m), limit |-> DeployLimit(m), dec |-> m.dec, self |-> m.self]

Brc20TermsByTicker(c) ==
  PerTx(c, LAMBDA tx :
    Each(Made(c, tx, "deploy"),
         LAMBDA x : [tick |-> x.e.tick, id |-> x.id,
                     terms |-> DeployTerms(tx.envs[x.id[2] + 1].msg)]))

Brc20TermsByTickerOps(o) ==
  <<<< <<"Brc20TermsByTicker", o.tick>>, SetOnce([id |-> o.id] @@ o.terms)>>>>
=============================================================================
