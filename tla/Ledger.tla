-------------------------------- MODULE Ledger --------------------------------
(***************************************************************************)
(* What apply_block_with_context and rollback of the compressor do to the  *)
(* unspent outputs, the runes, the inscriptions and the BRC-20 balances.   *)
(* A block is applied from the outputs it spends, taken from the memory    *)
(* resolver or from the store; what its undo needs is stored under its     *)
(* height.  A transaction is its own identifier.                           *)
(***************************************************************************)
EXTENDS Runes, Inscriptions

CONSTANTS
  Subsidy, FirstRuneHeight, FirstInscriptionHeight,
  MaxInputs,   \* bound: inputs of a transaction
  Traffic      \* bounds: for each kind of traffic, the lists of outputs (outs),
               \* artifacts (arts) and lists of envelopes (envs) of a transaction,
               \* whether a miner claims the fees (claims), the transactions of a
               \* block (txs), the height, the blocks undone, the faults, and the
               \* configuration of the process: utxos_in_memory (memory)

VARIABLES
  traffic,    \* the kind of traffic of this behaviour
  chain,      \* BlockByHeightKV
  db,         \* TxoKV, the rune tables, the inscription and BRC-20 tables
  undo,       \* ResolverByHeightKV
  mem,        \* memory_resolver of the roll stage
  retry,      \* the block that the roll stage must apply again
  past,       \* history: db before each block of the chain
  undone, faults

vars == <<traffic, chain, db, undo, mem, retry, past, undone, faults>>

Kind == Traffic[traffic]

Height == Len(chain) + 1

Without(f, S) == [k \in DOMAIN f \ S |-> f[k]]
Keep(f, S) == [k \in DOMAIN f \cap S |-> f[k]]

InRefs(block) == UNION {ToSet(block[i].ins) : i \in 2 .. Len(block)}

-----------------------------------------------------------------------------
(* resolve_and_process *)

\* The bodies of the outputs of a transaction.
Bodies(tx, height, runes, insc, unused) ==
  [ref \in OutRefs(tx) |->
     LET v == ref[2] IN
     [height |-> height, value |-> tx.outs[v].value, script |-> tx.outs[v].script,
      runes |-> runes[v], insc |-> insc[v],
      unused |-> Keep(unused, {insc[v][k][2] : k \in DOMAIN insc[v]})]]

RunesOf(tx, index, s, height) ==
  IF height >= FirstRuneHeight THEN IndexRunes(tx, index, s.resolver, s.runes, height)
  ELSE [out |-> Nowhere(tx), etched |-> FALSE, minted |-> FALSE, tables |-> s.runes]

WithRunes(s, index, r) ==
  [s EXCEPT !.runes = r.tables,
            !.etches = IF r.etched THEN @ \union {index} ELSE @,
            !.mints = IF r.minted THEN @ \union {index} ELSE @]

InscriptionsOf(tx, s, height) ==
  IF height >= FirstInscriptionHeight
  THEN IndexInscriptions(tx, tx, s.resolver, s.insc, height, s.block)
  ELSE [insc |-> [v \in DOMAIN tx.outs |-> <<>>], unused |-> << >>, log |-> <<>>,
        block |-> s.block, tables |-> s.insc]

WithOutputs(s, tx, height, runes, i) ==
  [s EXCEPT !.insc = i.tables, !.block = i.block, !.log = @ \o i.log,
            !.resolver = Bodies(tx, height, runes, i.insc, i.unused) @@ @]

WithTx(s, tx, index, height, r) ==
  WithOutputs(WithRunes(s, index, r), tx, height, r.out, InscriptionsOf(tx, s, height))

ProcessTx(s, tx, index, height) == WithTx(s, tx, index, height, RunesOf(tx, index, s, height))

WithCoinbase(s, tx, height, runes) == WithOutputs(s, tx, height, runes, InscriptionsOf(tx, s, height))

\* The runes of the coinbase come first, its inscriptions last.
ProcessBlock(s, block, height, r) ==
  WithCoinbase(FoldLeft(LAMBDA u, i : ProcessTx(u, block[i], i - 1, height),
                        WithRunes(s, 0, r), [k \in 1 .. Len(block) - 1 |-> k + 1]),
               block[1], height, r.out)

Start(resolver) ==
  [resolver |-> resolver, runes |-> db.runes, insc |-> db.insc, etches |-> {}, mints |-> {},
   log |-> <<>>, block |-> [reward |-> Subsidy, lost |-> <<>>, numbers |-> << >>, again |-> {}]]

ResolveAndProcess(block, height, resolver) ==
  ProcessBlock(Start(resolver), block, height, RunesOf(block[1], 0, Start(resolver), height))

Produced(block) == UNION {OutRefs(block[i]) : i \in DOMAIN block}

\* Inputs from earlier blocks: in memory, else in the store.
Fetched(block) ==
  [ref \in InRefs(block) \ Produced(block) |->
     IF ref \in DOMAIN mem THEN mem[ref] ELSE db.txos[ref]]

\* A mutant: what is in memory already is kept.
RememberedFirst(block, s) ==
  IF Kind.memory
  THEN Without(mem @@ Keep(s.resolver, Produced(block)), InRefs(block))
  ELSE mem

\* What a block makes is remembered, what it spends is forgotten.
Remembered(block, s) ==
  IF Kind.memory
  THEN Without(Keep(s.resolver, Produced(block)) @@ mem, InRefs(block))
  ELSE mem

-----------------------------------------------------------------------------
(* Apply and undo *)

UndoData(block, s) ==
  [inputs |-> Keep(s.resolver, InRefs(block)), etches |-> s.etches, mints |-> s.mints,
   counters |-> db.insc.counters, log |-> s.log]

Apply(block, s) ==
  /\ db' = [txos |-> Without(Keep(s.resolver, Produced(block)) @@ db.txos, InRefs(block)),
            runes |-> s.runes, insc |-> s.insc]
  /\ chain' = Append(chain, block)
  /\ undo' = Append(undo, UndoData(block, s))
  /\ past' = Append(past, db)
  /\ mem' = Remembered(block, s)
  /\ retry' = None
  /\ UNCHANGED <<undone, faults>>

\* The transaction with the store is not committed; the stage retries.
ApplyFails(block, s) ==
  /\ faults < Kind.faults
  /\ faults' = faults + 1
  /\ mem' = Remembered(block, s)
  /\ retry' = block
  /\ UNCHANGED <<chain, db, undo, past, undone>>

\* A mutant: the curses of its inscriptions stay.
UndoTxKeepsCurses(d, tx, index, height, u) ==
  [txos |-> Without(Keep(u.inputs, ToSet(tx.ins)) @@ d.txos, OutRefs(tx)),
   runes |-> UndoRunes(tx, index, height, u.etches, u.mints, d.runes),
   insc |-> d.insc]

\* One transaction: forget its inscriptions, undo its runes, put back what it
\* spent and then remove what it made.
UndoTx(d, tx, index, height, u) ==
  [txos |-> Without(Keep(u.inputs, ToSet(tx.ins)) @@ d.txos, OutRefs(tx)),
   runes |-> UndoRunes(tx, index, height, u.etches, u.mints, d.runes),
   insc |-> [d.insc EXCEPT !.cursed = @ \ {<<tx, n>> : n \in 0 .. Len(tx.envs) - 1}]]

UndoBlock(d, block, height, u) ==
  LET reset == [d EXCEPT !.insc = [@ EXCEPT !.counters = u.counters,
                                            !.brc = UndoBrc20(@, u.log)]]
  IN  FoldLeft(LAMBDA e, i : UndoTx(e, block[i], i - 1, height, u),
               reset, Reverse([i \in DOMAIN block |-> i]))

\* Back to the block at height h, which stays.
Rollback(h) ==
  /\ retry = None
  /\ \A i \in h + 1 .. Len(chain) : InRefs(chain[i]) \subseteq DOMAIN undo[i].inputs
  /\ undone + Len(chain) - h <= Kind.undone
  /\ undone' = undone + Len(chain) - h
  /\ db' = FoldLeft(LAMBDA d, i : UndoBlock(d, chain[i], i, undo[i]),
                    db, Reverse([k \in 1 .. Len(chain) - h |-> h + k]))
  /\ chain' = SubSeq(chain, 1, h)
  /\ undo' = SubSeq(undo, 1, h)
  /\ past' = SubSeq(past, 1, h)
  /\ UNCHANGED <<mem, retry, faults>>

Restart ==
  /\ Kind.memory /\ faults < Kind.faults
  /\ faults' = faults + 1
  /\ mem' = << >> /\ retry' = None
  /\ UNCHANGED <<chain, db, undo, past, undone>>

-----------------------------------------------------------------------------
(* The blocks that the network can make *)

\* The transactions that spend some of these outputs.
Spends(bodies) ==
  {tx \in [ins : UNION {[1 .. n -> DOMAIN bodies] : n \in 1 .. MaxInputs},
           outs : Kind.outs, art : Kind.arts, envs : Kind.envs] :
     /\ IsInjective(tx.ins)
     /\ \A i \in DOMAIN tx.ins : bodies[tx.ins[i]].script # OpReturn
     /\ \A k \in DOMAIN tx.envs : tx.envs[k].input \in DOMAIN tx.ins
     /\ OutputValue(tx) <= InputValue(tx, bodies)}

Outputs(tx) == [ref \in OutRefs(tx) |-> tx.outs[ref[2]]]

Coinbase(value) ==
  [ins |-> <<>>, height |-> Height, outs |-> <<[value |-> value, script |-> Taproot]>>,
   art |-> None, envs |-> <<>>]

\* Blocks of at most two transactions; the miner claims the fees or not.
NewBlocks ==
  LET claim(txs, bodies) ==
        LET fees == FoldLeft(LAMBDA n, t : n + InputValue(t, bodies) - OutputValue(t), 0, txs)
        IN  {IF all THEN Subsidy + fees ELSE Subsidy : all \in Kind.claims}
      block(txs, bodies) == {<<Coinbase(v)>> \o txs : v \in claim(txs, bodies)}
  IN  block(<<>>, << >>) \union
      UNION {block(<<t>>, db.txos) \union
               IF Kind.txs < 2 THEN {}
               ELSE LET bodies == Outputs(t) @@ db.txos
                    IN  UNION {block(<<t, u>>, bodies) :
                                 u \in Spends(Without(bodies, ToSet(t.ins)))} :
             t \in Spends(db.txos)}

Init ==
  /\ traffic \in DOMAIN Traffic
  /\ chain = <<>> /\ undo = <<>> /\ past = <<>>
  /\ db = [txos |-> << >>, runes |-> EmptyRuneTables,
           insc |-> [counters |-> NoCounters, cursed |-> {}, brc |-> EmptyBrc20]]
  /\ mem = << >> /\ retry = None /\ undone = 0 /\ faults = 0

ApplyNext ==
  /\ Height <= Kind.height
  /\ \E block \in IF retry = None THEN NewBlocks ELSE {retry} :
       \E s \in {ResolveAndProcess(block, Height, Fetched(block))} :
         Apply(block, s) \/ ApplyFails(block, s)

Next ==
  /\ \/ ApplyNext
     \/ \E h \in 1 .. Len(chain) - 1 : Rollback(h)
     \/ Restart
  /\ UNCHANGED traffic

Spec == Init /\ [][Next]_vars

-----------------------------------------------------------------------------
(* Properties *)

SumOver(S, Op(_)) == FoldSet(LAMBDA x, n : Op(x) + n, 0, S)

\* rollback brings back every table as it was before the blocks it removes: the
\* outputs they spent, names, terms and mint counts, the numbers of inscriptions,
\* curses and balances.
UndoExact == [][Len(chain') < Len(chain) => db' = past[Len(chain') + 1]]_vars

\* A transaction of the chain that etched.
EtchedBy(id) == chain[id[1]][id[2] + 1].art.etch

\* Runes are not made by moving, splitting or undoing: the outputs hold no more
\* of a rune than its premine and its mints, and the mints respect the cap.
RunesBacked ==
  \A id \in DOMAIN db.runes.terms :
    LET held(ref) == db.txos[ref].runes[id]
        terms == db.runes.terms[id]
    IN  /\ SumOver(DOMAIN db.txos, held)
             <= EtchedBy(id).premine + db.runes.mints[id] * Default(terms.amount)
        /\ db.runes.mints[id] <= Default(terms.cap)

\* The available balances of a ticker and the transfers that wait in unspent
\* outputs are its supply, which never exceeds the maximum: a transfer is
\* credited exactly once, wherever its inscription goes, and undone once.
Brc20Backed ==
  \A k \in AllTicks :
    LET waiting(ref) ==
          SumOver(DOMAIN db.txos[ref].unused,
                  LAMBDA id : IF db.txos[ref].unused[id].tick = k
                              THEN db.txos[ref].unused[id].amt ELSE 0)
        owned(s) == db.insc.brc.bal[<<k, s>>]
    IN  /\ SumOver(Scripts, owned) + SumOver(DOMAIN db.txos, waiting) = db.insc.brc.supply[k]
        /\ db.insc.brc.supply[k] <=
             IF k \in DOMAIN db.insc.brc.terms THEN db.insc.brc.terms[k].max ELSE 0

Placements ==
  UNION {{<<ref, k>> : k \in DOMAIN db.txos[ref].insc} : ref \in DOMAIN db.txos}
PlacedId(p) == db.txos[p[1]].insc[p[2]][2]

\* An inscription is in one place, on a sat of the output that holds it, and
\* every one that was numbered is somewhere unless it is bound to no sat or its
\* sat was lost by a miner who claimed too little.
OnePlace ==
  /\ \A p, q \in Placements : PlacedId(p) = PlacedId(q) => p = q
  /\ \A p \in Placements : db.txos[p[1]].insc[p[2]][1] < db.txos[p[1]].value
  /\ db.insc.counters.lost = 0 =>
       Cardinality(Placements) + db.insc.counters.unbound = db.insc.counters.next
  /\ db.insc.counters.cursed + db.insc.counters.blessed = db.insc.counters.next

\* What the memory resolver still holds of an unspent output is what the store
\* holds, through rollbacks and blocks that are applied again: a transaction
\* that comes back in another block has another height, number and place.
MemoryFaithful ==
  \A ref \in DOMAIN mem \cap DOMAIN db.txos : mem[ref] = db.txos[ref]
=============================================================================
