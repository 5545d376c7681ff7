------------------------------ MODULE MempoolView ------------------------------
(***************************************************************************)
(* The mempool processor of the compressor above its ledger: a unit of     *)
(* work names the tip it is for; it is processed on a snapshot of the      *)
(* store, and every value is looked up in memory, then in the cache that   *)
(* the last unit left, then in the snapshot.  A block or a rollback can    *)
(* come between the fetching of a unit and its processing.                 *)
(***************************************************************************)
EXTENDS MempoolBlocks

VARIABLES
  unit,       \* the unit of work that was scheduled
  cache,      \* storage_cache of the worker
  shared,     \* the view that is served
  views

viewVars == <<unit, cache, shared, views>>

-----------------------------------------------------------------------------
(* StorageCache: the tip it is for and what was read of each table *)

NewCache(tip) ==
  [tip |-> tip, txos |-> << >>, names |-> << >>, terms |-> << >>, mints |-> << >>,
   ticks |-> << >>, supply |-> << >>, bal |-> << >>]

\* A mutant: any cache will do.
InputCacheAny(tip) == IF cache # None THEN cache ELSE NewCache(tip)

InputCache(tip) == IF cache # None /\ cache.tip = tip THEN cache ELSE NewCache(tip)

\* The getters: the cache hides the snapshot.
ResolvedUtxos(in) == in.txos @@ db.txos
RuneIdsSeen(in) == in.names @@ db.runes.names
RuneTermsSeen(in) == in.terms @@ db.runes.terms
RuneMintsSeen(in) == in.mints @@ db.runes.mints
Brc20TermsSeen(in) == in.ticks @@ db.insc.brc.terms
Brc20SupplySeen(in) == in.supply @@ db.insc.brc.supply
Brc20BalancesSeen(in) == in.bal @@ db.insc.brc.bal

\* The counters and the curses are read from the snapshot.
ProcessorStart(in) ==
  [Start(ResolvedUtxos(in)) EXCEPT
     !.runes = [names |-> RuneIdsSeen(in), terms |-> RuneTermsSeen(in),
                mints |-> RuneMintsSeen(in)],
     !.insc.brc = [terms |-> Brc20TermsSeen(in), supply |-> Brc20SupplySeen(in),
                   bal |-> Brc20BalancesSeen(in)]]

-----------------------------------------------------------------------------
(* The keys that the transactions of a view look up *)

TxsOf(blocks) == UNION {ToSet(blocks[i]) : i \in DOMAIN blocks}
MadeIn(blocks) == UNION {OutRefs(tx) : tx \in TxsOf(blocks)}
SpentBy(blocks) == UNION {ToSet(tx.ins) : tx \in TxsOf(blocks)}

NamesIn(blocks) ==
  {tx.art.etch.rune : tx \in {t \in TxsOf(blocks) : t.art # None /\ t.art.etch # None}}
MintsIn(blocks) == {tx.art.mint : tx \in {t \in TxsOf(blocks) : t.art # None}}
TicksIn(blocks) ==
  {e.msg.tick : e \in UNION {{f \in ToSet(tx.envs) : f.msg # None} : tx \in TxsOf(blocks)}}

\* The tickers of the transfers that the view moves.
TicksMoved(blocks, s) ==
  {t.tick : t \in UNION {Range(s.resolver[ref].unused) : ref \in SpentBy(blocks)}}

\* What came from the cache or the snapshot is kept for the next unit, as it
\* was before the view wrote to it (here the balances of all scripts in the
\* tickers that were looked up).
OutputCache(tip, in, blocks, s) ==
  [tip |-> tip, txos |-> Keep(ResolvedUtxos(in), SpentBy(blocks) \ MadeIn(blocks)),
   names |-> Keep(RuneIdsSeen(in), NamesIn(blocks)),
   terms |-> Keep(RuneTermsSeen(in), MintsIn(blocks)),
   mints |-> Keep(RuneMintsSeen(in), MintsIn(blocks)),
   ticks |-> Keep(Brc20TermsSeen(in), TicksIn(blocks)),
   supply |-> Keep(Brc20SupplySeen(in), TicksIn(blocks)),
   bal |-> Keep(Brc20BalancesSeen(in), (TicksIn(blocks) \union TicksMoved(blocks, s)) \X Scripts)]

-----------------------------------------------------------------------------
(* What is served of each block: the bodies it spends and makes, and what  *)
(* its transactions achieved                                               *)

Served(blocks, states) ==
  [i \in DOMAIN blocks |->
     [height |-> Height + i - 1, txs |-> blocks[i],
      bodies |-> Keep(states[i].resolver, SpentBy(<<blocks[i]>>) \union MadeIn(<<blocks[i]>>)),
      etches |-> states[i].etches, mints |-> states[i].mints, log |-> states[i].log,
      numbers |-> states[i].block.numbers, again |-> states[i].block.again]]

\* A template of the node is for the tip of the node, which the ledger had or
\* still has.
FetchUnit ==
  /\ unit = None /\ views < Kind.views
  /\ views' = views + 1
  /\ \E blocks \in Views : unit' = [tip |-> chain, blocks |-> blocks]
  /\ UNCHANGED <<cache, shared>>

Skip ==
  /\ unit # None /\ unit.tip # chain
  /\ unit' = None
  /\ UNCHANGED <<cache, shared, views>>

Process(in, states) ==
  /\ shared' = [tip |-> chain, blocks |-> Served(unit.blocks, states)]
  /\ cache' = OutputCache(chain, in, unit.blocks, states[Len(states)])
  /\ unit' = None
  /\ UNCHANGED views

Execute ==
  /\ unit # None /\ unit.tip = chain
  /\ \E in \in {InputCache(chain)} :
       \E states \in {MempoolStates(unit.blocks, ProcessorStart(in))} : Process(in, states)

ViewInit == Init /\ unit = None /\ cache = None /\ shared = None /\ views = 0

ViewNext ==
  \/ ApplyNext /\ UNCHANGED <<traffic, viewVars>>
  \/ (\E h \in 1 .. Len(chain) - 1 : Rollback(h)) /\ UNCHANGED <<traffic, viewVars>>
  \/ FetchUnit /\ UNCHANGED vars
  \/ Skip /\ UNCHANGED vars
  \/ Execute /\ UNCHANGED vars

ViewSpec == ViewInit /\ [][ViewNext]_<<vars, viewVars>>

-----------------------------------------------------------------------------
(* Properties *)

\* The view that is published is what a processor without a cache makes of the
\* unit on the tables of the tip: the cache that the last unit left is never
\* stale, whatever blocks and rollbacks came between, and holds nothing of what
\* the mempool transactions wrote.
ViewExact ==
  [][shared' # shared =>
       /\ shared'.tip = chain
       /\ shared'.blocks = Served(unit.blocks, MempoolStates(unit.blocks, Start(db.txos)))]_
    <<vars, viewVars>>

\* The identifier in a view of a rune: a transaction etches at its index, which is
\* one less in a block without a coinbase.
Estimated(id, height) == IF id[1] = height THEN <<height, id[2] - 1>> ELSE id

\* The body of an output in a block and in the view of it.
AsEstimated(a, b, height) ==
  /\ a.insc = b.insc /\ a.unused = b.unused /\ a.height = b.height
  /\ \A id \in {i \in RuneIds : i # <<height, 0>>} : a.runes[id] = b.runes[Estimated(id, height)]

\* A mempool block that is mined as it was estimated does what the view said:
\* its outputs hold the same inscriptions, transfers and runes as in the view, up
\* to the identifiers of the runes that it etches, and its BRC-20 messages have the same effects.
MinedAsEstimated ==
  [][/\ Len(chain') > Len(chain)
     /\ shared # None /\ shared.tip = chain
     /\ Tail(chain'[Len(chain')]) = shared.blocks[1].txs
     => /\ \A ref \in DOMAIN db'.txos \cap DOMAIN shared.blocks[1].bodies :
             AsEstimated(db'.txos[ref], shared.blocks[1].bodies[ref], Height)
        /\ undo'[Len(chain')].log = shared.blocks[1].log]_
    <<vars, viewVars>>
=============================================================================
