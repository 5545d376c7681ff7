--------------------------- MODULE MempoolBlocks ---------------------------
(***************************************************************************)
(* What the mempool stage of the compressor makes of a view of the mempool *)
(* above a ledger: blocks without a coinbase, whose transactions are       *)
(* processed in order on the tables of the tip.  Nothing is written; each  *)
(* block is handed on with the outputs that it spends and makes.           *)
(***************************************************************************)
EXTENDS Ledger

\* index_inscriptions of the processor, which sees no coinbase: what floats ...
MempoolFloats(tx, s, height) == Floating(tx, tx, s.resolver, height, s.insc.cursed)

\* ... gets its place in the outputs, and a number if it is new; ...
MempoolPlaced(tx, s, sorted) ==
  FoldLeft(LAMBDA u, f : UpdateLocation(u, f, Satpoint(tx, f)),
           [out |-> <<>>, numbers |-> s.block.numbers, counters |-> s.insc.counters,
            cursed |-> s.insc.cursed],
           Kept(tx, sorted))

\* ... transfers are credited, to the sender when they go to the fee, ...
MempoolTransfers(tx, s, f, u, left) ==
  Moved(tx, f, u,
        FoldLeft(LAMBDA c, g : IF g.id \notin DOMAIN f.unused THEN c
                   ELSE Credit(c, g.id, f.unused[g.id], f.unused[g.id].from),
                 [b |-> s.insc.brc, log |-> <<>>, unused |-> << >>], left))

\* ... and the new messages are taken in order.
MempoolMessages(tx, f, u, b) ==
  FoldLeft(LAMBDA c, m : Message(c, m[1], m[2], ScriptOf(tx, u.out, m[1]), PotentialParents(f)),
           b, f.msgs)

\* What is lost to the fee is not carried on.
MempoolResult(tx, s, f, u, b) ==
  [insc |-> [v \in DOMAIN tx.outs |-> Offsets(InOutput(u.out, v))],
   unused |-> b.unused, log |-> b.log,
   block |-> [s.block EXCEPT !.reward = @ + f.total - OutputValue(tx), !.numbers = u.numbers,
                             !.again = @ \union f.again],
   tables |-> [cursed |-> u.cursed, brc |-> b.b, counters |-> u.counters]]

MempoolSettled(tx, s, f, u, left) ==
  MempoolResult(tx, s, f, u, MempoolMessages(tx, f, u, MempoolTransfers(tx, s, f, u, left)))

MempoolSorted(tx, s, f, sorted) ==
  MempoolSettled(tx, s, f, MempoolPlaced(tx, s, sorted), Left(tx, sorted))

MempoolFloated(tx, s, f) == MempoolSorted(tx, s, f, ByOffset(f.flot))

MempoolInscriptions(tx, s, height) == MempoolFloated(tx, s, MempoolFloats(tx, s, height))

\* A mutant: at the height of the tip.
MempoolRunesAtTip(tx, index, s, height) ==
  IndexRunes(tx, index, s.resolver, s.runes, Len(chain))

MempoolRunes(tx, index, s, height) == IndexRunes(tx, index, s.resolver, s.runes, height)

WithMempoolTx(s, tx, index, height, r) ==
  WithOutputs(WithRunes(s, index, r), tx, height, r.out, MempoolInscriptions(tx, s, height))

MempoolTx(s, tx, index, height) ==
  WithMempoolTx(s, tx, index, height, MempoolRunes(tx, index, s, height))

\* A new block of the view: the tables go on, what is told of a block starts.
NewMempoolBlock(s) ==
  [s EXCEPT !.etches = {}, !.mints = {}, !.log = <<>>,
            !.block = [reward |-> Subsidy, lost |-> <<>>, numbers |-> << >>, again |-> {}]]

MempoolBlock(s, txs, height) ==
  FoldLeft(LAMBDA u, i : MempoolTx(u, txs[i], i - 1, height),
           NewMempoolBlock(s), [i \in DOMAIN txs |-> i])

\* The states after each block of a view, from the state that it starts in.
MempoolStates(blocks, start) ==
  FoldLeft(LAMBDA states, txs :
             Append(states,
                    MempoolBlock(IF states = <<>> THEN start ELSE states[Len(states)],
                                 txs, Height + Len(states))),
           <<>>, blocks)

\* Views of one or two transactions, in one block or in two.
Views ==
  UNION {{<<<<t>>>>} \union
         UNION {{<<<<t, u>>>>} \union IF Kind.viewBlocks < 2 THEN {} ELSE {<<<<t>>, <<u>>>>} :
                u \in Spends(Without(Outputs(t) @@ db.txos, ToSet(t.ins)))} :
         t \in Spends(db.txos)}
=============================================================================
