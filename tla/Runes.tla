-------------------------------- MODULE Runes --------------------------------
(***************************************************************************)
(* index_runes of the compressor: what the rune artifact of one            *)
(* transaction does to the rune tables, and the runes that its outputs     *)
(* get.  A transaction has inputs (outputs that exist), outputs with a     *)
(* value and a script, and perhaps an artifact (a runestone or a           *)
(* cenotaph); amounts are numbers, an identifier is a height and an index. *)
(***************************************************************************)
EXTENDS Transactions

CONSTANTS
  CommitConfirmations,    \* age of an output that commits to a rune name
  Etchable(_),            \* the names that are neither reserved nor below the minimum
                          \* name of a height
  RuneIds                 \* bound: the identifiers that can be etched

NoRunes == [id \in RuneIds |-> 0]

NoTerms == [amount |-> None, cap |-> None, start |-> None, end |-> None]

Default(v) == IF v = None THEN 0 ELSE v

\* The output scripts that may hold runes by default.
Destinations(tx) == {v \in DOMAIN tx.outs : tx.outs[v].script # OpReturn}

-----------------------------------------------------------------------------
(* Minting: the terms are those before this transaction *)

Open(terms, height) ==
  /\ terms.start # None => height >= terms.start
  /\ terms.end # None => height < terms.end

Mintable(t, id, height) ==
  /\ id \in DOMAIN t.terms
  /\ Open(t.terms[id], height)
  /\ t.mints[id] < Default(t.terms[id].cap)

-----------------------------------------------------------------------------
(* Etching *)

\* An input of the transaction carries the commitment, and the output it
\* spends is taproot and deep enough.
CommitsToRune(tx, resolver, height) ==
  \E i \in DOMAIN tx.ins :
    /\ i = tx.art.etch.commit
    /\ resolver[tx.ins[i]].script = Taproot
    /\ height - resolver[tx.ins[i]].height + 1 >= CommitConfirmations

\* An etching without a name gets a reserved one.
Etches(tx, resolver, t, height) ==
  /\ tx.art.etch # None
  /\ tx.art.etch.rune # None =>
       /\ tx.art.etch.rune \in Etchable(height)
       /\ tx.art.etch.rune \notin DOMAIN t.names
       /\ CommitsToRune(tx, resolver, height)

EtchedName(tx, id) == IF tx.art.etch.rune = None THEN <<"reserved", id>> ELSE tx.art.etch.rune

\* One end of the mint period is given as an offset, as a height or as both.
Bound(relative, absolute, height, Choose(_, _)) ==
  IF relative = None THEN absolute
  ELSE IF absolute = None THEN height + relative
  ELSE Choose(height + relative, absolute)

CreateRuneEntry(tx, height) ==
  IF tx.art.cenotaph \/ tx.art.etch.terms = None THEN NoTerms
  ELSE LET terms == tx.art.etch.terms
           Later(a, b) == IF a > b THEN a ELSE b
           Earlier(a, b) == IF a < b THEN a ELSE b
       IN  [amount |-> terms.amount, cap |-> terms.cap,
            start |-> Bound(terms.offset[1], terms.height[1], height, Later),
            end |-> Bound(terms.offset[2], terms.height[2], height, Earlier)]

-----------------------------------------------------------------------------
(* Allocation: s.free is not allocated yet, s.out[v] is in output v *)

Unallocated(tx, resolver) ==
  [id \in RuneIds |->
     FoldLeft(LAMBDA sum, ref : sum + resolver[ref].runes[id], 0, tx.ins)]

\* A mutant: what is allocated stays free.
AllocateKeeping(s, id, amount, v) == [s EXCEPT !.out[v][id] = @ + amount]

Allocate(s, id, amount, v) ==
  [free |-> [s.free EXCEPT ![id] = @ - amount],
   out |-> [s.out EXCEPT ![v][id] = @ + amount]]

AtMost(amount, balance) == IF amount < balance THEN amount ELSE balance

\* The whole balance in equal parts, the first ones one larger.
SplitEvenly(s, id, vs) ==
  LET share == s.free[id] \div Len(vs)
      larger == s.free[id] % Len(vs)
  IN  FoldLeft(LAMBDA u, i : Allocate(u, id, IF i <= larger THEN share + 1 ELSE share, vs[i]),
               s, [i \in DOMAIN vs |-> i])

SplitAmount(s, id, amount, vs) ==
  FoldLeft(LAMBDA u, v : Allocate(u, id, AtMost(amount, u.free[id]), v), s, vs)

\* One edict; its identifier is None when it means the rune being etched.
ApplyEdict(tx, etched, s, edict) ==
  LET id == IF edict.id = None THEN etched ELSE edict.id
      vs == SetToSortSeq(Destinations(tx), <)
  IN  IF id = None THEN s
      ELSE IF edict.output > Len(tx.outs)
      THEN IF edict.amount # 0 THEN SplitAmount(s, id, edict.amount, vs)
           ELSE IF vs = <<>> THEN s ELSE SplitEvenly(s, id, vs)
      ELSE Allocate(s, id,
             IF edict.amount = 0 THEN s.free[id] ELSE AtMost(edict.amount, s.free[id]),
             edict.output)

\* What is left goes to the pointer's output or the first that may hold runes.
Remainder(tx, s) ==
  LET pointer == IF tx.art = None THEN None ELSE tx.art.pointer
      v == IF pointer # None THEN pointer
           ELSE IF Destinations(tx) = {} THEN None ELSE Min(Destinations(tx))
  IN  IF v = None THEN s.out
      ELSE [s.out EXCEPT ![v] = [id \in RuneIds |-> @[id] + s.free[id]]]

Nowhere(tx) == [v \in DOMAIN tx.outs |-> NoRunes]

-----------------------------------------------------------------------------
(* The whole of index_runes for the transaction at an index of its block *)

IndexRunes(tx, index, resolver, t, height) ==
  LET art == tx.art
      id == <<height, index>>
      mints == art # None /\ art.mint # None /\ Mintable(t, art.mint, height)
      etches == art # None /\ Etches(tx, resolver, t, height)
      etched == IF etches THEN id ELSE None
      inputs == Unallocated(tx, resolver)
      minted == IF mints
                THEN [inputs EXCEPT ![art.mint] = @ + Default(t.terms[art.mint].amount)]
                ELSE inputs
      premined == IF etches /\ ~art.cenotaph
                  THEN [minted EXCEPT ![id] = @ + art.etch.premine] ELSE minted
      s0 == [free |-> premined, out |-> Nowhere(tx)]
      s == IF art = None \/ art.cenotaph THEN s0
           ELSE FoldLeft(LAMBDA u, e : ApplyEdict(tx, etched, u, e), s0, art.edicts)
  IN  [out |-> IF art # None /\ art.cenotaph THEN Nowhere(tx) ELSE Remainder(tx, s),
       etched |-> etches,
       minted |-> mints,
       tables |->
         [names |-> IF etches THEN (EtchedName(tx, id) :> id) @@ t.names ELSE t.names,
          terms |-> IF etches THEN (id :> CreateRuneEntry(tx, height)) @@ t.terms ELSE t.terms,
          mints |-> IF mints THEN [t.mints EXCEPT ![art.mint] = @ + 1] ELSE t.mints]]

EmptyRuneTables == [names |-> << >>, terms |-> << >>, mints |-> NoRunes]

\* Undo of one transaction of a block: its etching and its mint, if they were
\* successful.  An etching without a name is not looked at.
UndoRunes(tx, index, height, etches, mints, t) ==
  LET id == <<height, index>>
      undoEtch == /\ tx.art # None /\ tx.art.etch # None
                  /\ tx.art.etch.rune # None /\ index \in etches
      undoMint == tx.art # None /\ tx.art.mint # None /\ index \in mints
  IN  [names |-> IF undoEtch THEN [n \in DOMAIN t.names \ {tx.art.etch.rune} |-> t.names[n]]
                 ELSE t.names,
       terms |-> IF undoEtch THEN [i \in DOMAIN t.terms \ {id} |-> t.terms[i]] ELSE t.terms,
       mints |-> IF undoMint THEN [t.mints EXCEPT ![tx.art.mint] = @ - 1] ELSE t.mints]
=============================================================================
