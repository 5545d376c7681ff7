-------------------------------- MODULE Brc20 --------------------------------
(***************************************************************************)
(* The BRC-20 part of index_inscriptions of the compressor and its undo:   *)
(* the tables of terms, supplies and available balances, the messages that *)
(* inscriptions carry, and the credit of a transfer that is used.  What a  *)
(* block did is logged as a sequence of <<inscription, effect>>; the undo  *)
(* of a block takes the log backwards.                                     *)
(***************************************************************************)
EXTENDS Transactions

CONSTANTS
  Scripts,                \* the scripts that own balances
  Ticks, SelfTicks,       \* the tickers of 4 bytes and of 5 bytes
  MaxInt                  \* bound: stands for u64::MAX in an amount

AllTicks == Ticks \union SelfTicks

EmptyBrc20 ==
  [terms |-> << >>, supply |-> [k \in AllTicks |-> 0],
   bal |-> [k \in AllTicks \X Scripts |-> 0]]

-----------------------------------------------------------------------------
(* Parsing: an amount is an integer part and the digits behind the dot *)

ParseDecimal(text, dec) ==
  IF text = None \/ text.int > MaxInt \/ Len(text.frac) > dec THEN None
  ELSE text.int * 10 ^ dec
       + FoldLeft(LAMBDA n, d : 10 * n + d, 0, text.frac) * 10 ^ (dec - Len(text.frac))

DeployMax(m) ==
  LET x == ParseDecimal(m.max, m.dec)
  IN  IF x # 0 THEN x ELSE IF m.self THEN MaxInt * 10 ^ m.dec ELSE None

DeployLimit(m) == IF m.lim = None THEN DeployMax(m) ELSE ParseDecimal(m.lim, m.dec)

IsDeploy(m) ==
  /\ m.op = "deploy"
  /\ m.self <=> m.tick \in SelfTicks
  /\ m.dec # None
  /\ DeployMax(m) # None
  /\ DeployLimit(m) \notin {None, 0}

IsMint(m, terms, parents) ==
  /\ m.op = "mint"
  /\ ParseDecimal(m.amt, terms.dec) \notin {None, 0}
  /\ ParseDecimal(m.amt, terms.dec) <= terms.limit
  /\ terms.self => terms.id \in parents

IsTransfer(m, terms) ==
  /\ m.op = "transfer"
  /\ ParseDecimal(m.amt, terms.dec) \notin {None, 0}

-----------------------------------------------------------------------------
(* Effects: s is the tables b, the log and the transfers not used yet *)

Logged(s, b, id, effect) == [s EXCEPT !.b = b, !.log = Append(@, <<id, effect>>)]

Deploy(s, id, m) ==
  Logged(s, [s.b EXCEPT !.terms =
               (m.tick :> [max |-> DeployMax(m), limit |-> DeployLimit(m), dec |-> m.dec,
                           self |-> m.self, id |-> id]) @@ @],
         id, [op |-> "deploy", tick |-> m.tick])

\* A mutant: the last mint is not cut to what is left of the supply.
MintWhole(s, id, m, receiver) ==
  LET amt == ParseDecimal(m.amt, s.b.terms[m.tick].dec)
  IN  IF s.b.supply[m.tick] = s.b.terms[m.tick].max \/ receiver = None THEN s
      ELSE Logged(s, [s.b EXCEPT !.supply[m.tick] = @ + amt, !.bal[<<m.tick, receiver>>] = @ + amt],
                  id, [op |-> "mint", tick |-> m.tick, amt |-> amt, to |-> receiver])

Mint(s, id, m, receiver) ==
  LET terms == s.b.terms[m.tick]
      left == terms.max - s.b.supply[m.tick]
      asked == ParseDecimal(m.amt, terms.dec)
      amt == IF asked < left THEN asked ELSE left
  IN  IF left = 0 \/ receiver = None THEN s
      ELSE Logged(s, [s.b EXCEPT !.supply[m.tick] = @ + amt, !.bal[<<m.tick, receiver>>] = @ + amt],
                  id, [op |-> "mint", tick |-> m.tick, amt |-> amt, to |-> receiver])

TransferInit(s, id, m, receiver) ==
  LET amt == ParseDecimal(m.amt, s.b.terms[m.tick].dec)
  IN  IF receiver = None \/ s.b.bal[<<m.tick, receiver>>] < amt THEN s
      ELSE [Logged(s, [s.b EXCEPT !.bal[<<m.tick, receiver>>] = @ - amt],
                   id, [op |-> "init", tick |-> m.tick, amt |-> amt, to |-> receiver])
            EXCEPT !.unused = (id :> [tick |-> m.tick, amt |-> amt]) @@ @]

\* A new inscription with a message; the receiver is the script of the output
\* it is in, None when it is in none.
Message(s, id, m, receiver, parents) ==
  IF IsDeploy(m) THEN IF m.tick \in DOMAIN s.b.terms THEN s ELSE Deploy(s, id, m)
  ELSE IF m.tick \notin DOMAIN s.b.terms THEN s
  ELSE IF IsMint(m, s.b.terms[m.tick], parents) THEN Mint(s, id, m, receiver)
  ELSE IF IsTransfer(m, s.b.terms[m.tick]) THEN TransferInit(s, id, m, receiver)
  ELSE s

\* A transfer inscription moves for the first time, out of the output used.at.
Credit(s, id, used, receiver) ==
  Logged(s, [s.b EXCEPT !.bal[<<used.transfer.tick, receiver>>] = @ + used.transfer.amt],
         id, [op |-> "transfer", tick |-> used.transfer.tick, amt |-> used.transfer.amt,
              to |-> receiver, at |-> used.at])

-----------------------------------------------------------------------------
(* Undo *)

UndoEffect(b, e) ==
  CASE e.op = "deploy" -> [b EXCEPT !.terms = [k \in DOMAIN @ \ {e.tick} |-> @[k]]]
    [] e.op = "mint" -> [b EXCEPT !.supply[e.tick] = @ - e.amt, !.bal[<<e.tick, e.to>>] = @ - e.amt]
    [] e.op = "transfer" -> [b EXCEPT !.bal[<<e.tick, e.to>>] = @ - e.amt]
    [] e.op = "init" -> [b EXCEPT !.bal[<<e.tick, e.to>>] = @ + e.amt]

UndoBrc20(b, log) == FoldLeft(LAMBDA c, entry : UndoEffect(c, entry[2]), b, Reverse(log))
=============================================================================
