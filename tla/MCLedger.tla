------------------------------ MODULE MCLedger ------------------------------
(***************************************************************************)
(* Small blocks for Ledger: a rune that is etched, minted and moved;       *)
(* inscriptions with and without curses; one BRC-20 ticker.                *)
(***************************************************************************)
EXTENDS Ledger

CONSTANTS A, Q, R, Tick

Out(v, s) == [value |-> v, script |-> s]
MCScripts == {A, Taproot, OpReturn}

\* Outputs for runes, for BRC-20 (the last leaves all to the miner), for inscriptions
MCTwoOut == {<<Out(2, A), Out(0, OpReturn)>>, <<Out(0, Taproot), Out(2, A)>>}
MCBrc20Out == {<<Out(2, Taproot)>>, <<Out(2, A)>>, <<Out(0, A)>>}
MCInscOut == {<<Out(2, Taproot)>>, <<Out(1, A), Out(1, Taproot)>>, <<Out(0, A), Out(1, A)>>}

NoArtifact == [cenotaph |-> FALSE, mint |-> None, etch |-> None, edicts |-> <<>>, pointer |-> None]
Edict(id, amount, output) == [id |-> id, amount |-> amount, output |-> output]
MCTerms == [amount |-> 2, cap |-> 1, offset |-> <<None, 2>>, height |-> <<3, None>>]
Etching(rune) == [rune |-> rune, commit |-> 1, premine |-> 3, terms |-> MCTerms]

\* The name Q is shorter than R.
MCEtchable(h) == IF h < 3 THEN {R} ELSE {Q, R}
MCRuneIds == (2 .. 4) \X (0 .. 1)
MCEtching ==
  {[NoArtifact EXCEPT !.etch = Etching(R), !.edicts = <<Edict(None, 0, 3)>>],
   [NoArtifact EXCEPT !.etch = Etching(R), !.cenotaph = TRUE],
   [NoArtifact EXCEPT !.etch = Etching(Q)]}
MCMoving ==
  {None,
   [NoArtifact EXCEPT !.mint = <<2, 1>>, !.edicts = <<Edict(<<2, 1>>, 1, 3)>>],
   [NoArtifact EXCEPT !.edicts = <<Edict(<<2, 1>>, 2, 2)>>, !.pointer = 1]}

Env(input, even, odd, pointer, msg) ==
  [input |-> input, even |-> even, odd |-> odd, pointer |-> pointer, msg |-> msg]
MCEnvelopes ==
  {<<>>, <<Env(1, FALSE, FALSE, None, None)>>, <<Env(1, TRUE, FALSE, None, None)>>,
   <<Env(1, FALSE, FALSE, None, None), Env(1, FALSE, TRUE, 1, None)>>}

Num(n) == [int |-> n, frac |-> <<>>]
Msg(op, tick, amt) ==
  [op |-> op, tick |-> tick, amt |-> amt, max |-> Num(3), lim |-> Num(2), dec |-> 0, self |-> FALSE]
Carries(m) == <<Env(1, FALSE, FALSE, None, m)>>
MCMessages ==
  {<<>>, Carries(Msg("deploy", Tick, None)), Carries(Msg("mint", Tick, Num(2))),
   Carries(Msg("transfer", Tick, Num(1)))}

Plain ==
  [outs |-> MCTwoOut, arts |-> {None}, envs |-> {<<>>}, claims |-> {TRUE}, txs |-> 1,
   height |-> 4, undone |-> 2, faults |-> 0, memory |-> FALSE]
MCTraffic ==
  [runes |-> [Plain EXCEPT !.arts = MCEtching \union MCMoving],
   inscriptions |->
     [Plain EXCEPT !.outs = MCInscOut, !.envs = MCEnvelopes, !.claims = {TRUE, FALSE},
                   !.height = 3, !.undone = 1, !.faults = 1, !.memory = TRUE],
   brc20 |->
     [Plain EXCEPT !.outs = MCBrc20Out, !.envs = MCMessages, !.txs = 2, !.height = 3,
                   !.undone = 1],
   chained |->
     [Plain EXCEPT !.txs = 2, !.height = 3, !.undone = 1, !.faults = 1, !.memory = TRUE]]
=============================================================================
