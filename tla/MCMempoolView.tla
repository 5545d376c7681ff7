---------------------------- MODULE MCMempoolView ----------------------------
(***************************************************************************)
(* Small chains and views for MempoolView: a rune that is etched, minted   *)
(* and moved, and one BRC-20 ticker.                                       *)
(***************************************************************************)
EXTENDS MempoolView

CONSTANTS A, R, Tick

Out(v, s) == [value |-> v, script |-> s]
MCScripts == {A, Taproot, OpReturn}
MCRuneOut == {<<Out(1, A), Out(0, OpReturn)>>}
MCBrc20Out == {<<Out(2, Taproot)>>, <<Out(0, A)>>}

NoArtifact == [cenotaph |-> FALSE, mint |-> None, etch |-> None, edicts |-> <<>>, pointer |-> None]
MCTerms == [amount |-> 2, cap |-> 1, offset |-> <<None, None>>, height |-> <<3, None>>]
Etching == [rune |-> R, commit |-> 1, premine |-> 3, terms |-> MCTerms]

MCEtchable(h) == {R}
MCRuneIds == (2 .. 4) \X (0 .. 2)
MCArtifacts ==
  {[NoArtifact EXCEPT !.etch = Etching, !.edicts = <<[id |-> None, amount |-> 0, output |-> 3]>>],
   [NoArtifact EXCEPT !.etch = Etching, !.cenotaph = TRUE],
   [NoArtifact EXCEPT !.mint = <<2, 1>>]}

Env(msg) == [input |-> 1, even |-> FALSE, odd |-> FALSE, pointer |-> None, msg |-> msg]
Num(n) == [int |-> n, frac |-> <<>>]
Msg(op, amt) ==
  [op |-> op, tick |-> Tick, amt |-> amt, max |-> Num(3), lim |-> Num(2), dec |-> 0, self |-> FALSE]
Minted == <<Env(Msg("deploy", None)), Env(Msg("mint", Num(2)))>>
Transfer == <<Env(Msg("transfer", Num(1)))>>

Runic ==
  [outs |-> MCRuneOut, arts |-> MCArtifacts, envs |-> {<<>>}, claims |-> {TRUE}, txs |-> 1,
   height |-> 2, undone |-> 1, faults |-> 0, memory |-> FALSE, viewBlocks |-> 2, views |-> 2]
Brc20ed ==
  [Runic EXCEPT !.outs = MCBrc20Out, !.arts = {None}, !.envs = {Minted, Transfer}, !.undone = 0,
                !.viewBlocks = 1]
MCTraffic ==
  [runes |-> Runic,
   minted |-> [Runic EXCEPT !.height = 3, !.undone = 0, !.viewBlocks = 1, !.views = 1],
   brc20 |-> Brc20ed,
   mined |-> [Brc20ed EXCEPT !.envs = {<<>>, Minted \o Transfer, Transfer}, !.txs = 2, !.views = 1]]
=============================================================================
