------------------------------ MODULE MCIndexer ------------------------------
(***************************************************************************)
(* Small chains for Indexer, with the sets of reducers that are checked    *)
(* together.                                                               *)
(***************************************************************************)
EXTENDS Indexer

CONSTANTS A, R, Tick

SatReducerNames ==
  <<"UtxosByScriptHash", "SatBalanceByScriptHash", "TotalUtxosByScriptHash",
   "TotalTxsByScriptHash", "TotalOutputsByScriptHash", "TotalSatInInputsByScriptHash",
   "TotalSatInOutputsByScriptHash", "HistoricalSatBalanceByScriptHash", "TxsByScriptHash",
   "SatTxsByScriptHash", "BlockByTxHash", "HeightByTimestamp", "HeightByBlockHash",
   "TxsByBlock", "SpendingTxByTxo", "ScriptByScriptHash", "ScriptHashByAddressPayloadHash",
   "TxFirstSeenTimestamp", "SatsPerVbByBlock", "BlockInfo", "TxInfo">>

\* Two blocks in a row have the same time.
MCTime(h) == (h + 1) \div 2

\* Two buckets.
MCBucket(tx) == Len(tx.outs)

Out(v, s) == [value |-> v, script |-> s]
MCScripts == {A, Taproot, OpReturn}

MCSatOut == {<<Out(1, A), Out(1, Taproot)>>, <<Out(2, A), Out(0, OpReturn)>>}

\* Outputs without sats, which can be spent one by one.
MCZeroOut == {<<Out(0, A), Out(0, A)>>, <<Out(1, A)>>, <<Out(0, OpReturn)>>}

RuneReducerNames ==
  <<"MintsByRuneId", "RuneIdByRuneName", "EtchingByRuneId", "BalancesByRuneId",
    "RuneUtxosByScriptHash", "UtxosByRuneId", "RuneTxsByScriptHash", "TxsByRuneId">>

NoArtifact == [cenotaph |-> FALSE, mint |-> None, etch |-> None, edicts |-> <<>>, pointer |-> None]
Edict(id, amount, output) == [id |-> id, amount |-> amount, output |-> output]
MCTerms == [amount |-> 2, cap |-> 1, offset |-> <<None, None>>, height |-> <<3, None>>]
Etching == [rune |-> R, commit |-> 1, premine |-> 3, terms |-> MCTerms]

MCEtchable(h) == {R}
MCRuneIds == {<<2, 0>>, <<2, 1>>, <<3, 0>>, <<3, 1>>, <<4, 0>>}
MCRuneOut == {<<Out(0, A), Out(0, OpReturn), Out(0, Taproot)>>}

\* Etch for everyone, as a cenotaph, mint, and move to the third output.
MCArtifacts ==
  {None,
   [NoArtifact EXCEPT !.etch = Etching, !.edicts = <<Edict(None, 0, 4)>>],
   [NoArtifact EXCEPT !.etch = Etching, !.cenotaph = TRUE],
   [NoArtifact EXCEPT !.mint = <<2, 1>>, !.edicts = <<Edict(<<2, 1>>, 1, 3)>>]}

InscriptionReducerNames ==
  <<"ContentByInscriptionId", "TotalInscriptionsByScriptHash", "InscriptionUtxosByScriptHash",
    "InscriptionActivityByTx", "InscriptionActivityByTxV2", "TxsByInscription",
    "InscriptionActivityByScriptHash">>

Brc20ReducerNames ==
  <<"BalancesByBrc20", "Brc20BalancesByScriptHash", "TransferInscriptionsByScriptHash",
    "Brc20TermsByTicker">>

\* The last leaves all to the miner.
MCInscOut == {<<Out(1, A), Out(0, Taproot)>>, <<Out(0, A)>>}
Env(even, msg) == [input |-> 1, even |-> even, odd |-> FALSE, pointer |-> None, msg |-> msg]
MCEnvelopes == {<<>>, <<Env(FALSE, None)>>, <<Env(FALSE, None), Env(TRUE, None)>>}

MCBrc20Out == {<<Out(2, A)>>, <<Out(0, A)>>}
Num(n) == [int |-> n, frac |-> <<>>]
Msg(op, amt) ==
  [op |-> op, tick |-> Tick, amt |-> amt, max |-> Num(3), lim |-> Num(2), dec |-> 0, self |-> FALSE]
MCMessages ==
  {<<>>, <<Env(FALSE, Msg("deploy", None)), Env(FALSE, Msg("mint", Num(2)))>>,
   <<Env(FALSE, Msg("transfer", Num(1)))>>}

Sats ==
  [outs |-> MCSatOut, arts |-> {None}, envs |-> {<<>>}, claims |-> {TRUE}, txs |-> 1,
   height |-> 3, undone |-> 1, faults |-> 0, memory |-> FALSE, viewBlocks |-> 2, views |-> 1,
   reducers |-> SatReducerNames, restarts |-> 0]
MCTraffic ==
  [sats |-> Sats,
   pairs |-> [Sats EXCEPT !.outs = {<<Out(1, A), Out(1, Taproot)>>}, !.txs = 2],
   zeros |-> [Sats EXCEPT !.outs = MCZeroOut, !.height = 4, !.views = 0],
   runes |-> [Sats EXCEPT !.outs = MCRuneOut, !.arts = MCArtifacts,
                          !.reducers = RuneReducerNames],
   reboot |-> [Sats EXCEPT !.outs = MCRuneOut, !.reducers = RuneReducerNames,
                           !.restarts = 1],
   inscriptions |-> [Sats EXCEPT !.outs = MCInscOut, !.envs = MCEnvelopes,
                                 !.reducers = InscriptionReducerNames],
   brc20 |-> [Sats EXCEPT !.outs = MCBrc20Out, !.envs = MCMessages,
                          !.reducers = Brc20ReducerNames]]
=============================================================================
