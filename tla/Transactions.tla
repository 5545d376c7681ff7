---------------------------- MODULE Transactions ----------------------------
(***************************************************************************)
(* What the rune and the inscription indexer of the compressor both read   *)
(* in a transaction: inputs that name outputs, and outputs with a value    *)
(* and a script.  A coinbase transaction has no inputs.                    *)
(***************************************************************************)
EXTENDS Naturals, Sequences, FiniteSets, SequencesExt, FiniteSetsExt, TLC

CONSTANTS
  None,
  OpReturn, Taproot       \* two kinds of script that are told apart

OutRefs(tx) == {<<tx, v>> : v \in DOMAIN tx.outs}

OutputValue(tx) == FoldLeft(LAMBDA n, o : n + o.value, 0, tx.outs)

\* The value of the outputs spent, looked up in bodies.
InputValue(tx, bodies) == FoldLeft(LAMBDA n, ref : n + bodies[ref].value, 0, tx.ins)
=============================================================================
