---------------------------- MODULE ActionMerger ----------------------------
(***************************************************************************)
(* One key of the index through the blocks of the chain.  The reducers of  *)
(* a block emit actions for the key one after the other; ActionMerger      *)
(* folds them into at most one action, which the storage stage executes    *)
(* once, keeping its inverse; a rollback executes the inverse.             *)
(*                                                                         *)
(* class says which reducer owns the key, hence which actions it emits and *)
(* what it promises about them (reducer_output_to_storage_ops): a txo is   *)
(* created once and spent once, a balance is never spent below zero, a     *)
(* permanent key is always given the same value.                           *)
(***************************************************************************)
EXTENDS StorageActions

CONSTANTS
  Deltas,    \* the amounts a reducer adds or subtracts
  MaxValue,  \* bound: the largest value a counter reaches (below 2^128)
  Underflow  \* do reducers ever subtract more than there is?

ASSUME DeltasAssumption == Deltas \subseteq Nat
ASSUME MaxValueAssumption == MaxValue \in Nat
ASSUME UnderflowAssumption == Underflow \in BOOLEAN
ASSUME ValuesAssumption == Values = 0..MaxValue
ASSUME MarkersAssumption ==
  /\ Absent \notin Nat
  /\ [op : Operations, arg : Values] \cap {NoAction, Panic} = {}
  /\ NoAction # Panic

VARIABLES
  class,    \* which kind of reducer writes the key
  base,     \* the value before the block
  value,    \* the value were every action executed on its own
  merged,   \* ActionMerger.actions[key], NoAction when there is no entry
  store,    \* the value in TiKV
  inverse,  \* the entry of the rollback buffer
  phase     \* "merge", "applied" or "undone"

vars == <<class, base, value, merged, store, inverse, phase>>

Classes == {"balance", "ledger", "txo", "record", "constant", "firstseen"}

\* There is at least d to subtract from.
Covered(d, v) == Underflow \/ d <= Counts(v)

\* What the reducers of each class may emit for a key that held b before the
\* block and holds v now.  An output of no satoshi is added and, later, subtracted
\* like any other: the key may be gone by then.
BalanceActions(v) ==
  {Increment(d) : d \in {x \in Deltas : ExecIncrement(x, v) <= MaxValue}}
    \cup {Decrement(d) : d \in {x \in Deltas : Covered(x, v)}}

LedgerActions(v) ==
  {Increment(d) : d \in {x \in Deltas : ExecIncrement(x, v) <= MaxValue}}
    \cup {DecrementNoDelete(d) : d \in {x \in Deltas : (Underflow \/ v # Absent) /\ Covered(x, v)}}

TxoActions(b, v) ==
  {SetOnce(w) : w \in {x \in Values : b = Absent /\ v = Absent}}
    \cup {a \in {Delete} : v # Absent}

RecordActions == {Set(w) : w \in Values} \cup {Insert(w) : w \in Values} \cup {Delete}

ConstantActions(v) == {SetPermanent(w) : w \in {x \in Values : v \in {Absent, x}}}

FirstSeenActions == {InsertPermanent(w) : w \in Values}

Init ==
  /\ class \in Classes
  /\ base \in {Absent} \cup {v \in Values : class # "balance" \/ v > 0 \/ 0 \in Deltas}
  /\ value = base
  /\ merged = NoAction
  /\ store = base
  /\ inverse = NoInverse
  /\ phase = "merge"

\* push_actions for one more action of the block.
PushAction(m, a) == IF m = NoAction THEN a ELSE Merge(m, a)

Push(a) ==
  /\ phase = "merge"
  /\ merged # Panic
  /\ value' = Exec(a, value)
  /\ merged' = PushAction(merged, a)
  /\ UNCHANGED <<class, base, store, inverse, phase>>

\* into_merged_actions, then execution with the inverse.
Apply ==
  /\ phase = "merge"
  /\ merged # Panic
  /\ store' = ExecOption(merged, store)
  /\ inverse' = IF merged = NoAction THEN NoInverse ELSE InverseOf(merged, store)
  /\ phase' = "applied"
  /\ UNCHANGED <<class, base, value, merged>>

RollBack ==
  /\ phase = "applied"
  /\ store' = Undo(inverse, store)
  /\ phase' = "undone"
  /\ UNCHANGED <<class, base, value, merged, inverse>>

NextBlock ==
  /\ phase \in {"applied", "undone"}
  /\ base' = store
  /\ value' = store
  /\ merged' = NoAction
  /\ inverse' = NoInverse
  /\ phase' = "merge"
  /\ UNCHANGED <<class, store>>

Next ==
  \/ class = "balance" /\ \E a \in BalanceActions(value) : Push(a)
  \/ class = "ledger" /\ \E a \in LedgerActions(value) : Push(a)
  \/ class = "txo" /\ \E a \in TxoActions(base, value) : Push(a)
  \/ class = "record" /\ \E a \in RecordActions : Push(a)
  \/ class = "constant" /\ \E a \in ConstantActions(value) : Push(a)
  \/ class = "firstseen" /\ \E a \in FirstSeenActions : Push(a)
  \/ Apply
  \/ RollBack
  \/ NextBlock

Spec == Init /\ [][Next]_vars

-----------------------------------------------------------------------------
\* The types of the state.  That no value leaves Values also says that merging
\* deltas never needs more than executing them one by one does.
TypeOK ==
  /\ class \in Classes
  /\ base \in Values \cup {Absent}
  /\ value \in Values \cup {Absent}
  /\ store \in Values \cup {Absent}
  /\ inverse \in [saved : BOOLEAN, val : Values \cup {Absent}]
  /\ phase \in {"merge", "applied", "undone"}

\* Where outputs of no satoshi occur, a balance of zero may be stored or missing.
Alike(v, w) == v = w \/ (class = "balance" /\ 0 \in Deltas /\ Counts(v) = Counts(w))

\* Whatever the reducers of a block emit for a key, in whatever order, the one
\* action that ActionMerger is left with does to the key what the whole
\* sequence would have done, and the merge never meets a pair it panics on
\* (StorageAction::merge, ActionMerger::push_actions).  The one difference it may
\* make is between a satoshi balance of zero and a missing one, where the block
\* adds or subtracts zero: over 3, Decrement(3) and Increment(0) leave 0, and the
\* merged Decrement(3) deletes the key.
MergeFaithful == merged # Panic /\ Alike(ExecOption(merged, base), value)

\* Executing the inverse of the merged action, as a rollback does, puts the key
\* back to what it held before the block, for every action but the permanent
\* ones (execute_storage_op_in_txn_with_inverse).
RollBackRestores ==
  phase = "undone" /\ class \notin {"constant", "firstseen"} => store = base

=============================================================================
