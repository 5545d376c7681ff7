--------------------------- MODULE StorageActions ---------------------------
(***************************************************************************)
(* The storage actions of polyphony-xbt, seen from one key: what executing *)
(* an action does to the value stored at the key, which inverse the        *)
(* rollback buffer keeps, how two actions of one block are merged and how  *)
(* the action of one mempool refresh is turned into that of the next.      *)
(*                                                                         *)
(* A value is Absent (no such key) or an element of Values; the numeric    *)
(* actions act on natural numbers (u128 in the code).  PointAggregate,     *)
(* which writes several keys, is not among them.                           *)
(***************************************************************************)
EXTENDS Integers

CONSTANTS
  Values,      \* what a key may hold; counters hold naturals
  Absent,      \* no value is stored at the key
  NoAction,    \* Option::None of merge and diff
  Panic        \* the panic!() arms of merge and diff

Operations == {"Set", "SetOnce", "SetPermanent", "Delete", "Insert", "InsertPermanent",
               "Increment", "Decrement", "DecrementNoDelete"}

Act(op, arg) == [op |-> op, arg |-> arg]

Set(v)               == Act("Set", v)
SetOnce(v)           == Act("SetOnce", v)
SetPermanent(v)      == Act("SetPermanent", v)
Delete               == Act("Delete", 0)
Insert(v)            == Act("Insert", v)
InsertPermanent(v)   == Act("InsertPermanent", v)
Increment(d)         == Act("Increment", d)
Decrement(d)         == Act("Decrement", d)
DecrementNoDelete(d) == Act("DecrementNoDelete", d)

-----------------------------------------------------------------------------
(* Execution against the previous value v of the key. *)

ExecIncrement(d, v) == IF v = Absent THEN d ELSE v + d

\* A missing counter counts as zero.
Counts(v) == IF v = Absent THEN 0 ELSE v

\* checked_sub: Some(0) and None both delete the key.
ExecDecrement(d, v) == IF v = Absent \/ v <= d THEN Absent ELSE v - d

ExecDecrementNoDelete(d, v) ==
  IF v = Absent THEN Absent ELSE IF v < d THEN 0 ELSE v - d

Exec(a, v) ==
  CASE a.op \in {"Set", "SetOnce", "SetPermanent"} -> a.arg
    [] a.op = "Delete"                             -> Absent
    [] a.op \in {"Insert", "InsertPermanent"}      -> IF v = Absent THEN a.arg ELSE v
    [] a.op = "Increment"                          -> ExecIncrement(a.arg, v)
    [] a.op = "Decrement"                          -> ExecDecrement(a.arg, v)
    [] a.op = "DecrementNoDelete"                  -> ExecDecrementNoDelete(a.arg, v)

\* The effect of Option<StorageAction>.
ExecOption(a, v) == IF a = NoAction THEN v ELSE Exec(a, v)

\* Mutant of LeavesInverse: an increment that creates the key is not recorded.
LeavesInverseOfUpdates(a, v) ==
  CASE a.op = "Set"                                 -> v # a.arg
    [] a.op = "SetOnce"                             -> TRUE
    [] a.op \in {"SetPermanent", "InsertPermanent"} -> FALSE
    [] a.op = "Insert"                              -> v = Absent
    [] OTHER                                        -> v # Absent

\* The actions that leave an inverse behind when the previous value is v.  The
\* inverse itself is always Set(v), or Delete when v is Absent, except that of
\* SetOnce, which is Delete without looking.
LeavesInverse(a, v) ==
  CASE a.op = "Set"                                 -> v # a.arg
    [] a.op = "SetOnce"                             -> TRUE
    [] a.op \in {"SetPermanent", "InsertPermanent"} -> FALSE
    [] a.op = "Insert"                              -> v = Absent
    [] a.op = "Increment"                           -> TRUE
    [] a.op \in {"Delete", "Decrement", "DecrementNoDelete"} -> v # Absent

\* What the inverse puts back.
Overwritten(a, v) == IF a.op = "SetOnce" THEN Absent ELSE v

\* An inverse is [saved |-> FALSE] or carries the value to put back.
NoInverse == [saved |-> FALSE, val |-> Absent]

InverseOf(a, v) ==
  IF LeavesInverse(a, v) THEN [saved |-> TRUE, val |-> Overwritten(a, v)] ELSE NoInverse

\* Executing the stored inverse i on a key that now holds v.
Undo(i, v) == IF i.saved THEN i.val ELSE v

-----------------------------------------------------------------------------
(* StorageAction::merge: a, then b, as one action.  NoAction when the two   *)
(* cancel out, Panic for the pairs the code does not expect.                *)

MergeIncrement(a, b) ==
  CASE b.op = "Increment" -> Increment(a.arg + b.arg)
    [] b.op = "Decrement" -> IF a.arg = b.arg THEN NoAction
                             ELSE IF a.arg > b.arg THEN Increment(a.arg - b.arg)
                             ELSE Decrement(b.arg - a.arg)
    [] b.op = "DecrementNoDelete" -> IF a.arg >= b.arg THEN Increment(a.arg - b.arg)
                                     ELSE DecrementNoDelete(b.arg - a.arg)
    [] OTHER -> Panic

MergeDecrement(a, b) ==
  CASE b.op = "Decrement" -> Decrement(a.arg + b.arg)
    [] b.op = "Increment" -> IF a.arg = b.arg THEN NoAction
                             ELSE IF a.arg > b.arg THEN Decrement(a.arg - b.arg)
                             ELSE Increment(b.arg - a.arg)
    [] OTHER -> Panic

MergeDecrementNoDelete(a, b) ==
  CASE b.op = "DecrementNoDelete" -> DecrementNoDelete(a.arg + b.arg)
    [] b.op = "Increment" -> IF a.arg >= b.arg THEN DecrementNoDelete(a.arg - b.arg)
                             ELSE Increment(b.arg - a.arg)
    [] OTHER -> Panic

\* Mutant of MergeWrite: an insert after a delete stays an insert.
MergeWriteLater(a, b) ==
  CASE a.op \in {"Set", "Delete", "Insert"} /\ b.op \in {"Set", "Delete"} -> b
    [] a.op \in {"Set", "Insert"} /\ b.op = "Insert"                      -> a
    [] a.op = "Delete" /\ b.op = "Insert"                                 -> b
    [] a.op = "SetOnce" /\ b.op = "Delete"                                -> NoAction
    [] a.op \in {"SetPermanent", "InsertPermanent"} /\ b.op = a.op        -> a
    [] OTHER -> Panic

\* The pairs among Set, SetOnce, SetPermanent, Delete, Insert, InsertPermanent.
MergeWrite(a, b) ==
  CASE a.op \in {"Set", "Delete", "Insert"} /\ b.op \in {"Set", "Delete"} -> b
    [] a.op \in {"Set", "Insert"} /\ b.op = "Insert"                      -> a
    [] a.op = "Delete" /\ b.op = "Insert"                                 -> Set(b.arg)
    [] a.op = "SetOnce" /\ b.op = "Delete"                                -> NoAction
    [] a.op \in {"SetPermanent", "InsertPermanent"} /\ b.op = a.op        -> a
    [] OTHER -> Panic

Merge(a, b) ==
  CASE a.op = "Increment"         -> MergeIncrement(a, b)
    [] a.op = "Decrement"         -> MergeDecrement(a, b)
    [] a.op = "DecrementNoDelete" -> MergeDecrementNoDelete(a, b)
    [] OTHER                      -> MergeWrite(a, b)

-----------------------------------------------------------------------------
(* StorageAction::diff: what to execute after a so that the key is as if b  *)
(* had been executed instead of a.                                          *)

\* The two deltas have the same sign.
DiffSameSign(a, b, opposite) ==
  IF a.arg = b.arg THEN NoAction
  ELSE IF b.arg > a.arg THEN Act(b.op, b.arg - a.arg)
  ELSE Act(opposite, a.arg - b.arg)

\* Mutant of DiffCounter: a change of sign forgets what was added before.
DiffCounterFromZero(a, b) ==
  CASE a.op = "Increment" /\ b.op = "Increment" -> DiffSameSign(a, b, "Decrement")
    [] a.op \in {"Decrement", "DecrementNoDelete"} /\ b.op = a.op
         -> DiffSameSign(a, b, "Increment")
    [] OTHER -> b

DiffCounter(a, b) ==
  CASE a.op = "Increment" /\ b.op = "Increment" -> DiffSameSign(a, b, "Decrement")
    [] a.op \in {"Decrement", "DecrementNoDelete"} /\ b.op = a.op
         -> DiffSameSign(a, b, "Increment")
    [] a.op = "Increment" /\ b.op \in {"Decrement", "DecrementNoDelete"}
         -> Act(b.op, a.arg + b.arg)
    [] a.op \in {"Decrement", "DecrementNoDelete"} /\ b.op = "Increment"
         -> Increment(a.arg + b.arg)
    [] OTHER -> Panic

DiffWrite(a, b) ==
  CASE a.op = "Set" /\ b.op \in {"Set", "Delete"} -> IF a = b THEN NoAction ELSE b
    [] a.op = "SetOnce" /\ b.op = "SetOnce"       -> IF a = b THEN NoAction ELSE Set(b.arg)
    [] a.op = "SetOnce" /\ b.op = "Delete"        -> b
    [] a.op = "SetPermanent" /\ b = a             -> NoAction
    [] a.op = "Delete" /\ b.op \in {"Set", "SetOnce", "Insert", "Delete"}
         -> IF b.op = "Delete" THEN NoAction ELSE b
    [] a.op = "Insert" /\ b.op \in {"Insert", "Set", "Delete"}
         -> IF a = b THEN NoAction ELSE b
    [] a.op = "InsertPermanent" /\ b.op = a.op    -> NoAction
    [] OTHER -> Panic

Diff(a, b) ==
  IF a.op \in {"Increment", "Decrement", "DecrementNoDelete"}
  THEN DiffCounter(a, b) ELSE DiffWrite(a, b)

=============================================================================
