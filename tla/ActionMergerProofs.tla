------------------------- MODULE ActionMergerProofs -------------------------
(***************************************************************************)
(* For every set of deltas and every bound on the values: the merged       *)
(* action of a block does what the whole sequence of its actions does, and *)
(* its inverse undoes it, as long as no reducer subtracts more than there  *)
(* is (Underflow = FALSE).  Where zero is among the deltas, a satoshi      *)
(* balance of zero may be stored or missing.                               *)
(***************************************************************************)
EXTENDS ActionMerger, TLAPS

\* Most steps are first-order; those that need arithmetic or functions cite SMT.
USE ZenonT(60)

MaybeValues == Values \cup {Absent}

(* What the merged action of a key of each class can be, together with the  *)
(* value the actions pushed so far lead to.                                 *)

\* When no delta is zero, a balance that is stored is not zero either.
ExactBalance ==
  /\ base # 0 /\ value # 0
  /\ \/ merged = NoAction /\ value = base
     \/ \E d \in Values \ {0} :
          \/ merged = Increment(d) /\ value = ExecIncrement(d, base)
          \/ merged = Decrement(d) /\ base # Absent /\ d <= base
               /\ value = ExecDecrement(d, base)

\* Otherwise only the amounts agree.
CountedBalance ==
  \/ merged = NoAction /\ Counts(value) = Counts(base)
  \/ \E d \in Values :
       \/ merged = Increment(d) /\ Counts(value) = Counts(base) + d
       \/ merged = Decrement(d) /\ d <= Counts(base) /\ Counts(value) = Counts(base) - d

BalanceShape == IF 0 \in Deltas THEN CountedBalance ELSE ExactBalance

LedgerShape ==
  \/ merged = NoAction /\ value = base
  \/ \E d \in Values :
       \/ merged = Increment(d) /\ value = ExecIncrement(d, base)
       \/ merged = DecrementNoDelete(d) /\ base # Absent /\ d <= base /\ value = base - d

TxoShape ==
  \/ merged = NoAction /\ value = base
  \/ merged = Delete /\ base # Absent /\ value = Absent
  \/ \E w \in Values : merged = SetOnce(w) /\ base = Absent /\ value = w

RecordShape ==
  \/ merged = NoAction /\ value = base
  \/ merged = Delete /\ value = Absent
  \/ \E w \in Values :
       \/ merged = Set(w) /\ value = w
       \/ merged = Insert(w) /\ value = (IF base = Absent THEN w ELSE base)

ConstantShape ==
  \/ merged = NoAction /\ value = base
  \/ \E w \in Values : merged = SetPermanent(w) /\ value = w /\ base \in {Absent, w}

FirstSeenShape ==
  \/ merged = NoAction /\ value = base
  \/ \E w \in Values :
       merged = InsertPermanent(w) /\ value = (IF base = Absent THEN w ELSE base)

Shape ==
  /\ class = "balance" => BalanceShape
  /\ class = "ledger" => LedgerShape
  /\ class = "txo" => TxoShape
  /\ class = "record" => RecordShape
  /\ class = "constant" => ConstantShape
  /\ class = "firstseen" => FirstSeenShape

Applied ==
  /\ phase = "merge" => store = base
  /\ phase = "applied" =>
       /\ store = ExecOption(merged, base)
       /\ inverse = IF merged = NoAction THEN NoInverse ELSE InverseOf(merged, base)
  /\ phase = "undone" =>
       /\ class \notin {"constant", "firstseen"} => store = base
       /\ class \in {"constant", "firstseen"} => store = ExecOption(merged, base)

MergerInv == TypeOK /\ Shape /\ Applied

-----------------------------------------------------------------------------
\* The values are an interval from 0, and no value stands for an absent key.
LEMMA ValuesFacts ==
  MaxValue \in Nat /\ Values = 0..MaxValue /\ 0 \in Values /\ Absent \notin Nat
BY SMTT(60), MaxValueAssumption, ValuesAssumption, MarkersAssumption

\* An action of a reducer is no marker, and writes over the value that it met.
LEMMA ActionFacts ==
  ASSUME NEW w \in Values
  PROVE  /\ Set(w) # NoAction /\ Set(w) # Panic
         /\ SetOnce(w) # NoAction /\ SetOnce(w) # Panic
         /\ SetPermanent(w) # NoAction /\ SetPermanent(w) # Panic
         /\ Delete # NoAction /\ Delete # Panic
         /\ Insert(w) # NoAction /\ Insert(w) # Panic
         /\ InsertPermanent(w) # NoAction /\ InsertPermanent(w) # Panic
         /\ Increment(w) # NoAction /\ Increment(w) # Panic
         /\ Decrement(w) # NoAction /\ Decrement(w) # Panic
         /\ DecrementNoDelete(w) # NoAction /\ DecrementNoDelete(w) # Panic
         /\ Overwritten(SetOnce(w), Absent) = Absent
         /\ \A v : /\ Overwritten(Set(w), v) = v
                  /\ Overwritten(Delete, v) = v
                  /\ Overwritten(Insert(w), v) = v
                  /\ Overwritten(Increment(w), v) = v
                  /\ Overwritten(Decrement(w), v) = v
                  /\ Overwritten(DecrementNoDelete(w), v) = v
<1>1. 0 \in Values
  BY SMTT(60), MaxValueAssumption, ValuesAssumption
<1>2. \A op \in Operations, arg \in Values : Act(op, arg) \notin {NoAction, Panic}
  BY MarkersAssumption DEF Act
<1>3. QED
  BY <1>1, <1>2 DEF Overwritten, Act, Set, SetOnce, SetPermanent, Delete, Insert,
       InsertPermanent, Increment, Decrement, DecrementNoDelete, Operations

(* Exec and InverseOf, one kind of action at a time. *)
LEMMA ExecFacts ==
  ASSUME NEW w, NEW v
  PROVE  /\ Exec(Set(w), v) = w
         /\ Exec(SetOnce(w), v) = w
         /\ Exec(SetPermanent(w), v) = w
         /\ Exec(Delete, v) = Absent
         /\ Exec(Insert(w), v) = IF v = Absent THEN w ELSE v
         /\ Exec(InsertPermanent(w), v) = IF v = Absent THEN w ELSE v
         /\ Exec(Increment(w), v) = ExecIncrement(w, v)
         /\ Exec(Decrement(w), v) = ExecDecrement(w, v)
         /\ Exec(DecrementNoDelete(w), v) = ExecDecrementNoDelete(w, v)
BY DEF Exec, Act, Set, SetOnce, SetPermanent, Delete, Insert, InsertPermanent, Increment,
       Decrement, DecrementNoDelete

\* The numeric actions of a balance are executed, not skipped.
LEMMA OptionFacts ==
  ASSUME NEW w \in Values, NEW v
  PROVE  /\ ExecOption(Increment(w), v) = ExecIncrement(w, v) /\ Increment(w) # Panic
         /\ ExecOption(Decrement(w), v) = ExecDecrement(w, v) /\ Decrement(w) # Panic
<1>1. /\ Increment(w) # NoAction /\ Decrement(w) # NoAction
      /\ Increment(w) # Panic /\ Decrement(w) # Panic
  BY ActionFacts
<1>2. ExecOption(Increment(w), v) = Exec(Increment(w), v)
  BY <1>1 DEF ExecOption
<1>3. ExecOption(Decrement(w), v) = Exec(Decrement(w), v)
  BY <1>1 DEF ExecOption
<1>4. QED
  BY SMTT(60), <1>1, <1>2, <1>3, ExecFacts

\* When executing an action leaves an inverse, one kind of action at a time.
LEMMA LeavesInverseFacts ==
  ASSUME NEW w, NEW v
  PROVE  /\ LeavesInverse(Set(w), v) <=> v # w
         /\ LeavesInverse(SetOnce(w), v)
         /\ ~LeavesInverse(SetPermanent(w), v)
         /\ LeavesInverse(Delete, v) <=> v # Absent
         /\ LeavesInverse(Insert(w), v) <=> v = Absent
         /\ ~LeavesInverse(InsertPermanent(w), v)
         /\ LeavesInverse(Increment(w), v)
         /\ LeavesInverse(Decrement(w), v) <=> v # Absent
         /\ LeavesInverse(DecrementNoDelete(w), v) <=> v # Absent
BY DEF LeavesInverse, Act, Set, SetOnce, SetPermanent, Delete, Insert, InsertPermanent,
       Increment, Decrement, DecrementNoDelete

\* What StorageAction::merge makes of the pairs that reducers produce.
LEMMA MergeFacts ==
  ASSUME NEW d, NEW e
  PROVE  /\ Merge(Increment(d), Increment(e)) = Increment(d + e)
         /\ Merge(Increment(d), Decrement(e)) =
              IF d = e THEN NoAction ELSE IF d > e THEN Increment(d - e) ELSE Decrement(e - d)
         /\ Merge(Increment(d), DecrementNoDelete(e)) =
              IF d >= e THEN Increment(d - e) ELSE DecrementNoDelete(e - d)
         /\ Merge(Decrement(d), Decrement(e)) = Decrement(d + e)
         /\ Merge(Decrement(d), Increment(e)) =
              IF d = e THEN NoAction ELSE IF d > e THEN Decrement(d - e) ELSE Increment(e - d)
         /\ Merge(DecrementNoDelete(d), DecrementNoDelete(e)) = DecrementNoDelete(d + e)
         /\ Merge(DecrementNoDelete(d), Increment(e)) =
              IF d >= e THEN DecrementNoDelete(d - e) ELSE Increment(e - d)
         /\ Merge(SetOnce(d), Delete) = NoAction
         /\ Merge(SetPermanent(d), SetPermanent(e)) = SetPermanent(d)
         /\ Merge(InsertPermanent(d), InsertPermanent(e)) = InsertPermanent(d)
         /\ Merge(Set(d), Set(e)) = Set(e)
         /\ Merge(Set(d), Delete) = Delete
         /\ Merge(Set(d), Insert(e)) = Set(d)
         /\ Merge(Delete, Set(e)) = Set(e)
         /\ Merge(Delete, Delete) = Delete
         /\ Merge(Delete, Insert(e)) = Set(e)
         /\ Merge(Insert(d), Set(e)) = Set(e)
         /\ Merge(Insert(d), Delete) = Delete
         /\ Merge(Insert(d), Insert(e)) = Insert(d)
BY DEF Merge, MergeIncrement, MergeDecrement, MergeDecrementNoDelete, MergeWrite, Act, Set,
       SetOnce, SetPermanent, Delete, Insert, InsertPermanent, Increment, Decrement,
       DecrementNoDelete

-----------------------------------------------------------------------------
\* Counting what is stored: a missing key counts as zero.
LEMMA CountsFacts ==
  ASSUME NEW v \in MaybeValues, NEW d \in Values
  PROVE  /\ Counts(v) \in Values
         /\ v # Absent => Counts(v) = v
         /\ Counts(ExecIncrement(d, v)) = Counts(v) + d
         /\ d <= Counts(v) => Counts(ExecDecrement(d, v)) = Counts(v) - d
         /\ Counts(v) + d <= MaxValue => ExecIncrement(d, v) \in Values
         /\ ExecDecrement(d, v) \in MaybeValues
<1>1. v = Absent \/ (v \in Nat /\ v # Absent)
  BY SMTT(60), ValuesFacts DEF MaybeValues
<1>2. CASE v = Absent
  BY SMTT(60), <1>2, ValuesFacts DEF Counts, ExecIncrement, ExecDecrement, MaybeValues
<1>3. CASE v \in Nat /\ v # Absent
  <2>1. Counts(v) = v /\ v \in Values /\ ExecIncrement(d, v) = v + d
    BY <1>3 DEF Counts, MaybeValues, ExecIncrement
  <2>2. v + d \in Nat /\ Counts(v + d) = v + d
    BY SMTT(60), <1>3, ValuesFacts DEF Counts
  <2>3. ExecDecrement(d, v) = IF v <= d THEN Absent ELSE v - d
    BY <1>3 DEF ExecDecrement
  <2>4. ~ (v <= d) => v - d \in Values /\ Counts(v - d) = v - d
    BY SMTT(60), <1>3, <2>1, ValuesFacts DEF Counts
  <2>5. v <= d /\ d <= v => Counts(Absent) = v - d
    BY SMTT(60), <1>3, ValuesFacts DEF Counts
  <2>6. v + d <= MaxValue => v + d \in Values
    BY SMTT(60), <2>2, ValuesFacts
  <2>7. ExecDecrement(d, v) \in MaybeValues
    BY <2>3, <2>4 DEF MaybeValues
  <2>8. d <= v => Counts(ExecDecrement(d, v)) = v - d
    BY <2>3, <2>4, <2>5
  <2>9. QED
    BY <2>1, <2>2, <2>6, <2>7, <2>8
<1>4. QED
  BY <1>1, <1>2, <1>3

(* The merged action of each class does what the pushed actions did. *)
LEMMA ShapeFaithful ==
  ASSUME TypeOK, Shape
  PROVE  MergeFaithful
<1>0. CASE class = "balance" /\ 0 \in Deltas
  <2>1. CountedBalance /\ base \in MaybeValues
    BY <1>0 DEF Shape, BalanceShape, TypeOK, MaybeValues
  <2>2. CASE merged = NoAction /\ Counts(value) = Counts(base)
    BY <1>0, <2>2, MarkersAssumption DEF MergeFaithful, ExecOption, Alike
  <2>3. ASSUME NEW d \in Values, merged = Increment(d), Counts(value) = Counts(base) + d
        PROVE  MergeFaithful
    <3>1. Counts(ExecIncrement(d, base)) = Counts(base) + d
      BY <2>1, <2>3, CountsFacts
    <3>2. ExecOption(merged, base) = ExecIncrement(d, base) /\ merged # Panic
      BY <2>3, OptionFacts
    <3>3. QED
      BY <1>0, <2>3, <3>1, <3>2 DEF MergeFaithful, Alike
  <2>4. ASSUME NEW d \in Values, merged = Decrement(d), d <= Counts(base),
               Counts(value) = Counts(base) - d
        PROVE  MergeFaithful
    <3>1. Counts(ExecDecrement(d, base)) = Counts(base) - d
      BY <2>1, <2>4, CountsFacts
    <3>2. ExecOption(merged, base) = ExecDecrement(d, base) /\ merged # Panic
      BY <2>4, OptionFacts
    <3>3. QED
      BY <1>0, <2>4, <3>1, <3>2 DEF MergeFaithful, Alike
  <2>5. QED
    BY <2>1, <2>2, <2>3, <2>4 DEF CountedBalance
<1> USE ActionFacts, ExecFacts DEF Shape, MergeFaithful, ExecOption, Alike
<1>1. NoAction # Panic
  BY MarkersAssumption
<1>2. CASE class = "balance" /\ 0 \notin Deltas
  BY SMTT(60), <1>1, <1>2 DEF BalanceShape, ExactBalance
<1>3. CASE class = "ledger"
  BY SMTT(60), <1>1, <1>3, ValuesFacts DEF LedgerShape, ExecDecrementNoDelete, TypeOK
<1>d. Delete # NoAction /\ Delete # Panic
  BY ValuesFacts
<1>4. CASE class = "txo"
  <2>1. CASE merged = NoAction /\ value = base
    BY <1>1, <2>1
  <2>2. CASE merged = Delete /\ value = Absent
    BY <1>d, <2>2
  <2>3. CASE \E w \in Values : merged = SetOnce(w) /\ value = w
    BY SMTT(60), <1>1, <2>3
  <2>4. QED
    BY <1>4, <2>1, <2>2, <2>3 DEF TxoShape
<1>5. CASE class = "record"
  <2>1. CASE merged = NoAction /\ value = base
    BY <1>1, <2>1
  <2>2. CASE merged = Delete /\ value = Absent
    BY <1>d, <2>2
  <2>3. CASE \E w \in Values : merged = Set(w) /\ value = w
    BY SMTT(60), <1>1, <2>3
  <2>4. CASE \E w \in Values : merged = Insert(w) /\ value = (IF base = Absent THEN w ELSE base)
    BY SMTT(60), <1>1, <2>4
  <2>5. QED
    BY <1>5, <2>1, <2>2, <2>3, <2>4 DEF RecordShape
<1>6. CASE class = "constant"
  BY SMTT(60), <1>1, <1>6 DEF ConstantShape
<1>7. CASE class = "firstseen"
  BY SMTT(60), <1>1, <1>7 DEF FirstSeenShape
<1>8. QED
  BY <1>0, <1>2, <1>3, <1>4, <1>5, <1>6, <1>7 DEF TypeOK, Classes

(* One more action pushed keeps the shape of its class. *)
LEMMA ExactBalancePush ==
  ASSUME TypeOK, ExactBalance, ~Underflow, 0 \notin Deltas,
         NEW a \in BalanceActions(value), Push(a)
  PROVE  ExactBalance' /\ value' \in MaybeValues
<1> USE ValuesFacts DEF Push, PushAction, TypeOK, MaybeValues, ExecIncrement, ExecDecrement
<1>1. CASE \E e \in Deltas : e > 0 /\ a = Increment(e) /\ ExecIncrement(e, value) <= MaxValue
  <2>1. PICK e \in Deltas : e > 0 /\ a = Increment(e) /\ ExecIncrement(e, value) <= MaxValue
    BY <1>1
  <2>2. e \in Values \ {0} /\ value' = ExecIncrement(e, value) /\ value' \in Values \ {0}
    BY SMTT(60), <2>1, ExecFacts, DeltasAssumption
  <2>3. CASE merged = NoAction
    <3>1. value = base /\ base # 0
      BY <2>3, ActionFacts DEF ExactBalance
    <3>2. QED
      BY <2>1, <2>2, <2>3, <3>1 DEF ExactBalance
  <2>4. ASSUME NEW d \in Values \ {0}, merged = Increment(d),
               value = ExecIncrement(d, base), base # 0
        PROVE  ExactBalance'
    <3>0. merged' = Merge(Increment(d), Increment(e))
      BY <2>1, <2>4, ActionFacts
    <3>1. merged' = Increment(d + e)
      BY <3>0, MergeFacts
    <3>4. d + e \in Values \ {0}
      BY SMTT(60), <2>1, <2>2, <2>4
    <3>2. value' = ExecIncrement(d + e, base)
      BY SMTT(60), <2>2, <2>4
    <3>3. QED
      BY <2>2, <2>4, <3>1, <3>2, <3>4 DEF ExactBalance
  <2>5. ASSUME NEW d \in Values \ {0}, merged = Decrement(d), base # Absent, d <= base,
               value = ExecDecrement(d, base), base # 0
        PROVE  ExactBalance'
    <3>0. merged' = Merge(Decrement(d), Increment(e))
      BY <2>1, <2>5, ActionFacts
    <3>1. merged' = IF d = e THEN NoAction
                    ELSE IF d > e THEN Decrement(d - e) ELSE Increment(e - d)
      BY <3>0, MergeFacts
    <3>2. value' = base - d + e
      BY SMTT(60), <2>2, <2>5
    <3>3. CASE d = e
      BY SMTT(60), <2>2, <2>5, <3>1, <3>2, <3>3 DEF ExactBalance
    <3>4. CASE d > e
      BY SMTT(60), <2>2, <2>5, <3>1, <3>2, <3>4 DEF ExactBalance
    <3>5. CASE d < e
      BY SMTT(60), <2>2, <2>5, <3>1, <3>2, <3>5 DEF ExactBalance
    <3>6. QED
      BY SMTT(60), <2>2, <3>3, <3>4, <3>5
  <2>6. QED
    BY <2>2, <2>3, <2>4, <2>5 DEF ExactBalance
<1>2. CASE \E e \in Deltas : e > 0 /\ a = Decrement(e) /\ value # Absent /\ e <= value
  <2>1. PICK e \in Deltas : e > 0 /\ a = Decrement(e) /\ value # Absent /\ e <= value
    BY <1>2
  <2>2. /\ e \in Values \ {0}
        /\ value' = IF value <= e THEN Absent ELSE value - e
        /\ value' \in MaybeValues /\ value' # 0
    BY SMTT(60), <2>1, ExecFacts, DeltasAssumption
  <2>3. CASE merged = NoAction
    <3>1. value = base /\ base # 0
      BY <2>3, ActionFacts DEF ExactBalance
    <3>2. QED
      BY <2>1, <2>2, <2>3, <3>1 DEF ExactBalance
  <2>4. ASSUME NEW d \in Values \ {0}, merged = Increment(d),
               value = ExecIncrement(d, base), base # 0
        PROVE  ExactBalance'
    <3>0. merged' = Merge(Increment(d), Decrement(e))
      BY <2>1, <2>4, ActionFacts
    <3>1. merged' = IF d = e THEN NoAction
                    ELSE IF d > e THEN Increment(d - e) ELSE Decrement(e - d)
      BY <3>0, MergeFacts
    <3>2. QED
      BY SMTT(60), <2>1, <2>2, <2>4, <3>1 DEF ExactBalance
  <2>5. ASSUME NEW d \in Values \ {0}, merged = Decrement(d), base # Absent, d <= base,
               value = ExecDecrement(d, base), base # 0
        PROVE  ExactBalance'
    <3>0. merged' = Merge(Decrement(d), Decrement(e))
      BY <2>1, <2>5, ActionFacts
    <3>1. merged' = Decrement(d + e)
      BY <3>0, MergeFacts
    <3>2. QED
      BY SMTT(60), <2>1, <2>2, <2>5, <3>1 DEF ExactBalance
  <2>6. QED
    BY <2>2, <2>3, <2>4, <2>5 DEF ExactBalance
<1>3. \A e \in Deltas : e \in Nat /\ e > 0 /\ (e <= Counts(value) => value # Absent /\ e <= value)
  <2>1. \A e \in Deltas : e \in Nat /\ e > 0
    BY SMTT(60), DeltasAssumption
  <2>2. CASE value = Absent
    BY SMTT(60), <2>1, <2>2 DEF Counts
  <2>3. CASE value # Absent
    BY <2>1, <2>3 DEF Counts
  <2>4. QED
    BY <2>2, <2>3
<1>4. \/ \E e \in Deltas : a = Increment(e) /\ ExecIncrement(e, value) <= MaxValue
      \/ \E e \in Deltas : a = Decrement(e) /\ e <= Counts(value)
  BY DEF BalanceActions, Covered
<1>5. QED
  BY <1>1, <1>2, <1>3, <1>4

\* The same with zero among the deltas, up to a zero that is stored or missing.
LEMMA CountedBalancePush ==
  ASSUME TypeOK, CountedBalance, ~Underflow, NEW a \in BalanceActions(value), Push(a)
  PROVE  CountedBalance' /\ value' \in MaybeValues
<1> DEFINE b == Counts(base)
<1> DEFINE n == Counts(value)
<1>0. b \in Values /\ n \in Values /\ value \in MaybeValues /\ Values \subseteq Nat
  <2>1. value \in MaybeValues /\ base \in MaybeValues
    BY DEF TypeOK, MaybeValues
  <2>2. Values \subseteq Nat /\ 0 \in Values
    BY SMTT(60), ValuesFacts
  <2>3. b \in Values /\ n \in Values
    BY <2>1, <2>2, CountsFacts
  <2>4. QED
    BY <2>1, <2>2, <2>3
<1>1. /\ value' = Exec(a, value) /\ UNCHANGED base
      /\ merged' = IF merged = NoAction THEN a ELSE Merge(merged, a)
  BY DEF Push, PushAction
<1>2. \A d \in Values : Increment(d) # NoAction /\ Decrement(d) # NoAction
  BY ActionFacts
<1>3. CASE \E e \in Deltas : a = Increment(e) /\ ExecIncrement(e, value) <= MaxValue
  <2>1. PICK e \in Deltas : a = Increment(e) /\ ExecIncrement(e, value) <= MaxValue
    BY <1>3
  <2>2. e \in Values /\ n + e <= MaxValue
    <3>1. e \in Nat
      BY DeltasAssumption
    <3>2. CASE value = Absent
      <4>1. n = 0 /\ ExecIncrement(e, value) = e
        BY <3>2 DEF ExecIncrement, Counts
      <4>2. QED
        BY SMTT(60), <2>1, <3>1, <4>1, ValuesFacts
    <3>3. CASE value # Absent
      <4>1. n = value /\ ExecIncrement(e, value) = value + e
        BY <3>3 DEF ExecIncrement, Counts
      <4>2. QED
        BY SMTT(60), <1>0, <2>1, <3>1, <4>1, ValuesFacts
    <3>4. QED
      BY <3>2, <3>3
  <2>3. value' \in Values /\ Counts(value)' = n + e
    <3>1. value' = ExecIncrement(e, value)
      BY <1>1, <2>1, ExecFacts
    <3>2. ExecIncrement(e, value) \in Values /\ Counts(ExecIncrement(e, value)) = n + e
      BY <1>0, <2>2, CountsFacts
    <3>3. QED
      BY <3>1, <3>2 DEF Counts
  <2> HIDE DEF b, n
  <2>4. ASSUME merged = NoAction, n = b
        PROVE  CountedBalance'
    BY <1>1, <2>1, <2>2, <2>3, <2>4 DEF CountedBalance, b
  <2>5. ASSUME NEW d \in Values, merged = Increment(d), n = b + d
        PROVE  CountedBalance'
    <3>0. merged' = Merge(Increment(d), Increment(e))
      BY <1>1, <1>2, <2>1, <2>5
    <3>1. merged' = Increment(d + e)
      BY SMTT(60), <3>0, MergeFacts
    <3>2. d + e \in Values /\ n + e = b + (d + e)
      BY SMTT(60), <1>0, <2>2, <2>5, ValuesFacts
    <3>3. QED
      BY <1>1, <2>3, <3>1, <3>2 DEF CountedBalance, b
  <2>6. ASSUME NEW d \in Values, merged = Decrement(d), d <= b, n = b - d
        PROVE  CountedBalance'
    <3>0. merged' = Merge(Decrement(d), Increment(e))
      BY <1>1, <1>2, <2>1, <2>6
    <3>1. merged' = IF d = e THEN NoAction
                    ELSE IF d > e THEN Decrement(d - e) ELSE Increment(e - d)
      BY <3>0, MergeFacts
    <3>2. CASE d = e
      <4>1. n + e = b
        BY SMTT(60), <1>0, <2>6, <3>2
      <4>2. QED
        BY <1>1, <2>3, <3>1, <3>2, <4>1 DEF CountedBalance, b
    <3>3. CASE d > e
      <4>1. d # e /\ d - e \in Values /\ d - e <= b /\ n + e = b - (d - e)
        BY SMTT(60), <1>0, <2>2, <2>6, <3>3, ValuesFacts
      <4>2. QED
        BY <1>1, <2>3, <3>1, <3>3, <4>1 DEF CountedBalance, b
    <3>4. CASE d # e /\ ~ (d > e)
      <4>1. e - d \in Values /\ n + e = b + (e - d)
        BY SMTT(60), <1>0, <2>2, <2>6, <3>4, ValuesFacts
      <4>2. QED
        BY <1>1, <2>3, <3>1, <3>4, <4>1 DEF CountedBalance, b
    <3>5. QED
      BY <3>2, <3>3, <3>4
  <2>7. QED
    BY <2>3, <2>4, <2>5, <2>6 DEF CountedBalance, MaybeValues, b, n
<1>4. CASE \E e \in Deltas : a = Decrement(e) /\ e <= n
  <2>1. PICK e \in Deltas : a = Decrement(e) /\ e <= n
    BY <1>4
  <2>2. e \in Values
    BY SMTT(60), <1>0, <2>1, DeltasAssumption, ValuesFacts
  <2>3. value' \in MaybeValues /\ Counts(value)' = n - e
    <3>1. value' = ExecDecrement(e, value)
      BY <1>1, <2>1, ExecFacts
    <3>2. ExecDecrement(e, value) \in MaybeValues /\ Counts(ExecDecrement(e, value)) = n - e
      BY <1>0, <2>1, <2>2, CountsFacts
    <3>3. QED
      BY <3>1, <3>2 DEF Counts
  <2> HIDE DEF b, n
  <2>4. ASSUME merged = NoAction, n = b
        PROVE  CountedBalance'
    BY <1>1, <2>1, <2>2, <2>3, <2>4 DEF CountedBalance, b
  <2>5. ASSUME NEW d \in Values, merged = Increment(d), n = b + d
        PROVE  CountedBalance'
    <3>0. merged' = Merge(Increment(d), Decrement(e))
      BY <1>1, <1>2, <2>1, <2>5
    <3>1. merged' = IF d = e THEN NoAction
                    ELSE IF d > e THEN Increment(d - e) ELSE Decrement(e - d)
      BY <3>0, MergeFacts
    <3>2. CASE d = e
      <4>1. n - e = b
        BY SMTT(60), <1>0, <2>5, <3>2
      <4>2. QED
        BY <1>1, <2>3, <3>1, <3>2, <4>1 DEF CountedBalance, b
    <3>3. CASE d > e
      <4>1. d # e /\ d - e \in Values /\ n - e = b + (d - e)
        BY SMTT(60), <1>0, <2>2, <2>5, <3>3, ValuesFacts
      <4>2. QED
        BY <1>1, <2>3, <3>1, <3>3, <4>1 DEF CountedBalance, b
    <3>4. CASE d # e /\ ~ (d > e)
      <4>1. e - d \in Values /\ e - d <= b /\ n - e = b - (e - d)
        BY SMTT(60), <1>0, <2>1, <2>2, <2>5, <3>4, ValuesFacts
      <4>2. QED
        BY <1>1, <2>3, <3>1, <3>4, <4>1 DEF CountedBalance, b
    <3>5. QED
      BY <3>2, <3>3, <3>4
  <2>6. ASSUME NEW d \in Values, merged = Decrement(d), d <= b, n = b - d
        PROVE  CountedBalance'
    <3>0. merged' = Merge(Decrement(d), Decrement(e))
      BY <1>1, <1>2, <2>1, <2>6
    <3>1. merged' = Decrement(d + e)
      BY <3>0, MergeFacts
    <3>2. d + e \in Values /\ d + e <= b /\ n - e = b - (d + e)
      BY SMTT(60), <1>0, <2>1, <2>2, <2>6, ValuesFacts
    <3>3. QED
      BY <1>1, <2>3, <3>1, <3>2 DEF CountedBalance, b
  <2>7. QED
    BY <2>3, <2>4, <2>5, <2>6 DEF CountedBalance, b, n
<1>5. QED
  BY <1>3, <1>4 DEF BalanceActions, Covered

\* Merging one more action of a ledger key keeps its shape.
LEMMA LedgerPush ==
  ASSUME TypeOK, LedgerShape, ~Underflow, NEW a \in LedgerActions(value), Push(a)
  PROVE  LedgerShape' /\ value' \in MaybeValues
<1> USE ValuesFacts
    DEF Push, PushAction, TypeOK, MaybeValues, ExecIncrement, ExecDecrementNoDelete
<1>1. CASE \E e \in Deltas : a = Increment(e) /\ ExecIncrement(e, value) <= MaxValue
  <2>1. PICK e \in Deltas : a = Increment(e) /\ ExecIncrement(e, value) <= MaxValue
    BY <1>1
  <2>2. e \in Values /\ value' = ExecIncrement(e, value) /\ value' \in Values
    BY SMTT(60), <2>1, ExecFacts, DeltasAssumption
  <2>3. CASE merged = NoAction
    <3>1. value = base
      BY <2>3, ActionFacts DEF LedgerShape
    <3>2. QED
      BY <2>1, <2>2, <2>3, <3>1 DEF LedgerShape
  <2>4. ASSUME NEW d \in Values, merged = Increment(d), value = ExecIncrement(d, base)
        PROVE  LedgerShape'
    <3>1. merged' = Merge(Increment(d), Increment(e))
      BY <2>1, <2>4, ActionFacts
    <3>2. merged' = Increment(d + e)
      BY <3>1, MergeFacts
    <3>3. d + e \in Values /\ value' = ExecIncrement(d + e, base)
      BY SMTT(60), <2>1, <2>2, <2>4
    <3>4. QED
      BY <3>2, <3>3 DEF LedgerShape
  <2>5. ASSUME NEW d \in Values, merged = DecrementNoDelete(d), base # Absent, d <= base,
               value = base - d
        PROVE  LedgerShape'
    <3>0. merged' = Merge(DecrementNoDelete(d), Increment(e))
      BY <2>1, <2>5, ActionFacts
    <3>1. merged' = IF d >= e THEN DecrementNoDelete(d - e) ELSE Increment(e - d)
      BY <3>0, MergeFacts
    <3>2. value' = base - d + e
      BY SMTT(60), <2>2, <2>5
    <3>3. CASE d >= e
      BY SMTT(60), <2>2, <2>5, <3>1, <3>2, <3>3 DEF LedgerShape
    <3>4. CASE d < e
      BY SMTT(60), <2>2, <2>5, <3>1, <3>2, <3>4 DEF LedgerShape
    <3>5. QED
      BY SMTT(60), <2>2, <3>3, <3>4
  <2>6. QED
    BY <2>2, <2>3, <2>4, <2>5 DEF LedgerShape
<1>2. CASE \E e \in Deltas : a = DecrementNoDelete(e) /\ value # Absent /\ e <= value
  <2>1. PICK e \in Deltas : a = DecrementNoDelete(e) /\ value # Absent /\ e <= value
    BY <1>2
  <2>2. e \in Values /\ value' = value - e /\ value' \in Values
    BY SMTT(60), <2>1, ExecFacts, DeltasAssumption
  <2>3. CASE merged = NoAction
    <3>1. value = base
      BY <2>3, ActionFacts DEF LedgerShape
    <3>2. QED
      BY <2>1, <2>2, <2>3, <3>1 DEF LedgerShape
  <2>4. ASSUME NEW d \in Values, merged = Increment(d), value = ExecIncrement(d, base)
        PROVE  LedgerShape'
    <3>0. merged' = Merge(Increment(d), DecrementNoDelete(e))
      BY <2>1, <2>4, ActionFacts
    <3>1. merged' = IF d >= e THEN Increment(d - e) ELSE DecrementNoDelete(e - d)
      BY <3>0, MergeFacts
    <3>2. CASE d >= e
      BY SMTT(60), <2>1, <2>2, <2>4, <3>1, <3>2 DEF LedgerShape
    <3>3. CASE d < e
      <4>1. merged' = DecrementNoDelete(e - d) /\ e - d \in Values
        BY SMTT(60), <2>2, <3>1, <3>3
      <4>2. base # Absent /\ e - d <= base /\ value' = base - (e - d)
        BY SMTT(60), <2>1, <2>2, <2>4, <3>3
      <4>3. QED
        BY <4>1, <4>2 DEF LedgerShape
    <3>4. QED
      BY SMTT(60), <2>2, <3>2, <3>3
  <2>5. ASSUME NEW d \in Values, merged = DecrementNoDelete(d), base # Absent, d <= base,
               value = base - d
        PROVE  LedgerShape'
    <3>1. merged' = Merge(DecrementNoDelete(d), DecrementNoDelete(e))
      BY <2>1, <2>5, ActionFacts
    <3>2. merged' = DecrementNoDelete(d + e)
      BY <3>1, MergeFacts
    <3>3. d + e \in Values /\ d + e <= base /\ value' = base - (d + e)
      BY SMTT(60), <2>1, <2>2, <2>5
    <3>4. QED
      BY <2>5, <3>2, <3>3 DEF LedgerShape
  <2>6. QED
    BY <2>2, <2>3, <2>4, <2>5 DEF LedgerShape
<1>3. \A e \in Deltas : value # Absent /\ e <= Counts(value) => e <= value
  BY DEF Counts
<1>4. QED
  BY <1>1, <1>2, <1>3 DEF LedgerActions, Covered

\* Merging one more action of an output keeps its shape.
LEMMA TxoPush ==
  ASSUME TypeOK, TxoShape, NEW a \in TxoActions(base, value), Push(a)
  PROVE  TxoShape' /\ value' \in MaybeValues
<1> USE ValuesFacts DEF Push, PushAction, TypeOK, MaybeValues
<1>d. Delete # NoAction
  BY ActionFacts
<1>1. CASE \E w \in Values : a = SetOnce(w) /\ base = Absent /\ value = Absent
  <2>1. PICK w \in Values : a = SetOnce(w) /\ base = Absent /\ value = Absent
    BY <1>1
  <2>2. value' = w
    BY <2>1, ExecFacts
  <2>3. merged = NoAction
    BY SMTT(60), <2>1 DEF TxoShape
  <2>4. QED
    BY <2>1, <2>2, <2>3 DEF TxoShape
<1>2. CASE a = Delete /\ value # Absent
  <2>1. value' = Absent
    BY <1>2, ExecFacts
  <2>2. CASE merged = NoAction /\ value = base
    BY <1>2, <2>1, <2>2 DEF TxoShape
  <2>3. CASE \E w \in Values : merged = SetOnce(w) /\ base = Absent
    <3>1. PICK w \in Values : merged = SetOnce(w) /\ base = Absent
      BY <2>3
    <3>2. merged' = Merge(SetOnce(w), Delete)
      BY <1>2, <3>1, ActionFacts
    <3>3. merged' = NoAction
      BY <3>2, MergeFacts
    <3>4. QED
      BY <2>1, <3>1, <3>3 DEF TxoShape
  <2>4. QED
    BY <1>2, <2>1, <2>2, <2>3 DEF TxoShape
<1>3. QED
  BY <1>1, <1>2 DEF TxoActions

\* Merging one more action of a record keeps its shape.
LEMMA RecordPush ==
  ASSUME TypeOK, RecordShape, NEW a \in RecordActions, Push(a)
  PROVE  RecordShape' /\ value' \in MaybeValues
<1> USE ActionFacts, ExecFacts, MergeFacts DEF Push, PushAction, TypeOK, MaybeValues
<1>d. Delete # NoAction
  BY ValuesFacts
<1>1. CASE \E w \in Values : a = Set(w)
  <2>1. PICK w \in Values : a = Set(w)
    BY <1>1
  <2>2. value' = w
    BY <2>1
  <2>3. merged' = Set(w)
    BY SMTT(60), <1>d, <2>1 DEF RecordShape
  <2>4. QED
    BY <2>2, <2>3 DEF RecordShape
<1>2. CASE \E w \in Values : a = Insert(w)
  <2>1. PICK w \in Values : a = Insert(w)
    BY <1>2
  <2>2. value' = IF value = Absent THEN w ELSE value
    BY <2>1
  <2>3. CASE merged = NoAction /\ value = base
    BY <2>1, <2>2, <2>3 DEF RecordShape
  <2>4. CASE merged = Delete /\ value = Absent
    <3>1. merged' = Set(w)
      BY <1>d, <2>1, <2>4
    <3>2. QED
      BY <2>2, <2>4, <3>1 DEF RecordShape
  <2>5. ASSUME NEW u \in Values, merged = Set(u), value = u
        PROVE  RecordShape' /\ value' \in MaybeValues
    <3>1. merged' = Set(u)
      BY <2>1, <2>5
    <3>2. QED
      BY SMTT(60), <2>2, <2>5, <3>1, ValuesFacts DEF RecordShape
  <2>6. ASSUME NEW u \in Values, merged = Insert(u), value = IF base = Absent THEN u ELSE base
        PROVE  RecordShape' /\ value' \in MaybeValues
    <3>1. merged' = Insert(u)
      BY <2>1, <2>6
    <3>2. QED
      BY SMTT(60), <2>2, <2>6, <3>1, ValuesFacts DEF RecordShape
  <2>7. QED
    BY <2>3, <2>4, <2>5, <2>6 DEF RecordShape
<1>3. CASE a = Delete
  <2>1. value' = Absent
    BY <1>3
  <2>2. merged' = Delete
    BY SMTT(60), <1>3, <1>d DEF RecordShape
  <2>3. QED
    BY <2>1, <2>2 DEF RecordShape
<1>4. QED
  BY <1>1, <1>2, <1>3 DEF RecordActions

\* Merging one more action of a permanent key keeps its shape.
LEMMA PermanentPush ==
  ASSUME TypeOK, NEW a, Push(a)
  PROVE  /\ ConstantShape /\ a \in ConstantActions(value)
              => ConstantShape' /\ value' \in MaybeValues
         /\ FirstSeenShape /\ a \in FirstSeenActions
              => FirstSeenShape' /\ value' \in MaybeValues
<1> USE ActionFacts, ExecFacts, MergeFacts DEF Push, PushAction, TypeOK, MaybeValues
<1>1. ASSUME ConstantShape, NEW w \in Values, a = SetPermanent(w), value \in {Absent, w}
      PROVE  ConstantShape' /\ value' \in MaybeValues
  <2>1. value' = w
    BY <1>1
  <2>2. CASE merged = NoAction /\ value = base
    BY <1>1, <2>1, <2>2 DEF ConstantShape
  <2>3. ASSUME NEW u \in Values, merged = SetPermanent(u), value = u, base \in {Absent, u}
        PROVE  ConstantShape'
    <3>1. u = w
      BY SMTT(60), <1>1, <2>3, ValuesFacts
    <3>2. merged' = SetPermanent(u)
      BY <1>1, <2>3
    <3>3. QED
      BY <2>1, <2>3, <3>1, <3>2 DEF ConstantShape
  <2>4. QED
    BY <1>1, <2>1, <2>2, <2>3 DEF ConstantShape
<1>2. ASSUME FirstSeenShape, NEW w \in Values, a = InsertPermanent(w)
      PROVE  FirstSeenShape' /\ value' \in MaybeValues
  <2>1. value' = IF value = Absent THEN w ELSE value
    BY <1>2
  <2>2. CASE merged = NoAction /\ value = base
    BY <1>2, <2>1, <2>2 DEF FirstSeenShape
  <2>3. ASSUME NEW u \in Values, merged = InsertPermanent(u),
               value = IF base = Absent THEN u ELSE base
        PROVE  FirstSeenShape' /\ value' \in MaybeValues
    <3>1. merged' = InsertPermanent(u)
      BY <1>2, <2>3
    <3>2. QED
      BY SMTT(60), <2>1, <2>3, <3>1, ValuesFacts DEF FirstSeenShape
  <2>4. QED
    BY <1>2, <2>1, <2>2, <2>3 DEF FirstSeenShape
<1>3. QED
  BY SMTT(60), <1>1, <1>2 DEF ConstantActions, FirstSeenActions

-----------------------------------------------------------------------------
\* A reducer's action keeps the invariant, whichever the class of its key.
LEMMA PushInv ==
  ASSUME MergerInv, ~Underflow, Next, NEW a, Push(a),
         \/ class = "balance" /\ a \in BalanceActions(value)
         \/ class = "ledger" /\ a \in LedgerActions(value)
         \/ class = "txo" /\ a \in TxoActions(base, value)
         \/ class = "record" /\ a \in RecordActions
         \/ class = "constant" /\ a \in ConstantActions(value)
         \/ class = "firstseen" /\ a \in FirstSeenActions
  PROVE  MergerInv'
<1> USE DEF MergerInv
<1>1. Shape' /\ value' \in MaybeValues
  BY ExactBalancePush, CountedBalancePush, LedgerPush, TxoPush, RecordPush, PermanentPush
     DEF Shape, BalanceShape, Push
<1>2. TypeOK'
  BY <1>1 DEF TypeOK, Push, MaybeValues
<1>3. Applied'
  BY DEF Applied, Push
<1>4. QED
  BY <1>1, <1>2, <1>3

(* Executing the merged action, then its inverse, on the value it was merged *)
(* for.                                                                      *)
LEMMA InverseRestores ==
  ASSUME TypeOK, Shape, merged # NoAction, class \notin {"constant", "firstseen"}
  PROVE  Undo(InverseOf(merged, base), Exec(merged, base)) = base
<1> USE ExecFacts, LeavesInverseFacts, ActionFacts, ValuesFacts
    DEF Undo, InverseOf, NoInverse, TypeOK, Shape
<1>1. CASE class = "balance"
  <2>1. \E d \in Values : merged = Increment(d) \/ merged = Decrement(d)
    BY <1>1 DEF BalanceShape, ExactBalance, CountedBalance
  <2>2. \A d \in Values : ExecDecrement(d, Absent) = Absent
    BY DEF ExecDecrement
  <2>3. QED
    BY SMTT(60), <2>1, <2>2
<1>2. CASE class = "ledger"
  BY SMTT(60), <1>2 DEF LedgerShape
<1>3. CASE class = "txo"
  <2>1. CASE merged = Delete /\ base # Absent
    BY <2>1
  <2>2. CASE \E w \in Values : merged = SetOnce(w) /\ base = Absent
    BY SMTT(60), <2>2
  <2>3. QED
    BY <1>3, <2>1, <2>2 DEF TxoShape
<1>4. CASE class = "record"
  <2>1. CASE merged = Delete /\ value = Absent
    BY <2>1
  <2>2. CASE \E w \in Values : merged = Set(w) /\ value = w
    BY SMTT(60), <2>2
  <2>3. CASE \E w \in Values : merged = Insert(w) /\ value = (IF base = Absent THEN w ELSE base)
    BY SMTT(60), <2>3
  <2>4. QED
    BY <1>4, <2>1, <2>2, <2>3 DEF RecordShape
<1>5. QED
  BY <1>1, <1>2, <1>3, <1>4 DEF Classes

\* An inverse holds a value or the absence of one.
LEMMA InverseType ==
  ASSUME TypeOK, NEW v \in MaybeValues, NEW m
  PROVE  InverseOf(m, v) \in [saved : BOOLEAN, val : MaybeValues]
BY DEF InverseOf, NoInverse, Overwritten, MaybeValues

\* Executing the merged action leaves a value or nothing, and no zero in a balance
\* unless zero is among the deltas.
LEMMA MergedType ==
  ASSUME TypeOK, Shape
  PROVE  /\ ExecOption(merged, base) \in MaybeValues
         /\ class = "balance" /\ 0 \notin Deltas => ExecOption(merged, base) # 0
<1>1. Alike(ExecOption(merged, base), value) /\ value \in MaybeValues /\ base \in MaybeValues
  BY ShapeFaithful DEF MergeFaithful, TypeOK, MaybeValues
<1>2. CASE class = "balance" /\ 0 \in Deltas
  <2>0. CountedBalance
    BY <1>2 DEF Shape, BalanceShape
  <2>1. CASE merged = NoAction
    BY <1>1, <1>2, <2>1 DEF ExecOption
  <2>2. ASSUME NEW d \in Values, merged = Increment(d), Counts(value) = Counts(base) + d
        PROVE  ExecOption(merged, base) \in MaybeValues
    <3>1. ExecOption(merged, base) = ExecIncrement(d, base)
      BY <2>2, OptionFacts
    <3>2. Counts(value) \in Values
      BY <1>1, <2>2, CountsFacts
    <3>3. Counts(base) + d <= MaxValue
      BY SMTT(60), <2>2, <3>2, ValuesFacts
    <3>4. ExecIncrement(d, base) \in Values
      BY <1>1, <2>2, <3>3, CountsFacts
    <3>5. QED
      BY <3>1, <3>4 DEF MaybeValues
  <2>3. ASSUME NEW d \in Values, merged = Decrement(d)
        PROVE  ExecOption(merged, base) \in MaybeValues
    <3>1. ExecOption(merged, base) = ExecDecrement(d, base)
      BY <2>3, OptionFacts
    <3>2. ExecDecrement(d, base) \in MaybeValues
      BY <1>1, <2>3, CountsFacts
    <3>3. QED
      BY <3>1, <3>2
  <2>4. QED
    BY <1>2, <2>0, <2>1, <2>2, <2>3 DEF CountedBalance
<1>3. CASE ~ (class = "balance" /\ 0 \in Deltas)
  <2>1. ExecOption(merged, base) = value
    BY <1>1, <1>3 DEF Alike
  <2>2. class = "balance" => value # 0
    BY <1>3 DEF Shape, BalanceShape, ExactBalance
  <2>3. QED
    BY <1>1, <2>1, <2>2
<1>4. QED
  BY <1>2, <1>3

\* Executing the merged action keeps the invariant.
LEMMA ApplyInv ==
  ASSUME MergerInv, Apply
  PROVE  MergerInv'
<1> USE DEF MergerInv, Apply
<1>1. store' = ExecOption(merged, base) /\ store' \in MaybeValues
  BY MergedType DEF Applied
<1>2. inverse' \in [saved : BOOLEAN, val : MaybeValues]
  BY InverseType DEF TypeOK, MaybeValues, NoInverse
<1>3. TypeOK'
  BY <1>1, <1>2 DEF TypeOK, MaybeValues
<1>4. Shape'
  BY DEF Shape, BalanceShape, ExactBalance, CountedBalance, LedgerShape, TxoShape, RecordShape,
         ConstantShape, FirstSeenShape
<1>5. Applied'
  BY <1>1 DEF Applied
<1>6. QED
  BY <1>3, <1>4, <1>5

\* Undoing the block keeps the invariant.
LEMMA RollBackInv ==
  ASSUME MergerInv, RollBack
  PROVE  MergerInv'
<1> USE DEF MergerInv, RollBack
<1>1. store' \in MaybeValues
  BY DEF Undo, TypeOK, MaybeValues
<1>2. class \notin {"constant", "firstseen"} => store' = base
  <2>1. CASE merged = NoAction
    <3>1. store = base
      BY <2>1 DEF Applied, ExecOption
    <3>2. QED
      BY SMTT(60), <2>1, <3>1 DEF Applied, Undo, NoInverse
  <2>2. CASE merged # NoAction
    BY <2>2, InverseRestores DEF Applied, ExecOption
  <2>3. QED
    BY <2>1, <2>2
<1>3. class \in {"constant", "firstseen"} => store' = ExecOption(merged, base)
  <2> SUFFICES ASSUME class \in {"constant", "firstseen"}
               PROVE  ~inverse.saved
    BY DEF Applied, Undo
  <2>1. CASE merged = NoAction
    BY SMTT(60), <2>1 DEF Applied, NoInverse
  <2>2. CASE \E w \in Values : merged = SetPermanent(w) \/ merged = InsertPermanent(w)
    BY SMTT(60), <2>2, LeavesInverseFacts, ActionFacts DEF Applied, InverseOf, NoInverse
  <2>3. QED
    BY <2>1, <2>2 DEF Shape, ConstantShape, FirstSeenShape
<1>4. TypeOK'
  BY <1>1 DEF TypeOK, MaybeValues
<1>5. Shape'
  BY DEF Shape, BalanceShape, ExactBalance, CountedBalance, LedgerShape, TxoShape, RecordShape,
         ConstantShape, FirstSeenShape
<1>6. Applied'
  BY <1>2, <1>3 DEF Applied, ExecOption
<1>7. QED
  BY <1>4, <1>5, <1>6

\* Going on to the next block keeps the invariant.
LEMMA NextBlockInv ==
  ASSUME MergerInv, NextBlock
  PROVE  MergerInv'
<1> USE DEF MergerInv, NextBlock
<1>1. TypeOK'
  BY DEF TypeOK, NoInverse
<1>2. class = "balance" /\ 0 \notin Deltas => store # 0
  BY MergedType DEF Applied, Shape, BalanceShape, ExactBalance
<1>3. Shape'
  BY <1>2 DEF Shape, BalanceShape, ExactBalance, CountedBalance, LedgerShape, TxoShape,
              RecordShape, ConstantShape, FirstSeenShape
<1>4. Applied'
  BY DEF Applied
<1>5. QED
  BY <1>1, <1>3, <1>4

\* The invariant holds before the first action.
LEMMA InitInv == Init => MergerInv
BY SMTT(60), ValuesFacts
   DEF Init, MergerInv, TypeOK, Shape, Applied, BalanceShape, ExactBalance, CountedBalance,
       LedgerShape, TxoShape, RecordShape, ConstantShape, FirstSeenShape, NoInverse

\* Every step keeps the invariant.
LEMMA StepInv ==
  ASSUME ~Underflow, MergerInv, [Next]_vars
  PROVE  MergerInv'
<1>1. CASE UNCHANGED vars
  BY SMTT(60), <1>1
     DEF MergerInv, vars, TypeOK, Shape, Applied, BalanceShape, ExactBalance, CountedBalance,
         LedgerShape, TxoShape, RecordShape, ConstantShape, FirstSeenShape
<1>2. CASE Next
  BY <1>2, PushInv, ApplyInv, RollBackInv, NextBlockInv DEF Next
<1>3. QED
  BY <1>1, <1>2

(* However many actions the reducers of however many blocks emit for a key,  *)
(* the action ActionMerger keeps has the effect of the whole sequence, up to *)
(* a satoshi balance of zero where zero is among the deltas and exactly      *)
(* where it is not, and the merge never panics.                              *)
THEOREM MergeFaithfulAlways ==
  ASSUME Underflow = FALSE
  PROVE  Spec => []MergeFaithful
<1>1. MergerInv => MergeFaithful
  BY ShapeFaithful DEF MergerInv
<1>2. MergerInv /\ [Next]_vars => MergerInv'
  BY StepInv
<1>3. QED
  BY InitInv, <1>1, <1>2, PTL DEF Spec

(* A rolled back block leaves every key that is not permanent as it was.     *)
THEOREM RollBackRestoresAlways ==
  ASSUME Underflow = FALSE
  PROVE  Spec => []RollBackRestores
<1>1. MergerInv => RollBackRestores
  BY DEF MergerInv, Applied, RollBackRestores
<1>2. MergerInv /\ [Next]_vars => MergerInv'
  BY StepInv
<1>3. QED
  BY InitInv, <1>1, <1>2, PTL DEF Spec
=============================================================================
