------------------------ MODULE MempoolRefreshProofs ------------------------
(***************************************************************************)
(* For every set of keys, deltas and bounds, and every class of reducers   *)
(* but the point aggregates (NoTotals): the inverses under the pseudo-     *)
(* point always lead back to the chain's data, and a refresh leaves in     *)
(* TiKV what the view alone would make of it, through every sequence of    *)
(* refreshes by difference, failed commits and repairs.  Where changes by  *)
(* zero occur, a balance of zero may be stored or missing: the difference  *)
(* may delete a key instead of leaving zero.  Where none do (NoZeroDelta), *)
(* the refresh is exact.  No view spends outputs of no satoshi alone from  *)
(* a balance that is missing (~ ZeroSpends): such an action would leave no *)
(* inverse.                                                                *)
(***************************************************************************)
EXTENDS MempoolRefresh, TLAPS

\* Most steps are first-order; those that need arithmetic or functions cite SMT.
USE ZenonT(60)

NoTotals == "total" \notin Classes
NoZeroDelta == 0 \notin Deltas

StorageAction == [op : Operations, arg : Nat]
Stored == Nat \cup {Absent}

IsView(acts) ==
  /\ DOMAIN acts \subseteq Keys
  /\ \A k \in DOMAIN acts : acts[k] \in Emitted(k)

\* What TiKV holds is of the right type where it is only right up to a zero.
SameStored(c, v, w) == Same(c, v, w) /\ (v \in Stored \/ v = w)

\* The keys whose writes the rollback buffer records.
Undoable == {k \in Keys : class[k] \notin {"constant", "firstseen"}}

-----------------------------------------------------------------------------
(* The inductive invariant *)

TypeInv ==
  /\ class \in [Keys -> Classes]
  /\ chain \in [Keys -> Stored]
  /\ DOMAIN tikv = Keys /\ DOMAIN saved \subseteq Keys
  /\ DOMAIN work = {"pc", "acts", "diffs"}
  /\ work.pc \in {"idle", "undo", "apply", "retry"}
  /\ work.pc = "idle" => work = Idle
  /\ panic = FALSE

\* What the view wrote has its inverse, what it did not write is the chain's.
UndoInv ==
  \A k \in Undoable : IF k \in DOMAIN saved THEN saved[k] = chain[k] ELSE tikv[k] = chain[k]

ViewInv ==
  work.pc = "idle" /\ view # Nothing =>
    /\ IsView(view)
    /\ \A k \in Undoable :
         SameStored(class[k], tikv[k], IF k \in DOMAIN view THEN Exec(view[k], chain[k]) ELSE chain[k])

\* The cache describes what is in TiKV, and every key of it has its inverse.
CacheInv ==
  cache # Nothing =>
    /\ work.pc = "idle" /\ IsView(cache.acts)
    /\ \A k \in DOMAIN cache.acts \cap Undoable :
         /\ k \in DOMAIN saved
         /\ SameStored(class[k], tikv[k], Exec(cache.acts[k], chain[k]))

\* A difference, executed on what is there, gives what the new action gives
\* on the chain's data.
WorkInv ==
  /\ work.pc # "idle" => IsView(work.acts) /\ cache = Nothing
  /\ work.pc \in {"undo", "apply"} =>
       /\ DOMAIN work.diffs \subseteq DOMAIN work.acts
       /\ \A k \in DOMAIN work.diffs : work.diffs[k] \in StorageAction \cup {NoAction}
       /\ \A k \in DOMAIN work.diffs \cap Undoable :
            /\ k \in DOMAIN saved
            /\ SameStored(class[k], ExecOption(work.diffs[k], tikv[k]), Exec(work.acts[k], chain[k]))
  /\ work.pc = "apply" => DOMAIN saved \subseteq DOMAIN work.diffs

IInv == TypeInv /\ UndoInv /\ ViewInv /\ CacheInv /\ WorkInv

-----------------------------------------------------------------------------
(* The actions of one key *)

\* What a reducer of class c emits above a chain that holds v.
Fits(c, a, v) ==
  \/ /\ c = "balance"
     /\ \E d \in Nat :
          /\ NoZeroDelta => d # 0
          /\ a = Increment(d) \/ (a = Decrement(d) /\ v # Absent /\ d <= v)
  \/ /\ c = "ledger"
     /\ \E d \in Nat :
          /\ NoZeroDelta => d # 0
          /\ a = Increment(d) \/ (a = DecrementNoDelete(d) /\ v # Absent /\ d <= v)
  \/ c = "txo" /\ v = Absent /\ \E w \in Nat : a = SetOnce(w)
  \/ c = "txo" /\ v # Absent /\ a = Delete
  \/ c = "cursor" /\ \E w \in Nat : w # v /\ a = Set(w)
  \/ c = "constant" /\ a = SetPermanent(MaxValue)
  \/ c = "firstseen" /\ \E w \in Nat : a = InsertPermanent(w)

Permanents == {"constant", "firstseen"}

\* EmittedFits: the actions that a view may have for a key (reducer_output_to_storage_ops).
LEMMA EmittedFits ==
  ASSUME NoTotals, ~ ZeroSpends, TypeInv, NEW k \in Keys, NEW a \in Emitted(k)
  PROVE  Fits(class[k], a, chain[k])
<1> DEFINE v == chain[k]
<1> DEFINE up == {d \in Deltas : Counts(v) + d <= MaxValue}
<1> DEFINE down == {d \in Deltas : d <= Counts(v)}
<1>1. class[k] \in Classes /\ v \in Stored
  BY DEF TypeInv
<1>2. /\ up \subseteq Nat
      /\ \A d \in down : d \in Nat /\ (d # 0 => v # Absent) /\ (v # Absent => d <= v)
  <2>1. Counts(v) = IF v = Absent THEN 0 ELSE v
    BY DEF Counts
  <2>2. Deltas \subseteq Nat /\ (v # Absent => v \in Nat)
    BY <1>1, RefreshAssumption DEF Stored
  <2>3. \A d \in down : d \in Nat /\ d <= Counts(v)
    BY <2>2
  <2>4. up \subseteq Nat
    BY <2>2
  <2> HIDE DEF up, down, v
  <2>5. CASE v = Absent
    BY SMTT(60), <2>1, <2>3, <2>4, <2>5
  <2>6. CASE v # Absent
    BY <2>1, <2>2, <2>3, <2>4, <2>6
  <2> QED
    BY <2>5, <2>6
<1>3. Values \subseteq Nat /\ up \subseteq Deltas /\ down \subseteq Deltas
  BY SMTT(60), RefreshAssumption
<1>4. class[k] \in {"balance", "ledger", "txo", "cursor", "constant", "firstseen"}
  BY <1>1, RefreshAssumption DEF NoTotals
<1> HIDE DEF up, down
<1>5. CASE class[k] = "balance"
  <2>1. a \in {Increment(d) : d \in up} \cup
              {Decrement(d) : d \in {e \in down : v # Absent \/ ZeroSpends}}
    BY <1>5 DEF Emitted, up, down
  <2>2. NoZeroDelta => 0 \notin Deltas
    BY DEF NoZeroDelta
  <2> QED
    BY <2>1, <2>2, <1>2, <1>3, <1>5 DEF Fits
<1>6. CASE class[k] = "ledger"
  <2>1. a \in {Increment(d) : d \in up} \cup
              {DecrementNoDelete(d) : d \in {e \in down : v # Absent}}
    BY <1>6 DEF Emitted, up, down
  <2>2. NoZeroDelta => 0 \notin Deltas
    BY DEF NoZeroDelta
  <2> QED
    BY <2>1, <2>2, <1>2, <1>3, <1>6 DEF Fits
<1>7. CASE class[k] = "txo"
  <2>1. a \in IF v = Absent THEN {SetOnce(w) : w \in Values} ELSE {Delete}
    BY <1>7 DEF Emitted
  <2> QED
    BY <2>1, <1>3, <1>7 DEF Fits
<1>8. CASE class[k] = "cursor"
  <2>1. a \in {Set(w) : w \in Values \ {v}}
    BY <1>8 DEF Emitted
  <2> QED
    BY <2>1, <1>3, <1>8 DEF Fits
<1>9. CASE class[k] = "constant"
  BY <1>9 DEF Emitted, Fits
<1>10. CASE class[k] = "firstseen"
  <2>1. a \in {InsertPermanent(w) : w \in Values}
    BY <1>10 DEF Emitted
  <2> QED
    BY <2>1, <1>3, <1>10 DEF Fits
<1> QED
  BY <1>4, <1>5, <1>6, <1>7, <1>8, <1>9, <1>10

\* FitsAction: they are the plain actions, on naturals.
LEMMA FitsAction ==
  ASSUME NEW c, NEW a, NEW v \in Stored, Fits(c, a, v)
  PROVE  a \in StorageAction
BY SMTT(60), RefreshAssumption
   DEF Fits, StorageAction, Operations, Act, Increment, Decrement, DecrementNoDelete, SetOnce,
       Delete, Set, SetPermanent, InsertPermanent

\* ExecOf: what Exec does, action by action.
LEMMA ExecOf ==
  ASSUME NEW v, NEW d
  PROVE  /\ Exec(Increment(d), v) = ExecIncrement(d, v)
         /\ Exec(Decrement(d), v) = ExecDecrement(d, v)
         /\ Exec(DecrementNoDelete(d), v) = ExecDecrementNoDelete(d, v)
         /\ Exec(SetOnce(d), v) = d /\ Exec(Set(d), v) = d /\ Exec(SetPermanent(d), v) = d
         /\ Exec(InsertPermanent(d), v) = (IF v = Absent THEN d ELSE v)
         /\ Exec(Delete, v) = Absent
BY DEF Exec, Act, Increment, Decrement, DecrementNoDelete, SetOnce, Set, SetPermanent,
       InsertPermanent, Delete

\* ExecStored: executing them leaves a natural or nothing.
LEMMA ExecStored ==
  ASSUME NEW c, NEW a, NEW v \in Stored, Fits(c, a, v)
  PROVE  Exec(a, v) \in Stored
<1>1. \A d \in Nat : ExecIncrement(d, v) \in Stored
  BY SMTT(60) DEF Stored, ExecIncrement
<1>2. \A d \in Nat : ExecDecrement(d, v) \in Stored
  BY SMTT(60), RefreshAssumption DEF Stored, ExecDecrement
<1>3. \A d \in Nat : ExecDecrementNoDelete(d, v) \in Stored
  BY SMTT(60), RefreshAssumption DEF Stored, ExecDecrementNoDelete
<1>4. MaxValue \in Nat /\ Nat \subseteq Stored /\ Absent \in Stored
  BY RefreshAssumption DEF Stored
<1>5. \A d : Exec(Increment(d), v) = ExecIncrement(d, v)
  BY ExecOf
<1>6. \A d : Exec(Decrement(d), v) = ExecDecrement(d, v)
  BY ExecOf
<1>7. \A d : Exec(DecrementNoDelete(d), v) = ExecDecrementNoDelete(d, v)
  BY ExecOf
<1>8. Exec(Delete, v) = Absent
  BY ExecOf
<1>9. \A d \in Nat : /\ Exec(Set(d), v) \in Stored /\ Exec(SetOnce(d), v) \in Stored
                     /\ Exec(SetPermanent(d), v) \in Stored
                     /\ Exec(InsertPermanent(d), v) \in Stored
  BY SMTT(60), <1>4, ExecOf
<1>10. \A d \in Nat : /\ Exec(Increment(d), v) \in Stored /\ Exec(Decrement(d), v) \in Stored
                      /\ Exec(DecrementNoDelete(d), v) \in Stored
  BY <1>1, <1>2, <1>3, <1>5, <1>6, <1>7
<1>11. Exec(Delete, v) \in Stored /\ Exec(SetPermanent(MaxValue), v) \in Stored
  BY <1>4, <1>8, <1>9
<1> QED
  BY <1>9, <1>10, <1>11 DEF Fits

\* FitsInverse: each of them but the permanent writes leaves the old value as
\* its inverse (LeavesInverse), so a key that a view writes is always recorded.
LEMMA FitsInverse ==
  ASSUME NEW c, NEW a, NEW v \in Stored, Fits(c, a, v), c \notin Permanents
  PROVE  InverseOf(a, v) = [saved |-> TRUE, val |-> v]
<1> DEFINE Recorded(x) == InverseOf(x, v) = [saved |-> TRUE, val |-> v]
<1>1. \A d : Recorded(Increment(d))
  BY DEF Increment, Act, InverseOf, LeavesInverse, Overwritten
<1>2. v # Absent => \A d : Recorded(Decrement(d)) /\ Recorded(DecrementNoDelete(d))
  BY DEF Decrement, DecrementNoDelete, Act, InverseOf, LeavesInverse, Overwritten
<1>3. v # Absent => Recorded(Delete)
  BY DEF Delete, Act, InverseOf, LeavesInverse, Overwritten
<1>4. v = Absent => \A w : Recorded(SetOnce(w))
  BY DEF SetOnce, Act, InverseOf, LeavesInverse, Overwritten
<1>5. \A w : w # v => Recorded(Set(w))
  BY DEF Set, Act, InverseOf, LeavesInverse, Overwritten
<1> HIDE DEF Recorded
<1>6. Recorded(a)
  BY <1>1, <1>2, <1>3, <1>4, <1>5 DEF Fits, Permanents
<1> QED
  BY <1>6 DEF Recorded

\* DiffOf: StorageAction::diff, pair by pair.
LEMMA DiffOf ==
  ASSUME NEW d, NEW e
  PROVE  /\ Diff(Increment(d), Increment(e)) =
              IF d = e THEN NoAction ELSE IF e > d THEN Increment(e - d) ELSE Decrement(d - e)
         /\ Diff(Decrement(d), Decrement(e)) =
              IF d = e THEN NoAction ELSE IF e > d THEN Decrement(e - d) ELSE Increment(d - e)
         /\ Diff(DecrementNoDelete(d), DecrementNoDelete(e)) =
              IF d = e THEN NoAction
              ELSE IF e > d THEN DecrementNoDelete(e - d) ELSE Increment(d - e)
         /\ Diff(Increment(d), Decrement(e)) = Decrement(d + e)
         /\ Diff(Increment(d), DecrementNoDelete(e)) = DecrementNoDelete(d + e)
         /\ Diff(Decrement(d), Increment(e)) = Increment(d + e)
         /\ Diff(DecrementNoDelete(d), Increment(e)) = Increment(d + e)
         /\ Diff(Set(d), Set(e)) = IF d = e THEN NoAction ELSE Set(e)
         /\ Diff(SetOnce(d), SetOnce(e)) = IF d = e THEN NoAction ELSE Set(e)
         /\ Diff(Delete, Delete) = NoAction
         /\ Diff(SetPermanent(d), SetPermanent(d)) = NoAction
         /\ Diff(InsertPermanent(d), InsertPermanent(e)) = NoAction
<1> USE DEF Act, Diff
<1>1. Diff(Increment(d), Increment(e)) =
        IF d = e THEN NoAction ELSE IF e > d THEN Increment(e - d) ELSE Decrement(d - e)
  BY DEF DiffCounter, DiffSameSign, Increment, Decrement
<1>2. Diff(Decrement(d), Decrement(e)) =
        IF d = e THEN NoAction ELSE IF e > d THEN Decrement(e - d) ELSE Increment(d - e)
  BY DEF DiffCounter, DiffSameSign, Increment, Decrement
<1>3. Diff(DecrementNoDelete(d), DecrementNoDelete(e)) =
        IF d = e THEN NoAction
        ELSE IF e > d THEN DecrementNoDelete(e - d) ELSE Increment(d - e)
  BY DEF DiffCounter, DiffSameSign, Increment, DecrementNoDelete
<1>4. /\ Diff(Increment(d), Decrement(e)) = Decrement(d + e)
      /\ Diff(Increment(d), DecrementNoDelete(e)) = DecrementNoDelete(d + e)
  BY DEF DiffCounter, Increment, Decrement, DecrementNoDelete
<1>5. /\ Diff(Decrement(d), Increment(e)) = Increment(d + e)
      /\ Diff(DecrementNoDelete(d), Increment(e)) = Increment(d + e)
  BY DEF DiffCounter, Increment, Decrement, DecrementNoDelete
<1>6. /\ Diff(Set(d), Set(e)) = IF d = e THEN NoAction ELSE Set(e)
      /\ Diff(SetOnce(d), SetOnce(e)) = IF d = e THEN NoAction ELSE Set(e)
  BY DEF DiffWrite, Set, SetOnce
<1>7. Diff(Delete, Delete) = NoAction
  BY DEF DiffWrite, Delete
<1>8. /\ Diff(SetPermanent(d), SetPermanent(d)) = NoAction
      /\ Diff(InsertPermanent(d), InsertPermanent(e)) = NoAction
  BY DEF DiffWrite, SetPermanent, InsertPermanent
<1> QED
  BY <1>1, <1>2, <1>3, <1>4, <1>5, <1>6, <1>7, <1>8

\* DiffFits: the difference of two actions of one class never panics, is a
\* plain action or none, and after the first action does what the second does
\* (StorageAction::diff), provided no change of a balance is zero.
LEMMA DiffFits ==
  ASSUME NEW c, NEW a, NEW b, NEW v \in Stored, Fits(c, a, v), Fits(c, b, v)
  PROVE  /\ Diff(a, b) \in StorageAction \cup {NoAction}
         /\ (c \in Counters => NoZeroDelta) /\ c \notin Permanents =>
              ExecOption(Diff(a, b), Exec(a, v)) = Exec(b, v)
<1> DEFINE Good(x, y) ==
      /\ Diff(x, y) \in StorageAction \cup {NoAction}
      /\ (c \in Counters => NoZeroDelta) /\ c \notin Permanents =>
           ExecOption(Diff(x, y), Exec(x, v)) = Exec(y, v)
<1>0. /\ \A d \in Nat : /\ Increment(d) \in StorageAction /\ Decrement(d) \in StorageAction
                        /\ DecrementNoDelete(d) \in StorageAction /\ Set(d) \in StorageAction
      /\ \A x \in StorageAction : x # NoAction
      /\ v # Absent => v \in Nat
      /\ Absent \notin Nat
  BY RefreshAssumption
     DEF StorageAction, Stored, Operations, Act, Increment, Decrement, DecrementNoDelete, Set
<1>1. ASSUME NEW x, NEW y, NEW z \in StorageAction, Diff(x, y) = z,
             (c \in Counters => NoZeroDelta) => Exec(z, Exec(x, v)) = Exec(y, v)
      PROVE  Good(x, y)
  BY <1>0, <1>1 DEF ExecOption
<1>2. ASSUME NEW x, NEW y, Diff(x, y) = NoAction, Exec(x, v) = Exec(y, v)
      PROVE  Good(x, y)
  BY <1>2 DEF ExecOption
<1> HIDE DEF Good
<1>3. ASSUME NEW d \in Nat, NEW e \in Nat, (c \in Counters => NoZeroDelta) => d # 0 /\ e # 0
      PROVE  Good(Increment(d), Increment(e))
  <2> DEFINE w == ExecIncrement(d, v)
  <2>1. w \in Nat /\ (v = Absent => w = d) /\ (v # Absent => w = v + d)
    BY SMTT(60), <1>0 DEF ExecIncrement
  <2>2. CASE d = e
    BY SMTT(60), <2>2, <1>2, DiffOf
  <2>3. CASE e > d
    <3>1. e - d \in Nat /\ ExecIncrement(e - d, w) = ExecIncrement(e, v)
      BY SMTT(60), <2>1, <2>3, <1>0 DEF ExecIncrement
    <3> QED
      BY SMTT(60), <3>1, <2>3, <1>0, <1>1, DiffOf, ExecOf
  <2>4. CASE d > e
    <3>1. /\ d - e \in Nat
          /\ (c \in Counters => NoZeroDelta) => ExecDecrement(d - e, w) = ExecIncrement(e, v)
      BY SMTT(60), <2>1, <2>4, <1>0, <1>3 DEF ExecIncrement, ExecDecrement
    <3>2. Diff(Increment(d), Increment(e)) = Decrement(d - e)
      BY SMTT(60), <2>4, DiffOf
    <3> QED
      BY SMTT(60), <3>1, <3>2, <1>0, <1>1, ExecOf
  <2> QED
    BY SMTT(60), <2>2, <2>3, <2>4
<1>4. ASSUME NEW d \in Nat, NEW e \in Nat, v # Absent, e <= v
      PROVE  Good(Increment(d), Decrement(e)) /\ Good(Increment(d), DecrementNoDelete(e))
  <2>1. d + e \in Nat /\ ExecDecrement(d + e, ExecIncrement(d, v)) = ExecDecrement(e, v)
    BY SMTT(60), <1>0, <1>4 DEF ExecIncrement, ExecDecrement
  <2>2. ExecDecrementNoDelete(d + e, ExecIncrement(d, v)) = ExecDecrementNoDelete(e, v)
    BY SMTT(60), <1>0, <1>4 DEF ExecIncrement, ExecDecrementNoDelete
  <2> QED
    BY SMTT(60), <2>1, <2>2, <1>0, <1>1, DiffOf, ExecOf
<1>5. ASSUME NEW d \in Nat, NEW e \in Nat, (c \in Counters => NoZeroDelta) => e # 0,
             v # Absent, d <= v
      PROVE  Good(Decrement(d), Increment(e))
  <2>1. /\ d + e \in Nat
        /\ (c \in Counters => NoZeroDelta) =>
             ExecIncrement(d + e, ExecDecrement(d, v)) = ExecIncrement(e, v)
    BY SMTT(60), <1>0, <1>5 DEF ExecIncrement, ExecDecrement
  <2> QED
    BY SMTT(60), <2>1, <1>0, <1>1, DiffOf, ExecOf
<1>6. ASSUME NEW d \in Nat, NEW e \in Nat, v # Absent, d <= v
      PROVE  Good(DecrementNoDelete(d), Increment(e))
  <2>1. d + e \in Nat /\ ExecIncrement(d + e, ExecDecrementNoDelete(d, v)) = ExecIncrement(e, v)
    BY SMTT(60), <1>0, <1>6 DEF ExecIncrement, ExecDecrementNoDelete
  <2> QED
    BY SMTT(60), <2>1, <1>0, <1>1, DiffOf, ExecOf
<1>7. ASSUME NEW d \in Nat, NEW e \in Nat, v # Absent, d <= v, e <= v
      PROVE  Good(Decrement(d), Decrement(e))
  <2>1. CASE d = e
    BY SMTT(60), <2>1, <1>2, DiffOf
  <2>2. CASE e > d
    <3>1. e - d \in Nat /\ ExecDecrement(e - d, ExecDecrement(d, v)) = ExecDecrement(e, v)
      BY SMTT(60), <2>2, <1>0, <1>7 DEF ExecDecrement
    <3> QED
      BY SMTT(60), <3>1, <2>2, <1>0, <1>1, DiffOf, ExecOf
  <2>3. CASE d > e
    <3>1. d - e \in Nat /\ ExecIncrement(d - e, ExecDecrement(d, v)) = ExecDecrement(e, v)
      BY SMTT(60), <2>3, <1>0, <1>7 DEF ExecIncrement, ExecDecrement
    <3>2. Diff(Decrement(d), Decrement(e)) = Increment(d - e)
      BY SMTT(60), <2>3, DiffOf
    <3> QED
      BY SMTT(60), <3>1, <3>2, <1>0, <1>1, ExecOf
  <2> QED
    BY SMTT(60), <2>1, <2>2, <2>3
<1>8. ASSUME NEW d \in Nat, NEW e \in Nat, v # Absent, d <= v, e <= v
      PROVE  Good(DecrementNoDelete(d), DecrementNoDelete(e))
  <2>1. CASE d = e
    BY SMTT(60), <2>1, <1>2, DiffOf
  <2>2. CASE e > d
    <3>1. /\ e - d \in Nat
          /\ ExecDecrementNoDelete(e - d, ExecDecrementNoDelete(d, v)) = ExecDecrementNoDelete(e, v)
      BY SMTT(60), <2>2, <1>0, <1>8 DEF ExecDecrementNoDelete
    <3> QED
      BY SMTT(60), <3>1, <2>2, <1>0, <1>1, DiffOf, ExecOf
  <2>3. CASE d > e
    <3>1. /\ d - e \in Nat
          /\ ExecIncrement(d - e, ExecDecrementNoDelete(d, v)) = ExecDecrementNoDelete(e, v)
      BY SMTT(60), <2>3, <1>0, <1>8 DEF ExecIncrement, ExecDecrementNoDelete
    <3>2. Diff(DecrementNoDelete(d), DecrementNoDelete(e)) = Increment(d - e)
      BY SMTT(60), <2>3, DiffOf
    <3> QED
      BY SMTT(60), <3>1, <3>2, <1>0, <1>1, ExecOf
  <2> QED
    BY SMTT(60), <2>1, <2>2, <2>3
<1>9. ASSUME NEW d \in Nat, NEW e \in Nat
      PROVE  Good(SetOnce(d), SetOnce(e)) /\ Good(Set(d), Set(e))
  <2>1. CASE d = e
    BY SMTT(60), <2>1, <1>2, DiffOf
  <2>2. CASE d # e
    BY SMTT(60), <2>2, <1>0, <1>1, DiffOf, ExecOf
  <2> QED
    BY <2>1, <2>2
<1>10. Good(Delete, Delete)
  BY <1>2, DiffOf
<1>11. ASSUME c \in Permanents, NEW x, NEW y, Diff(x, y) = NoAction
       PROVE  Good(x, y)
  BY <1>11 DEF Good
<1> SUFFICES Good(a, b)
  BY DEF Good
<1>12. CASE c = "balance"
  <2>1. PICK d \in Nat : /\ NoZeroDelta => d # 0
                         /\ a = Increment(d) \/ (a = Decrement(d) /\ v # Absent /\ d <= v)
    BY <1>12 DEF Fits
  <2>2. PICK e \in Nat : /\ NoZeroDelta => e # 0
                         /\ b = Increment(e) \/ (b = Decrement(e) /\ v # Absent /\ e <= v)
    BY <1>12 DEF Fits
  <2>3. (c \in Counters => NoZeroDelta) => d # 0 /\ e # 0
    BY <2>1, <2>2, <1>12 DEF Counters
  <2> QED
    BY <2>1, <2>2, <2>3, <1>3, <1>4, <1>5, <1>7
<1>13. CASE c = "ledger"
  <2>1. PICK d \in Nat : /\ NoZeroDelta => d # 0
                         /\ a = Increment(d) \/ (a = DecrementNoDelete(d) /\ v # Absent /\ d <= v)
    BY <1>13 DEF Fits
  <2>2. PICK e \in Nat : /\ NoZeroDelta => e # 0
                         /\ b = Increment(e) \/ (b = DecrementNoDelete(e) /\ v # Absent /\ e <= v)
    BY <1>13 DEF Fits
  <2>3. (c \in Counters => NoZeroDelta) => d # 0 /\ e # 0
    BY <2>1, <2>2, <1>13 DEF Counters
  <2> QED
    BY <2>1, <2>2, <2>3, <1>3, <1>4, <1>6, <1>8
<1>14. CASE c = "txo"
  <2>1. \/ v = Absent /\ (\E w \in Nat : a = SetOnce(w)) /\ (\E w \in Nat : b = SetOnce(w))
        \/ a = Delete /\ b = Delete
    BY <1>14 DEF Fits
  <2> QED
    BY <2>1, <1>9, <1>10
<1>15. CASE c = "cursor"
  <2>1. (\E w \in Nat : a = Set(w)) /\ (\E w \in Nat : b = Set(w))
    BY <1>15 DEF Fits
  <2> QED
    BY <2>1, <1>9
<1>16. CASE c = "constant"
  <2>1. a = SetPermanent(MaxValue) /\ b = SetPermanent(MaxValue)
    BY <1>16 DEF Fits
  <2> QED
    BY SMTT(60), <2>1, <1>11, <1>16, DiffOf DEF Permanents
<1>17. CASE c = "firstseen"
  <2>1. (\E w \in Nat : a = InsertPermanent(w)) /\ (\E w \in Nat : b = InsertPermanent(w))
    BY <1>17 DEF Fits
  <2> QED
    BY SMTT(60), <2>1, <1>11, <1>17, DiffOf DEF Permanents
<1>18. c \in {"balance", "ledger", "txo", "cursor", "constant", "firstseen"}
  BY DEF Fits
<1> QED
  BY <1>12, <1>13, <1>14, <1>15, <1>16, <1>17, <1>18

Minus(n, d) == IF n <= d THEN 0 ELSE n - d

\* CountsOf: the three numeric actions, up to the difference between a key that
\* holds zero and no key.
LEMMA CountsOf ==
  ASSUME NEW w \in Stored, NEW d \in Nat
  PROVE  /\ Counts(w) \in Nat
         /\ ExecIncrement(d, w) \in Stored /\ Counts(ExecIncrement(d, w)) = Counts(w) + d
         /\ ExecDecrement(d, w) \in Stored /\ Counts(ExecDecrement(d, w)) = Minus(Counts(w), d)
         /\ ExecDecrementNoDelete(d, w) \in Stored
         /\ Counts(ExecDecrementNoDelete(d, w)) = Minus(Counts(w), d)
<1>1. Absent \notin Nat /\ w \in Nat \cup {Absent}
  BY RefreshAssumption DEF Stored
<1>2. Counts(w) \in Nat
  BY <1>1 DEF Counts
<1>3. ExecIncrement(d, w) \in Stored /\ Counts(ExecIncrement(d, w)) = Counts(w) + d
  BY SMTT(60), <1>1 DEF ExecIncrement, Counts, Stored
<1>4. ExecDecrement(d, w) \in Stored /\ Counts(ExecDecrement(d, w)) = Minus(Counts(w), d)
  <2>1. CASE w = Absent
    BY SMTT(60), <2>1 DEF ExecDecrement, Counts, Stored, Minus
  <2>2. CASE w \in Nat
    <3>1. ExecDecrement(d, w) = IF w <= d THEN Absent ELSE w - d
      BY <2>2, <1>1 DEF ExecDecrement
    <3>2. Counts(w) = w
      BY <2>2, <1>1 DEF Counts
    <3>3. CASE w <= d
      BY <3>1, <3>2, <3>3 DEF Counts, Stored, Minus
    <3>4. CASE ~ (w <= d)
      <4>1. w - d \in Nat
        BY SMTT(60), <2>2, <3>4
      <4>2. Counts(w - d) = w - d
        BY <4>1, <1>1 DEF Counts
      <4> QED
        BY <3>1, <3>2, <3>4, <4>1, <4>2 DEF Stored, Minus
    <3> QED
      BY <3>3, <3>4
  <2> QED
    BY <2>1, <2>2, <1>1
<1>5. /\ ExecDecrementNoDelete(d, w) \in Stored
      /\ Counts(ExecDecrementNoDelete(d, w)) = Minus(Counts(w), d)
  <2>1. CASE w = Absent
    BY SMTT(60), <2>1 DEF ExecDecrementNoDelete, Counts, Stored, Minus
  <2>2. CASE w \in Nat
    <3>1. ExecDecrementNoDelete(d, w) = Minus(w, d)
      BY SMTT(60), <2>2, <1>1 DEF ExecDecrementNoDelete, Minus
    <3>2. Minus(w, d) \in Nat
      BY SMTT(60), <2>2 DEF Minus
    <3>3. Counts(w) = w /\ Counts(Minus(w, d)) = Minus(w, d)
      BY <2>2, <3>2, <1>1 DEF Counts
    <3> QED
      BY <3>1, <3>2, <3>3 DEF Stored
  <2> QED
    BY <2>1, <2>2, <1>1
<1> QED
  BY <1>2, <1>3, <1>4, <1>5

\* DiffCounted: with changes by zero, the difference of two changes of a balance
\* still leads to the right amount, but not to whether zero is stored.
LEMMA DiffCounted ==
  ASSUME NEW c \in Counters, NEW a, NEW b, NEW v \in Stored, Fits(c, a, v), Fits(c, b, v),
         NEW w \in Stored, Counts(w) = Counts(Exec(a, v))
  PROVE  /\ ExecOption(Diff(a, b), w) \in Stored
         /\ Counts(ExecOption(Diff(a, b), w)) = Counts(Exec(b, v))
<1> DEFINE Good(x) == /\ ExecOption(x, w) \in Stored
                      /\ Counts(ExecOption(x, w)) = Counts(Exec(b, v))
<1> DEFINE Down(g) == IF c = "balance" THEN Decrement(g) ELSE DecrementNoDelete(g)
<1>0. c = "balance" \/ c = "ledger"
  BY DEF Counters
<1>1. PICK d \in Nat : a = Increment(d) \/ (a = Down(d) /\ v # Absent /\ d <= v)
  BY <1>0 DEF Fits
<1>2. PICK e \in Nat : b = Increment(e) \/ (b = Down(e) /\ v # Absent /\ e <= v)
  BY <1>0 DEF Fits
<1>d. /\ Diff(Increment(d), Down(e)) = Down(d + e)
      /\ Diff(Down(d), Increment(e)) = Increment(d + e)
      /\ Diff(Down(d), Down(e)) =
           IF d = e THEN NoAction ELSE IF e > d THEN Down(e - d) ELSE Increment(d - e)
  <2>1. CASE c = "balance"
    BY SMTT(60), <2>1, DiffOf
  <2>2. CASE c # "balance"
    BY SMTT(60), <2>2, DiffOf
  <2> QED
    BY <2>1, <2>2
<1> DEFINE n == Counts(v)
<1> DEFINE m == Counts(w)
<1>3. n \in Nat /\ m \in Nat /\ (v # Absent => v = n)
  BY CountsOf DEF Counts
<1>4. \A g \in Nat : /\ Increment(g) # NoAction /\ Decrement(g) # NoAction
                     /\ DecrementNoDelete(g) # NoAction
  BY SMTT(60), RefreshAssumption DEF Operations, Act, Increment, Decrement, DecrementNoDelete
<1>5. ASSUME NEW g \in Nat
      PROVE  /\ Counts(Exec(b, v)) = m + g => Good(Increment(g))
             /\ Counts(Exec(b, v)) = Minus(m, g) => Good(Decrement(g)) /\ Good(Down(g))
  <2>1. /\ ExecOption(Increment(g), w) = ExecIncrement(g, w)
        /\ ExecOption(Decrement(g), w) = ExecDecrement(g, w)
        /\ ExecOption(DecrementNoDelete(g), w) = ExecDecrementNoDelete(g, w)
    BY <1>4, ExecOf DEF ExecOption
  <2> QED
    BY <2>1, CountsOf
<1>6. Counts(Exec(b, v)) = m => Good(NoAction)
  BY DEF ExecOption
<1>7. /\ a = Increment(d) => m = n + d
      /\ a = Down(d) => m = Minus(n, d)
      /\ b = Increment(e) => Counts(Exec(b, v)) = n + e
      /\ b = Down(e) => Counts(Exec(b, v)) = Minus(n, e)
  <2>1. \A g \in Nat : /\ Counts(Exec(Increment(g), v)) = n + g
                       /\ Counts(Exec(Decrement(g), v)) = Minus(n, g)
                       /\ Counts(Exec(DecrementNoDelete(g), v)) = Minus(n, g)
    BY SMTT(60), CountsOf, ExecOf
  <2>2. \A g : Down(g) = Decrement(g) \/ Down(g) = DecrementNoDelete(g)
    OBVIOUS
  <2> HIDE DEF n, Down
  <2>3. \A g \in Nat : Counts(Exec(Down(g), v)) = Minus(n, g)
    BY <2>1, <2>2
  <2> QED
    BY <2>1, <2>3
<1> HIDE DEF Good, n, m, Down
<1> SUFFICES Good(Diff(a, b))
  BY DEF Good
<1>8. CASE a = Increment(d) /\ b = Increment(e)
  <2>1. CASE d = e
    BY <2>1, <1>6, <1>7, <1>8, DiffOf
  <2>2. CASE e > d
    <3>1. e - d \in Nat /\ n + e = m + (e - d)
      BY SMTT(60), <2>2, <1>3, <1>7, <1>8
    <3>2. Diff(a, b) = Increment(e - d)
      BY SMTT(60), <2>2, <1>8, DiffOf
    <3> QED
      BY <3>1, <3>2, <1>5, <1>7, <1>8
  <2>3. CASE d > e
    <3>1. d - e \in Nat /\ n + e = Minus(m, d - e)
      BY SMTT(60), <2>3, <1>3, <1>7, <1>8 DEF Minus
    <3>2. Diff(a, b) = Decrement(d - e)
      BY SMTT(60), <2>3, <1>8, DiffOf
    <3> QED
      BY <3>1, <3>2, <1>5, <1>7, <1>8
  <2> QED
    BY SMTT(60), <2>1, <2>2, <2>3
<1>9. CASE a = Increment(d) /\ b = Down(e) /\ e <= n
  <2>1. d + e \in Nat /\ Minus(n, e) = Minus(m, d + e)
    BY SMTT(60), <1>3, <1>7, <1>9 DEF Minus
  <2>2. Diff(a, b) = Down(d + e)
    BY <1>9, <1>d
  <2> QED
    BY <2>1, <2>2, <1>5, <1>7, <1>9
<1>10. CASE a = Down(d) /\ d <= n /\ b = Increment(e)
  <2>1. d + e \in Nat /\ n + e = m + (d + e)
    BY SMTT(60), <1>3, <1>7, <1>10 DEF Minus
  <2>2. Diff(a, b) = Increment(d + e)
    BY <1>10, <1>d
  <2> QED
    BY <2>1, <2>2, <1>5, <1>7, <1>10
<1>11. CASE a = Down(d) /\ d <= n /\ b = Down(e) /\ e <= n
  <2>1. CASE d = e
    BY <2>1, <1>6, <1>7, <1>11, <1>d
  <2>2. CASE e > d
    <3>1. e - d \in Nat /\ Minus(n, e) = Minus(m, e - d)
      BY SMTT(60), <2>2, <1>3, <1>7, <1>11 DEF Minus
    <3>2. Diff(a, b) = Down(e - d)
      BY SMTT(60), <2>2, <1>11, <1>d
    <3> QED
      BY <3>1, <3>2, <1>5, <1>7, <1>11
  <2>3. CASE d > e
    <3>1. d - e \in Nat /\ Minus(n, e) = m + (d - e)
      BY SMTT(60), <2>3, <1>3, <1>7, <1>11 DEF Minus
    <3>2. Diff(a, b) = Increment(d - e)
      BY SMTT(60), <2>3, <1>11, <1>d
    <3> QED
      BY <3>1, <3>2, <1>5, <1>7, <1>11
  <2> QED
    BY SMTT(60), <2>1, <2>2, <2>3
<1> QED
  BY <1>1, <1>2, <1>3, <1>8, <1>9, <1>10, <1>11

\* DiffSame: the difference, on what is there instead of the first action's
\* result, gives the second action's result again, up to a zero.
LEMMA DiffSame ==
  ASSUME NEW c, c \notin Permanents, NEW a, NEW b, NEW v \in Stored,
         Fits(c, a, v), Fits(c, b, v), NEW w, SameStored(c, w, Exec(a, v))
  PROVE  SameStored(c, ExecOption(Diff(a, b), w), Exec(b, v))
<1>1. CASE c \in Counters /\ ~ NoZeroDelta
  <2>1. w \in Stored /\ Counts(w) = Counts(Exec(a, v))
    BY ExecStored DEF SameStored, Same
  <2>2. /\ ExecOption(Diff(a, b), w) \in Stored
        /\ Counts(ExecOption(Diff(a, b), w)) = Counts(Exec(b, v))
    BY SMTT(60), <2>1, <1>1, DiffCounted
  <2>3. 0 \in Deltas
    BY <1>1 DEF NoZeroDelta
  <2> QED
    BY <2>2, <2>3, <1>1 DEF SameStored, Same
<1>2. CASE c \in Counters => NoZeroDelta
  <2>1. w = Exec(a, v)
    BY <1>2 DEF SameStored, Same, NoZeroDelta
  <2>2. ExecOption(Diff(a, b), w) = Exec(b, v)
    BY <1>2, <2>1, DiffFits
  <2> QED
    BY <2>2 DEF SameStored, Same
<1> QED
  BY <1>1, <1>2

-----------------------------------------------------------------------------
(* The operators on the database, when there are no point aggregates *)

Plainly(acts) == DOMAIN acts \subseteq Keys /\ \A k \in DOMAIN acts : acts[k] \in StorageAction

\* AppliedIs: a batch of plain actions changes each key on its own.
LEMMA AppliedIs ==
  ASSUME NEW acts, NEW db, DOMAIN db = Keys, Plainly(acts)
  PROVE  /\ DOMAIN Applied(acts, db) = Keys
         /\ \A k \in Keys : Applied(acts, db)[k] =
              IF k \in DOMAIN acts THEN Exec(acts[k], db[k]) ELSE db[k]
<1>1. \A k \in Keys : Owner(k) = k
  BY DEF Owner
<1>2. \A k \in DOMAIN acts : acts[k].op # "PointAggregate"
  BY DEF Plainly, StorageAction, Operations
<1>3. \A k \in Keys : Writes(k, acts) <=> k \in DOMAIN acts
  BY <1>1, <1>2 DEF Writes, PointOf
<1>4. \A k \in DOMAIN acts : Value(k, acts[k], db) = Exec(acts[k], db[k])
  BY <1>2 DEF Value
<1> QED
  BY <1>1, <1>3, <1>4 DEF Applied

\* InversesIs: so do its inverses.
LEMMA InversesIs ==
  ASSUME NEW acts, NEW db, DOMAIN db = Keys, Plainly(acts)
  PROVE  /\ \A k : k \in DOMAIN Inverses(acts, db) <=>
                     k \in DOMAIN acts /\ InverseOf(acts[k], db[k]).saved
         /\ \A k \in DOMAIN Inverses(acts, db) :
              Inverses(acts, db)[k] = InverseOf(acts[k], db[k]).val
<1>1. \A k \in Keys : Owner(k) = k
  BY DEF Owner
<1>2. \A k \in DOMAIN acts : acts[k].op # "PointAggregate"
  BY DEF Plainly, StorageAction, Operations
<1>3. \A k \in Keys : Writes(k, acts) <=> k \in DOMAIN acts
  BY <1>1, <1>2 DEF Writes, PointOf
<1>4. \A k \in DOMAIN acts : Kept(k, acts[k], db) = InverseOf(acts[k], db[k])
  BY <1>2 DEF Kept
<1>5. DOMAIN acts \subseteq Keys
  BY DEF Plainly
<1>6. {y \in DOMAIN db : Writes(y, acts) /\ Kept(y, acts[Owner(y)], db).saved} =
        {k \in DOMAIN acts : InverseOf(acts[k], db[k]).saved}
  BY <1>1, <1>3, <1>4, <1>5
<1>7. \A k \in DOMAIN acts : Kept(k, acts[Owner(k)], db).val = InverseOf(acts[k], db[k]).val
  BY <1>1, <1>4, <1>5
<1> QED
  BY <1>6, <1>7 DEF Inverses

\* ViewPlain: a view is such a batch; it leaves naturals, and it records the
\* chain's value of every key that can be undone.
LEMMA ViewPlain ==
  ASSUME NoTotals, ~ ZeroSpends, TypeInv, NEW acts, IsView(acts)
  PROVE  /\ Plainly(acts)
         /\ \A k \in DOMAIN acts : Exec(acts[k], chain[k]) \in Stored
         /\ \A k \in DOMAIN acts \cap Undoable :
              InverseOf(acts[k], chain[k]) = [saved |-> TRUE, val |-> chain[k]]
<1>1. \A k \in DOMAIN acts : k \in Keys /\ chain[k] \in Stored /\ Fits(class[k], acts[k], chain[k])
  BY EmittedFits DEF IsView, TypeInv
<1>2. \A k \in DOMAIN acts : acts[k] \in StorageAction
  BY <1>1, FitsAction
<1>3. \A k \in DOMAIN acts : Exec(acts[k], chain[k]) \in Stored
  BY <1>1, ExecStored
<1>4. \A k \in DOMAIN acts \cap Undoable :
        InverseOf(acts[k], chain[k]) = [saved |-> TRUE, val |-> chain[k]]
  BY <1>1, FitsInverse DEF Undoable, Permanents
<1> QED
  BY <1>1, <1>2, <1>3, <1>4 DEF Plainly

\* ViewIs: the views of the model are functions of this kind.
LEMMA ViewIs ==
  ASSUME NEW acts \in Views
  PROVE  IsView(acts)
BY DEF Views, IsView

-----------------------------------------------------------------------------
(* The invariant holds at first and every step keeps it *)

\* InitInv: the empty view of a chain with any data (Init).
LEMMA InitInv ==
  ASSUME NoTotals, ~ ZeroSpends, Init
  PROVE  IInv
<1>1. Totals = {} /\ DbKeys = Keys
  BY SMTT(60) DEF Init, NoTotals, Totals, DbKeys
<1>2. PICK f \in [Keys -> Values \cup {Absent}] :
        chain = [x \in DbKeys |-> IF x \in Keys THEN f[x] ELSE Absent]
  BY DEF Init
<1>3. chain \in [Keys -> Stored]
  BY SMTT(60), <1>1, <1>2, RefreshAssumption DEF Stored
<1>4. TypeInv
  BY <1>3 DEF Init, TypeInv, Idle, NoEntries
<1>5. UndoInv
  BY DEF Init, UndoInv, NoEntries, Undoable
<1> QED
  BY <1>4, <1>5 DEF Init, IInv, ViewInv, CacheInv, WorkInv, Idle

\* EmittedKept, ViewKept: what a view may do depends on the chain only.
LEMMA EmittedKept ==
  ASSUME UNCHANGED <<class, tip, chain>>
  PROVE  \A k : Emitted(k)' = Emitted(k)
BY SMTT(60) DEF Emitted, Counts, Total, MaxHeight, PointAggregate, Act

LEMMA ViewKept ==
  ASSUME UNCHANGED <<class, tip, chain>>
  PROVE  /\ \A acts : IsView(acts) => IsView(acts)'
         /\ Undoable' = Undoable
BY EmittedKept DEF IsView, Undoable

\* RollForwardInv: a block changes the chain's data and TiKV alike; no inverse is left then.
LEMMA RollForwardInv ==
  ASSUME NoTotals, ~ ZeroSpends, IInv, RollForward
  PROVE  IInv'
<1> USE DEF IInv
<1>1. PICK b \in Views : tikv' = Applied(b, tikv) /\ chain' = Applied(b, chain)
  BY DEF RollForward
<1>2. IsView(b) /\ Plainly(b) /\ \A k \in DOMAIN b : Exec(b[k], chain[k]) \in Stored
  BY <1>1, ViewIs, ViewPlain
<1>3. /\ DOMAIN tikv' = Keys /\ DOMAIN chain' = Keys
      /\ \A k \in Keys : tikv'[k] = IF k \in DOMAIN b THEN Exec(b[k], tikv[k]) ELSE tikv[k]
      /\ \A k \in Keys : chain'[k] = IF k \in DOMAIN b THEN Exec(b[k], chain[k]) ELSE chain[k]
  BY SMTT(60), <1>1, <1>2, AppliedIs DEF TypeInv
<1>4. chain' \in [Keys -> Stored]
  <2>1. \A k \in Keys : chain'[k] \in Stored
    BY SMTT(60), <1>2, <1>3 DEF TypeInv
  <2>2. chain' = [k \in Keys |-> chain'[k]]
    BY <1>1, <1>3 DEF Applied
  <2> QED
    BY <2>1, <2>2
<1>5. saved' = NoEntries /\ DOMAIN saved = {} /\ DOMAIN saved' = {} /\ Undoable' = Undoable
  BY DEF RollForward, NoEntries, Undoable
<1>6. TypeInv'
  BY <1>3, <1>4, <1>5 DEF RollForward, TypeInv
<1>7. UndoInv'
  BY <1>3, <1>5 DEF UndoInv, Undoable
<1>8. ViewInv' /\ CacheInv' /\ WorkInv'
  BY DEF RollForward, ViewInv, CacheInv, WorkInv, Idle
<1> QED
  BY <1>6, <1>7, <1>8

\* RollBackInv: the inverses put the chain's data back.
LEMMA RollBackInv ==
  ASSUME NoTotals, ~ ZeroSpends, IInv, RollBack
  PROVE  IInv'
<1> USE DEF IInv
<1>1. Undoable' = Undoable /\ DOMAIN saved' = {}
  BY DEF RollBack, NoEntries, Undoable
<1>2. /\ DOMAIN tikv' = Keys
      /\ \A k \in Keys : tikv'[k] = IF k \in DOMAIN saved THEN saved[k] ELSE tikv[k]
  BY DEF RollBack, Restored, TypeInv
<1>3. TypeInv'
  BY <1>1, <1>2 DEF RollBack, TypeInv
<1>4. UndoInv'
  BY <1>1, <1>2 DEF RollBack, UndoInv, Undoable
<1>5. ViewInv' /\ CacheInv' /\ WorkInv'
  BY DEF RollBack, ViewInv, CacheInv, WorkInv, Idle
<1> QED
  BY <1>3, <1>4, <1>5

\* BeginInv: each difference is to be executed on what the cache says is there.
LEMMA BeginInv ==
  ASSUME NoTotals, ~ ZeroSpends, IInv, NEW acts, IsView(acts), Begin(acts)
  PROVE  IInv'
<1> USE DEF IInv
<1> DEFINE diffs == DiffCache(acts)
<1>1. /\ work' = [pc |-> "undo", acts |-> acts, diffs |-> diffs] /\ cache' = Nothing
      /\ UNCHANGED <<class, tip, chain, tikv, saved>>
      /\ panic' = \E k \in DOMAIN diffs : diffs[k] = Panic
  BY DEF Begin
<1>2. DOMAIN diffs \subseteq DOMAIN acts
  BY DEF DiffCache, NoEntries
<1>3. ASSUME NEW k \in DOMAIN diffs
      PROVE  /\ diffs[k] \in StorageAction \cup {NoAction}
             /\ k \in Undoable =>
                  /\ k \in DOMAIN saved
                  /\ SameStored(class[k], ExecOption(diffs[k], tikv[k]), Exec(acts[k], chain[k]))
  <2>1. cache # Nothing /\ k \in DOMAIN acts /\ k \in DOMAIN cache.acts
    BY DEF DiffCache, NoEntries
  <2>2. diffs[k] = DiffAction(cache.acts[k], acts[k])
    BY <2>1 DEF DiffCache
  <2>3. IsView(cache.acts) /\ k \in Keys
    BY <2>1 DEF CacheInv, IsView
  <2>4. /\ Fits(class[k], cache.acts[k], chain[k]) /\ Fits(class[k], acts[k], chain[k])
        /\ chain[k] \in Stored
    BY <2>1, <2>3, EmittedFits DEF IsView, TypeInv
  <2>5. cache.acts[k].op # "PointAggregate"
    BY SMTT(60), <2>4, FitsAction DEF StorageAction, Operations
  <2>6. diffs[k] = Diff(cache.acts[k], acts[k])
    BY <2>2, <2>5 DEF DiffAction
  <2>7. Diff(cache.acts[k], acts[k]) \in StorageAction \cup {NoAction}
    BY <2>4, DiffFits
  <2>8. k \in Undoable =>
          k \in DOMAIN saved /\ SameStored(class[k], tikv[k], Exec(cache.acts[k], chain[k]))
    BY <2>1 DEF CacheInv
  <2>9. k \in Undoable => class[k] \notin Permanents
    BY DEF Undoable, Permanents
  <2> HIDE DEF diffs
  <2>10. k \in Undoable =>
           SameStored(class[k], ExecOption(Diff(cache.acts[k], acts[k]), tikv[k]),
                Exec(acts[k], chain[k]))
    BY <2>4, <2>8, <2>9, DiffSame
  <2> QED
    BY <2>6, <2>7, <2>8, <2>10
<1>4. panic' = FALSE
  <2>1. Panic \notin StorageAction \cup {NoAction}
    BY RefreshAssumption DEF StorageAction
  <2> HIDE DEF diffs
  <2> QED
    BY <2>1, <1>1, <1>3
<1> HIDE DEF diffs
<1>5. TypeInv'
  BY <1>1, <1>4 DEF TypeInv
<1>6. IsView(acts)' /\ Undoable' = Undoable
  BY <1>1, ViewKept
<1>7. UndoInv'
  BY <1>1, <1>6 DEF UndoInv
<1>8. ViewInv' /\ CacheInv'
  BY <1>1 DEF ViewInv, CacheInv
<1>9. WorkInv'
  BY <1>1, <1>2, <1>3, <1>6 DEF WorkInv, IsView
<1> QED
  BY <1>5, <1>7, <1>8, <1>9

\* UndoPreviousInv: only the keys that are not written by difference are undone.
LEMMA UndoPreviousInv ==
  ASSUME NoTotals, ~ ZeroSpends, IInv, UndoPrevious
  PROVE  IInv'
<1> USE DEF IInv
<1>1. /\ work.pc = "undo" /\ UNCHANGED <<class, tip, chain, view, cache, panic>>
      /\ work' = [work EXCEPT !.pc = "apply"]
  BY DEF UndoPrevious
<1>2. /\ DOMAIN work' = {"pc", "acts", "diffs"} /\ work'.pc = "apply"
      /\ work'.acts = work.acts /\ work'.diffs = work.diffs
  BY <1>1 DEF TypeInv
<1>3. /\ DOMAIN tikv' = Keys
      /\ \A k \in Keys :
           tikv'[k] = IF k \in DOMAIN saved \ DOMAIN work.diffs THEN saved[k] ELSE tikv[k]
  BY DEF UndoPrevious, Restored, ToUndo, Without, TypeInv
<1>4. /\ DOMAIN saved' = DOMAIN saved \cap DOMAIN work.diffs
      /\ \A k \in DOMAIN saved' : saved'[k] = saved[k]
  BY DEF UndoPrevious, ToUndo, Without
<1>5. TypeInv'
  BY <1>1, <1>2, <1>3, <1>4 DEF TypeInv
<1>6. IsView(work.acts)' /\ Undoable' = Undoable
  <2>1. IsView(work.acts)
    BY <1>1 DEF WorkInv
  <2>2. \A acts : IsView(acts) => IsView(acts)'
    BY <1>1, ViewKept
  <2> QED
    BY <1>1, <1>2, <2>1, <2>2, ViewKept DEF IsView
<1>7. UndoInv'
  BY <1>1, <1>3, <1>4, <1>6 DEF UndoInv, Undoable
<1>8. ViewInv' /\ CacheInv'
  BY <1>1, <1>2 DEF ViewInv, CacheInv, WorkInv
<1>9. \A k \in DOMAIN work.diffs \cap Undoable : k \in DOMAIN saved' /\ tikv'[k] = tikv[k]
  BY <1>1, <1>3, <1>4 DEF WorkInv, Undoable
<1>10. WorkInv'
  BY <1>1, <1>2, <1>4, <1>6, <1>9 DEF WorkInv
<1> QED
  BY <1>5, <1>7, <1>8, <1>10

\* WrittenBy: what ApplyView writes, key by key: the difference where there is
\* one, the action of the view elsewhere.
LEMMA WrittenBy ==
  ASSUME NoTotals, ~ ZeroSpends, IInv, work.pc = "apply"
  PROVE  /\ Plainly(Plain) /\ Plainly(With(Plain, Diffs))
         /\ DOMAIN Plain = DOMAIN work.acts \ DOMAIN work.diffs
         /\ \A k \in DOMAIN Plain : Plain[k] = work.acts[k] /\ With(Plain, Diffs)[k] = work.acts[k]
         /\ DOMAIN With(Plain, Diffs) =
              DOMAIN Plain \cup {k \in DOMAIN work.diffs : work.diffs[k] # NoAction}
         /\ \A k \in DOMAIN work.diffs : work.diffs[k] # NoAction =>
              With(Plain, Diffs)[k] = work.diffs[k]
<1> USE DEF IInv
<1>1. /\ IsView(work.acts) /\ DOMAIN work.diffs \subseteq DOMAIN work.acts
      /\ \A k \in DOMAIN work.diffs : work.diffs[k] \in StorageAction \cup {NoAction}
  BY DEF WorkInv
<1>2. Plainly(work.acts)
  BY <1>1, ViewPlain
<1>3. /\ DOMAIN Plain = DOMAIN work.acts \ DOMAIN work.diffs
      /\ \A k \in DOMAIN Plain : Plain[k] = work.acts[k]
  BY DEF Plain, Without
<1>4. /\ DOMAIN Diffs = {k \in DOMAIN work.diffs : work.diffs[k] # NoAction}
      /\ \A k \in DOMAIN Diffs : Diffs[k] = work.diffs[k]
  BY DEF Diffs
<1>5. /\ DOMAIN With(Plain, Diffs) = DOMAIN Plain \cup DOMAIN Diffs
      /\ \A k \in DOMAIN With(Plain, Diffs) :
           With(Plain, Diffs)[k] = IF k \in DOMAIN Diffs THEN Diffs[k] ELSE Plain[k]
  BY DEF With
<1>6. Plainly(Plain)
  BY <1>2, <1>3 DEF Plainly
<1>7. Plainly(With(Plain, Diffs))
  BY <1>1, <1>2, <1>3, <1>4, <1>5 DEF Plainly
<1> QED
  BY <1>3, <1>4, <1>5, <1>6, <1>7

\* ApplyViewInv: a key is written by its difference and keeps its inverse, or is written
\* as the chain has it and gets one.
LEMMA ApplyViewInv ==
  ASSUME NoTotals, ~ ZeroSpends, IInv, ApplyView
  PROVE  IInv'
<1> USE DEF IInv
<1> DEFINE all == With(Plain, Diffs)
<1> DEFINE inverses == Inverses(Plain, tikv)
<1>1. /\ work.pc = "apply" /\ work' = Idle /\ UNCHANGED <<class, tip, chain>>
      /\ tikv' = Applied(all, tikv) /\ saved' = With(saved, inverses)
      /\ panic' = (DOMAIN saved \cap DOMAIN inverses # {})
      /\ cache' = [tip |-> tip, acts |-> work.acts] /\ view' = work.acts
  BY DEF ApplyView
<1>2. /\ Plainly(Plain) /\ Plainly(all)
      /\ DOMAIN Plain = DOMAIN work.acts \ DOMAIN work.diffs
      /\ \A k \in DOMAIN Plain : Plain[k] = work.acts[k] /\ all[k] = work.acts[k]
      /\ DOMAIN all = DOMAIN Plain \cup {k \in DOMAIN work.diffs : work.diffs[k] # NoAction}
      /\ \A k \in DOMAIN work.diffs : work.diffs[k] # NoAction => all[k] = work.diffs[k]
  BY <1>1, WrittenBy
<1>3. /\ IsView(work.acts) /\ Plainly(work.acts)
      /\ DOMAIN work.diffs \subseteq DOMAIN work.acts /\ DOMAIN saved \subseteq DOMAIN work.diffs
      /\ \A k \in DOMAIN work.diffs \cap Undoable : k \in DOMAIN saved
  BY <1>1, ViewPlain DEF WorkInv
<1>4. /\ DOMAIN tikv' = Keys
      /\ \A k \in Keys : tikv'[k] = IF k \in DOMAIN all THEN Exec(all[k], tikv[k]) ELSE tikv[k]
  <2>1. DOMAIN tikv = Keys /\ Plainly(all) /\ tikv' = Applied(all, tikv)
    BY <1>1, <1>2 DEF TypeInv
  <2> HIDE DEF all
  <2> QED
    BY SMTT(60), <2>1, AppliedIs
<1>5. /\ \A k : k \in DOMAIN inverses <=> k \in DOMAIN Plain /\ InverseOf(Plain[k], tikv[k]).saved
      /\ \A k \in DOMAIN inverses : inverses[k] = InverseOf(Plain[k], tikv[k]).val
  BY <1>2, InversesIs DEF TypeInv
<1> HIDE DEF all, inverses
<1>6. /\ DOMAIN saved' = DOMAIN saved \cup DOMAIN inverses
      /\ \A k \in DOMAIN saved' :
           saved'[k] = IF k \in DOMAIN inverses THEN inverses[k] ELSE saved[k]
  BY <1>1 DEF With
<1>7. panic' = FALSE
  BY <1>1, <1>2, <1>3, <1>5
<1>8. TypeInv'
  BY <1>1, <1>2, <1>4, <1>5, <1>6, <1>7 DEF TypeInv, Idle, Plainly
<1>9. /\ Undoable' = Undoable /\ DOMAIN work.acts \subseteq Keys
      /\ \A k \in DOMAIN work.acts : work.acts[k] \in Emitted(k)'
  BY <1>1, <1>3, EmittedKept DEF Undoable, IsView
<1>10. ASSUME NEW k \in Undoable
       PROVE  /\ k \in DOMAIN Plain => /\ k \in DOMAIN saved' /\ saved'[k] = chain[k]
                                       /\ tikv'[k] = Exec(work.acts[k], chain[k])
              /\ k \in DOMAIN work.diffs =>
                   /\ k \in DOMAIN saved' /\ saved'[k] = chain[k]
                   /\ SameStored(class[k], tikv'[k], Exec(work.acts[k], chain[k]))
              /\ k \notin DOMAIN work.acts => k \notin DOMAIN saved' /\ tikv'[k] = chain[k]
  <2>1. k \in Keys
    BY DEF Undoable
  <2>2. CASE k \in DOMAIN Plain
    <3>1. k \notin DOMAIN saved /\ tikv[k] = chain[k] /\ k \notin DOMAIN work.diffs
      BY <2>2, <1>2, <1>3 DEF UndoInv
    <3>2. InverseOf(work.acts[k], chain[k]) = [saved |-> TRUE, val |-> chain[k]]
      BY <2>2, <1>2, <1>3, ViewPlain
    <3>3. k \in DOMAIN inverses /\ inverses[k] = chain[k]
      BY SMTT(60), <3>1, <3>2, <2>2, <1>2, <1>5
    <3>4. tikv'[k] = Exec(work.acts[k], chain[k])
      BY <3>1, <2>1, <2>2, <1>2, <1>4
    <3> QED
      BY <3>1, <3>3, <3>4, <2>2, <1>2, <1>6
  <2>3. CASE k \in DOMAIN work.diffs
    <3>1. k \in DOMAIN saved /\ saved[k] = chain[k] /\ k \notin DOMAIN Plain
      BY <2>3, <1>2, <1>3 DEF UndoInv
    <3>2. k \in DOMAIN saved' /\ saved'[k] = chain[k]
      BY <3>1, <1>5, <1>6
    <3>3. tikv'[k] = ExecOption(work.diffs[k], tikv[k])
      BY <3>1, <2>1, <2>3, <1>2, <1>4 DEF ExecOption
    <3>4. SameStored(class[k], ExecOption(work.diffs[k], tikv[k]), Exec(work.acts[k], chain[k]))
      BY <2>3, <1>1 DEF WorkInv
    <3> QED
      BY <3>1, <3>2, <3>3, <3>4, <2>3, <1>3
  <2>4. CASE k \notin DOMAIN work.acts
    <3>1. k \notin DOMAIN saved /\ k \notin DOMAIN all /\ k \notin DOMAIN inverses
      BY <2>4, <1>2, <1>3, <1>5
    <3> QED
      BY <3>1, <2>1, <2>4, <1>2, <1>3, <1>4, <1>6 DEF UndoInv
  <2> QED
    BY <2>2, <2>3, <2>4, <1>2
<1>11. UndoInv'
  BY <1>1, <1>2, <1>9, <1>10 DEF UndoInv
<1>12. \A k \in Undoable :
         IF k \in DOMAIN work.acts
         THEN k \in DOMAIN saved' /\ SameStored(class[k], tikv'[k], Exec(work.acts[k], chain[k]))
         ELSE SameStored(class[k], tikv'[k], chain[k])
  BY <1>2, <1>10 DEF SameStored, Same
<1>13. ViewInv'
  BY <1>1, <1>9, <1>12 DEF ViewInv, IsView
<1>14. CacheInv'
  BY <1>1, <1>9, <1>12 DEF CacheInv, IsView, Idle
<1>15. WorkInv'
  BY <1>1 DEF WorkInv, Idle
<1> QED
  BY <1>8, <1>11, <1>13, <1>14, <1>15

\* RetryInv: a failure ends with the work unit waiting to be scheduled again,
\* and with inverses that lead back to the chain's data.
LEMMA RetryInv ==
  ASSUME NoTotals, ~ ZeroSpends, IInv, work.pc \in {"undo", "apply"},
         work' = [work EXCEPT !.pc = "retry", !.diffs = NoEntries],
         UNCHANGED <<class, tip, chain, view, cache, panic>>,
         DOMAIN tikv' = Keys, DOMAIN saved' \subseteq Keys, UndoInv'
  PROVE  IInv'
<1> USE DEF IInv
<1>1. DOMAIN work' = {"pc", "acts", "diffs"} /\ work'.pc = "retry" /\ work'.acts = work.acts
  BY DEF TypeInv
<1>2. IsView(work.acts) /\ cache = Nothing
  BY DEF WorkInv
<1>3. TypeInv'
  BY <1>1 DEF TypeInv
<1>4. ViewInv' /\ CacheInv'
  BY <1>1, <1>2 DEF ViewInv, CacheInv
<1>5. WorkInv'
  BY SMTT(60), <1>1, <1>2, EmittedKept DEF WorkInv, IsView
<1> QED
  BY <1>3, <1>4, <1>5

\* InterruptedInv: nothing was written.
LEMMA InterruptedInv ==
  ASSUME NoTotals, ~ ZeroSpends, IInv, Interrupted
  PROVE  IInv'
<1>1. UndoInv'
  BY DEF IInv, Interrupted, UndoInv, Undoable
<1>2. DOMAIN tikv' = Keys /\ DOMAIN saved' \subseteq Keys
  BY DEF IInv, Interrupted, TypeInv
<1> QED
  BY <1>1, <1>2, RetryInv DEF Interrupted

\* RepairedInv: bootstrap undoes whatever the persistent rollback buffer holds.
LEMMA RepairedInv ==
  ASSUME NoTotals, ~ ZeroSpends, IInv, work.pc \in {"undo", "apply"}, NEW db, NEW inverses, DOMAIN db = Keys,
         \A k \in Undoable :
           IF k \in DOMAIN inverses THEN inverses[k] = chain[k] ELSE db[k] = chain[k],
         Repaired(db, inverses)
  PROVE  IInv'
<1>1. DOMAIN tikv' = Keys /\ DOMAIN saved' = {}
  BY DEF Repaired, Restored, NoEntries
<1>2. \A k \in Undoable : tikv'[k] = chain[k]
  BY DEF Repaired, Restored, Undoable
<1>3. UndoInv'
  BY <1>1, <1>2 DEF UndoInv, Undoable, Repaired
<1> QED
  BY <1>1, <1>3, RetryInv DEF Repaired

\* UndoFailsInv: an inverse is executed and removed at once, so the others suffice.
LEMMA UndoFailsInv ==
  ASSUME NoTotals, ~ ZeroSpends, IInv, UndoFails
  PROVE  IInv'
<1>1. PICK S \in SUBSET DOMAIN ToUndo :
        Repaired(Restored(Only(saved, S), tikv), Without(saved, S))
  BY DEF UndoFails
<1> DEFINE db == Restored(Only(saved, S), tikv)
<1>2. /\ DOMAIN db = Keys
      /\ \A k \in Keys : db[k] = IF k \in DOMAIN saved \cap S THEN saved[k] ELSE tikv[k]
  BY DEF Restored, Only, IInv, TypeInv
<1>3. /\ DOMAIN Without(saved, S) = DOMAIN saved \ S
      /\ \A k \in DOMAIN saved \ S : Without(saved, S)[k] = saved[k]
  BY DEF Without
<1>4. ASSUME NEW k \in Undoable
      PROVE  IF k \in DOMAIN Without(saved, S) THEN Without(saved, S)[k] = chain[k]
             ELSE db[k] = chain[k]
  BY <1>2, <1>3 DEF IInv, UndoInv, Undoable
<1> HIDE DEF db
<1> QED
  BY <1>1, <1>2, <1>4, RepairedInv DEF UndoFails, db

\* ApplyFailsInv: a key that was written has its inverse, old or new.
LEMMA ApplyFailsInv ==
  ASSUME NoTotals, ~ ZeroSpends, IInv, ApplyFails
  PROVE  IInv'
<1>1. PICK S \in SUBSET DOMAIN With(Plain, Diffs) :
        Repaired(Applied(Only(With(Plain, Diffs), S), tikv),
                 With(saved, Inverses(Only(Plain, S), tikv)))
  BY DEF ApplyFails
<1>0. work.pc = "apply" /\ DOMAIN tikv = Keys
  BY DEF ApplyFails, IInv, TypeInv
<1> DEFINE all == With(Plain, Diffs)
<1> DEFINE done == Only(all, S)
<1> DEFINE plain == Only(Plain, S)
<1> DEFINE inverses == Inverses(plain, tikv)
<1> DEFINE db == Applied(done, tikv)
<1> DEFINE kept == With(saved, inverses)
<1>2. /\ Plainly(Plain) /\ Plainly(all)
      /\ DOMAIN Plain = DOMAIN work.acts \ DOMAIN work.diffs
      /\ \A k \in DOMAIN Plain : Plain[k] = work.acts[k]
      /\ DOMAIN all \subseteq DOMAIN Plain \cup DOMAIN work.diffs
  BY <1>0, WrittenBy
<1>3. /\ IsView(work.acts) /\ DOMAIN saved \subseteq DOMAIN work.diffs
      /\ \A k \in DOMAIN work.diffs \cap Undoable : k \in DOMAIN saved
  BY <1>0 DEF IInv, WorkInv
<1>4. Plainly(done) /\ DOMAIN done = DOMAIN all \cap S
  BY <1>2 DEF Only, Plainly
<1>5. /\ Plainly(plain) /\ DOMAIN plain = DOMAIN Plain \cap S
      /\ \A k \in DOMAIN plain : plain[k] = work.acts[k]
  BY <1>2 DEF Only, Plainly
<1> HIDE DEF done, plain, all
<1>6. /\ DOMAIN db = Keys
      /\ \A k \in Keys : k \notin DOMAIN done => db[k] = tikv[k]
  BY SMTT(60), <1>0, <1>4, AppliedIs
<1>7. /\ \A k : k \in DOMAIN inverses <=> k \in DOMAIN plain /\ InverseOf(plain[k], tikv[k]).saved
      /\ \A k \in DOMAIN inverses : inverses[k] = InverseOf(plain[k], tikv[k]).val
  BY SMTT(60), <1>0, <1>5, InversesIs
<1> HIDE DEF db, inverses
<1>8. /\ DOMAIN kept = DOMAIN saved \cup DOMAIN inverses
      /\ \A k \in DOMAIN kept : kept[k] = IF k \in DOMAIN inverses THEN inverses[k] ELSE saved[k]
  BY DEF With
<1> HIDE DEF kept
<1>9. ASSUME NEW k \in Undoable
      PROVE  IF k \in DOMAIN kept THEN kept[k] = chain[k] ELSE db[k] = chain[k]
  <2>1. k \in Keys
    BY DEF Undoable
  <2>2. CASE k \in DOMAIN saved
    <3>1. k \notin DOMAIN inverses /\ saved[k] = chain[k]
      BY <2>2, <1>2, <1>3, <1>5, <1>7 DEF IInv, UndoInv
    <3> QED
      BY <3>1, <2>2, <1>8
  <2>3. CASE k \notin DOMAIN saved
    <3>1. tikv[k] = chain[k] /\ k \notin DOMAIN work.diffs
      BY <2>3, <1>3 DEF IInv, UndoInv
    <3>2. CASE k \in DOMAIN plain
      <4>1. InverseOf(work.acts[k], chain[k]) = [saved |-> TRUE, val |-> chain[k]]
        BY <3>2, <1>2, <1>3, <1>5, ViewPlain DEF IInv
      <4>2. k \in DOMAIN inverses /\ inverses[k] = chain[k]
        BY SMTT(60), <4>1, <3>1, <3>2, <1>5, <1>7
      <4> QED
        BY <4>2, <1>8
    <3>3. CASE k \notin DOMAIN plain
      <4>1. k \notin DOMAIN done /\ k \notin DOMAIN kept
        BY <3>1, <3>3, <2>3, <1>2, <1>4, <1>5, <1>7, <1>8
      <4> QED
        BY <4>1, <3>1, <2>1, <1>6
    <3> QED
      BY <3>2, <3>3
  <2> QED
    BY <2>2, <2>3
<1>10. Repaired(db, kept)
  BY <1>1 DEF db, kept, inverses, plain, done, all
<1> QED
  BY <1>0, <1>6, <1>9, <1>10, RepairedInv

-----------------------------------------------------------------------------
(* The theorems *)

\* Inductive: the invariant is kept by every step.
LEMMA Inductive ==
  ASSUME NoTotals, ~ ZeroSpends
  PROVE  Spec => []IInv
<1>1. Init => IInv
  BY InitInv
<1>2. IInv /\ [Next]_vars => IInv'
  <2> SUFFICES ASSUME IInv, [Next]_vars PROVE IInv'
    OBVIOUS
  <2>1. CASE RollForward
    BY <2>1, RollForwardInv
  <2>2. CASE RollBack
    BY <2>2, RollBackInv
  <2>3. CASE NewRefresh
    <3>1. PICK acts \in Views : Begin(acts)
      BY <2>3 DEF NewRefresh
    <3> QED
      BY <3>1, ViewIs, BeginInv
  <2>4. CASE RetryRefresh
    <3>1. IsView(work.acts) /\ Begin(work.acts)
      BY <2>4 DEF RetryRefresh, IInv, WorkInv
    <3> QED
      BY <3>1, BeginInv
  <2>5. CASE UndoPrevious
    BY <2>5, UndoPreviousInv
  <2>6. CASE ApplyView
    BY <2>6, ApplyViewInv
  <2>7. CASE Interrupted
    BY <2>7, InterruptedInv
  <2>8. CASE UndoFails
    BY <2>8, UndoFailsInv
  <2>9. CASE ApplyFails
    BY <2>9, ApplyFailsInv
  <2>10. CASE UNCHANGED vars
    <3>1. UNCHANGED <<class, tip, chain, view, tikv, saved, cache, work, panic>>
      BY <2>10 DEF vars
    <3>2. TypeInv' /\ UndoInv'
      BY <3>1 DEF IInv, TypeInv, UndoInv, Undoable
    <3>3. ViewInv' /\ CacheInv' /\ WorkInv'
      BY <3>1, EmittedKept DEF IInv, ViewInv, CacheInv, WorkInv, IsView, Undoable
    <3> QED
      BY <3>2, <3>3 DEF IInv
  <2> QED
    BY <2>1, <2>2, <2>3, <2>4, <2>5, <2>6, <2>7, <2>8, <2>9, <2>10 DEF Next
<1> QED
  BY <1>1, <1>2, PTL DEF Spec

\* UndoAlwaysComplete: without point aggregates, and as long as no view spends
\* outputs of no satoshi alone from a missing balance, in every state, also in the
\* middle of a refresh and after a failure, the inverses of the pseudo-point lead
\* back to the chain's data (the MempoolRefresh arm of execute, rollback_buffer.rs,
\* bootstrap).
THEOREM UndoAlwaysComplete ==
  ASSUME NoTotals, ~ ZeroSpends
  PROVE  Spec => []UndoComplete
<1>1. IInv => UndoComplete
  <2> SUFFICES ASSUME IInv, NEW k \in Keys
               PROVE  Permanent(k) \/ Restored(saved, tikv)[k] = chain[k]
    BY DEF UndoComplete, IInv, TypeInv
  <2>1. Permanent(k) \/ k \in Undoable
    BY DEF Permanent, Undoable, Owner
  <2> QED
    BY <2>1 DEF IInv, TypeInv, UndoInv, Restored
<1>2. Spec => []IInv
  BY Inductive
<1> QED
  BY <1>1, <1>2, PTL

\* RefreshAlwaysExact: under the same conditions every completed refresh leaves in
\* TiKV what its actions do to the chain's data, up to whether a balance of zero is
\* stored where zero is among the deltas, and exactly where it is not; no diff panics
\* and no inverse is recorded twice (StorageAction::diff, insert_actions_for_point).
THEOREM RefreshAlwaysExact ==
  ASSUME NoTotals, ~ ZeroSpends
  PROVE  Spec => []RefreshExact
<1>1. IInv => RefreshExact
  <2> SUFFICES ASSUME IInv, work = Idle, view # Nothing, NEW k \in Keys
               PROVE  Permanent(k) \/ Same(class[k], tikv[k], Applied(view, chain)[k])
    BY DEF RefreshExact, IInv, TypeInv, Owner
  <2>1. work.pc = "idle"
    BY DEF Idle
  <2>2. IsView(view)
    BY <2>1 DEF IInv, ViewInv
  <2>3. Plainly(view) /\ DOMAIN chain = Keys
    BY <2>2, ViewPlain DEF IInv, TypeInv
  <2>4. Applied(view, chain)[k] =
          IF k \in DOMAIN view THEN Exec(view[k], chain[k]) ELSE chain[k]
    BY SMTT(60), <2>3, AppliedIs
  <2>5. Permanent(k) \/ k \in Undoable
    BY DEF Permanent, Undoable, Owner
  <2> QED
    BY <2>1, <2>4, <2>5 DEF IInv, ViewInv, SameStored
<1>2. Spec => []IInv
  BY Inductive
<1> QED
  BY <1>1, <1>2, PTL

=============================================================================
