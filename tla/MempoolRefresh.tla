--------------------------- MODULE MempoolRefresh ---------------------------
(***************************************************************************)
(* The mempool refresh of the storage stage: the actions of a mempool view *)
(* are written over the chain's data in TiKV, their inverses are kept      *)
(* under one pseudo-point of the rollback buffer, and the next refresh on  *)
(* the same tip only undoes what it does not write itself and writes the   *)
(* difference to what is there.                                            *)
(*                                                                         *)
(* A key belongs to one reducer, hence to one class of actions.  A total   *)
(* is the latest value of a point aggregate, whose points are the keys     *)
(* <<total, height>>.  A split commit that fails has committed any subset  *)
(* of its keys, each with its inverse.                                     *)
(***************************************************************************)
EXTENDS StorageActions, FiniteSets

CONSTANTS
  Keys,       \* the keys that reducers write
  Classes,    \* the classes of reducers that own them
  Deltas,     \* the amounts added or subtracted
  ZeroSpends, \* may a view spend outputs of no satoshi, and nothing else, of a
              \* script that has no balance?
  Nothing,
  MaxValue,   \* bound: values of counters and totals
  MaxTip,     \* bound: height of the chain
  Depth,      \* bound: mempool blocks of a view
  MaxFaults   \* bound: failed commits

ASSUME RefreshAssumption ==
  /\ Classes \subseteq {"balance", "ledger", "txo", "cursor", "constant", "firstseen", "total"}
  /\ Deltas \subseteq Nat /\ ZeroSpends \in BOOLEAN /\ MaxValue \in Nat /\ Values = 0..MaxValue
  /\ MaxTip \in Nat /\ Depth \in Nat /\ MaxFaults \in Nat
  /\ Absent \notin Nat /\ NoAction # Panic
  /\ \A marker \in {NoAction, Panic} : marker \notin [op : Operations, arg : Nat]

VARIABLES
  class,   \* [Keys -> Classes]
  tip,     \* height of the last block
  chain,   \* what TiKV holds when the blocks up to tip have been applied, and nothing else
  view,    \* the view whose refresh was completed last, Nothing after a block or a rollback
  tikv,    \* TiKV
  saved,   \* the inverses of the pseudo-point, values by key
  cache,   \* mempool_refresh_cache
  work,    \* the refresh in progress
  panic, faults

vars == <<class, tip, chain, view, tikv, saved, cache, work, panic, faults>>

MaxHeight == MaxTip + Depth
Totals == {k \in Keys : class[k] = "total"}
DbKeys == Keys \cup (Totals \X (1..MaxHeight))
Owner(x) == IF x \in Keys THEN x ELSE x[1]
NoEntries == [x \in {} |-> Absent]

-----------------------------------------------------------------------------
(* Point aggregates: the value at a height is the one before it plus a delta *)

PointAggregate(points) == Act("PointAggregate", points)

Total(v, points) ==
  LET t[h \in 0..MaxHeight] ==
        IF h = 0 THEN IF v = Absent THEN 0 ELSE v
        ELSE IF h \notin DOMAIN points THEN t[h - 1]
        ELSE IF t[h - 1] + points[h] < 0 THEN 0 ELSE t[h - 1] + points[h]
  IN  t

DiffPoints(a, b) ==
  LET at(p, h) == IF h \in DOMAIN p THEN p[h] ELSE 0
  IN  PointAggregate([h \in DOMAIN a.arg \cup DOMAIN b.arg |-> at(b.arg, h) - at(a.arg, h)])

DiffAction(a, b) == IF a.op = "PointAggregate" THEN DiffPoints(a, b) ELSE Diff(a, b)

-----------------------------------------------------------------------------
(* Executing actions, by key, on the database *)

PointOf(x, a) == a.op = "PointAggregate" /\ x \notin Keys

Writes(x, acts) ==
  /\ Owner(x) \in DOMAIN acts
  /\ PointOf(x, acts[Owner(x)]) => x[2] \in DOMAIN acts[Owner(x)].arg
  /\ x \notin Keys => acts[Owner(x)].op = "PointAggregate"

Value(x, a, db) ==
  IF a.op # "PointAggregate" THEN Exec(a, db[x])
  ELSE Total(db[Owner(x)], a.arg)[IF x \in Keys THEN MaxHeight ELSE x[2]]

Applied(acts, db) ==
  [x \in DOMAIN db |-> IF Writes(x, acts) THEN Value(x, acts[Owner(x)], db) ELSE db[x]]

\* The inverse of what an action does at x: the value to put back.
Kept(x, a, db) ==
  IF a.op # "PointAggregate" THEN InverseOf(a, db[x])
  ELSE [saved |-> TRUE, val |-> IF x \in Keys THEN db[x] ELSE Absent]

Inverses(acts, db) ==
  [x \in {y \in DOMAIN db : Writes(y, acts) /\ Kept(y, acts[Owner(y)], db).saved} |->
     Kept(x, acts[Owner(x)], db).val]

Restored(inverses, db) ==
  [x \in DOMAIN db |-> IF x \in DOMAIN inverses THEN inverses[x] ELSE db[x]]

Without(f, S) == [x \in DOMAIN f \ S |-> f[x]]
Only(f, S) == [x \in DOMAIN f \cap S |-> f[x]]
With(f, g) == [x \in DOMAIN f \cup DOMAIN g |-> IF x \in DOMAIN g THEN g[x] ELSE f[x]]

-----------------------------------------------------------------------------
(* What the reducers of each class emit, merged, above a chain that holds v *)

Emitted(k) ==
  LET v == chain[k]
      up == {d \in Deltas : Counts(v) + d <= MaxValue}
      down == {d \in Deltas : d <= Counts(v)}
  IN  CASE class[k] = "balance"   -> {Increment(d) : d \in up} \cup
                                     {Decrement(d) : d \in {e \in down : v # Absent \/ ZeroSpends}}
        [] class[k] = "ledger"    -> {Increment(d) : d \in up} \cup
                                     {DecrementNoDelete(d) : d \in {e \in down : v # Absent}}
        [] class[k] = "txo"       -> IF v = Absent THEN {SetOnce(w) : w \in Values} ELSE {Delete}
        [] class[k] = "cursor"    -> {Set(w) : w \in Values \ {v}}
        [] class[k] = "constant"  -> {SetPermanent(MaxValue)}
        [] class[k] = "firstseen" -> {InsertPermanent(w) : w \in Values}
        [] class[k] = "total"     ->
             {PointAggregate(p) : p \in
                UNION {{q \in [H -> {d : d \in Deltas} \cup {-d : d \in Deltas}] :
                          \A h \in H : LET s == Total(v, q) IN
                            /\ q[h] # 0 /\ s[h] <= MaxValue
                            /\ s[h] = s[h - 1] + q[h]} :
                       H \in SUBSET (tip + 1 .. tip + Depth) \ {{}}}}

\* One action for each key that the view touches.
Views ==
  UNION {{v \in [K -> UNION {Emitted(k) : k \in K}] : \A k \in K : v[k] \in Emitted(k)} :
           K \in SUBSET Keys}

Initially(c) ==
  IF c = "cursor" THEN {0} ELSE IF c = "constant" THEN {Absent, MaxValue}
  ELSE {Absent} \cup {v \in Values : c # "balance" \/ v > 0 \/ 0 \in Deltas}

Idle == [pc |-> "idle", acts |-> NoEntries, diffs |-> NoEntries]

Init ==
  /\ class \in [Keys -> Classes]
  /\ tip = 0
  /\ \E f \in [Keys -> Values \cup {Absent}] :
       /\ \A k \in Keys : f[k] \in Initially(class[k])
       /\ chain = [x \in DbKeys |-> IF x \in Keys THEN f[x] ELSE Absent]
  /\ tikv = chain
  /\ view = Nothing /\ saved = NoEntries /\ cache = Nothing /\ work = Idle
  /\ panic = FALSE /\ faults = 0

-----------------------------------------------------------------------------

\* The source has a mempool view undone before the next block.
RollForward ==
  /\ work = Idle /\ saved = NoEntries /\ tip < MaxTip
  /\ \E b \in Views :
       /\ \A k \in DOMAIN b : class[k] = "total" => DOMAIN b[k].arg = {tip + 1}
       /\ tikv' = Applied(b, tikv)
       /\ chain' = Applied(b, chain)
  /\ tip' = tip + 1
  /\ cache' = Nothing
  /\ view' = Nothing
  /\ UNCHANGED <<class, saved, work, panic, faults>>

\* Back to the tip below the view.
RollBack ==
  /\ work = Idle /\ view # Nothing
  /\ tikv' = Restored(saved, tikv)
  /\ saved' = NoEntries
  /\ cache' = Nothing
  /\ view' = Nothing
  /\ UNCHANGED <<class, tip, chain, work, panic, faults>>

DiffCache(acts) ==
  IF cache = Nothing THEN NoEntries
  ELSE [k \in {j \in DOMAIN acts : cache.tip = tip /\ j \in DOMAIN cache.acts} |->
          DiffAction(cache.acts[k], acts[k])]

\* The refresh starts, or is started again after a failure.
Begin(acts) ==
  /\ ~ panic
  /\ work' = [pc |-> "undo", acts |-> acts, diffs |-> DiffCache(acts)]
  /\ cache' = Nothing
  /\ panic' = (\E k \in DOMAIN DiffCache(acts) : DiffCache(acts)[k] = Panic)
  /\ UNCHANGED <<class, tip, chain, view, tikv, saved, faults>>

NewRefresh == work = Idle /\ \E acts \in Views : Begin(acts)

RetryRefresh == work.pc = "retry" /\ Begin(work.acts)

\* The inverses of the keys that the new view does not write.
ToUndo == Without(saved, DOMAIN work.diffs)

UndoPrevious ==
  /\ work.pc = "undo" /\ ~ panic
  /\ tikv' = Restored(ToUndo, tikv)
  /\ saved' = Without(saved, DOMAIN ToUndo)
  /\ work' = [work EXCEPT !.pc = "apply"]
  /\ UNCHANGED <<class, tip, chain, view, cache, panic, faults>>

\* The differences are written without an inverse, the other actions with one.
Diffs == [k \in {j \in DOMAIN work.diffs : work.diffs[j] # NoAction} |-> work.diffs[k]]
Plain == Without(work.acts, DOMAIN work.diffs)

ApplyView ==
  /\ work.pc = "apply"
  /\ tikv' = Applied(With(Plain, Diffs), tikv)
  /\ saved' = With(saved, Inverses(Plain, tikv))
  /\ panic' = (DOMAIN saved \cap DOMAIN Inverses(Plain, tikv) # {})
  /\ cache' = [tip |-> tip, acts |-> work.acts]
  /\ view' = work.acts
  /\ work' = Idle
  /\ UNCHANGED <<class, tip, chain, faults>>

\* The first commit fails before its lock is written, and the work unit is
\* scheduled again.
Interrupted ==
  /\ work.pc \in {"undo", "apply"} /\ faults < MaxFaults /\ ~ panic
  /\ work' = [work EXCEPT !.pc = "retry", !.diffs = NoEntries]
  /\ faults' = faults + 1
  /\ UNCHANGED <<class, tip, chain, view, tikv, saved, cache, panic>>

\* A split commit of some keys fails under its lock; bootstrap undoes all that
\* the persistent rollback buffer then has for the pseudo-point.
Repaired(db, inverses) ==
  /\ faults < MaxFaults /\ ~ panic
  /\ tikv' = Restored(inverses, db)
  /\ saved' = NoEntries
  /\ work' = [work EXCEPT !.pc = "retry", !.diffs = NoEntries]
  /\ faults' = faults + 1
  /\ UNCHANGED <<class, tip, chain, view, cache, panic>>

UndoFails ==
  /\ work.pc = "undo"
  /\ \E S \in SUBSET DOMAIN ToUndo :
       Repaired(Restored(Only(saved, S), tikv), Without(saved, S))

ApplyFails ==
  /\ work.pc = "apply"
  /\ \E S \in SUBSET DOMAIN With(Plain, Diffs) :
       Repaired(Applied(Only(With(Plain, Diffs), S), tikv),
                With(saved, Inverses(Only(Plain, S), tikv)))

Next ==
  \/ RollForward \/ RollBack
  \/ NewRefresh \/ RetryRefresh \/ UndoPrevious \/ ApplyView
  \/ Interrupted \/ UndoFails \/ ApplyFails

Spec == Init /\ [][Next]_vars

-----------------------------------------------------------------------------

Permanent(x) == class[Owner(x)] \in {"constant", "firstseen"}

\* The balances: of satoshi, which are deleted at zero, and of BRC-20 tokens.
Counters == {"balance", "ledger"}

\* What TiKV holds at a key of class c and what it should: the same, except that a
\* balance of zero may be stored or missing where changes by zero occur.
Same(c, v, w) == v = w \/ (c \in Counters /\ 0 \in Deltas /\ Counts(v) = Counts(w))

\* RefreshExact: after a refresh TiKV holds what the actions of the view do to
\* the chain's data, however many refreshes, failures and repairs lie between
\* (the MempoolRefresh arm of execute; StorageAction::diff), up to whether a
\* balance of zero is stored: the difference from Increment(5) to Increment(0) is
\* Decrement(5), which deletes the key.  And diff meets no pair of actions that it
\* panics on, and no inverse is recorded twice (insert_actions_for_point in safe
\* mode).
RefreshExact ==
  /\ ~ panic
  /\ work = Idle /\ view # Nothing =>
       \A x \in DOMAIN tikv :
         Permanent(x) \/ Same(class[Owner(x)], tikv[x], Applied(view, chain)[x])

\* UndoComplete: in every state, also in the middle of a refresh, the inverses
\* under the pseudo-point lead back to the chain's data, so that a block, a
\* rollback or a repair never finds traces of a view.  It rests on ~ ZeroSpends:
\* Decrement(0) on a missing balance leaves no inverse, and the next view's
\* change of the same key, a difference, is written without one.
UndoComplete ==
  ~ panic => \A x \in DOMAIN tikv : Permanent(x) \/ Restored(saved, tikv)[x] = chain[x]

=============================================================================
