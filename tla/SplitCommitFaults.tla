------------------------- MODULE SplitCommitFaults -------------------------
(***************************************************************************)
(* SplitCommit with two failures that the storage stage is open to and     *)
(* does not handle: the transaction that removes the lock takes effect and *)
(* its commit reports an error, and batch tasks keep running after the     *)
(* call that spawned them has returned early.                              *)
(***************************************************************************)
EXTENDS SplitCommit

CONSTANTS
  UnknownCommit,    \* a commit may take effect and report an error
  DetachedBatches   \* batch tasks may outlive the call that spawned them

VARIABLE stray      \* the batches of such tasks

FaultyInit == Init /\ stray = {}

\* The keys that the transaction of this step writes.
Written ==
  IF pc = "batch" /\ pc' = "batch" THEN {w[2] : w \in todo \ todo'} ELSE {}

\* A transaction that began before a key was written fails with a conflict; the
\* tasks die with the process.
Regular ==
  /\ Next
  /\ stray' = IF up' = "down" THEN {} ELSE {t \in stray : t.keys \cap Written = {}}

UnlockUnknown ==
  /\ UnknownCommit /\ faults < MaxFaults
  /\ RemoveLock
  /\ LoseLocals
  /\ up' = "boot"
  /\ faults' = faults + 1
  /\ UNCHANGED <<db, meta, redis, memory, unit, offer, top, gc, stray>>

\* Beginning the transaction of another batch fails.
Detach ==
  /\ DetachedBatches /\ faults < MaxFaults
  /\ pc = "batch" /\ ~ Undoing
  /\ \E b \in BatchIds :
       stray' = stray \cup {[kind |-> job.kind, point |-> job.point, id |-> b, keys |-> Batch(b)]}
  /\ LoseLocals
  /\ up' = "boot"
  /\ faults' = faults + 1
  /\ UNCHANGED <<tikv, redis, memory, unit, offer, top, gc>>

StrayCommit ==
  /\ \E t \in stray :
       /\ db' = Executed(t.point, t.keys)
       /\ markers' = IF t.kind = "immutable" THEN markers \cup {t.id} ELSE markers
       /\ meta' = IF t.kind = "immutable" THEN meta
                  ELSE [meta EXCEPT ![t.point] = Overlay(@, Inverses(t.point, t.keys))]
       /\ stray' = {u \in stray : u.keys \cap t.keys = {}}
  /\ UNCHANGED <<lock, redis, up, run, memory, unit, offer, top, gc, faults>>

FaultyNext == Regular \/ UnlockUnknown \/ Detach \/ StrayCommit

FaultySpec == FaultyInit /\ [][FaultyNext]_<<vars, stray>>

=============================================================================
