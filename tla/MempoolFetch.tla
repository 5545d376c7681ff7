----------------------------- MODULE MempoolFetch -----------------------------
(***************************************************************************)
(* Where the mempool stage of the compressor gets its units of work: from  *)
(* a global mempool service (MGM) if there is one, else from the node, and *)
(* which of them it processes.  A tip is a number; so is a time, and the   *)
(* clock takes a number that nothing else holds, because times are only    *)
(* compared for equality.                                                  *)
(***************************************************************************)
EXTENDS Naturals

CONSTANTS
  None,
  Configured,             \* mgm_address is given
  MaxFailures,            \* consecutive failures until MGM is left (3)
  MaxTip, MaxFaults       \* bounds

ASSUME FetchAssumption == MaxFailures \in Nat \ {0}

VARIABLES
  node, db,   \* the tips of the node and of the ledger
  clock,      \* mempool_view_ts of a template made now
  mgm,        \* the template of MGM, and is it more than two minutes old
  worker,     \* client, mgm_consecutive_failures, mgm_disconnected_at,
              \* last_processed_mempool_ts; history: was MGM there at its start
  beat,       \* last_fetch: changes whenever the stage is scheduled
  unit, shared, faults

vars == <<node, db, clock, mgm, worker, beat, unit, shared, faults>>

Times == 0 .. 4
InUse == {mgm.ts, worker.last} \union
         {x.ts : x \in {unit, shared} \ {None}}

-----------------------------------------------------------------------------
(* Fetching: the possible outcomes, as the worker and a unit or None *)

Template(tip, ts) == [tip |-> tip, ts |-> ts]

\* A mutant: it is not noted when MGM was left.
DisconnectedForGood(w) == [w EXCEPT !.client = FALSE]

Disconnected(w) == [w EXCEPT !.client = FALSE, !.away = "recent"]

Failed(w) ==
  IF w.failures + 1 >= MaxFailures THEN Disconnected([w EXCEPT !.failures = @ + 1])
  ELSE [w EXCEPT !.failures = @ + 1]

Answered(w) == [w EXCEPT !.failures = 0, !.away = "no"]

\* A mutant: the age of a template is not looked at.
FetchFromMgmAnyAge(w) ==
  {[worker |-> Failed(w), unit |-> None],
   [worker |-> Disconnected(Answered(w)), unit |-> None],
   [worker |-> Answered(w), unit |-> Template(mgm.tip, mgm.ts)]}

\* The request fails, the template is too old, it is empty, or it is a unit.
FetchFromMgm(w) ==
  {[worker |-> Failed(w), unit |-> None],
   [worker |-> Disconnected(Answered(w)), unit |-> None]}
  \union
  IF mgm.old THEN {} ELSE {[worker |-> Answered(w), unit |-> Template(mgm.tip, mgm.ts)]}

\* An empty template of the node is no unit.
FetchFromRpc(w) ==
  {[worker |-> w, unit |-> Template(node, clock)]}
  \union
  IF faults < MaxFaults THEN {[worker |-> w, unit |-> None]} ELSE {}

\* 30 seconds after it was left, MGM is tried once more.
Reconnects(w) ==
  IF ~w.client /\ Configured /\ w.away = "due"
  THEN {[w EXCEPT !.client = TRUE, !.failures = 0, !.away = "no"], [w EXCEPT !.away = "recent"]}
  ELSE {w}

Fetches(w) ==
  IF ~w.client THEN FetchFromRpc(w)
  ELSE UNION {IF r.unit # None THEN {r} ELSE FetchFromRpc(r.worker) : r \in FetchFromMgm(w)}

-----------------------------------------------------------------------------
(* The stage *)

\* A view that was already processed is not scheduled.
Schedule ==
  /\ unit = None
  /\ \E w \in Reconnects(worker) : \E r \in Fetches(w) :
       /\ faults' = IF r.unit = None THEN faults + 1 ELSE faults
       /\ IF r.unit = None \/ (r.unit # None /\ r.unit.ts = r.worker.last)
          THEN worker' = r.worker /\ unit' = None
          ELSE worker' = [r.worker EXCEPT !.last = r.unit.ts] /\ unit' = r.unit
  /\ beat' = ~beat
  /\ UNCHANGED <<node, db, clock, mgm, shared>>

\* Three attempts to connect; if all fail there is only the node.
Bootstrapped ==
  {[client |-> c, failures |-> 0, away |-> "no", last |-> None, met |-> c] :
     c \in IF Configured THEN BOOLEAN ELSE {FALSE}}

\* A request to the node fails, and the worker restarts.
RpcFails ==
  /\ unit = None /\ faults < MaxFaults
  /\ faults' = faults + 1
  /\ worker' \in Bootstrapped
  /\ UNCHANGED <<beat, node, db, clock, mgm, unit, shared>>

Execute ==
  /\ unit # None
  /\ shared' = IF unit.tip = db THEN unit ELSE shared
  /\ unit' = None
  /\ UNCHANGED <<beat, node, db, clock, mgm, worker, faults>>

-----------------------------------------------------------------------------
(* Time, the chain and MGM *)

Thirty == /\ worker.away = "recent"
          /\ worker' = [worker EXCEPT !.away = "due"]
          /\ UNCHANGED <<beat, node, db, clock, mgm, unit, shared, faults>>

Tick == /\ clock \in InUse
        /\ clock' \in Times \ InUse
        /\ UNCHANGED <<beat, node, db, mgm, worker, unit, shared, faults>>

Mine == /\ node < MaxTip
        /\ node' = node + 1
        /\ UNCHANGED <<beat, db, clock, mgm, worker, unit, shared, faults>>

Follow == /\ db < node
          /\ db' = db + 1
          /\ UNCHANGED <<beat, node, clock, mgm, worker, unit, shared, faults>>

MgmRefreshes == /\ mgm' = [tip |-> node, ts |-> clock, old |-> FALSE]
                /\ UNCHANGED <<beat, node, db, clock, worker, unit, shared, faults>>

MgmAges == /\ ~mgm.old
           /\ mgm' = [mgm EXCEPT !.old = TRUE]
           /\ UNCHANGED <<beat, node, db, clock, worker, unit, shared, faults>>

Init ==
  /\ node = 0 /\ db = 0 /\ clock = 0
  /\ mgm = [tip |-> 0, ts |-> 0, old |-> FALSE]
  /\ worker \in Bootstrapped
  /\ unit = None /\ shared = None /\ faults = 0 /\ beat = FALSE

Next ==
  Schedule \/ RpcFails \/ Execute \/ Thirty \/ Tick \/ Mine \/ Follow \/ MgmRefreshes \/ MgmAges

\* A template does not stay young without being renewed; the clock runs; the
\* ledger follows the node; the stage is scheduled again and again.
Fairness ==
  /\ WF_vars(Schedule) /\ WF_vars(Execute) /\ WF_vars(Tick) /\ WF_vars(Follow)
  /\ WF_vars(~mgm.old /\ (MgmRefreshes \/ MgmAges))

Spec == Init /\ [][Next]_vars
LiveSpec == Spec /\ Fairness

-----------------------------------------------------------------------------
(* Properties *)

\* Once the chain is quiet, the view that is served is for the tip of the ledger,
\* however MGM behaves: requests to it may fail, its templates may be for another
\* tip, too old or empty, and a unit may have been skipped for its tip.
ViewFollows == <>[](shared # None /\ shared.tip = db)

\* A worker that has met MGM is connected to it or will try it again, whichever
\* way it was left; one that is connected counts less than MaxFailures failures.
ConnectionKept ==
  /\ worker.met => worker.client \/ worker.away # "no"
  /\ worker.client => worker.away = "no" /\ worker.failures < MaxFailures

\* A timestamp counts as processed when its view is the one served, or is just
\* being processed.
TimestampProcessed ==
  \/ worker.last = None \/ unit # None
  \/ shared # None /\ shared.ts = worker.last
=============================================================================
