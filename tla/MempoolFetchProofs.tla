------------------------- MODULE MempoolFetchProofs -------------------------
(***************************************************************************)
(* The mempool stage never loses the global mempool service for good: for  *)
(* every number of consecutive failures after which it is left, a worker   *)
(* that has met it is connected or will try it again.                      *)
(***************************************************************************)
EXTENDS MempoolFetch, TLAPS

\* The workers whose last timestamp is in L: which one it is plays no part here.
Workers(L) ==
  [client : BOOLEAN, failures : Nat, away : {"no", "recent", "due"}, last : L, met : BOOLEAN]

\* ConnectionKept of one worker, so that it can be said of what a fetch returns.
Kept(w) ==
  /\ w.met => w.client \/ w.away # "no"
  /\ w.client => w.away = "no" /\ w.failures < MaxFailures

\* The inductive invariant.
FetchInv == worker \in Workers({worker.last}) /\ Kept(worker)

\* A request to the service that fails is counted, and the one that reaches the
\* limit leaves it and notes when.
LEMMA FailedKeeps ==
  ASSUME NEW L, NEW w \in Workers(L), Kept(w), w.client
  PROVE  Failed(w) \in Workers(L) /\ Kept(Failed(w))
<1> DEFINE n == w.failures + 1
           v == [w EXCEPT !.failures = n]
<1>1. n \in Nat
  BY DEF Workers
<1> HIDE DEF n
<1>2. v \in Workers(L)
  BY <1>1, Zenon DEF Workers
<1>3. v.failures = n /\ v.client = w.client /\ v.away = w.away /\ v.met = w.met
  BY DEF Workers
<1>4. Disconnected(v) \in Workers(L)
  BY <1>2, Zenon DEF Disconnected, Workers
<1>5. ~Disconnected(v).client /\ Disconnected(v).away = "recent"
  BY <1>2 DEF Disconnected, Workers
<1>6. CASE n >= MaxFailures
  BY <1>4, <1>5, <1>6 DEF Failed, Kept, n
<1>7. CASE ~(n >= MaxFailures)
  BY <1>1, <1>2, <1>3, <1>7, FetchAssumption DEF Failed, Kept, n
<1> QED
  BY <1>6, <1>7

\* An answer of the service clears the count; one without a unit leaves the service.
LEMMA AnsweredKeeps ==
  ASSUME NEW L, NEW w \in Workers(L), Kept(w), w.client
  PROVE  /\ Answered(w) \in Workers(L) /\ Kept(Answered(w))
         /\ Disconnected(Answered(w)) \in Workers(L) /\ Kept(Disconnected(Answered(w)))
<1>1. Answered(w) \in Workers(L) /\ Disconnected(Answered(w)) \in Workers(L)
  BY Zenon DEF Answered, Disconnected, Workers
<1>2. Answered(w).failures = 0 /\ Answered(w).away = "no" /\ Answered(w).client = w.client
  BY DEF Answered, Workers
<1>3. ~Disconnected(Answered(w)).client /\ Disconnected(Answered(w)).away = "recent"
  BY <1>1 DEF Disconnected, Workers
<1> QED
  BY <1>1, <1>2, <1>3, FetchAssumption DEF Kept

\* The attempt to reconnect, whether or not it succeeds.
LEMMA ReconnectKeeps ==
  ASSUME NEW L, NEW w \in Workers(L), Kept(w), NEW v \in Reconnects(w)
  PROVE  v \in Workers(L) /\ Kept(v)
<1>1. CASE ~w.client /\ v = [w EXCEPT !.client = TRUE, !.failures = 0, !.away = "no"]
  <2>1. v \in Workers(L)
    BY <1>1, Zenon DEF Workers
  <2>2. v.client /\ v.failures = 0 /\ v.away = "no"
    BY <1>1 DEF Workers
  <2> QED
    BY <2>1, <2>2, FetchAssumption DEF Kept
<1>2. CASE ~w.client /\ v = [w EXCEPT !.away = "recent"]
  BY <1>2 DEF Workers, Kept
<1>3. CASE v = w
  BY <1>3
<1> QED
  BY <1>1, <1>2, <1>3 DEF Reconnects

\* Every outcome of a fetch, from the service or from the node.
LEMMA FetchKeeps ==
  ASSUME NEW L, NEW w \in Workers(L), Kept(w), NEW r \in Fetches(w)
  PROVE  r.worker \in Workers(L) /\ Kept(r.worker)
<1>1. ASSUME NEW v, NEW s \in FetchFromRpc(v)
      PROVE  s.worker = v
  BY <1>1 DEF FetchFromRpc
<1>2. CASE ~w.client
  BY <1>1, <1>2 DEF Fetches
<1>3. CASE w.client
  <2>1. ASSUME NEW s \in FetchFromMgm(w)
        PROVE  s.worker \in Workers(L) /\ Kept(s.worker)
    <3>1. s.worker \in {Failed(w), Answered(w), Disconnected(Answered(w))}
      BY <2>1 DEF FetchFromMgm
    <3> QED
      BY <1>3, <3>1, FailedKeeps, AnsweredKeeps
  <2>2. PICK s \in FetchFromMgm(w) : r = s \/ r \in FetchFromRpc(s.worker)
    BY <1>3 DEF Fetches
  <2>3. r.worker = s.worker
    BY <1>1, <2>2
  <2> QED
    BY <2>1, <2>3
<1> QED
  BY <1>2, <1>3

\* A worker that has just started has not left the service.
LEMMA BootstrapKeeps ==
  ASSUME NEW w \in Bootstrapped
  PROVE  w \in Workers({w.last}) /\ Kept(w)
<1>1. PICK c \in BOOLEAN :
        w = [client |-> c, failures |-> 0, away |-> "no", last |-> None, met |-> c]
  BY DEF Bootstrapped
<1> QED
  BY <1>1, FetchAssumption DEF Workers, Kept

\* One step per action that assigns the worker; the others leave it alone.
LEMMA FetchInvInductive ==
  ASSUME FetchInv, [Next]_vars
  PROVE  FetchInv'
<1>1. CASE Schedule
  <2>1. PICK w \in Reconnects(worker) : \E r \in Fetches(w) :
          \/ worker' = r.worker
          \/ worker' = [r.worker EXCEPT !.last = r.unit.ts]
    BY <1>1 DEF Schedule
  <2>2. PICK r \in Fetches(w) :
          \/ worker' = r.worker
          \/ worker' = [r.worker EXCEPT !.last = r.unit.ts]
    BY <2>1
  <2>3. w \in Workers({worker.last}) /\ Kept(w)
    BY ReconnectKeeps DEF FetchInv
  <2>4. r.worker \in Workers({worker.last}) /\ Kept(r.worker)
    BY <2>3, FetchKeeps
  <2>5. CASE worker' = r.worker
    BY <2>4, <2>5 DEF FetchInv, Workers, Kept
  <2>6. CASE worker' = [r.worker EXCEPT !.last = r.unit.ts]
    BY <2>4, <2>6 DEF FetchInv, Workers, Kept
  <2> QED
    BY <2>2, <2>5, <2>6
<1>2. CASE RpcFails
  BY <1>2, BootstrapKeeps DEF RpcFails, FetchInv, Kept, Workers
<1>3. CASE Thirty
  BY <1>3 DEF Thirty, FetchInv, Workers, Kept
<1>4. CASE UNCHANGED worker
  BY <1>4 DEF FetchInv, Workers, Kept
<1> QED
  BY <1>1, <1>2, <1>3, <1>4
     DEF Next, Execute, Tick, Mine, Follow, MgmRefreshes, MgmAges, vars

\* ConnectionKept for every limit on consecutive failures: however requests that fail,
\* old or empty templates, the thirty seconds and restarts of the worker interleave, a
\* worker that has met the service is connected or will try it again, and one that is
\* connected is below the limit.
THEOREM ConnectionTheorem == Spec => []ConnectionKept
<1>1. Init => FetchInv
  BY BootstrapKeeps DEF Init, FetchInv
<1>2. FetchInv /\ [Next]_vars => FetchInv'
  BY FetchInvInductive
<1>3. FetchInv => ConnectionKept
  BY DEF FetchInv, Kept, ConnectionKept
<1> QED
  BY <1>1, <1>2, <1>3, PTL DEF Spec
=============================================================================
