---------------------------- MODULE SourceStage ----------------------------
(***************************************************************************)
(* The pipeline of a polyphony process: the compressor source stage, which *)
(* dumps pages, then streams the log of the compressor and asks it for     *)
(* mempool views; the reducers stage with its integrity checks; the queue; *)
(* and the storage stage, which compacts and executes what it takes from   *)
(* the queue (each payload in one step here; SplitCommit has the detail).  *)
(***************************************************************************)
EXTENDS Naturals, Sequences, FiniteSets, SequencesExt, TLC

CONSTANTS
  Blocks, Genesis, parent, height,
  Initial,            \* the blocks that the compressor has at first, in order
  None,
  Mempool,            \* the pseudo-point of a mempool view in the rollback buffer
  BufferSize, PageSize,
  UseMempool,
  MaxReorg,           \* bound: blocks undone by a reorganisation
  MaxLog,             \* bound: length of the compressor's log
  MaxViews,           \* bound: mempool views
  MaxQueue,           \* bound: payloads between the stages
  MaxRestarts         \* bound: restarts of the process or of the source stage

ASSUME SourceAssumption ==
  /\ parent \in [Blocks \ {Genesis} -> Blocks]
  /\ height \in [Blocks -> Nat]
  /\ None \notin Blocks /\ Mempool \notin Blocks
  /\ PageSize < BufferSize      \* as configured by default, 20 and 32
  /\ MaxReorg + 2 <= BufferSize \* one slot for the fork point, one for the mempool

VARIABLES
  wal,        \* compressor: its log of Apply, Undo and Mark
  shown,      \* compressor: the latest mempool view and the block below it
  source,     \* the source worker
  reduced,    \* last_processed of the reducers worker
  queue,      \* payloads on the way to the storage stage
  unit,       \* work_unit_2pc of the storage worker
  store,      \* what TiKV and the storage worker hold
  crashes,    \* restarts of the process
  reconnects  \* restarts of the source stage alone

upstream == <<wal, shown>>
counters == <<crashes, reconnects>>
vars == <<upstream, source, reduced, queue, unit, store, counters>>

Points(log) == SelectSeq(log, LAMBDA e : e.k # "undo")
Tip == Last(Points(wal)).b

ancestors[b \in Blocks] == {b} \cup IF b = Genesis THEN {} ELSE ancestors[parent[b]]

Fresh ==
  [mode |-> "init", cursor |-> None, seq |-> 0, upstream |-> 0, tip |-> None,
   processed |-> None]

Empty == [at |-> None, view |-> 0, buf |-> <<>>, mutable |-> FALSE, fault |-> "none"]

Init ==
  /\ wal = [i \in DOMAIN Initial |-> [k |-> "apply", b |-> Initial[i]]]
  /\ shown = [tip |-> None, ts |-> 0]
  /\ source = Fresh
  /\ reduced = None
  /\ queue = <<>> /\ unit = <<>>
  /\ store = Empty
  /\ crashes = 0 /\ reconnects = 0

Alive == store.fault = "none"

-----------------------------------------------------------------------------
(* The compressor *)

NewBlock ==
  /\ Len(wal) < MaxLog
  /\ \E b \in Blocks \ {Genesis} :
       /\ parent[b] = Tip
       /\ wal' = Append(wal, [k |-> "apply", b |-> b])
  /\ UNCHANGED <<shown, source, reduced, queue, unit, store, counters>>

\* The blocks above p are undone, newest first, and p is marked.
undone[b \in Blocks, p \in Blocks] ==
  IF b = p THEN <<[k |-> "mark", b |-> p]>>
  ELSE <<[k |-> "undo", b |-> b]>> \o undone[parent[b], p]

Rollback ==
  \E p \in ancestors[Tip] \ {Tip} :
    /\ wal' = wal \o undone[Tip, p]
    /\ height[Tip] - height[p] <= MaxReorg
    /\ Len(wal') < MaxLog
    /\ \E b \in Blocks \ {Genesis} : parent[b] = p /\ b \notin ancestors[Tip]
    /\ UNCHANGED <<shown, source, reduced, queue, unit, store, counters>>

NewView ==
  /\ UseMempool /\ shown.ts < MaxViews
  /\ shown' = [tip |-> Tip, ts |-> shown.ts + 1]
  /\ UNCHANGED <<wal, source, reduced, queue, unit, store, counters>>

-----------------------------------------------------------------------------
(* The reducers stage: payloads reach the queue in the order they are sent *)

\* The checks of reduce_block: the block follows the last point by its hash and
\* by its height.
Follows(last, p) ==
  p.k = "forward" /\ last # None =>
    /\ last # Mempool /\ p.b # Genesis
    /\ parent[p.b] = last
    /\ height[last] + 1 = height[p.b]

\* A payload that passes the checks is the last point; after a mempool view this
\* is the last of its blocks.
Reduce(r, p) ==
  IF r.ok /\ Follows(r.last, p)
  THEN [ok |-> TRUE, last |-> IF p.k = "mempool" THEN Mempool ELSE p.b, out |-> Append(r.out, p)]
  ELSE [r EXCEPT !.ok = FALSE]

Send(ps) ==
  LET r == FoldLeft(Reduce, [ok |-> TRUE, last |-> reduced, out |-> <<>>], ps)
  IN  /\ Len(queue) + Len(ps) <= MaxQueue
      /\ reduced' = r.last
      /\ queue' = queue \o r.out
      /\ store' = IF r.ok THEN store ELSE [store EXCEPT !.fault = "reducers"]

-----------------------------------------------------------------------------
(* The source stage *)

OnChain(b) == b \in ancestors[Tip]

\* The newest point of the persistent rollback buffer that the compressor has.
Intersection ==
  LET found == SelectSeq(store.buf, OnChain) IN IF found = <<>> THEN None ELSE found[1]

Start(p) ==
  source' = [source EXCEPT !.mode = "dumping", !.cursor = p, !.upstream = height[Tip],
                           !.tip = IF p = None THEN @ ELSE p]

BootstrapBuffer ==
  /\ store.buf # <<>>
  /\ Intersection # None
  /\ Send(<<[k |-> "back", b |-> Intersection, mutable |-> TRUE]>>)
  /\ Start(Intersection)

BootstrapCursor ==
  /\ store.buf = <<>>
  /\ store.at # None => OnChain(store.at)
  /\ Start(store.at)
  /\ UNCHANGED <<reduced, queue, store>>

Bootstrap ==
  /\ Alive /\ source.mode = "init"
  /\ BootstrapBuffer \/ BootstrapCursor
  /\ UNCHANGED <<upstream, unit, counters>>

\* The first Apply or Mark of b in the log.
WalSeq(b) == SelectInSeq(wal, LAMBDA e : e.k # "undo" /\ e.b = b)

InMutableZone ==
  /\ source.cursor # None
  /\ height[source.cursor] + BufferSize >= source.upstream
  /\ WalSeq(source.cursor) # 0

SwitchToStreaming ==
  /\ Alive /\ source.mode = "dumping" /\ InMutableZone
  /\ source' = [source EXCEPT !.mode = "streaming", !.seq = WalSeq(source.cursor)]
  /\ UNCHANGED <<upstream, reduced, queue, unit, store, counters>>

\* The path of blocks from the intersection, at most a page of it.
Page(c) ==
  LET above == {b \in ancestors[Tip] : c = None \/ height[b] > height[c]}
      first == IF c = None THEN 0 ELSE height[c] + 1
      path == [i \in 1..Cardinality(above) |->
                 CHOOSE b \in above : height[b] = first + i - 1]
  IN  SubSeq(path, 1, IF Len(path) < PageSize THEN Len(path) ELSE PageSize)

\* A cursor that left the chain is refused, and the stage restarts.
DumpPage ==
  /\ Alive /\ source.mode = "dumping" /\ ~ InMutableZone
  /\ LET c == source.cursor
         page == Page(c)
     IN  IF c # None /\ ~ OnChain(c)
         THEN /\ source' = [source EXCEPT !.mode = "init"]
              /\ UNCHANGED <<reduced, queue, store>>
         ELSE /\ Send([i \in DOMAIN page |->
                         [k |-> "forward", b |-> page[i], mutable |-> FALSE]])
              /\ source' = [source EXCEPT
                              !.cursor = IF page = <<>> THEN @ ELSE Last(page),
                              !.tip = IF page = <<>> THEN @ ELSE Last(page),
                              !.upstream = height[Tip]]
  /\ UNCHANGED <<upstream, unit, counters>>

\* Mutant: no Reset below a block that follows a mempool view.
AdjustPlain(a, e) ==
  LET act == IF e.k = "apply" THEN [k |-> "forward", b |-> e.b, mutable |-> TRUE]
             ELSE [k |-> "back", b |-> e.b, mutable |-> FALSE]
  IN  [out |-> Append(a.out, act), tip |-> e.b, processed |-> None]

\* The chain actions of the log, with a Reset below each block that follows a
\* mempool view.
Adjust(a, e) ==
  LET undo == IF e.k = "apply" /\ a.processed # None
              THEN <<[k |-> "back", b |-> a.processed.tip, mutable |-> FALSE]>> ELSE <<>>
      act == IF e.k = "apply" THEN [k |-> "forward", b |-> e.b, mutable |-> TRUE]
             ELSE [k |-> "back", b |-> e.b, mutable |-> FALSE]
  IN  [out |-> a.out \o undo \o <<act>>, tip |-> e.b, processed |-> None]

\* Mutant: a view on the same tip is not fetched again.
NewRefreshOnce(a) ==
  UseMempool /\ a.tip # None /\ shown.tip = a.tip /\ a.processed = None

NewRefresh(a) ==
  UseMempool /\ a.tip # None /\ shown.tip = a.tip /\ a.processed # shown

\* Some of the log entries that are there are read before the timeout fires.
Stream ==
  /\ Alive /\ source.mode = "streaming"
  /\ \E n \in source.seq..Len(wal) :
       LET a == FoldLeft(Adjust,
                  [out |-> <<>>, tip |-> source.tip, processed |-> source.processed],
                  Points(SubSeq(wal, source.seq + 1, n)))
           refresh == <<[k |-> "mempool", b |-> a.tip, ts |-> shown.ts]>>
           out == IF NewRefresh(a) THEN a.out \o refresh ELSE a.out
       IN  /\ out # <<>>
           /\ Send(out)
           /\ source' = [source EXCEPT !.seq = n, !.tip = a.tip,
                           !.processed = IF NewRefresh(a) THEN shown ELSE a.processed]
  /\ UNCHANGED <<upstream, unit, counters>>

\* A request or the stream fails; the stage runs bootstrap again and keeps the
\* other fields of its worker.
Reconnect ==
  /\ Alive /\ source.mode # "init" /\ crashes + reconnects < MaxRestarts
  /\ source' = [source EXCEPT !.mode = "init"]
  /\ reconnects' = reconnects + 1
  /\ UNCHANGED <<upstream, reduced, queue, unit, store, crashes>>

-----------------------------------------------------------------------------
(* The storage stage *)

NoRefresh(s) == SelectSeq(s, LAMBDA p : p.k # "mempool")

CompactBack(s, p) ==
  LET i == SelectInSeq(s, LAMBDA q : q.b = p.b)
  IN  IF i = 0 THEN <<p>> ELSE SubSeq(s, 1, i)

\* Mutant: a rollback leaves the mempool views before it alone.
CompactKeep(s, p) ==
  IF p.k = "back" THEN CompactBack(s, p) ELSE Append(NoRefresh(s), p)

CompactOne(s, p) ==
  IF p.k = "back" THEN CompactBack(NoRefresh(s), p) ELSE Append(NoRefresh(s), p)

CompactActions(ps) == FoldLeft(CompactOne, <<>>, ps)

Fault(s, f) == [s EXCEPT !.fault = f]

Pushed(buf, b) == SubSeq(<<b>> \o buf, 1, IF Len(buf) < BufferSize THEN Len(buf) + 1 ELSE BufferSize)

TrimmedTo(buf, b) == SubSeq(buf, SelectInSeq(buf, LAMBDA c : c = b), Len(buf))

RollForward(s, p) ==
  LET mutable == s.mutable \/ p.mutable
      seeded == IF s.buf = <<>> /\ s.at # None THEN <<s.at>> ELSE s.buf
  IN  IF s.at # None /\ height[p.b] # height[s.at] + 1 THEN Fault(s, "height")
      ELSE IF s.view # 0 THEN Fault(s, "stacked")
      ELSE [s EXCEPT !.at = p.b, !.mutable = mutable,
                     !.buf = IF mutable THEN Pushed(seeded, p.b) ELSE @]

RollBack(s, p) ==
  IF ~ Contains(s.buf, p.b) THEN Fault(s, "rollback")
  ELSE [s EXCEPT !.at = p.b, !.view = 0, !.mutable = @ \/ p.mutable,
                 !.buf = TrimmedTo(@, p.b)]

MempoolRefresh(s, p) ==
  IF ~ Contains(s.buf, p.b) THEN Fault(s, "refresh")
  ELSE IF s.at # p.b THEN Fault(s, "misplaced")
  ELSE [s EXCEPT !.view = p.ts, !.buf = Pushed(TrimmedTo(@, p.b), Mempool)]

Step(s, p) ==
  CASE s.fault # "none" -> s
    [] p.k = "forward" -> RollForward(s, p)
    [] p.k = "back" -> RollBack(s, p)
    [] OTHER -> MempoolRefresh(s, p)

Schedule ==
  /\ Alive /\ unit = <<>>
  /\ \E n \in 1..Len(queue) :
       LET taken == SubSeq(queue, 1, n)
       IN  /\ unit' = IF store.mutable THEN CompactActions(taken) ELSE taken
           /\ queue' = SubSeq(queue, n + 1, Len(queue))
  /\ UNCHANGED <<upstream, source, reduced, store, counters>>

Execute ==
  /\ Alive /\ unit # <<>>
  /\ store' = Step(store, Head(unit))
  /\ unit' = Tail(unit)
  /\ UNCHANGED <<upstream, source, reduced, queue, counters>>

\* The process ends, on a panic or otherwise, and a new one is started.  It is
\* mutable from the start when the store has a rollback buffer.
Crash ==
  /\ crashes + reconnects < MaxRestarts
  /\ crashes' = crashes + 1
  /\ source' = Fresh /\ reduced' = None
  /\ queue' = <<>> /\ unit' = <<>>
  /\ store' = [store EXCEPT !.mutable = store.buf # <<>>, !.fault = "none"]
  /\ UNCHANGED <<upstream, reconnects>>

Pipeline == Bootstrap \/ SwitchToStreaming \/ DumpPage \/ Stream \/ Schedule \/ Execute

Next == NewBlock \/ Rollback \/ NewView \/ Pipeline \/ Reconnect \/ Crash

Spec == Init /\ [][Next]_vars

FairSpec ==
  /\ Spec
  /\ WF_vars(Bootstrap) /\ WF_vars(SwitchToStreaming) /\ WF_vars(DumpPage)
  /\ WF_vars(Stream) /\ WF_vars(Schedule) /\ WF_vars(Execute)

-----------------------------------------------------------------------------

Outcome(s, ps) == FoldLeft(Step, s, ps)

\* CompactionFaithful: executing the compacted payloads leads to the block and
\* the mempool view that executing all of them leads to (compact_actions),
\* for everything that the stages before can have put in the queue.
CompactionFaithful ==
  \A n \in 1..Len(queue) :
    LET ps == SubSeq(queue, 1, n)
        s == Outcome(store, unit)
        plain == Outcome(s, ps)
        compact == Outcome(s, CompactActions(ps))
    IN  Alive /\ s.mutable /\ plain.fault = "none" =>
          compact.fault = "none" /\ compact.at = plain.at /\ compact.view = plain.view

\* ChainLinked: every block that reaches the reducers follows the last point
\* they have seen (the integrity checks of reducers/worker.rs, reduce_block),
\* also when the source stage is restarted inside the process.
ChainLinked == store.fault # "reducers"

\* SentHasMempool: processed_mempool says whether the chain sent downstream
\* contains mempool blocks, and if so on what tip (the comment of the field).
SentHasMempool ==
  LET sent == Outcome(store, unit \o queue)
  IN  source.mode = "streaming" /\ source.processed # None /\ sent.fault = "none" =>
        sent.view # 0 /\ sent.at = source.processed.tip

\* InPlace: whatever a restart of the source stage or of the process leaves in
\* the queue and in the store, no block is executed on top of a mempool view, and no view on top of
\* another block than its own; the storage stage checks neither.  And unless the
\* source stage was restarted on its own, the integrity checks of the reducers and
\* of the storage stage, and the lookups of rollback points, never fail.
InPlace ==
  /\ store.fault \notin {"stacked", "misplaced"}
  /\ reconnects = 0 => Alive

\* CatchesUp: once the chain, the mempool and the failures rest, the index
\* reaches the compressor's tip and the view on it, and stays there, unless the
\* source stage was restarted on its own.
CatchesUp ==
  <>[](reconnects = 0 =>
         store.at = Tip /\ (shown.tip = Tip => store.view = shown.ts))

=============================================================================
